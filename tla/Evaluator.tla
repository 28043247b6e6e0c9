----------------------------- MODULE Evaluator -----------------------------
(***************************************************************************)
(* One call of Evaluator.score (app/services/evaluator.py): retry_async    *)
(* over with_timeout (app/core/resilience.py) over an operation that may   *)
(* return, raise or hang, as a provider call may; and the duration that is *)
(* recorded when score ends.                                               *)
(*                                                                         *)
(* A timer that is due fires before the clock moves on: the event loop is  *)
(* not blocked, and an operation that is cancelled ends.                   *)
(***************************************************************************)
EXTENDS Scoring, Integers, Sequences

CONSTANTS
  Requests,      \* the requests to score
  AttemptLimits, \* the values of attempts; score passes 2
  Timeouts,      \* the values of timeout_seconds
  Delay,         \* initial_delay_seconds
  Nothing        \* no result, no error

ASSUME EvaluatorAssumption ==
  /\ AttemptLimits \subseteq Nat
  /\ Timeouts \subseteq Nat
  /\ Delay \in Nat

Request ==
  [question : SUBSET Token, answer : SUBSET Token, length : Nat, clear : BOOLEAN,
   rubric   : {NoRubric} \cup SUBSET Token]

ASSUME RequestsAssumption ==
  \A q \in Requests : q \in Request /\ IsFiniteSet(q.question) /\ IsFiniteSet(q.answer)

VARIABLES
  request, attempts, timeout,  \* the parameters of this call
  now,       \* the time since score was called
  phase,     \* "calling", "sleeping"; "returned", "raised" when score has ended
  since,     \* when the current operation was started or is to be started
  running,   \* the operations that have been started and not ended
  errors,    \* the errors of the operations so far; the last is last_error
  outcome,   \* the result returned or the error raised
  durations  \* evaluation_scoring_duration_seconds: count and sum

parameters == <<request, attempts, timeout>>

vars == <<parameters, now, phase, since, running, errors, outcome, durations>>

Ended == phase \in {"returned", "raised"}

\* The attempt that range(attempts) has come to.
Attempt == Len(errors)

\* record_scoring_duration.
RecordScoringDuration ==
  durations' = [count |-> durations.count + 1, sum |-> durations.sum + now]

\* score ends; its finally records the duration.
End(how, value) ==
  /\ phase' = how
  /\ outcome' = value
  /\ RecordScoringDuration

\* Mutant of Raise: without finally, a score that raises is not recorded.
RaiseUnrecorded(error) ==
  /\ phase' = "raised"
  /\ outcome' = error
  /\ UNCHANGED durations

Raise(error) == End("raised", error)

\* retry_async with no attempts raises the AssertionError of its last assert.
Init ==
  /\ request \in Requests
  /\ attempts \in AttemptLimits
  /\ timeout \in Timeouts
  /\ now = 0
  /\ since = 0
  /\ errors = <<>>
  /\ IF attempts = 0
     THEN /\ phase = "raised" /\ outcome = "assertion" /\ running = {}
          /\ durations = [count |-> 1, sum |-> 0]
     ELSE /\ phase = "calling" /\ outcome = Nothing /\ running = {0}
          /\ durations = [count |-> 0, sum |-> 0]
-----------------------------------------------------------------------------
\* Mutant of Backoff: one more doubling than the code has.
BackoffLate(n) == Delay * 2^(n + 1)

\* The delay after attempt n has failed.
Backoff(n) == Delay * 2^n

\* Mutant of Retry: range(attempts - 1), the last attempt is never made.
RetryOnceLess(error) ==
  IF Attempt < attempts - 2
  THEN /\ phase' = "sleeping"
       /\ since' = now + Backoff(Attempt)
       /\ UNCHANGED <<outcome, durations>>
  ELSE Raise(error) /\ UNCHANGED since

Retry(error) ==
  IF Attempt < attempts - 1
  THEN /\ phase' = "sleeping"
       /\ since' = now + Backoff(Attempt)
       /\ UNCHANGED <<outcome, durations>>
  ELSE Raise(error) /\ UNCHANGED since

Fail(error) ==
  /\ errors' = Append(errors, error)
  /\ Retry(error)
  /\ UNCHANGED <<parameters, now>>

\* An operation that is given no time is cancelled before it has run.
OperationReturns ==
  /\ phase = "calling"
  /\ timeout > 0
  /\ running' = running \ {Attempt}
  /\ End("returned", Result(request))
  /\ UNCHANGED <<parameters, now, since, errors>>

OperationRaises ==
  /\ phase = "calling"
  /\ timeout > 0
  /\ running' = running \ {Attempt}
  /\ Fail("error")

\* Mutant of TimeOut: the operation is left running.
TimeOutWithoutCancel ==
  /\ phase = "calling"
  /\ now >= since + timeout
  /\ UNCHANGED running
  /\ Fail("timeout")

\* Mutant of TimeOut: a timeout of zero is taken for none.
TimeOutIfSet ==
  /\ phase = "calling"
  /\ timeout > 0
  /\ now >= since + timeout
  /\ running' = running \ {Attempt}
  /\ Fail("timeout")

\* wait_for cancels the operation and waits for its end before it raises.
TimeOut ==
  /\ phase = "calling"
  /\ now >= since + timeout
  /\ running' = running \ {Attempt}
  /\ Fail("timeout")

WakeUp ==
  /\ phase = "sleeping"
  /\ now >= since
  /\ phase' = "calling"
  /\ running' = running \cup {Attempt}
  /\ UNCHANGED <<parameters, now, since, errors, outcome, durations>>

Tick ==
  /\ \/ phase = "calling" /\ now < since + timeout
     \/ phase = "sleeping" /\ now < since
  /\ now' = now + 1
  /\ UNCHANGED <<parameters, phase, since, running, errors, outcome, durations>>

Next == OperationReturns \/ OperationRaises \/ TimeOut \/ WakeUp \/ Tick

\* Time passes and timers fire; no operation has to return or to raise.
Spec ==
  /\ Init
  /\ [][Next]_vars
  /\ WF_vars(TimeOut \/ WakeUp)
  /\ WF_vars(Tick)
-----------------------------------------------------------------------------
(***************************************************************************)
(* Properties.                                                             *)
(***************************************************************************)

\* The time score can take: each attempt its timeout, and the delays between
\* them, which double.  With two attempts of five seconds that is far below
\* APP_WORKER_STALE_JOB_SECONDS: a worker that is not paused keeps its claim.
TimeIsBounded ==
  attempts > 0 => now <= attempts * timeout + Delay * (2^(attempts - 1) - 1)

\* retry_async makes no call too many and none too few: it raises when attempts
\* calls have failed, the error being that of the last one, and it returns the
\* first result there is.
AllAttemptsAreUsed ==
  /\ Attempt <= attempts
  /\ phase = "returned" => Attempt < attempts
  /\ (phase = "raised" /\ attempts > 0) => Attempt = attempts /\ outcome = errors[attempts]

\* A call that timed out does not run on: operations do not overlap, and none
\* is left when score has ended.
NoCallSurvives == running = IF phase = "calling" THEN {Attempt} ELSE {}

\* Each score that has ended, however it ended, is counted once, with the time
\* it took; one that is under way is not.
DurationsAreObserved ==
  durations = IF Ended THEN [count |-> 1, sum |-> now] ELSE [count |-> 0, sum |-> 0]

\* EvaluationResult accepts every score (0 to 100), and each signal counts: with
\* or without the clarity signal makes ten points whatever the rest, so that the
\* cap at 100 takes nothing away.
SignalsAlwaysCount ==
  phase = "returned" =>
    /\ outcome.score \in 0..100
    /\ Score([request EXCEPT !.clear = TRUE]) = Score([request EXCEPT !.clear = FALSE]) + 10

\* score ends, also when every operation hangs.
ScoreEnds == <>Ended
=============================================================================
