--------------------------- MODULE JobLifecycle ---------------------------
(***************************************************************************)
(* What the service promises to a client that polls a job: an abstract     *)
(* specification with no workers, transactions, locks or faults, in which  *)
(* every change of a job is one atomic step.  A job is queued; attempts    *)
(* start one at a time and never more than MaxAttempts; an attempt that is *)
(* given up puts the job back in the queue or, if it was the last, fails   *)
(* it; a result is the result of an attempt that was started, and a job    *)
(* with an outcome keeps it.                                               *)
(***************************************************************************)
EXTENDS Naturals

CONSTANTS Jobs, MaxAttempts

VARIABLES
  status,    \* the status the API shows
  attempts,  \* attempt_count
  result     \* the attempt whose result is stored, 0 for none

vars == <<status, attempts, result>>

Init ==
  /\ status = [j \in Jobs |-> "absent"]
  /\ attempts = [j \in Jobs |-> 0]
  /\ result = [j \in Jobs |-> 0]

Submit(j) ==
  /\ status[j] = "absent"
  /\ status' = [status EXCEPT ![j] = "queued"]
  /\ UNCHANGED <<attempts, result>>

Claim(j) ==
  /\ status[j] = "queued"
  /\ attempts[j] < MaxAttempts
  /\ status' = [status EXCEPT ![j] = "running"]
  /\ attempts' = [attempts EXCEPT ![j] = @ + 1]
  /\ UNCHANGED result

\* One pass of recovery gives up any number of running attempts at once.
Recover(S) ==
  /\ \A j \in S : status[j] = "running"
  /\ status' = [j \in Jobs |->
                  IF j \notin S THEN status[j]
                  ELSE IF attempts[j] < MaxAttempts THEN "queued" ELSE "failed"]
  /\ UNCHANGED <<attempts, result>>

\* An earlier attempt that was given up may still deliver its result while
\* a later one runs.
Succeed(j) ==
  /\ status[j] = "running"
  /\ status' = [status EXCEPT ![j] = "succeeded"]
  /\ \E a \in 1..attempts[j] : result' = [result EXCEPT ![j] = a]
  /\ UNCHANGED attempts

\* Only a job that was attempted fails.
Fail(j) ==
  /\ status[j] \in {"queued", "running"}
  /\ attempts[j] > 0
  /\ status' = [status EXCEPT ![j] = "failed"]
  /\ UNCHANGED <<attempts, result>>

Next ==
  \/ \E j \in Jobs : Submit(j) \/ Claim(j) \/ Succeed(j) \/ Fail(j)
  \/ \E S \in SUBSET Jobs : Recover(S)

Spec == Init /\ [][Next]_vars
=============================================================================
