---------------------------- MODULE RateLimiter ----------------------------
(***************************************************************************)
(* InMemoryRateLimiter (app/core/rate_limit.py): one fixed-window counter  *)
(* per key, kept in the memory of one API process.                         *)
(*                                                                         *)
(* The route handlers are coroutines of one event loop and check awaits    *)
(* nothing, so that a whole check is one step.  A window opens with the    *)
(* first request that finds none open; it is not aligned to the clock.     *)
(***************************************************************************)
EXTENDS Integers, Sequences

CONSTANTS
  Keys,     \* the keys that client_key makes
  Limit,    \* Limit[k]: the limit that every check of k is called with
  Window,   \* window_seconds
  MaxTime   \* bound: how far the clock runs

ASSUME LimitAssumption == Limit \in [Keys -> Int]
ASSUME WindowAssumption == Window \in Nat \ {0}
ASSUME TimeAssumption == MaxTime \in Nat

VARIABLES
  now,       \* time.monotonic()
  counters,  \* _counters
  log        \* log[k]: when this process admitted requests of k (history)

vars == <<now, counters, log>>

WindowCounter == [window_start : Nat, count : Nat]

\* _counters.get(key) is None.
NoCounter == [window_start |-> 0, count |-> 0]

TypeOK ==
  /\ now \in 0..MaxTime
  /\ counters \in [Keys -> WindowCounter]
  /\ log \in [Keys -> Seq(Nat)]

Init ==
  /\ now = 0
  /\ counters = [k \in Keys |-> NoCounter]
  /\ log = [k \in Keys |-> <<>>]
-----------------------------------------------------------------------------
(***************************************************************************)
(* check.                                                                  *)
(***************************************************************************)
\* Mutant of Expired: a window is one tick too long.
ExpiredLate(k) ==
  \/ counters[k] = NoCounter
  \/ now - counters[k].window_start > Window

Expired(k) ==
  \/ counters[k] = NoCounter
  \/ now - counters[k].window_start >= Window

Exceeded(k) == ~Expired(k) /\ counters[k].count >= Limit[k]

\* Mutant of OpenWindow: the request that opens a window is not counted.
OpenWindowUncounted(k) ==
  /\ Expired(k)
  /\ counters' = [counters EXCEPT ![k] = [window_start |-> now, count |-> 0]]
  /\ log' = [log EXCEPT ![k] = Append(@, now)]
  /\ UNCHANGED now

\* Mutant of OpenWindow: the window is stamped with its cutoff.
OpenWindowBackdated(k) ==
  /\ Expired(k)
  /\ counters' = [counters EXCEPT ![k] = [window_start |-> now - Window, count |-> 1]]
  /\ log' = [log EXCEPT ![k] = Append(@, now)]
  /\ UNCHANGED now

OpenWindow(k) ==
  /\ Expired(k)
  /\ counters' = [counters EXCEPT ![k] = [window_start |-> now, count |-> 1]]
  /\ log' = [log EXCEPT ![k] = Append(@, now)]
  /\ UNCHANGED now

CountRequest(k) ==
  /\ ~Expired(k)
  /\ counters[k].count < Limit[k]
  /\ counters' = [counters EXCEPT ![k] = [window_start |-> counters[k].window_start,
                                          count |-> counters[k].count + 1]]
  /\ log' = [log EXCEPT ![k] = Append(@, now)]
  /\ UNCHANGED now

\* check returns: the request goes on.
Admit(k) == OpenWindow(k) \/ CountRequest(k)

\* check raises RateLimitExceededError.
Refuse(k) == Exceeded(k) /\ UNCHANGED vars

Tick ==
  /\ now < MaxTime
  /\ now' = now + 1
  /\ UNCHANGED <<counters, log>>

\* The process is replaced: the new one has no counters and admitted nothing.
Forget ==
  /\ counters' = [k \in Keys |-> NoCounter]
  /\ log' = [k \in Keys |-> <<>>]
  /\ UNCHANGED now

Next ==
  \/ \E k \in Keys : Admit(k) \/ Refuse(k)
  \/ Tick
  \/ Forget

Spec == Init /\ [][Next]_vars
-----------------------------------------------------------------------------
(***************************************************************************)
(* What a fixed window guarantees.  The request that opens a window is     *)
(* always admitted, whatever the limit.                                    *)
(***************************************************************************)
Budget(k) == IF Limit[k] > 1 THEN Limit[k] ELSE 1

\* Windows do not slide, so two busy ones may meet; but a window opens with a
\* request, so that any 2 * Budget admissions in a row span a whole
\* window_seconds: no shorter interval sees twice the limit.
LessThanTwiceTheLimit ==
  \A k \in Keys :
    \A i, n \in 1..Len(log[k]) :
      n = i + 2 * Budget(k) - 1 => log[k][n] >= log[k][i] + Window

\* check refuses a key only if the last Limit[k] requests of the key were all
\* admitted within the last window_seconds: no stale counter outlives its window.
RefusalsAreEarned ==
  \A k \in Keys :
    Exceeded(k) =>
      /\ Limit[k] <= Len(log[k])
      /\ \A i \in 1..Len(log[k]) :
           i > Len(log[k]) - Limit[k] => now - log[k][i] < Window
=============================================================================
