------------------------- MODULE RateLimiterProofs -------------------------
(***************************************************************************)
(* The bounds of the rate limiter, proved for every set of keys, every     *)
(* limit and every window.                                                 *)
(*                                                                         *)
(* LessThanTwiceTheLimit is not inductive: a step that appends an          *)
(* admission must know where the open window and the one before it begin   *)
(* in the log.  WindowOK is what a counter says about the log.             *)
(***************************************************************************)
EXTENDS RateLimiter, TLAPS

\* The counter c at time t and the log l of one key with budget b: the last
\* c.count admissions are those of the open window, which began with the first
\* of them; everything before that window, except for the last b - 1
\* admissions, is a whole window_seconds older than it.
WindowOK(l, c, b, t) ==
  /\ c.count <= b
  /\ c.count <= Len(l)
  /\ IF c = NoCounter THEN l = <<>> ELSE c.count >= 1
  /\ c.window_start <= t
  /\ \A i \in 1..Len(l) :
       /\ l[i] <= t
       /\ i <= Len(l) - c.count + 1 => l[i] <= c.window_start
       /\ i > Len(l) - c.count => l[i] >= c.window_start
       /\ i <= Len(l) - c.count - b + 1 => l[i] + Window <= c.window_start

\* LessThanTwiceTheLimit for one log.
SpacedOut(l, b) ==
  \A i, n \in 1..Len(l) : n = i + 2 * b - 1 => l[n] >= l[i] + Window

Inv ==
  /\ TypeOK
  /\ \A k \in Keys : /\ WindowOK(log[k], counters[k], Budget(k), now)
                     /\ SpacedOut(log[k], Budget(k))

\* A request that opens a window, all windows before it being over.
LEMMA Opening ==
  ASSUME NEW l \in Seq(Nat), NEW c \in WindowCounter, NEW b \in Nat \ {0}, NEW t \in Nat,
         WindowOK(l, c, b, t), SpacedOut(l, b),
         c = NoCounter \/ t - c.window_start >= Window
  PROVE  /\ WindowOK(Append(l, t), [window_start |-> t, count |-> 1], b, t)
         /\ SpacedOut(Append(l, t), b)
  <1> DEFINE m == Append(l, t)
  <1> DEFINE d == [window_start |-> t, count |-> 1]
  <1>1. /\ Len(l) \in Nat /\ Len(m) = Len(l) + 1
        /\ \A i \in 1..Len(l) : m[i] = l[i] /\ l[i] \in Nat
        /\ m[Len(l) + 1] = t
        /\ \A n \in 1..Len(m) : n \in 1..Len(l) \/ n = Len(l) + 1
    OBVIOUS
  <1>2. d # NoCounter /\ d.count = 1 /\ d.window_start = t
    BY DEF NoCounter
  <1>3. \A i \in 1..Len(l) : i <= Len(l) - c.count + 1 => l[i] + Window <= t
    <2>1. CASE c = NoCounter
      BY <2>1, <1>1 DEF WindowOK
    <2>2. CASE t - c.window_start >= Window
      BY <2>2, <1>1, WindowAssumption DEF WindowOK, WindowCounter
    <2> QED
      BY <2>1, <2>2
  <1>4. c.count \in Nat /\ c.count <= b /\ \A i \in 1..Len(l) : l[i] <= t
    BY DEF WindowOK, WindowCounter
  <1>5. WindowOK(m, d, b, t)
    <2> HIDE DEF m, d
    <2>1. ASSUME NEW i \in 1..Len(m)
          PROVE  /\ m[i] <= t
                 /\ i > Len(m) - d.count => m[i] >= d.window_start
                 /\ i <= Len(m) - d.count - b + 1 => m[i] + Window <= d.window_start
      <3>1. CASE i \in 1..Len(l)
        BY <3>1, <1>1, <1>2, <1>3, <1>4
      <3>2. CASE i = Len(l) + 1
        BY <3>2, <1>1, <1>2
      <3> QED
        BY <3>1, <3>2, <1>1
    <2> QED
      BY <2>1, <1>1, <1>2 DEF WindowOK
  <1>6. SpacedOut(m, b)
    <2> SUFFICES ASSUME NEW i \in 1..Len(m), NEW n \in 1..Len(m), n = i + 2 * b - 1
                 PROVE  m[n] >= m[i] + Window
      BY DEF SpacedOut
    <2> HIDE DEF m, d
    <2>1. CASE n \in 1..Len(l)
      <3>1. i \in 1..Len(l)
        BY <2>1, <1>1
      <3>2. l[n] >= l[i] + Window
        BY <2>1, <3>1 DEF SpacedOut
      <3> QED
        BY <2>1, <3>1, <3>2, <1>1
    <2>2. CASE n = Len(l) + 1
      <3>1. i \in 1..Len(l) /\ i <= Len(l) - c.count + 1
        BY <2>2, <1>1, <1>4
      <3> QED
        BY <2>2, <3>1, <1>1, <1>3
    <2> QED
      BY <2>1, <2>2, <1>1
  <1> QED
    BY <1>5, <1>6

\* A request that is counted in the open window, whose budget is not used up.
LEMMA Counting ==
  ASSUME NEW l \in Seq(Nat), NEW c \in WindowCounter, NEW b \in Nat \ {0}, NEW t \in Nat,
         WindowOK(l, c, b, t), SpacedOut(l, b),
         c # NoCounter, c.count < b
  PROVE  LET d == [window_start |-> c.window_start, count |-> c.count + 1] IN
         /\ WindowOK(Append(l, t), d, b, t)
         /\ SpacedOut(Append(l, t), b)
  <1> DEFINE m == Append(l, t)
  <1> DEFINE d == [window_start |-> c.window_start, count |-> c.count + 1]
  <1>1. /\ Len(l) \in Nat /\ Len(m) = Len(l) + 1
        /\ \A i \in 1..Len(l) : m[i] = l[i] /\ l[i] \in Nat
        /\ m[Len(l) + 1] = t
        /\ \A n \in 1..Len(m) : n \in 1..Len(l) \/ n = Len(l) + 1
    OBVIOUS
  <1>2. /\ c.count \in Nat /\ c.window_start \in Nat
        /\ d.count = c.count + 1 /\ d.window_start = c.window_start
        /\ d # NoCounter
    BY DEF NoCounter, WindowCounter
  <1>3. /\ c.count >= 1 /\ c.count <= Len(l) /\ c.window_start <= t
        /\ \A i \in 1..Len(l) :
             /\ l[i] <= t
             /\ i <= Len(l) - c.count + 1 => l[i] <= c.window_start
             /\ i > Len(l) - c.count => l[i] >= c.window_start
             /\ i <= Len(l) - c.count - b + 1 => l[i] + Window <= c.window_start
    BY DEF WindowOK
  <1>4. WindowOK(m, d, b, t)
    <2> HIDE DEF m, d
    <2>1. ASSUME NEW i \in 1..Len(m)
          PROVE  /\ m[i] <= t
                 /\ i <= Len(m) - d.count + 1 => m[i] <= d.window_start
                 /\ i > Len(m) - d.count => m[i] >= d.window_start
                 /\ i <= Len(m) - d.count - b + 1 => m[i] + Window <= d.window_start
      <3>1. CASE i \in 1..Len(l)
        <4>1. /\ m[i] = l[i] /\ l[i] \in Nat
              /\ Len(m) - d.count = Len(l) - c.count
          BY <3>1, <1>1, <1>2
        <4>2. i > Len(l) - c.count => l[i] >= c.window_start
          BY <3>1, <1>3
        <4> QED
          BY <3>1, <4>1, <4>2, <1>2, <1>3
      <3>2. CASE i = Len(l) + 1
        BY <3>2, <1>1, <1>2, <1>3
      <3> QED
        BY <3>1, <3>2, <1>1
    <2> QED
      BY <2>1, <1>1, <1>2, <1>3 DEF WindowOK
  <1>5. SpacedOut(m, b)
    <2> SUFFICES ASSUME NEW i \in 1..Len(m), NEW n \in 1..Len(m), n = i + 2 * b - 1
                 PROVE  m[n] >= m[i] + Window
      BY DEF SpacedOut
    <2> HIDE DEF m, d
    <2>1. CASE n \in 1..Len(l)
      <3>1. i \in 1..Len(l)
        BY <2>1, <1>1
      <3>2. l[n] >= l[i] + Window
        BY <2>1, <3>1 DEF SpacedOut
      <3> QED
        BY <2>1, <3>1, <3>2, <1>1
    <2>2. CASE n = Len(l) + 1
      <3>1. i \in 1..Len(l)
        BY <2>2, <1>1
      <3>2. i <= Len(l) - c.count - b + 1
        BY <2>2, <1>1, <1>2
      <3>3. l[i] + Window <= c.window_start
        BY <3>1, <3>2, <1>3
      <3>4. m[i] = l[i] /\ l[i] \in Nat /\ m[n] = t
        BY <2>2, <3>1, <1>1
      <3>5. c.window_start <= t /\ c.window_start \in Nat
        BY <1>2, <1>3
      <3> QED
        BY <3>3, <3>4, <3>5, WindowAssumption
    <2> QED
      BY <2>1, <2>2, <1>1
  <1> QED
    BY <1>4, <1>5
-----------------------------------------------------------------------------
\* A budget is a positive number and never less than the limit.
LEMMA BudgetType == \A k \in Keys : Budget(k) \in Nat \ {0} /\ Limit[k] <= Budget(k)
  BY LimitAssumption DEF Budget

\* What Inv says of one key.
LEMMA InvOfKey ==
  ASSUME Inv, NEW k \in Keys
  PROVE  /\ log[k] \in Seq(Nat)
         /\ counters[k] \in WindowCounter
         /\ now \in Nat
         /\ WindowOK(log[k], counters[k], Budget(k), now)
         /\ SpacedOut(log[k], Budget(k))
  BY TimeAssumption DEF Inv, TypeOK

\* A new limiter has no counters and an empty log.
LEMMA InitInv == Init => Inv
  <1> SUFFICES ASSUME Init PROVE Inv
    OBVIOUS
  <1>1. TypeOK
    BY TimeAssumption DEF Init, TypeOK, NoCounter, WindowCounter
  <1>2. ASSUME NEW k \in Keys
        PROVE  /\ WindowOK(log[k], counters[k], Budget(k), now)
               /\ SpacedOut(log[k], Budget(k))
    <2>1. log[k] = <<>> /\ counters[k] = NoCounter /\ now = 0
      BY DEF Init
    <2>2. Budget(k) \in Nat \ {0}
      BY BudgetType
    <2> QED
      BY <2>1, <2>2 DEF WindowOK, SpacedOut, NoCounter
  <1> QED
    BY <1>1, <1>2 DEF Inv

\* A check that returns keeps the invariant: Opening and Counting for the key
\* it is called with, nothing for the others.
LEMMA AdmitInv ==
  ASSUME Inv, NEW k \in Keys, Admit(k)
  PROVE  Inv'
  <1>1. /\ counters' \in [Keys -> WindowCounter]
        /\ log' \in [Keys -> Seq(Nat)]
        /\ now' = now
        /\ now \in 0..MaxTime /\ now \in Nat
        /\ \A q \in Keys \ {k} : log'[q] = log[q] /\ counters'[q] = counters[q]
    <2>1. /\ counters[k].window_start \in Nat /\ counters[k].count + 1 \in Nat
          /\ log[k] \in Seq(Nat) /\ now \in Nat /\ now \in 0..MaxTime
      BY InvOfKey DEF WindowCounter, Inv, TypeOK
    <2>2. Append(log[k], now) \in Seq(Nat)
      BY <2>1
    <2>3. PICK c \in WindowCounter :
            counters' = [counters EXCEPT ![k] = c] /\ now' = now
      BY <2>1 DEF Admit, OpenWindow, CountRequest, WindowCounter
    <2>4. log' = [log EXCEPT ![k] = Append(log[k], now)]
      BY DEF Admit, OpenWindow, CountRequest
    <2> QED
      BY <2>1, <2>2, <2>3, <2>4 DEF Inv, TypeOK
  <1>2. TypeOK'
    BY <1>1 DEF TypeOK
  <1>3. Budget(k) \in Nat \ {0} /\ Limit[k] <= Budget(k) /\ Limit[k] \in Int
    BY BudgetType, LimitAssumption
  <1>4. /\ WindowOK(log'[k], counters'[k], Budget(k), now)
        /\ SpacedOut(log'[k], Budget(k))
    <2>1. CASE OpenWindow(k)
      <3>1. /\ log'[k] = Append(log[k], now)
            /\ counters'[k] = [window_start |-> now, count |-> 1]
            /\ counters[k] = NoCounter \/ now - counters[k].window_start >= Window
        BY <2>1 DEF OpenWindow, Expired, Inv, TypeOK
      <3> QED
        BY <3>1, <1>3, InvOfKey, Opening
    <2>2. CASE CountRequest(k)
      <3>1. /\ log'[k] = Append(log[k], now)
            /\ counters'[k] = [window_start |-> counters[k].window_start,
                               count |-> counters[k].count + 1]
            /\ counters[k] # NoCounter
            /\ counters[k].count < Limit[k]
        BY <2>2 DEF CountRequest, Expired, Inv, TypeOK
      <3>2. counters[k].count < Budget(k)
        BY <3>1, <1>3, InvOfKey DEF WindowCounter
      <3> QED
        BY <3>1, <3>2, <1>3, InvOfKey, Counting
    <2> QED
      BY <2>1, <2>2 DEF Admit
  <1>5. ASSUME NEW q \in Keys
        PROVE  /\ WindowOK(log'[q], counters'[q], Budget(q), now')
               /\ SpacedOut(log'[q], Budget(q))
    <2>1. CASE q = k
      BY <2>1, <1>1, <1>4
    <2>2. CASE q # k
      BY <2>2, <1>1, InvOfKey
    <2> QED
      BY <2>1, <2>2
  <1> QED
    BY <1>2, <1>5 DEF Inv, Budget

\* Every step keeps the invariant.
LEMMA NextInv == Inv /\ [Next]_vars => Inv'
  <1> SUFFICES ASSUME Inv, [Next]_vars PROVE Inv'
    OBVIOUS
  <1>1. ASSUME NEW k \in Keys, Admit(k) PROVE Inv'
    BY <1>1, AdmitInv
  <1>2. CASE Tick
    <2>1. TypeOK'
      BY <1>2, TimeAssumption DEF Tick, Inv, TypeOK
    <2>2. now \in Nat /\ now' = now + 1 /\ log' = log /\ counters' = counters
      BY <1>2, TimeAssumption DEF Tick, Inv, TypeOK
    <2>3. ASSUME NEW k \in Keys
          PROVE  WindowOK(log'[k], counters'[k], Budget(k), now')
      <3>1. /\ \A i \in 1..Len(log[k]) : log[k][i] \in Nat
            /\ counters[k].window_start \in Nat
        BY InvOfKey DEF WindowCounter
      <3> QED
        BY <2>2, <3>1, InvOfKey DEF WindowOK
    <2> QED
      BY <2>1, <2>2, <2>3 DEF Inv, Budget
  <1>3. CASE Forget
    <2>1. TypeOK'
      BY <1>3 DEF Forget, Inv, TypeOK, NoCounter, WindowCounter
    <2>2. ASSUME NEW k \in Keys
          PROVE  /\ WindowOK(log'[k], counters'[k], Budget(k), now')
                 /\ SpacedOut(log'[k], Budget(k))
      <3>1. log'[k] = <<>> /\ counters'[k] = NoCounter /\ now' \in Nat
        BY <1>3, TimeAssumption DEF Forget, Inv, TypeOK
      <3>2. Budget(k) \in Nat \ {0}
        BY BudgetType
      <3> QED
        BY <3>1, <3>2 DEF WindowOK, SpacedOut, NoCounter
    <2> QED
      BY <2>1, <2>2 DEF Inv, Budget
  <1>4. CASE UNCHANGED vars
    BY <1>4 DEF vars, Inv, TypeOK, Budget
  <1>5. ASSUME NEW k \in Keys, Refuse(k) PROVE Inv'
    BY <1>4, <1>5 DEF Refuse
  <1> QED
    BY <1>1, <1>2, <1>3, <1>4, <1>5 DEF Next

\* Every state the limiter reaches satisfies the inductive invariant.
THEOREM Invariance == Spec => []Inv
  BY InitInv, NextInv, PTL DEF Spec

\* The counters and the log are well formed in every state of
\* InMemoryRateLimiter.
THEOREM TypeCorrect == Spec => []TypeOK
  <1>1. Inv => TypeOK
    BY DEF Inv
  <1> QED
    BY <1>1, Invariance, PTL

\* For every limit and window: no interval shorter than window_seconds sees
\* twice the limit of admitted requests of a key.
THEOREM BurstsAreBounded == Spec => []LessThanTwiceTheLimit
  <1>1. Inv => LessThanTwiceTheLimit
    BY DEF Inv, SpacedOut, LessThanTwiceTheLimit
  <1> QED
    BY <1>1, Invariance, PTL

\* A counter that refuses was filled by requests of its own window.
LEMMA RefusalsFollow == Inv => RefusalsAreEarned
  <1> SUFFICES ASSUME Inv, NEW k \in Keys, Exceeded(k)
               PROVE  /\ Limit[k] <= Len(log[k])
                      /\ \A i \in 1..Len(log[k]) :
                           i > Len(log[k]) - Limit[k] => now - log[k][i] < Window
    BY DEF RefusalsAreEarned
  <1>1. /\ counters[k] \in WindowCounter
        /\ Limit[k] \in Int /\ Limit[k] <= counters[k].count
        /\ now - counters[k].window_start < Window
    BY InvOfKey, LimitAssumption, WindowAssumption
    DEF Exceeded, Expired, Inv, TypeOK, WindowCounter
  <1>2. /\ counters[k].count \in Nat /\ counters[k].window_start \in Nat
        /\ counters[k].count <= Len(log[k]) /\ Len(log[k]) \in Nat
        /\ now \in Nat
        /\ \A i \in 1..Len(log[k]) :
             /\ log[k][i] \in Nat
             /\ i > Len(log[k]) - counters[k].count
                  => log[k][i] >= counters[k].window_start
    BY InvOfKey DEF WindowOK, WindowCounter
  <1>3. ASSUME NEW i \in 1..Len(log[k]), i > Len(log[k]) - Limit[k]
        PROVE  now - log[k][i] < Window
    <2>1. i > Len(log[k]) - counters[k].count
      BY <1>1, <1>2, <1>3
    <2>2. log[k][i] >= counters[k].window_start /\ log[k][i] \in Nat
      BY <2>1, <1>2
    <2> QED
      BY <2>2, <1>1, <1>2, WindowAssumption
  <1> QED
    BY <1>1, <1>2, <1>3

\* For every limit and window: check raises only when the last Limit requests
\* of the key were admitted within the last window_seconds.
THEOREM NoUnearnedRefusal == Spec => []RefusalsAreEarned
  BY RefusalsFollow, Invariance, PTL
=============================================================================
