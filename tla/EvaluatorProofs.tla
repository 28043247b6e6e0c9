-------------------------- MODULE EvaluatorProofs --------------------------
(***************************************************************************)
(* Proofs about one call of Evaluator.score, for every number of attempts, *)
(* every timeout and every delay.                                          *)
(***************************************************************************)
EXTENDS Evaluator, FiniteSetTheorems, FunctionTheorems, TLAPS

(***************************************************************************)
(* The powers of two of the backoff.  The provers know nothing of          *)
(* exponents but that 2^n counts the subsets of n elements (FS_SUBSET);    *)
(* what the delays need follows from that.                                 *)
(***************************************************************************)
Pow(n) == 2^n

\* 2^n is the number of subsets of 1..n.
LEMMA PowIsCardinality ==
  ASSUME NEW n \in Nat
  PROVE  IsFiniteSet(SUBSET (1..n)) /\ Cardinality(SUBSET (1..n)) = Pow(n) /\ Pow(n) \in Nat
<1>1. IsFiniteSet(1..n) /\ Cardinality(1..n) = n
  BY FS_Interval
<1>2. IsFiniteSet(SUBSET (1..n)) /\ Cardinality(SUBSET (1..n)) = 2^Cardinality(1..n)
  BY <1>1, FS_SUBSET
<1> QED BY <1>1, <1>2, FS_CardinalityType DEF Pow

\* The subsets of 1..n+1 are those of 1..n, and each of them with n+1.
LEMMA PowDoubles ==
  ASSUME NEW n \in Nat
  PROVE  Pow(n + 1) = 2 * Pow(n)
<1> DEFINE S == SUBSET (1..n)
           T == {s \cup {n + 1} : s \in S}
           f == [s \in S |-> s \cup {n + 1}]
<1>1. SUBSET (1..(n + 1)) = S \cup T
  <2>1. ASSUME NEW s \in SUBSET (1..(n + 1))
        PROVE  s \in S \cup T
    <3>1. CASE n + 1 \in s
      <4>1. s \ {n + 1} \in S
        OBVIOUS
      <4>2. s = (s \ {n + 1}) \cup {n + 1}
        BY <3>1
      <4> QED BY <4>1, <4>2
    <3>2. CASE n + 1 \notin s
      BY <3>2
    <3> QED BY <3>1, <3>2
  <2>2. ASSUME NEW s \in S \cup T
        PROVE  s \in SUBSET (1..(n + 1))
    OBVIOUS
  <2> QED BY <2>1, <2>2
<1>2. S \cap T = {}
  <2>1. \A s \in S : n + 1 \notin s
    OBVIOUS
  <2>2. \A s \in T : n + 1 \in s
    OBVIOUS
  <2> QED BY <2>1, <2>2
<1>3. f \in Bijection(S, T)
  <2>1. f \in [S -> T]
    OBVIOUS
  <2>2. ASSUME NEW s \in S, NEW t \in S, f[s] = f[t]
        PROVE  s = t
    <3>1. n + 1 \notin s /\ n + 1 \notin t
      OBVIOUS
    <3>2. s \cup {n + 1} = t \cup {n + 1}
      BY <2>2
    <3> QED BY <3>1, <3>2
  <2>3. \A t \in T : \E s \in S : f[s] = t
    OBVIOUS
  <2> QED BY <2>1, <2>2, <2>3, Fun_IsBij
<1>4. ExistsBijection(S, T)
  BY <1>3 DEF ExistsBijection
<1>5. IsFiniteSet(S) /\ Cardinality(S) = Pow(n) /\ Pow(n) \in Nat
  BY PowIsCardinality
<1>6. IsFiniteSet(T) /\ Cardinality(T) = Pow(n)
  BY <1>4, <1>5, FS_Bijection
<1>7. Cardinality(S \cup T) = Cardinality(S) + Cardinality(T) - Cardinality(S \cap T)
  BY <1>5, <1>6, FS_Union
<1>8. Cardinality(S \cap T) = 0
  BY <1>2, FS_EmptySet
<1>9. Cardinality(SUBSET (1..(n + 1))) = Pow(n + 1)
  <2>1. n + 1 \in Nat
    OBVIOUS
  <2> QED BY <2>1, PowIsCardinality, Zenon
<1>10. Pow(n + 1) = Pow(n) + Pow(n) - 0
  BY <1>1, <1>5, <1>6, <1>7, <1>8, <1>9, Zenon
<1> QED BY <1>5, <1>10

\* The backoff never shrinks.
LEMMA PowGrows ==
  ASSUME NEW n \in Nat, NEW m \in Nat, n <= m
  PROVE  Pow(n) <= Pow(m)
<1>1. SUBSET (1..n) \in SUBSET (SUBSET (1..m))
  OBVIOUS
<1>2. IsFiniteSet(SUBSET (1..m))
  BY PowIsCardinality
<1>3. Cardinality(SUBSET (1..n)) <= Cardinality(SUBSET (1..m))
  BY <1>1, <1>2, FS_Subset
<1> QED BY <1>3, PowIsCardinality, Zenon

\* 2^0.
LEMMA PowZero == Pow(0) = 1
<1>1. SUBSET (1..0) = {{}}
  OBVIOUS
<1>2. Cardinality({{}}) = 1
  BY FS_Singleton
<1> QED BY <1>1, <1>2, PowIsCardinality
-----------------------------------------------------------------------------
(***************************************************************************)
(* The score of a request.                                                 *)
(***************************************************************************)
\* A finite text has finitely many significant terms.
LEMMA TermsAreFinite ==
  ASSUME NEW text, IsFiniteSet(text)
  PROVE  IsFiniteSet(SignificantTerms(text))
<1> DEFINE S == {t \in text : t.length > 3}
           T == {t.term : t \in S}
           f == [t \in S |-> t.term]
<1>1. IsFiniteSet(S)
  BY FS_Subset
<1>2. f \in Surjection(S, T)
  BY DEF Surjection
<1>3. IsFiniteSet(T)
  BY <1>1, <1>2, FS_Surjection
<1>4. SignificantTerms(text) \in SUBSET T
  BY DEF SignificantTerms
<1> QED BY <1>3, <1>4, FS_Subset

\* The parts of a score are within their caps, so that their sum is within 100.
LEMMA PartsAreCapped ==
  ASSUME NEW q \in Request, IsFiniteSet(q.question), IsFiniteSet(q.answer)
  PROVE  /\ LengthScore(q) \in 0..40
         /\ OverlapScore(q) \in 0..40
         /\ RubricBonus(q) \in 0..10
         /\ ClarityBonus(q) \in 0..10
<1>0. q.length \in Nat
  BY DEF Request
<1>1. LengthScore(q) \in 0..40
  BY <1>0 DEF LengthScore, AtMost
<1>2. OverlapScore(q) \in 0..40
  <2> DEFINE common == SignificantTerms(q.question) \cap SignificantTerms(q.answer)
  <2>1. IsFiniteSet(common)
    <3>1. common \in SUBSET SignificantTerms(q.question)
      OBVIOUS
    <3> QED BY <3>1, TermsAreFinite, FS_Subset
  <2>2. Cardinality(common) \in Nat
    BY <2>1, FS_CardinalityType
  <2> HIDE DEF common
  <2>3. AtMost(10 * Cardinality(common), 40) \in 0..40
    BY <2>2 DEF AtMost
  <2> QED BY <2>3 DEF OverlapScore, common
<1>3. RubricBonus(q) \in 0..10 /\ ClarityBonus(q) \in 0..10
  BY DEF RubricBonus, ClarityBonus
<1> QED BY <1>1, <1>2, <1>3

\* The cap at 100 takes nothing away.
LEMMA ScoreIsSum ==
  ASSUME NEW q \in Request, IsFiniteSet(q.question), IsFiniteSet(q.answer)
  PROVE  /\ Score(q) = LengthScore(q) + OverlapScore(q) + RubricBonus(q) + ClarityBonus(q)
         /\ Score(q) \in 0..100
<1> DEFINE a == LengthScore(q)
           b == OverlapScore(q)
           c == RubricBonus(q)
           d == ClarityBonus(q)
<1>1. a \in 0..40 /\ b \in 0..40 /\ c \in 0..10 /\ d \in 0..10
  BY PartsAreCapped
<1>2. Score(q) = AtMost(a + b + c + d, 100)
  BY DEF Score
<1> HIDE DEF a, b, c, d
<1>3. a + b + c + d <= 100 /\ a + b + c + d \in 0..100
  BY <1>1
<1>4. AtMost(a + b + c + d, 100) = a + b + c + d
  BY <1>1, <1>3 DEF AtMost
<1> QED BY <1>2, <1>3, <1>4 DEF a, b, c, d

\* The clarity signal makes ten points, whatever the rest.
LEMMA ClarityCounts ==
  ASSUME NEW q \in Request, IsFiniteSet(q.question), IsFiniteSet(q.answer)
  PROVE  Score([q EXCEPT !.clear = TRUE]) = Score([q EXCEPT !.clear = FALSE]) + 10
<1> DEFINE t == [q EXCEPT !.clear = TRUE]
           f == [q EXCEPT !.clear = FALSE]
<1>1. /\ t \in Request /\ t.question = q.question /\ t.answer = q.answer
      /\ t.length = q.length /\ t.rubric = q.rubric /\ t.clear
      /\ f \in Request /\ f.question = q.question /\ f.answer = q.answer
      /\ f.length = q.length /\ f.rubric = q.rubric /\ ~f.clear
  BY DEF Request
<1> HIDE DEF t, f
<1>2. /\ LengthScore(t) = LengthScore(f)
      /\ OverlapScore(t) = OverlapScore(f)
      /\ RubricBonus(t) = RubricBonus(f)
  BY <1>1 DEF LengthScore, OverlapScore, RubricBonus
<1>3. ClarityBonus(t) = 10 /\ ClarityBonus(f) = 0
  BY <1>1 DEF ClarityBonus
<1>4. /\ Score(t) = LengthScore(t) + OverlapScore(t) + RubricBonus(t) + ClarityBonus(t)
      /\ Score(f) = LengthScore(f) + OverlapScore(f) + RubricBonus(f) + ClarityBonus(f)
      /\ LengthScore(f) \in 0..40 /\ OverlapScore(f) \in 0..40 /\ RubricBonus(f) \in 0..10
  BY <1>1, ScoreIsSum, PartsAreCapped
<1>5. Score(t) = Score(f) + 10
  BY <1>2, <1>3, <1>4
<1> QED BY <1>5 DEF t, f
-----------------------------------------------------------------------------
(***************************************************************************)
(* The inductive invariant.  An attempt starts no later than all earlier   *)
(* ones, each with its timeout, and the doubling delays after them allow;  *)
(* that is kept by the failure of attempt n because 2^n doubles.           *)
(***************************************************************************)
Types ==
  /\ request \in Requests
  /\ attempts \in Nat /\ timeout \in Nat /\ now \in Nat /\ since \in Nat
  /\ phase \in {"calling", "sleeping", "returned", "raised"}
  /\ errors \in Seq({"error", "timeout"})

\* When attempt n starts at the latest.
Latest(n) == n * timeout + Delay * (Pow(n) - 1)

OnTime ==
  /\ phase = "calling" => since <= Latest(Attempt) /\ now <= since + timeout
  /\ phase = "sleeping" => since <= Latest(Attempt) /\ now <= since
  /\ Ended /\ attempts > 0 => now <= Latest(attempts - 1) + timeout

\* Where retry_async is in range(attempts).
InRange ==
  /\ attempts = 0 => phase = "raised" /\ Attempt = 0
  /\ phase # "raised" => Attempt < attempts
  /\ phase = "raised" /\ attempts > 0 => Attempt = attempts /\ outcome = errors[attempts]

ReturnsScore == phase = "returned" => outcome = Result(request)

Inv ==
  /\ Types
  /\ InRange
  /\ OnTime
  /\ NoCallSurvives
  /\ DurationsAreObserved
  /\ ReturnsScore

\* Multiplication is monotone.
LEMMA Times ==
  ASSUME NEW a \in Int, NEW b \in Int, NEW c \in Nat, a <= b
  PROVE  a * c <= b * c /\ c * a <= c * b
  OBVIOUS

\* Latest is a number, grows with the attempts, and has room for a timeout and
\* a backoff.
LEMMA LatestGrows ==
  ASSUME timeout \in Nat, NEW n \in Nat
  PROVE  /\ Pow(n) \in Nat
         /\ Latest(n) \in Int
         /\ Latest(n + 1) = Latest(n) + timeout + Delay * Pow(n)
         /\ \A m \in Nat : n <= m => Latest(n) <= Latest(m)
<1>0. Delay \in Nat /\ Pow(n) \in Nat
  BY EvaluatorAssumption, PowIsCardinality
<1>1. Latest(n) \in Int
  BY <1>0 DEF Latest
<1>2. Latest(n + 1) = Latest(n) + timeout + Delay * Pow(n)
  <2>1. Latest(n + 1) = (n + 1) * timeout + Delay * (2 * Pow(n) - 1)
    BY PowDoubles DEF Latest
  <2>2. (n + 1) * timeout = n * timeout + timeout
    OBVIOUS
  <2>3. Delay * (2 * Pow(n) - 1) = Delay * (Pow(n) - 1) + Delay * Pow(n)
    BY <1>0
  <2> QED BY <1>0, <2>1, <2>2, <2>3 DEF Latest
<1>3. ASSUME NEW m \in Nat, n <= m
      PROVE  Latest(n) <= Latest(m)
  <2>1. Pow(m) \in Nat /\ Pow(n) <= Pow(m)
    BY <1>3, PowIsCardinality, PowGrows
  <2>2. n * timeout <= m * timeout
    BY <1>3, Times
  <2>3. Delay * (Pow(n) - 1) <= Delay * (Pow(m) - 1)
    <3>1. Pow(n) - 1 \in Int /\ Pow(m) - 1 \in Int /\ Pow(n) - 1 <= Pow(m) - 1
      BY <1>0, <2>1
    <3> QED BY <1>0, <3>1, Times
  <2> QED BY <1>0, <2>1, <2>2, <2>3 DEF Latest
<1> QED BY <1>0, <1>1, <1>2, <1>3
-----------------------------------------------------------------------------
(***************************************************************************)
(* The steps.                                                              *)
(***************************************************************************)
\* What is known while an operation runs.
LEMMA Calling ==
  ASSUME Inv, phase = "calling"
  PROVE  /\ Attempt \in Nat /\ Attempt < attempts
         /\ since <= Latest(Attempt) /\ now <= since + timeout
         /\ now <= Latest(Attempt) + timeout
         /\ running = {Attempt}
         /\ durations = [count |-> 0, sum |-> 0]
         /\ ~Ended
<1>1. Attempt \in Nat /\ Attempt < attempts
  BY DEF Inv, Types, InRange, Attempt
<1>2. since <= Latest(Attempt) /\ now <= since + timeout
  BY DEF Inv, OnTime
<1>3. now <= Latest(Attempt) + timeout
  <2>1. Latest(Attempt) \in Int /\ now \in Nat /\ since \in Nat /\ timeout \in Nat
    BY <1>1, LatestGrows DEF Inv, Types
  <2> QED BY <1>2, <2>1
<1>4. ~Ended
  BY DEF Ended
<1> QED BY <1>1, <1>2, <1>3, <1>4 DEF Inv, NoCallSurvives, DurationsAreObserved

\* An operation that fails keeps the invariant: the next attempt is still on
\* time, and the last one was the last.
LEMMA FailKeeps ==
  ASSUME Inv, phase = "calling", NEW error \in {"error", "timeout"},
         running' = running \ {Attempt}, Fail(error)
  PROVE  Inv'
<1>0. /\ Attempt \in Nat /\ Attempt < attempts
      /\ now <= Latest(Attempt) + timeout
      /\ running = {Attempt}
      /\ durations = [count |-> 0, sum |-> 0]
  BY Calling
<1>1. /\ request \in Requests /\ attempts \in Nat /\ timeout \in Nat /\ now \in Nat
      /\ since \in Nat /\ errors \in Seq({"error", "timeout"})
  BY DEF Inv, Types
<1>2. /\ request' = request /\ attempts' = attempts /\ timeout' = timeout /\ now' = now
      /\ errors' = Append(errors, error) /\ Retry(error)
  BY DEF Fail, parameters
<1>3. /\ errors' \in Seq({"error", "timeout"})
      /\ Attempt' = Attempt + 1
      /\ errors'[Attempt + 1] = error
  BY <1>0, <1>1, <1>2 DEF Attempt
<1>4. running' = {}
  BY <1>0
<1>5. /\ Pow(Attempt) \in Nat /\ Latest(Attempt) \in Int
      /\ Latest(Attempt + 1) = Latest(Attempt) + timeout + Delay * Pow(Attempt)
      /\ Latest(Attempt + 1) \in Int
  BY <1>0, <1>1, LatestGrows
<1>6. CASE Attempt < attempts - 1
  <2>1. /\ phase' = "sleeping" /\ since' = now + Delay * Pow(Attempt)
        /\ outcome' = outcome /\ durations' = durations
    BY <1>2, <1>6 DEF Retry, Backoff, Pow
  <2>2. Delay * Pow(Attempt) \in Nat
    BY <1>5, EvaluatorAssumption
  <2>3. Types'
    BY <1>1, <1>2, <1>3, <2>1, <2>2 DEF Types
  <2>4. InRange'
    BY <1>0, <1>1, <1>2, <1>3, <1>6, <2>1 DEF InRange
  <2>5. OnTime'
    <3>1. since' <= Latest(Attempt + 1)
      BY <1>0, <1>1, <1>5, <2>1, <2>2
    <3>2. Latest(Attempt)' = Latest(Attempt + 1)
      BY <1>2, <1>3 DEF Latest
    <3>3. now' <= since'
      BY <1>1, <1>2, <2>1, <2>2
    <3> QED BY <2>1, <3>1, <3>2, <3>3 DEF OnTime, Ended
  <2>6. NoCallSurvives' /\ DurationsAreObserved' /\ ReturnsScore'
    BY <1>0, <1>4, <2>1 DEF NoCallSurvives, DurationsAreObserved, ReturnsScore, Ended
  <2> QED BY <2>3, <2>4, <2>5, <2>6 DEF Inv
<1>7. CASE ~(Attempt < attempts - 1)
  <2>0. Attempt = attempts - 1 /\ Attempt + 1 = attempts
    BY <1>0, <1>1, <1>7
  <2>1. /\ phase' = "raised" /\ outcome' = error /\ since' = since
        /\ durations' = [count |-> durations.count + 1, sum |-> durations.sum + now]
    BY <1>2, <1>7 DEF Retry, Raise, End, RecordScoringDuration
  <2>2. Types'
    BY <1>1, <1>2, <1>3, <2>1 DEF Types
  <2>3. InRange'
    BY <1>0, <1>1, <1>2, <1>3, <2>0, <2>1 DEF InRange
  <2>4. OnTime'
    <3>1. Latest(attempts - 1)' = Latest(Attempt)
      BY <1>2, <2>0 DEF Latest
    <3> QED BY <1>0, <1>2, <2>1, <3>1 DEF OnTime, Ended
  <2>5. durations' = [count |-> 1, sum |-> now]
    BY <1>0, <1>1, <2>1
  <2>6. NoCallSurvives' /\ DurationsAreObserved' /\ ReturnsScore'
    BY <1>2, <1>4, <2>1, <2>5 DEF NoCallSurvives, DurationsAreObserved, ReturnsScore, Ended
  <2> QED BY <2>2, <2>3, <2>4, <2>6 DEF Inv
<1> QED BY <1>6, <1>7

\* An operation that returns ends score, with time to spare.
LEMMA ReturnKeeps ==
  ASSUME Inv, OperationReturns
  PROVE  Inv'
<1>0. /\ phase = "calling" /\ phase' = "returned" /\ outcome' = Result(request)
      /\ running' = running \ {Attempt}
      /\ durations' = [count |-> durations.count + 1, sum |-> durations.sum + now]
      /\ request' = request /\ attempts' = attempts /\ timeout' = timeout /\ now' = now
      /\ since' = since /\ errors' = errors
  BY DEF OperationReturns, End, RecordScoringDuration, parameters
<1>1. /\ Attempt \in Nat /\ Attempt < attempts
      /\ now <= Latest(Attempt) + timeout
      /\ running = {Attempt}
      /\ durations = [count |-> 0, sum |-> 0]
  BY <1>0, Calling
<1>2. Types /\ now \in Nat /\ attempts \in Nat /\ timeout \in Nat
  BY DEF Inv, Types
<1>3. Types'
  BY <1>0, <1>2 DEF Types
<1>4. InRange'
  BY <1>0, <1>1, <1>2 DEF InRange, Attempt
<1>5. OnTime'
  <2>1. attempts - 1 \in Nat /\ Attempt <= attempts - 1
    BY <1>1, <1>2
  <2>2. /\ Latest(Attempt) <= Latest(attempts - 1)
        /\ Latest(Attempt) \in Int /\ Latest(attempts - 1) \in Int
    BY <1>1, <1>2, <2>1, LatestGrows
  <2>3. now <= Latest(attempts - 1) + timeout
    BY <1>1, <1>2, <2>2
  <2>4. Latest(attempts - 1)' = Latest(attempts - 1)
    BY <1>0 DEF Latest
  <2> QED BY <1>0, <2>3, <2>4 DEF OnTime, Ended
<1>6. durations' = [count |-> 1, sum |-> now] /\ running' = {}
  BY <1>0, <1>1, <1>2
<1>7. NoCallSurvives' /\ DurationsAreObserved' /\ ReturnsScore'
  BY <1>0, <1>6 DEF NoCallSurvives, DurationsAreObserved, ReturnsScore, Ended
<1> QED BY <1>3, <1>4, <1>5, <1>7 DEF Inv

\* The end of a delay.
LEMMA WakeUpKeeps ==
  ASSUME Inv, WakeUp
  PROVE  Inv'
<1>0. /\ phase = "sleeping" /\ now >= since /\ phase' = "calling"
      /\ running' = running \cup {Attempt}
      /\ request' = request /\ attempts' = attempts /\ timeout' = timeout /\ now' = now
      /\ since' = since /\ errors' = errors /\ outcome' = outcome /\ durations' = durations
  BY DEF WakeUp, parameters
<1>1. Types /\ now \in Nat /\ since \in Nat /\ timeout \in Nat
  BY DEF Inv, Types
<1>2. Types' /\ InRange'
  BY <1>0, <1>1 DEF Inv, Types, InRange, Attempt
<1>3. since <= Latest(Attempt) /\ now <= since
  BY <1>0 DEF Inv, OnTime
<1>4. OnTime'
  <2>1. Latest(Attempt)' = Latest(Attempt)
    BY <1>0 DEF Latest, Attempt
  <2>2. now <= since + timeout
    BY <1>1, <1>3
  <2> QED BY <1>0, <1>3, <2>1, <2>2 DEF OnTime, Ended
<1>5. running = {} /\ durations = [count |-> 0, sum |-> 0]
  BY <1>0 DEF Inv, NoCallSurvives, DurationsAreObserved, Ended
<1>6. NoCallSurvives' /\ DurationsAreObserved' /\ ReturnsScore'
  BY <1>0, <1>5 DEF NoCallSurvives, DurationsAreObserved, ReturnsScore, Ended, Attempt
<1> QED BY <1>2, <1>4, <1>6 DEF Inv

\* A tick: no timer is due.
LEMMA TickKeeps ==
  ASSUME Inv, Tick
  PROVE  Inv'
<1>0. /\ \/ phase = "calling" /\ now < since + timeout
         \/ phase = "sleeping" /\ now < since
      /\ now' = now + 1 /\ phase' = phase /\ running' = running
      /\ request' = request /\ attempts' = attempts /\ timeout' = timeout
      /\ since' = since /\ errors' = errors /\ outcome' = outcome /\ durations' = durations
  BY DEF Tick, parameters
<1>1. Types /\ now \in Nat /\ since \in Nat /\ timeout \in Nat
  BY DEF Inv, Types
<1>2. Types' /\ InRange'
  BY <1>0, <1>1 DEF Inv, Types, InRange, Attempt
<1>3. OnTime'
  <2>1. Latest(Attempt)' = Latest(Attempt) /\ since <= Latest(Attempt)
    BY <1>0 DEF Latest, Attempt, Inv, OnTime
  <2>2. /\ phase = "calling" => now' <= since + timeout
        /\ phase = "sleeping" => now' <= since
    BY <1>0, <1>1
  <2> QED BY <1>0, <2>1, <2>2 DEF OnTime, Ended
<1>4. NoCallSurvives' /\ DurationsAreObserved' /\ ReturnsScore'
  BY <1>0 DEF Inv, NoCallSurvives, DurationsAreObserved, ReturnsScore, Ended, Attempt
<1> QED BY <1>2, <1>3, <1>4 DEF Inv

\* Every step keeps the invariant.
LEMMA InvStep ==
  ASSUME Inv, [Next]_vars
  PROVE  Inv'
<1>1. CASE OperationRaises
  BY <1>1, FailKeeps DEF OperationRaises
<1>2. CASE TimeOut
  BY <1>2, FailKeeps DEF TimeOut
<1>3. CASE UNCHANGED vars
  BY <1>3
  DEF Inv, Types, InRange, OnTime, NoCallSurvives, DurationsAreObserved, ReturnsScore, Ended,
      Latest, Attempt, vars, parameters
<1> QED BY <1>1, <1>2, <1>3, ReturnKeeps, WakeUpKeeps, TickKeeps DEF Next

\* The invariant holds when score is called.
LEMMA InvInit ==
  ASSUME Init
  PROVE  Inv
<1>0. /\ request \in Requests /\ attempts \in Nat /\ timeout \in Nat
      /\ now = 0 /\ since = 0 /\ errors = <<>> /\ Attempt = 0
  BY EvaluatorAssumption DEF Init, Attempt
<1>1. Latest(0) = 0
  BY <1>0, PowZero, EvaluatorAssumption DEF Latest
<1>2. CASE attempts = 0
  <2>1. phase = "raised" /\ running = {} /\ durations = [count |-> 1, sum |-> 0]
    BY <1>2 DEF Init
  <2> QED
    BY <1>0, <1>2, <2>1
    DEF Inv, Types, InRange, OnTime, NoCallSurvives, DurationsAreObserved, ReturnsScore, Ended
<1>3. CASE attempts # 0
  <2>1. phase = "calling" /\ running = {0} /\ durations = [count |-> 0, sum |-> 0]
    BY <1>3 DEF Init
  <2>2. Types /\ InRange
    BY <1>0, <1>3, <2>1 DEF Types, InRange
  <2>3. OnTime
    BY <1>0, <1>1, <2>1 DEF OnTime, Ended
  <2> QED
    BY <1>0, <2>1, <2>2, <2>3
    DEF Inv, NoCallSurvives, DurationsAreObserved, ReturnsScore, Ended
<1> QED BY <1>2, <1>3
-----------------------------------------------------------------------------
\* The inductive invariant holds throughout a call of score.
THEOREM Invariance == Spec => []Inv
  BY InvInit, InvStep, PTL DEF Spec

\* score takes no longer than its attempts' timeouts and the doubling delays
\* between them, whatever the operations do.
THEOREM TimeBound == Spec => []TimeIsBounded
<1>1. ASSUME Inv
      PROVE  TimeIsBounded
  <2>1. SUFFICES ASSUME attempts > 0
                 PROVE  now <= attempts * timeout + Delay * (Pow(attempts - 1) - 1)
    BY <2>1, Zenon DEF TimeIsBounded, Pow
  <2>2. Types /\ now \in Nat /\ attempts \in Nat /\ timeout \in Nat
    BY <1>1 DEF Inv, Types
  <2>3. now <= Latest(attempts - 1) + timeout
    <3>1. CASE Ended
      BY <1>1, <2>1, <3>1 DEF Inv, OnTime
    <3>2. CASE ~Ended
      <4>1. /\ now <= since + timeout /\ since <= Latest(Attempt) /\ Attempt < attempts
            /\ Attempt \in Nat /\ since \in Nat
        <5>1. CASE phase = "calling"
          BY <1>1, <5>1, Calling DEF Inv, Types
        <5>2. CASE phase = "sleeping"
          BY <1>1, <2>2, <5>2 DEF Inv, Types, OnTime, InRange, Attempt
        <5> QED BY <1>1, <3>2, <5>1, <5>2 DEF Inv, Types, Ended
      <4>2. attempts - 1 \in Nat /\ Attempt <= attempts - 1
        BY <2>1, <2>2, <4>1
      <4>3. /\ Latest(Attempt) <= Latest(attempts - 1)
            /\ Latest(Attempt) \in Int /\ Latest(attempts - 1) \in Int
        BY <2>2, <4>1, <4>2, LatestGrows
      <4> QED BY <2>2, <4>1, <4>3
    <3> QED BY <3>1, <3>2
  <2>4. Latest(attempts - 1) + timeout = attempts * timeout + Delay * (Pow(attempts - 1) - 1)
    <3>1. attempts - 1 \in Nat
      BY <2>1, <2>2
    <3>2. Pow(attempts - 1) \in Nat /\ Delay \in Nat
      BY <3>1, PowIsCardinality, EvaluatorAssumption
    <3> DEFINE delays == Delay * (Pow(attempts - 1) - 1)
    <3>3. delays \in Int
      BY <3>2
    <3>4. Latest(attempts - 1) = (attempts - 1) * timeout + delays
      BY DEF Latest
    <3> HIDE DEF delays
    <3>5. (attempts - 1) * timeout + delays + timeout = attempts * timeout + delays
      BY <2>2, <3>3
    <3>6. Latest(attempts - 1) + timeout = attempts * timeout + delays
      BY <3>4, <3>5
    <3> QED BY <3>6 DEF delays
  <2> QED BY <2>3, <2>4
<1> QED BY <1>1, Invariance, PTL

\* retry_async makes no call too many and none too few.
THEOREM AttemptsAreUsed == Spec => []AllAttemptsAreUsed
<1>1. ASSUME Inv
      PROVE  AllAttemptsAreUsed
  <2>1. Attempt \in Nat /\ attempts \in Nat /\ InRange
    BY <1>1 DEF Inv, Types, Attempt
  <2> QED BY <2>1 DEF InRange, AllAttemptsAreUsed
<1> QED BY <1>1, Invariance, PTL

\* No operation outlives its timeout, its failure or score.
THEOREM CallsEnd == Spec => []NoCallSurvives
<1>1. Inv => NoCallSurvives
  BY DEF Inv
<1> QED BY <1>1, Invariance, PTL

\* Each score is observed once, with the time it took.
THEOREM DurationsAreRight == Spec => []DurationsAreObserved
<1>1. Inv => DurationsAreObserved
  BY DEF Inv
<1> QED BY <1>1, Invariance, PTL

\* A score is between 0 and 100 and its signals always count, for every
\* request.
THEOREM SignalsCount == Spec => []SignalsAlwaysCount
<1>1. ASSUME Inv
      PROVE  SignalsAlwaysCount
  <2>1. SUFFICES ASSUME phase = "returned"
                 PROVE  /\ outcome.score \in 0..100
                        /\ Score([request EXCEPT !.clear = TRUE])
                             = Score([request EXCEPT !.clear = FALSE]) + 10
    BY <2>1 DEF SignalsAlwaysCount
  <2>2. request \in Request /\ IsFiniteSet(request.question) /\ IsFiniteSet(request.answer)
    BY <1>1, RequestsAssumption DEF Inv, Types
  <2>3. outcome.score = Score(request)
    BY <1>1, <2>1 DEF Inv, ReturnsScore, Result
  <2> QED BY <2>2, <2>3, ScoreIsSum, ClarityCounts
<1> QED BY <1>1, Invariance, PTL
=============================================================================
