---------------------------- MODULE MCEvaluator ----------------------------
(***************************************************************************)
(* Instance of Evaluator for TLC: answers that share up to five terms with *)
(* the question, a stop word with punctuation, a short word, and one that  *)
(* is punctuation only.                                                    *)
(***************************************************************************)
EXTENDS Evaluator

Terms == <<"tracing", "latency", "failure", "service", "metrics">>

Common(n) == {[length |-> 8, term |-> Terms[i]] : i \in 1..n}

Extra == {[length |-> 4, term |-> "the"], [length |-> 3, term |-> "log"],
          [length |-> 4, term |-> ""]}

MCStopWords == {"the", "a", "an", "and", "or", "of", "to", "in", "is", "it", "for", "on", "with"}

MCRequests ==
  [question : {Common(5) \cup Extra},
   answer   : {Common(n) \cup S : n \in 0..5, S \in SUBSET Extra},
   length   : {7, 8, 328},
   clear    : BOOLEAN,
   rubric   : {NoRubric, {}, {[length |-> 9, term |-> "tracing"]}}]
=============================================================================
