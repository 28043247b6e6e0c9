------------------------------ MODULE Scoring ------------------------------
(***************************************************************************)
(* The mock score of an answer (app/domain/evaluation.py).  A text is the  *)
(* set of its tokens; of a token only its length and the term it becomes,  *)
(* in lower case and without punctuation at its ends, matter.  The length  *)
(* is tested before the punctuation goes, so that a term may be short, or  *)
(* empty.                                                                  *)
(***************************************************************************)
EXTENDS Naturals, FiniteSets

CONSTANTS
  StopWords,  \* the terms that never count
  NoRubric    \* a request without a rubric

Token == [length : Nat, term : STRING]

SignificantTerms(text) == {token.term : token \in {t \in text : t.length > 3}} \ StopWords

HasAnyOverlap(left, right) == SignificantTerms(left) \cap SignificantTerms(right) # {}

AtMost(n, limit) == IF n < limit THEN n ELSE limit

\* Mutant of LengthScore: the cap lets the parts add up to more than 100.
LengthScoreHigh(request) == AtMost(request.length \div 8, 50)

LengthScore(request) == AtMost(request.length \div 8, 40)

OverlapScore(request) ==
  AtMost(10 * Cardinality(SignificantTerms(request.question)
                            \cap SignificantTerms(request.answer)), 40)

RubricBonus(request) ==
  IF request.rubric # NoRubric /\ HasAnyOverlap(request.rubric, request.answer) THEN 10 ELSE 0

\* The answer has a full stop or a line break.
ClarityBonus(request) == IF request.clear THEN 10 ELSE 0

Score(request) ==
  AtMost(LengthScore(request) + OverlapScore(request) + RubricBonus(request)
           + ClarityBonus(request), 100)

Result(request) == [score |-> Score(request), rubric_used |-> request.rubric # NoRubric]
=============================================================================
