------------------------------- MODULE MCAsk -------------------------------
(* Instances of Ask for TLC: a document is of one case.                      *)
EXTENDS Ask

CONSTANTS d1, d2, r1, r2

CaseA == [key |-> "112", year |-> NoYear]
CaseB == [key |-> "7", year |-> "2024"]
SignalsOf == (d1 :> {CaseA}) @@ (d2 :> {CaseB})

Question(named, global, comparative, followUp) ==
  [named |-> named, global |-> global, comparative |-> comparative, followUp |-> followUp]
\* One request names case 112, the other one may follow up on what was said before.
FewQuestions == (r1 :> {Question(<<CaseA>>, FALSE, FALSE, TRUE)})
                @@ (r2 :> {Question(<<>>, FALSE, FALSE, TRUE)})
\* Both ask about all cases.
GlobalQuestions == [r \in {r1, r2} |-> {Question(<<>>, TRUE, FALSE, FALSE)}]
FewDetected == {<<>>, <<CaseB>>}

-----------------------------------------------------------------------------
\* What CaseScopes says by ranks is what the library says by sorting.
ASSUME RanksSort ==
  /\ \A s \in BoundedSeq(1 .. 3, 4) :
       Filtered(s, LAMBDA x : x # 2) = SelectSeq(s, LAMBDA x : x # 2)
  /\ \A S \in SUBSET (1 .. 5) :
       InOrder(S, LAMBDA x, y : x > y) = SetToSortSeq(S, LAMBDA x, y : x > y)
=============================================================================
