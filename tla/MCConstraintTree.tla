--------------------------- MODULE MCConstraintTree ---------------------------
(* Two claim keys, one read by eq and one by isNoneOf, so that an absent   *)
(* claim can satisfy as well as fail; every list alone and one object that *)
(* carries two.  The bound lets a root and its operands be read: the third *)
(* level is past it.                                                       *)
(*                                                                         *)
(* Fixtures: a rule scoped in every way and constrained, beside one of the *)
(* other kind that is not constrained, asked about by a member of the one  *)
(* collection for an asset, a read or a sale.                              *)
EXTENDS Dnf

CONSTANTS role, revoked, yes, alice, bob, staff, report, archive, use, read, sell

MCAtoms ==
  {[leftOperand |-> role, operator |-> "eq", rightOperand |-> {yes}],
   [leftOperand |-> revoked, operator |-> "isNoneOf", rightOperand |-> {yes}],
   [leftOperand |-> revoked, operator |-> "neq", rightOperand |-> {yes}]}

MCShapes == {{"xone"}, {"or"}, {"and"}, {"andSequence"}, {"or", "and"}}

MCVocabulary ==
  <<[id |-> use, includedIn |-> NoAction], [id |-> read, includedIn |-> use],
    [id |-> sell, includedIn |-> NoAction]>>
MCVocabularies == {MCVocabulary}

None == [form |-> "none", name |-> report]
Individual(name) == [form |-> "individual", name |-> name]
Collection(name) == [form |-> "collection", name |-> name]

RuleOf(kind, assignee, target, action, constrained, nestedDuty) ==
  [kind |-> kind, assignee |-> assignee, target |-> target, action |-> action,
   constrained |-> constrained, nestedDuty |-> nestedDuty]

Other(kind) == IF kind = "permission" THEN "prohibition" ELSE "permission"

Scopes ==
  {<<None, None>>, <<Individual(alice), Individual(report)>>, <<Individual(bob), None>>,
   <<Collection(staff), Collection(archive)>>, <<None, Collection(staff)>>}

MCFixtures ==
  {[rules |-> <<RuleOf(kind, scope[1], scope[2], action, TRUE, nestedDuty),
                RuleOf(Other(kind), rest, None, use, FALSE, FALSE)>>,
    request |-> [assignee |-> alice, action |-> asked, target |-> target],
    actions |-> MCVocabulary,
    partOf |-> {<<alice, staff>>, <<report, archive>>}, violated |-> TRUE] :
     kind \in {"permission", "prohibition"}, scope \in Scopes, action \in {use, NoAction},
     nestedDuty \in BOOLEAN, rest \in {Individual(bob), Collection(staff)},
     asked \in {read, sell}, target \in {report, NoTarget}}
===============================================================================
