------------------------------- MODULE MCSession ------------------------------
(* One vocabulary (play is included in use; nobody declares stray), claim  *)
(* keys for a circumstance and two duties, duty chains of up to one hop    *)
(* more than the walk reads, policies that collide, miss, and are empty.   *)
EXTENDS Session

CONSTANTS use, play, pay, stray, member, paid, noted, yes, asset, library

MCVocabulary ==
  <<[id |-> use, includedIn |-> NoAction], [id |-> play, includedIn |-> use],
    [id |-> pay, includedIn |-> NoAction]>>
MCVocabularies == {MCVocabulary}

MCConfigs == [actions : MCVocabularies, behaviour : {"open", "closed"},
              dutyMode : {"advise", "deny"}]

Is(k) == [leftOperand |-> k, operator |-> "eq", rightOperand |-> {yes}]
IsNot(k) == [leftOperand |-> k, operator |-> "isNoneOf", rightOperand |-> {yes}]

Hop(action, key) == [action |-> action, constraints |-> {Is(key)}, refinement |-> {}]
Unconditional(action) == [action |-> action, constraints |-> {}, refinement |-> {}]

PlainRule(action, target, constraints, duties) ==
  [action |-> action, target |-> target, constraints |-> constraints,
   refinement |-> {}, duties |-> duties]

PolicyOf(permissions, prohibitions, obligations, conflict) ==
  [permissions |-> permissions, prohibitions |-> prohibitions,
   obligations |-> obligations, conflict |-> conflict]

Pay == Hop(pay, paid)
Note == Hop(use, noted)

MCWritten ==
  {PolicyOf(<<PlainRule(use, NoTarget, {}, <<<<Pay, Note, Hop(pay, member)>>>>)>>,
            <<>>, <<>>, "invalid"),
   PolicyOf(<<PlainRule(play, library, {Is(member)}, <<>>)>>,
            <<PlainRule(use, NoTarget, {IsNot(paid)}, <<<<Note>>, <<Unconditional(pay)>>>>)>>,
            <<<<Pay, Note>>>>, "perm"),
   PolicyOf(<<[PlainRule(play, NoTarget, {}, <<<<Pay>>, <<Note, Pay>>>>)
                 EXCEPT !.refinement = {Is(member)}]>>, <<>>, <<>>, "prohibit"),
   PolicyOf(<<>>, <<>>, <<>>, "perm")}

MCAncestors ==
  {PolicyOf(<<>>, <<PlainRule(use, asset, {}, <<<<Note, Pay>>>>)>>, <<>>, "prohibit"),
   PolicyOf(<<>>, <<>>, <<<<Pay, Note, Unconditional(stray)>>>>, "perm"),
   PolicyOf(<<PlainRule(use, NoTarget, {}, <<>>)>>, <<>>, <<>>, "invalid"),
   PolicyOf(<<>>, <<>>, <<<<Note, Unconditional(stray)>>>>, "invalid")}
===============================================================================
