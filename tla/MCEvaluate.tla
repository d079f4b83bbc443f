------------------------------ MODULE MCEvaluate ------------------------------
(* Requests of up to two policies out of seven, and triples that chain,    *)
(* fan out and collide; callers who are the assignee, somebody else, a     *)
(* member of the assignee's collection or unidentified.                    *)
EXTENDS Evaluate

CONSTANTS use, play, pay, stray, sub, paid, alice, bob, yes, asset, core, other, p, q, r

MCVocabulary ==
  <<[id |-> use, includedIn |-> NoAction], [id |-> play, includedIn |-> use],
    [id |-> pay, includedIn |-> NoAction]>>
MCVocabularies == {MCVocabulary}

Paid == [leftOperand |-> paid, operator |-> "eq", rightOperand |-> {yes}]
NotPaid == [leftOperand |-> paid, operator |-> "isNoneOf", rightOperand |-> {yes}]
Pay == [action |-> pay, constraints |-> {Paid}, refinement |-> {}]
Unverifiable == [action |-> pay, constraints |-> {}, refinement |-> {}]

PlainRule(action, constraints, duties) ==
  [action |-> action, target |-> NoTarget, constraints |-> constraints,
   refinement |-> {}, duties |-> duties]

PolicyOf(id, kind, parents, assignee, conflict, permissions, prohibitions, obligations) ==
  [id |-> id, inheritFrom |-> parents, kind |-> kind, assignee |-> assignee,
   profile |-> {core}, permissions |-> permissions, prohibitions |-> prohibitions,
   obligations |-> obligations, conflict |-> conflict]

Grant == PolicyOf(p, "Set", <<>>, alice, "invalid", <<PlainRule(use, {}, <<<<Pay>>>>)>>, <<>>, <<>>)
Ban == PolicyOf(q, "Agreement", <<p>>, NoParty, "prohibit",
                <<>>, <<PlainRule(use, {NotPaid}, <<<<Unverifiable>>>>)>>, <<>>)
Owing == PolicyOf(q, "Set", <<>>, NoParty, "perm", <<PlainRule(play, {}, <<>>)>>, <<>>,
                  <<<<Unverifiable>>, <<Pay, Unverifiable>>>>)
Offered == PolicyOf(r, "Offer", <<p, q>>, alice, "perm", <<PlainRule(use, {}, <<>>)>>, <<>>, <<>>)
Looping == PolicyOf(q, "Set", <<r>>, NoParty, "invalid", <<>>, <<>>, <<>>)
Foreign == [PolicyOf(p, "Set", <<>>, NoParty, "invalid", <<>>, <<>>, <<>>)
              EXCEPT !.profile = {core, other}]
Stray == PolicyOf(r, "Set", <<>>, bob, "invalid",
                  <<PlainRule(stray, {}, <<>>), PlainRule(pay, {}, <<>>)>>, <<>>, <<>>)
Child == PolicyOf(r, "Agreement", <<p>>, NoParty, "perm", <<>>, <<>>, <<>>)

Pool == {Grant, Ban, Owing, Offered, Looping, Foreign, Stray, Child}

MCRequests ==
  {<<Grant, Ban, Offered>>, <<Offered, Ban, Grant>>, <<Grant, Looping, Offered>>,
   <<Foreign, Ban, Child>>, <<Grant, Owing, Stray>>, <<Grant, Owing, Child>>,
   <<Grant, Foreign, Child>>}
  \cup (UNION {[1..n -> Pool] : n \in 0..2})

AskWith(claims, behaviour, dutyMode) ==
  [config |-> [actions |-> MCVocabulary, behaviour |-> behaviour, dutyMode |-> dutyMode],
   claims |-> claims, action |-> play, target |-> asset, assetCollections |-> {}]

Claimed(who, done) ==
  [k \in (IF who = {} THEN {} ELSE {sub}) \cup (IF done THEN {paid} ELSE {}) |->
     IF k = sub THEN who ELSE {yes}]

MCCallers ==
  {[ask |-> AskWith(Claimed(who, done), behaviour, dutyMode), partyCollections |-> collections,
    loaded |-> core, partyIdentityClaim |-> identity, agreementAssigneeClaim |-> assigneeClaim] :
     who \in {{}, {alice}, {bob}}, done \in BOOLEAN, behaviour \in {"open", "closed"},
     dutyMode \in {"advise", "deny"}, collections \in {{}, {alice}}, identity \in {NoClaim, sub},
     assigneeClaim \in {NoClaim, sub}}
===============================================================================
