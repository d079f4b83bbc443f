--------------------------------- MODULE Rules --------------------------------
(***************************************************************************)
(* Rules and the questions the engine asks of one rule: does it apply to   *)
(* the request, does it match the claims, is a duty satisfied, is a duty   *)
(* chain outstanding, does a permission grant.                             *)
(*                                                                         *)
(* A rule's constraints are atomic here (ConstraintTree has the logical    *)
(* ones).  Like the parts of its action refinement they are a set, all of  *)
(* which must hold: their order only shows in the wording of a trace.      *)
(***************************************************************************)
EXTENDS Taxonomy, Constraints

CONSTANTS
  Vocabularies, \* the declaration lists a request's config may hold
  Asset,        \* asset and asset-collection identifiers
  NoTarget,     \* the target of a rule that names none
  MaxConsequenceDepth

ASSUME VocabulariesAssumption == Vocabularies \subseteq Seq(ActionDecl)
ASSUME NoTargetAssumption == NoTarget \notin Asset
ASSUME DepthAssumption == MaxConsequenceDepth \in Nat

(* A duty is a hop of a chain: the duty itself, then its odrl:consequence, *)
(* then that one's, as many as the document nests.                         *)
Duty == [action : Action, constraints : SUBSET Constraint, refinement : SUBSET Constraint]
Chain == Seq(Duty) \ {<<>>}

(* duties: the odrl:duty chains of a permission, the odrl:remedy chains of *)
(* a prohibition.                                                          *)
Rule == [action : Action, target : Asset \cup {NoTarget}, constraints : SUBSET Constraint,
         refinement : SUBSET Constraint, duties : Seq(Chain)]

Config == [actions : Vocabularies, behaviour : {"open", "closed"},
           dutyMode : {"advise", "deny"}]

(* What decide is asked besides the policy. *)
Ask == [config : Config, claims : Claims, action : Action, target : Asset,
        assetCollections : SUBSET Asset]

-------------------------------------------------------------------------------
matches(rule, claims) == \A c \in rule.constraints : evaluate(c, claims)

refinement_satisfied(rule, claims) == \A c \in rule.refinement : evaluate(c, claims)

(* Coverage of each vocabulary, tabulated once. *)
coverage ==
  [actions \in Vocabularies |->
     {pair \in Action \X Action : covers(actions, pair[1], pair[2])}]

covers_action(rule, ask) == <<rule.action, ask.action>> \in coverage[ask.config.actions]

action_applies(rule, ask) ==
  covers_action(rule, ask) /\ refinement_satisfied(rule, ask.claims)

target_applies(rule, ask) ==
  rule.target \in {NoTarget, ask.target} \cup ask.assetCollections

applies(rule, ask) == target_applies(rule, ask) /\ action_applies(rule, ask)

(* The prohibition test, and the permission test before its duties.        *)
fires(rule, ask) == applies(rule, ask) /\ matches(rule, ask.claims)

-------------------------------------------------------------------------------
(* An unconditional duty cannot be confirmed from claims: it is never      *)
(* satisfied, where an unconditional permission always matches.            *)
duty_satisfied(duty, claims) ==
  /\ duty.constraints # {}
  /\ matches(duty, claims)
  /\ refinement_satisfied(duty, claims)

(* A slip: the bound counts the duty the walk starts from as well.         *)
LastWalked_Short(chain) ==
  IF Len(chain) <= MaxConsequenceDepth THEN Len(chain) ELSE MaxConsequenceDepth

(* The last hop the walk down the consequences reaches.                    *)
LastWalked(chain) ==
  IF Len(chain) <= MaxConsequenceDepth + 1 THEN Len(chain) ELSE MaxConsequenceDepth + 1

(* A slip: a satisfied duty hands over to its consequence.                 *)
outstanding_duty_Swapped(chain, claims) ==
  /\ duty_satisfied(chain[1], claims)
  /\ \A h \in 2..LastWalked(chain) : ~duty_satisfied(chain[h], claims)

(* A chain is outstanding unless one of the hops walked is satisfied: a    *)
(* hop past the bound is never credited.                                   *)
outstanding_duty(chain, claims) ==
  \A h \in 1..LastWalked(chain) : ~duty_satisfied(chain[h], claims)

duties_resolved(rule, claims) ==
  \A d \in DOMAIN rule.duties : ~outstanding_duty(rule.duties[d], claims)

grants(rule, ask) ==
  /\ fires(rule, ask)
  /\ ask.config.dutyMode = "deny" => duties_resolved(rule, ask.claims)

-------------------------------------------------------------------------------
(* The claim keys a rule can test, and those of the duty hops the engine   *)
(* reads: the introspection answer.                                        *)
collect_rule_left_operands(rule) ==
  {c.leftOperand : c \in rule.constraints \cup rule.refinement}

collect_duty_chain_left_operands(chain) ==
  UNION {collect_rule_left_operands(chain[h]) : h \in 1..LastWalked(chain)}

===============================================================================
