-------------------------------- MODULE Report --------------------------------
(***************************************************************************)
(* The two accounts the engine gives of a decision besides the decision:   *)
(* the detailed rule reports (derive_detailed_rule_reports) and the reason *)
(* (describe_reason).  Both are derived afterwards from the same policy    *)
(* and the same ask, so they can disagree with decide.                     *)
(***************************************************************************)
EXTENDS Decision

(* A slip, and once a released bug: the gate reads each duty's first hop   *)
(* instead of its whole chain.                                             *)
PermissionActive_RootGate(policy, ask, i) ==
  /\ i \in Granting(policy, ask)
  /\ \A d \in DOMAIN policy.permissions[i].duties :
       duty_satisfied(policy.permissions[i].duties[d][1], ask.claims)
  /\ conflict_active(policy, ask) => permission_wins(policy, ask)
  /\ ~obligation_forces_deny(policy, ask)

(* A permission is reported Active iff it grants, has no outstanding duty  *)
(* chain of its own, and nothing overrides it.                             *)
PermissionActive(policy, ask, i) ==
  /\ i \in Granting(policy, ask)
  /\ duties_resolved(policy.permissions[i], ask.claims)
  /\ conflict_active(policy, ask) => permission_wins(policy, ask)
  /\ ~obligation_forces_deny(policy, ask)

ProhibitionActive(policy, ask, i) ==
  i \in Fired(policy, ask) /\ ~permission_wins(policy, ask)

-------------------------------------------------------------------------------
(* What a report says of a rule.  A permission is performed and fulfilled  *)
(* or neither, and never in breach; a prohibition not in force tells       *)
(* nothing of whether the act was done; a duty has no attempt.  Premises   *)
(* are told to hold or not each on its own.                                *)
ActivationState == {"Active", "Inactive"}
AttemptState == {"Attempted", "NotAttempted"}
PerformanceState == {"Performed", "Unperformed", "Unknown"}
DeonticState == {"NonSet", "Violated", "Fulfilled"}

ConstraintReports == UNION {[S -> BOOLEAN] : S \in SUBSET Constraint}

DetailedPremiseReports ==
  [target : BOOLEAN, covers : BOOLEAN, action : BOOLEAN,
   refinement : ConstraintReports, constraints : ConstraintReports]

DetailedDutyReport ==
  [activation : ActivationState, performance : PerformanceState,
   deontic : DeonticState, premises : ConstraintReports]

DetailedPermissionReport ==
  [activation : ActivationState, attempt : AttemptState, performance : PerformanceState,
   deontic : DeonticState, premises : DetailedPremiseReports,
   conditions : Seq(DetailedDutyReport)]

DetailedProhibitionReport ==
  [activation : ActivationState, attempt : AttemptState, performance : PerformanceState,
   deontic : DeonticState, premises : DetailedPremiseReports]

evaluate_report(constraints, claims) == [c \in constraints |-> evaluate(c, claims)]

rule_premise_reports(rule, ask) ==
  [target |-> target_applies(rule, ask), covers |-> covers_action(rule, ask),
   action |-> action_applies(rule, ask),
   refinement |-> evaluate_report(rule.refinement, ask.claims),
   constraints |-> evaluate_report(rule.constraints, ask.claims)]

(* A duty's own action and target are what is to be done, never matched    *)
(* against the request.                                                    *)
duty_premise_reports(duty, claims) ==
  evaluate_report(duty.constraints \cup duty.refinement, claims)

-------------------------------------------------------------------------------
(* One report per hop of a chain, one hop past the bound included and      *)
(* nothing beyond.  A hop is in force once every hop before it failed.     *)
InForce(chain, rootInForce, claims, h) ==
  /\ rootInForce
  /\ h <= MaxConsequenceDepth + 1
  /\ \A g \in 1..(h - 1) : ~duty_satisfied(chain[g], claims)

DutyDeontic(inForce, satisfied) ==
  IF ~inForce THEN "NonSet" ELSE IF satisfied THEN "Fulfilled" ELSE "Violated"

duty_report_for(chain, rootInForce, claims, h) ==
  LET inForce   == InForce(chain, rootInForce, claims, h)
      satisfied == duty_satisfied(chain[h], claims)
  IN  [activation  |-> IF inForce THEN "Active" ELSE "Inactive",
       performance |-> IF ~inForce THEN "Unknown"
                       ELSE IF satisfied THEN "Performed" ELSE "Unperformed",
       deontic     |-> DutyDeontic(inForce, satisfied),
       premises    |-> duty_premise_reports(chain[h], claims)]

duty_chain_reports(chain, rootInForce, claims) ==
  [h \in 1..(IF Len(chain) <= MaxConsequenceDepth + 2 THEN Len(chain)
                                                    ELSE MaxConsequenceDepth + 2) |->
     duty_report_for(chain, rootInForce, claims, h)]

-------------------------------------------------------------------------------
AttemptOf(rule, ask) == IF applies(rule, ask) THEN "Attempted" ELSE "NotAttempted"

(* conditions: the report of each duty of the permission, at depth 0.      *)
permission_report(policy, ask, i) ==
  LET rule   == policy.permissions[i]
      active == PermissionActive(policy, ask, i)
  IN  [activation  |-> IF active THEN "Active" ELSE "Inactive",
       attempt     |-> AttemptOf(rule, ask),
       performance |-> IF active THEN "Performed" ELSE "Unperformed",
       deontic     |-> IF active THEN "Fulfilled" ELSE "NonSet",
       premises    |-> rule_premise_reports(rule, ask),
       conditions  |-> [d \in DOMAIN rule.duties |->
                          duty_report_for(rule.duties[d], fires(rule, ask), ask.claims, 1)]]

(* A prohibition the conflict strategy supersedes never fired.             *)
prohibition_report(policy, ask, i) ==
  LET rule   == policy.prohibitions[i]
      active == ProhibitionActive(policy, ask, i)
  IN  [activation  |-> IF active THEN "Active" ELSE "Inactive",
       attempt     |-> AttemptOf(rule, ask),
       performance |-> IF active THEN "Performed" ELSE "Unknown",
       deontic     |-> IF active THEN "Violated" ELSE "NonSet",
       premises    |-> rule_premise_reports(rule, ask)]

(* Every chain of the policy with the flag that puts its root in force.    *)
ReportedChains(policy, ask) ==
  {<<"obligation", 0, d, policy.obligations[d], TRUE>> : d \in DOMAIN policy.obligations}
  \cup (UNION {{<<"permission", i, d, policy.permissions[i].duties[d],
                  fires(policy.permissions[i], ask)>> :
                  d \in DOMAIN policy.permissions[i].duties} : i \in DOMAIN policy.permissions})
  \cup UNION {{<<"prohibition", i, d, policy.prohibitions[i].duties[d],
                 ProhibitionActive(policy, ask, i)>> :
                 d \in DOMAIN policy.prohibitions[i].duties} : i \in DOMAIN policy.prohibitions}

(* The duty reports, by position: a chain, and a hop of it from depth 0.   *)
duty_reports(policy, ask) ==
  UNION {{[chain |-> c, depth |-> h - 1,
           report |-> duty_chain_reports(c[4], c[5], ask.claims)[h]] :
            h \in DOMAIN duty_chain_reports(c[4], c[5], ask.claims)} :
         c \in ReportedChains(policy, ask)}

derive_detailed_rule_reports(policy, ask) ==
  [permissions  |-> [i \in DOMAIN policy.permissions |-> permission_report(policy, ask, i)],
   prohibitions |-> [i \in DOMAIN policy.prohibitions |-> prohibition_report(policy, ask, i)],
   duties       |-> duty_reports(policy, ask)]

NoRuleReports == [permissions |-> <<>>, prohibitions |-> <<>>, duties |-> {}]

-------------------------------------------------------------------------------
First(S) == CHOOSE i \in S : \A j \in S : i <= j

BlockedOnlyByTarget(policy, ask) ==
  {i \in DOMAIN policy.permissions :
     /\ ~target_applies(policy.permissions[i], ask)
     /\ action_applies(policy.permissions[i], ask)
     /\ matches(policy.permissions[i], ask.claims)}

BlockedOnlyByRefinement(policy, ask) ==
  {i \in DOMAIN policy.permissions :
     /\ target_applies(policy.permissions[i], ask)
     /\ covers_action(policy.permissions[i], ask)
     /\ matches(policy.permissions[i], ask.claims)
     /\ ~refinement_satisfied(policy.permissions[i], ask.claims)}

(* The permissions stopped by nothing but a duty of their own.             *)
HeldByDuty(policy, ask) ==
  {i \in DOMAIN policy.permissions : fires(policy.permissions[i], ask)}

TracedRequirementMet(policy, ask) == permission_requirement_met(policy, ask)

(* Why a Deny, in the order the branches are tried.  mergeForced: a merge  *)
(* of differing conflict strategies replaced the declared one.             *)
DenyReason(policy, ask, declared, mergeForced) ==
  LET collides == conflict_active(policy, ask)
      held == HeldByDuty(policy, ask)
      offTarget == BlockedOnlyByTarget(policy, ask)
      refined == BlockedOnlyByRefinement(policy, ask)
  IN  IF collides /\ mergeForced THEN [clause |-> "void by merge", rule |-> 0]
      ELSE IF collides /\ declared = "invalid" THEN [clause |-> "void", rule |-> 0]
      ELSE IF Fired(policy, ask) # {}
        THEN [clause |-> IF collides /\ declared = "prohibit"
                           THEN "prohibition over permission" ELSE "prohibition",
              rule |-> First(Fired(policy, ask))]
      ELSE IF TracedRequirementMet(policy, ask)
        THEN [clause |-> IF unresolved_obligations(policy, ask.claims) # {}
                           THEN "obligation" ELSE "not reconstructed",
              rule |-> 0]
      ELSE IF held # {} /\ ~duties_resolved(policy.permissions[First(held)], ask.claims)
        THEN [clause |-> "permission duty", rule |-> First(held)]
      ELSE IF offTarget # {} THEN [clause |-> "target", rule |-> First(offTarget)]
      ELSE IF refined # {} THEN [clause |-> "refinement", rule |-> First(refined)]
      ELSE [clause |-> "closed default", rule |-> 0]

(* A slip: the first permission of the policy is credited, not the first   *)
(* that grants.                                                            *)
AllowReason_FirstMatch(policy, ask) ==
  IF policy.permissions = <<>> THEN [clause |-> "open default", rule |-> 0]
  ELSE IF Granting(policy, ask) = {} THEN [clause |-> "not reconstructed", rule |-> 0]
  ELSE [clause |-> IF permission_wins(policy, ask)
                     THEN "permission over prohibition" ELSE "permission",
        rule |-> 1]

AllowReason(policy, ask) ==
  IF policy.permissions = <<>> THEN [clause |-> "open default", rule |-> 0]
  ELSE IF Granting(policy, ask) = {} THEN [clause |-> "not reconstructed", rule |-> 0]
  ELSE [clause |-> IF permission_wins(policy, ask)
                     THEN "permission over prohibition" ELSE "permission",
        rule |-> First(Granting(policy, ask))]

describe_reason(policy, ask, declared, mergeForced) ==
  CASE decide(policy, ask) = "error" -> [clause |-> "unrecognized action", rule |-> 0]
    [] decide(policy, ask) = "deny" -> DenyReason(policy, ask, declared, mergeForced)
    [] decide(policy, ask) = "allow" -> AllowReason(policy, ask)

===============================================================================
