-------------------------------- MODULE Compare -------------------------------
(***************************************************************************)
(* The RDF compliance runner's reading of a detailed evaluation.  A        *)
(* fixture states no decision, only the report it expects of each rule, so *)
(* compare_case infers from the reports what the engine must have answered *)
(* and which duties it must have listed, and holds the answer against it.  *)
(* A report is named by the rule it is about: compare_case finds it by the *)
(* position the engine reports, through the ids of the merged policy.      *)
(***************************************************************************)
EXTENDS Report

(* In force and not performed: the reports that make a duty outstanding.   *)
ActiveUnperformed(duty) ==
  duty.report.activation = "Active" /\ duty.report.performance = "Unperformed"

(* Walking the consequences from the root of the chain by the depth        *)
(* reported; nothing past the end of the chain.                            *)
walk_consequence(chain, hops) == chain[hops + 1]

(* Only the last duty of a chain is ever what is outstanding: an earlier   *)
(* one is superseded by its consequence.                                   *)
is_terminal(duty) == duty.depth + 1 = Len(duty.chain[4])

is_plain_policy_obligation(duty) == duty.chain[1] = "obligation" /\ duty.depth = 0

Outstanding(reports) == {d \in reports.duties : ActiveUnperformed(d) /\ is_terminal(d)}

(* Chains the engine walks to their end.  Past the bound the last duty it  *)
(* reads is not the last of the chain, and the reading above misses it.    *)
EveryChainWalked(reports) ==
  \A d \in reports.duties : LastWalked(d.chain[4]) = Len(d.chain[4])

-------------------------------------------------------------------------------
outstanding_obligation(reports, config) ==
  config.dutyMode = "deny" /\ \E d \in Outstanding(reports) : d.chain[1] = "obligation"

AnyActive(ruleReports) == \E i \in DOMAIN ruleReports : ruleReports[i].activation = "Active"

(* A slip: an Active permission is looked for first, and nothing is known  *)
(* of obligations. *)
policy_verdict_PermissionFirst(reports, config) ==
  IF AnyActive(reports.permissions) THEN "allow"
  ELSE IF reports.permissions = <<>> THEN IF config.behaviour = "open" THEN "allow" ELSE "deny"
  ELSE IF AnyActive(reports.prohibitions) THEN "deny"
  ELSE IF config.dutyMode = "deny" THEN "deny" ELSE "indeterminate"

(* What the reports of one policy say of its share in the decision.  Under *)
(* dutyMode advise they may not say: an outstanding duty of its own makes  *)
(* a permission Inactive that still grants.                                *)
policy_verdict(reports, config) ==
  IF AnyActive(reports.prohibitions) \/ outstanding_obligation(reports, config) THEN "deny"
  ELSE IF AnyActive(reports.permissions) THEN "allow"
  ELSE IF reports.permissions = <<>> THEN IF config.behaviour = "open" THEN "allow" ELSE "deny"
  ELSE IF config.dutyMode = "deny" THEN "deny" ELSE "indeterminate"

(* What the verdicts of all policies pin of the decision, if they do.      *)
expected_decision(verdicts) ==
  IF "deny" \in verdicts THEN "deny"
  ELSE IF verdicts \subseteq {"allow"} THEN "allow" ELSE "not stated"

-------------------------------------------------------------------------------
(* A duty entry carries the action of the duty found outstanding.          *)
duty_action(duty) == walk_consequence(duty.chain[4], duty.depth).action

(* The outstanding duties compare_case expects in Response.duties: under   *)
(* dutyMode deny a plain policy obligation is not listed.                  *)
expected_outstanding(reports, config) ==
  {d \in Outstanding(reports) :
     ~(config.dutyMode = "deny" /\ is_plain_policy_obligation(d))}

(* The two lists, sorted, are equal.                                       *)
DutiesCrossCheck(reports, config, listed) ==
  \A a \in Action :
    Cardinality({d \in expected_outstanding(reports, config) : duty_action(d) = a})
      = Cardinality({e \in listed : e.action = a})

===============================================================================
