------------------------------- MODULE Decision -------------------------------
(***************************************************************************)
(* decide: one policy against one request.  Prohibition before permission  *)
(* unless odrl:conflict says otherwise, the closed or open default, the    *)
(* duties left unresolved, and the override of duty_mode deny.             *)
(***************************************************************************)
EXTENDS Rules, FiniteSets

Policy ==
  [permissions : Seq(Rule), prohibitions : Seq(Rule), obligations : Seq(Chain),
   conflict : {"perm", "prohibit", "invalid"}]

-------------------------------------------------------------------------------
(* An action no loaded profile declares, anywhere the engine reads: on a   *)
(* rule, or on a walked hop of a duty chain.                               *)
ChainUnrecognized(chain, config) ==
  \E h \in 1..LastWalked(chain) : ~recognizes(config.actions, chain[h].action)

RuleUnrecognized(rule, config) ==
  \/ ~recognizes(config.actions, rule.action)
  \/ \E d \in DOMAIN rule.duties : ChainUnrecognized(rule.duties[d], config)

unrecognized_action(policy, config) ==
  \/ \E i \in DOMAIN policy.prohibitions : RuleUnrecognized(policy.prohibitions[i], config)
  \/ \E i \in DOMAIN policy.permissions : RuleUnrecognized(policy.permissions[i], config)
  \/ \E i \in DOMAIN policy.obligations : ChainUnrecognized(policy.obligations[i], config)

-------------------------------------------------------------------------------
Fired(policy, ask) ==
  {i \in DOMAIN policy.prohibitions : fires(policy.prohibitions[i], ask)}

Granting(policy, ask) ==
  {i \in DOMAIN policy.permissions : grants(policy.permissions[i], ask)}

conflict_active(policy, ask) == Fired(policy, ask) # {} /\ Granting(policy, ask) # {}

permission_wins(policy, ask) == conflict_active(policy, ask) /\ policy.conflict = "perm"

(* An empty permission list allows under the open behaviour only.          *)
permission_requirement_met(policy, ask) ==
  \/ Granting(policy, ask) # {}
  \/ ask.config.behaviour = "open" /\ policy.permissions = <<>>

-------------------------------------------------------------------------------
(* A duty left open: the list it hangs off and its place there, the rule   *)
(* (0 for the policy itself), and how many consequences were walked.       *)
DutyAttachment == {"obligation", "permission", "prohibition"}

UnresolvedDuty ==
  [attachment : DutyAttachment, rule : Nat, duty : Nat, depth : Nat, action : Action]

(* One entry per outstanding chain, naming the hop it stopped at.          *)
Entry(attachment, rule, duty, chain) ==
  [attachment |-> attachment, rule |-> rule, duty |-> duty,
   depth |-> LastWalked(chain) - 1, action |-> chain[LastWalked(chain)].action]

unresolved_obligations(policy, claims) ==
  {Entry("obligation", 0, d, policy.obligations[d]) :
     d \in {d \in DOMAIN policy.obligations : outstanding_duty(policy.obligations[d], claims)}}

OutstandingOf(rule, claims) ==
  {d \in DOMAIN rule.duties : outstanding_duty(rule.duties[d], claims)}

(* The duties of a permission that applies and matches, granting or not.   *)
unresolved_permission_duties(policy, ask) ==
  UNION {{Entry("permission", i, d, policy.permissions[i].duties[d]) :
            d \in OutstandingOf(policy.permissions[i], ask.claims)} :
         i \in {i \in DOMAIN policy.permissions : fires(policy.permissions[i], ask)}}

(* The remedies of the prohibitions that fire, unless a permission won.    *)
unresolved_remedies(policy, ask) ==
  IF permission_wins(policy, ask) THEN {}
  ELSE UNION {{Entry("prohibition", i, d, policy.prohibitions[i].duties[d]) :
                 d \in OutstandingOf(policy.prohibitions[i], ask.claims)} :
              i \in Fired(policy, ask)}

plain_policy_obligation(entry) == entry.attachment = "obligation" /\ entry.depth = 0

-------------------------------------------------------------------------------
(* A policy-level obligation left outstanding denies under duty_mode deny. *)
obligation_forces_deny(policy, ask) ==
  /\ ask.config.dutyMode = "deny"
  /\ \E d \in DOMAIN policy.obligations : outstanding_duty(policy.obligations[d], ask.claims)

decide(policy, ask) ==
  IF unrecognized_action(policy, ask.config) THEN "error"
  ELSE IF obligation_forces_deny(policy, ask) THEN "deny"
  ELSE IF Fired(policy, ask) # {}
    THEN IF permission_wins(policy, ask) THEN "allow" ELSE "deny"
  ELSE IF permission_requirement_met(policy, ask) THEN "allow" ELSE "deny"

unresolved_duties(policy, ask) ==
  IF unrecognized_action(policy, ask.config) THEN {}
  ELSE unresolved_obligations(policy, ask.claims)
         \cup unresolved_permission_duties(policy, ask) \cup unresolved_remedies(policy, ask)

-------------------------------------------------------------------------------
(* A slip: obligations are forgotten. *)
referenced_left_operands_Rules(policy) ==
  LET Of(rules) == UNION {collect_rule_left_operands(rules[i]) \cup
                            UNION {collect_duty_chain_left_operands(rules[i].duties[d]) :
                                   d \in DOMAIN rules[i].duties} : i \in DOMAIN rules}
  IN  Of(policy.permissions) \cup Of(policy.prohibitions)

(* Introspection: the claim keys a policy can test, and the declared       *)
(* actions it would allow.                                                 *)
referenced_left_operands(policy) ==
  LET Of(rules) == UNION {collect_rule_left_operands(rules[i]) \cup
                            UNION {collect_duty_chain_left_operands(rules[i].duties[d]) :
                                   d \in DOMAIN rules[i].duties} : i \in DOMAIN rules}
  IN  Of(policy.permissions) \cup Of(policy.prohibitions) \cup
      UNION {collect_duty_chain_left_operands(policy.obligations[d]) :
             d \in DOMAIN policy.obligations}

performable_actions(policy, ask) ==
  {a \in declared_actions(ask.config.actions) :
     decide(policy, [ask EXCEPT !.action = a]) = "allow"}

===============================================================================
