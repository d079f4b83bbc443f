-------------------------------- MODULE Session -------------------------------
(***************************************************************************)
(* One policy put together and questioned.  The engine keeps nothing       *)
(* between two calls: what changes is what the host supplies - the claims  *)
(* it can vouch for, the action and the asset it asks about - and, while   *)
(* odrl:inheritFrom is resolved, the rules merged into the policy.         *)
(* decide, the detailed report and the trace are functions of that state,  *)
(* so what two successive states answer is what two requests get.          *)
(***************************************************************************)
EXTENDS Compare, Sequences

CONSTANTS
  Written,      \* the policies a request may carry
  Ancestors,    \* the policies they may inherit from
  Configs,      \* the resolved profile configurations
  Targets,      \* the assets a host asks about
  MaxMerges     \* bound: the ancestors merged into one policy

ASSUME SessionAssumption ==
  Written \subseteq Policy /\ Ancestors \subseteq Policy /\ Configs \subseteq Config
  /\ Targets \subseteq Asset

VARIABLES
  policy,       \* the policy as merged so far, with the conflict it declares
  merged,       \* the ancestors whose rules it already carries
  ask           \* the config, the claims, the action, the target, the collections

vars == <<policy, merged, ask>>

(* The strategies named outright: the default counts as none. *)
explicit_conflict_values(p) == {p.conflict} \ {"invalid"}

mergeForced ==
  Cardinality(explicit_conflict_values(policy)
                \cup UNION {explicit_conflict_values(p) : p \in merged}) > 1

(* What decide is given: differing strategies void every collision.        *)
decisionPolicy == IF mergeForced THEN [policy EXCEPT !.conflict = "invalid"] ELSE policy

decision == decide(decisionPolicy, ask)

TypeOK ==
  /\ policy \in Policy
  /\ merged \subseteq Ancestors
  /\ ask \in Ask

Init ==
  /\ policy \in Written
  /\ merged = {}
  /\ ask \in [config : Configs, claims : {<<>>}, action : Action, target : Targets,
              assetCollections : {{}}]
  /\ ask.action \in declared_actions(ask.config.actions)

(* A slip: the child takes over the conflict strategy of its ancestor.     *)
MergeAncestor_Adopting(p) ==
  /\ p \notin merged
  /\ Cardinality(merged) < MaxMerges
  /\ policy' = [policy EXCEPT !.permissions = @ \o p.permissions,
                              !.prohibitions = @ \o p.prohibitions,
                              !.obligations = @ \o p.obligations,
                              !.conflict = p.conflict]
  /\ merged' = merged \cup {p}
  /\ UNCHANGED ask

(* odrl:inheritFrom replicates an ancestor's rules behind the policy's own. *)
MergeAncestor(p) ==
  /\ p \notin merged
  /\ Cardinality(merged) < MaxMerges
  /\ policy' = [policy EXCEPT !.permissions = @ \o p.permissions,
                              !.prohibitions = @ \o p.prohibitions,
                              !.obligations = @ \o p.obligations]
  /\ merged' = merged \cup {p}
  /\ UNCHANGED ask

(* The host asserts a claim, first or anew: a fact, or a duty performed.   *)
SupplyClaim(k, held) ==
  /\ ask' = [ask EXCEPT !.claims =
               [j \in DOMAIN @ \cup {k} |-> IF j = k THEN held ELSE @[j]]]
  /\ UNCHANGED <<policy, merged>>

WithdrawClaim(k) ==
  /\ k \in DOMAIN ask.claims
  /\ ask' = [ask EXCEPT !.claims = [j \in DOMAIN @ \ {k} |-> @[j]]]
  /\ UNCHANGED <<policy, merged>>

AskAbout(action, target) ==
  /\ ask' = [ask EXCEPT !.action = action, !.target = target]
  /\ UNCHANGED <<policy, merged>>

(* The asset enters a collection: a fact the host resolves on its own.     *)
JoinCollection(collection) ==
  /\ ask' = [ask EXCEPT !.assetCollections = @ \cup {collection}]
  /\ UNCHANGED <<policy, merged>>

Next ==
  \/ \E p \in Ancestors : MergeAncestor(p)
  \/ \E k \in Key, held \in SUBSET Value : SupplyClaim(k, held)
  \/ \E k \in Key : WithdrawClaim(k)
  \/ \E a \in declared_actions(ask.config.actions), t \in Targets : AskAbout(a, t)
  \/ \E c \in Asset \ Targets : JoinCollection(c)

Spec == Init /\ [][Next]_vars

reports == derive_detailed_rule_reports(decisionPolicy, ask)

-------------------------------------------------------------------------------
(* The coarse answer and the detailed report, derived apart, agree: an     *)
(* Active permission means Allow, and an Allow without one is either the   *)
(* open default or an advisory duty of a granting permission.              *)
CoarseMatchesDetailed ==
  LET active == {i \in DOMAIN policy.permissions : PermissionActive(decisionPolicy, ask, i)}
  IN  decision # "error" =>
        /\ active # {} => decision = "allow"
        /\ decision = "allow" /\ active = {} =>
             \/ policy.permissions = <<>>
             \/ /\ ask.config.dutyMode = "advise"
                /\ \E e \in unresolved_duties(decisionPolicy, ask) : e.attachment = "permission"

(* A report never shows a permission and a prohibition in force at once,   *)
(* and a prohibition in force always means Deny.                           *)
NeverBothActive ==
  \A j \in DOMAIN policy.prohibitions :
    ProhibitionActive(decisionPolicy, ask, j) =>
      /\ \A i \in DOMAIN policy.permissions : ~PermissionActive(decisionPolicy, ask, i)
      /\ decision # "allow"

(* What the response lists: under duty_mode deny a plain policy obligation *)
(* is left out.                                                            *)
listed_duties ==
  {e \in unresolved_duties(decisionPolicy, ask) :
     ~(ask.config.dutyMode = "deny" /\ plain_policy_obligation(e))}

(* What the detailed reports imply of the answer, read the way the         *)
(* compliance runner reads them, the answer is - of a policy the engine    *)
(* evaluates and whose chains it walks to their end - and the duties       *)
(* listed are those the reports show in force, violated and last of their  *)
(* chain.                                                                  *)
ReportForetells ==
  LET all == reports IN
  decision # "error" /\ EveryChainWalked(all) =>
    /\ policy_verdict(all, ask.config) \in {"indeterminate", decision}
    /\ DutiesCrossCheck(all, ask.config, listed_duties)

(* The listing walks a chain to the bound, the report a hop further, each  *)
(* by a loop of its own.  They stop at one place: of every chain, longer   *)
(* than the bound too, what is listed is the last duty reported in force,  *)
(* and it is listed just if it is reported unperformed.                    *)
ListedWhereReported ==
  decision # "error" =>
    \A c \in ReportedChains(decisionPolicy, ask) :
      LET hops    == duty_chain_reports(c[4], c[5], ask.claims)
          inForce == {h \in DOMAIN hops : hops[h].activation = "Active"}
          open    == {h \in inForce : /\ \A g \in inForce : g <= h
                                     /\ hops[h].performance = "Unperformed"}
      IN  {e.depth : e \in {e \in unresolved_duties(decisionPolicy, ask) :
                             <<e.attachment, e.rule, e.duty>> = <<c[1], c[2], c[3]>>}}
            = {h - 1 : h \in open}

reason == describe_reason(decisionPolicy, ask, policy.conflict, mergeForced)

PremisesHold(report) ==
  /\ report.premises.target /\ report.premises.action
  /\ \A c \in DOMAIN report.premises.constraints : report.premises.constraints[c]

(* Reported in force, no hop of the chain is fulfilled. *)
Unmet(chain) ==
  LET hops == duty_chain_reports(chain, TRUE, ask.claims) IN
  \A h \in DOMAIN hops : hops[h].deontic # "Fulfilled"

UnmetDuty(i) ==
  \E d \in DOMAIN policy.permissions[i].duties : Unmet(policy.permissions[i].duties[d])

UnmetObligation == \E d \in DOMAIN policy.obligations : Unmet(policy.obligations[d])

(* What the detailed reports have to show for each clause of a trace.      *)
CreditShown(clause, i, permissions, prohibitions) ==
  \/ /\ clause \in {"permission", "permission over prohibition"}
     /\ PremisesHold(permissions[i])
     /\ \/ permissions[i].deontic = "Fulfilled"
        \/ ask.config.dutyMode = "advise" /\ UnmetDuty(i)
  \/ /\ clause = "open default"
     /\ permissions = <<>>
     /\ \A j \in DOMAIN prohibitions : prohibitions[j].deontic = "NonSet"

BlameShown(clause, i, permissions, prohibitions) ==
  /\ \A j \in DOMAIN permissions : permissions[j].activation = "Inactive"
  /\ \/ /\ clause \in {"void", "void by merge"}
        /\ \E j \in DOMAIN prohibitions : prohibitions[j].deontic = "Violated"
     \/ /\ clause \in {"prohibition", "prohibition over permission"}
        /\ \/ prohibitions[i].deontic = "Violated"
           \/ permission_wins(decisionPolicy, ask) /\ UnmetObligation
     \/ clause = "obligation" /\ UnmetObligation
     \/ clause = "permission duty" /\ PremisesHold(permissions[i]) /\ UnmetDuty(i)
     \/ /\ clause = "target"
        /\ ~permissions[i].premises.target
        /\ PremisesHold([permissions[i] EXCEPT !.premises.target = TRUE])
     \/ /\ clause = "refinement"
        /\ permissions[i].premises.covers /\ ~permissions[i].premises.action
        /\ PremisesHold([permissions[i] EXCEPT !.premises.action = TRUE])
     \/ /\ clause = "closed default"
        /\ \A j \in DOMAIN permissions : ~PremisesHold(permissions[j])

(* The trace, which re-derives what decided, never runs out of causes, and *)
(* blames or credits no rule but one the detailed report shows in that     *)
(* part: the permission it credits is exercised or held up by advice only, *)
(* the one it blames fails for the premise or the duty it names.  Where an *)
(* obligation denies over a permission that won, the trace names the       *)
(* prohibition that lost: the report shows it inactive.                    *)
TraceMatchesReport ==
  LET why == reason
      all == reports
  IN  CASE decision = "error" -> why.clause = "unrecognized action"
        [] decision = "allow" -> CreditShown(why.clause, why.rule, all.permissions, all.prohibitions)
        [] decision = "deny"  -> BlameShown(why.clause, why.rule, all.permissions, all.prohibitions)

-------------------------------------------------------------------------------
(* a and b ask the same question of p and see every rule apply and match   *)
(* alike; every duty hop satisfied in a is satisfied in b.                 *)
ChainsOf(p) ==
  {p.obligations[d] : d \in DOMAIN p.obligations}
  \cup (UNION {{r.duties[d] : d \in DOMAIN r.duties} :
                r \in {p.permissions[i] : i \in DOMAIN p.permissions}
                      \cup {p.prohibitions[i] : i \in DOMAIN p.prohibitions}})

OnlyDischarges(p, a, b) ==
  /\ a.config = b.config
  /\ \A i \in DOMAIN p.permissions : fires(p.permissions[i], a) <=> fires(p.permissions[i], b)
  /\ \A i \in DOMAIN p.prohibitions : fires(p.prohibitions[i], a) <=> fires(p.prohibitions[i], b)
  /\ \A chain \in ChainsOf(p) : \A h \in DOMAIN chain :
       duty_satisfied(chain[h], a.claims) => duty_satisfied(chain[h], b.claims)

(* Performing a duty never costs a permission: facts that only discharge   *)
(* duties leave an Allow an Allow, in either duty mode.                    *)
DischargeKeepsAllow ==
  [][(UNCHANGED <<policy, merged>> /\ OnlyDischarges(policy, ask, ask'))
       => (decision = "allow" => decision' = "allow")]_vars

(* An ancestor that brings no permission can only restrict.                *)
BansOnlyRestrict ==
  [][(ask' = ask /\ policy'.permissions = policy.permissions)
       => (decision # "allow" => decision' # "allow")]_vars

(* An action nobody declares is an authoring error that no fact, question  *)
(* or inherited rule repairs: the policy never answers again.              *)
ErrorIsFinal == [][decision = "error" => decision' = "error"]_vars

===============================================================================
