----------------------------- MODULE SessionProofs ----------------------------
(***************************************************************************)
(* What the decision, the report and the trace promise each other, for     *)
(* every policy, vocabulary, claims map and bound on duty chains.          *)
(***************************************************************************)
EXTENDS Session, DecisionProofs

(* Before the host asserts anything, the claims map is empty, and typed.   *)
LEMMA NoClaims == <<>> \in Claims
<1>1. <<>> \in [{} -> SUBSET Value]
  OBVIOUS
<1>2. {} \in SUBSET Key
  OBVIOUS
<1> QED
  BY <1>1, <1>2 DEF Claims

LEMMA ClaimsType ==
  ASSUME NEW claims
  PROVE  claims \in Claims <=>
           \E K \in SUBSET Key : claims \in [K -> SUBSET Value]
BY DEF Claims

LEMMA DeclaredAreActions ==
  ASSUME NEW actions \in Seq(ActionDecl)
  PROVE  declared_actions(actions) \subseteq Action
<1>1. ASSUME NEW i \in DOMAIN actions
      PROVE  actions[i].id \in Action
  <2>1. actions[i] \in ActionDecl
    OBVIOUS
  <2> QED
    BY <2>1 DEF ActionDecl
<1> QED
  BY <1>1 DEF declared_actions

(* Type correctness: whatever the host supplies, and whichever ancestors   *)
(* are merged, the policy stays a policy and the question a question.      *)
THEOREM TypeCorrect == Spec => []TypeOK
<1>1. Init => TypeOK
  <2> SUFFICES ASSUME Init
               PROVE  TypeOK
    OBVIOUS
  <2>1. policy \in Policy /\ merged \subseteq Ancestors
    BY SessionAssumption DEF Init
  <2>2. ask \in Ask
    BY SessionAssumption, NoClaims DEF Init, Ask
  <2> QED
    BY <2>1, <2>2 DEF TypeOK
<1>2. TypeOK /\ [Next]_vars => TypeOK'
  <2> SUFFICES ASSUME TypeOK, [Next]_vars
               PROVE  TypeOK'
    OBVIOUS
  <2>t. policy \in Policy /\ merged \subseteq Ancestors /\ ask \in Ask
    BY DEF TypeOK
  <2>1. ASSUME NEW p \in Ancestors, MergeAncestor(p)
        PROVE  TypeOK'
    <3>1. p \in Policy
      BY SessionAssumption
    <3>2. /\ policy.permissions \o p.permissions \in Seq(Rule)
          /\ policy.prohibitions \o p.prohibitions \in Seq(Rule)
          /\ policy.obligations \o p.obligations \in Seq(Chain)
      BY <2>t, <3>1 DEF Policy
    <3>3. policy' \in Policy
      BY <2>t, <2>1, <3>2 DEF MergeAncestor, Policy
    <3> QED
      BY <2>t, <2>1, <3>3 DEF MergeAncestor, TypeOK
  <2>2. ASSUME NEW k \in Key, NEW held \in SUBSET Value, SupplyClaim(k, held)
        PROVE  TypeOK'
    <3> DEFINE claims == [j \in DOMAIN ask.claims \cup {k} |-> IF j = k THEN held ELSE ask.claims[j]]
    <3>1. ask.claims \in Claims
      BY <2>t DEF Ask
    <3>2. PICK K \in SUBSET Key : ask.claims \in [K -> SUBSET Value]
      BY <3>1, ClaimsType
    <3>3. claims \in [K \cup {k} -> SUBSET Value]
      BY <3>2
    <3>4. claims \in Claims
      BY <3>3, ClaimsType
    <3> HIDE DEF claims
    <3>5. ask' = [ask EXCEPT !.claims = claims]
      BY <2>2 DEF SupplyClaim, claims
    <3>6. ask' \in Ask
      BY <2>t, <3>4, <3>5 DEF Ask
    <3> QED
      BY <2>t, <2>2, <3>6 DEF SupplyClaim, TypeOK
  <2>3. ASSUME NEW k \in Key, WithdrawClaim(k)
        PROVE  TypeOK'
    <3> DEFINE claims == [j \in DOMAIN ask.claims \ {k} |-> ask.claims[j]]
    <3>1. ask.claims \in Claims
      BY <2>t DEF Ask
    <3>2. PICK K \in SUBSET Key : ask.claims \in [K -> SUBSET Value]
      BY <3>1, ClaimsType
    <3>3. claims \in [K \ {k} -> SUBSET Value]
      BY <3>2
    <3>4. claims \in Claims
      BY <3>3, ClaimsType
    <3> HIDE DEF claims
    <3>5. ask' = [ask EXCEPT !.claims = claims]
      BY <2>3 DEF WithdrawClaim, claims
    <3>6. ask' \in Ask
      BY <2>t, <3>4, <3>5 DEF Ask
    <3> QED
      BY <2>t, <2>3, <3>6 DEF WithdrawClaim, TypeOK
  <2>4. ASSUME NEW a \in declared_actions(ask.config.actions), NEW t \in Targets, AskAbout(a, t)
        PROVE  TypeOK'
    <3>1. ask.config.actions \in Seq(ActionDecl)
      BY <2>t, VocabulariesAssumption DEF Ask, Config
    <3>2. a \in Action /\ t \in Asset
      BY <3>1, DeclaredAreActions, SessionAssumption
    <3>3. ask' \in Ask
      BY <2>t, <2>4, <3>2 DEF AskAbout, Ask
    <3> QED
      BY <2>t, <2>4, <3>3 DEF AskAbout, TypeOK
  <2>5. ASSUME NEW c \in Asset \ Targets, JoinCollection(c)
        PROVE  TypeOK'
    <3>1. ask' \in Ask
      BY <2>t, <2>5 DEF JoinCollection, Ask
    <3> QED
      BY <2>t, <2>5, <3>1 DEF JoinCollection, TypeOK
  <2>6. CASE UNCHANGED vars
    BY <2>t, <2>6 DEF vars, TypeOK
  <2> QED
    BY <2>1, <2>2, <2>3, <2>4, <2>5, <2>6 DEF Next
<1> QED
  BY <1>1, <1>2, PTL DEF Spec

(* A merge may force the conflict strategy, and touches nothing else.      *)
LEMMA ForcingKeepsRules ==
  ASSUME TypeOK
  PROVE  /\ decisionPolicy.permissions = policy.permissions
         /\ decisionPolicy.prohibitions = policy.prohibitions
         /\ decisionPolicy.obligations = policy.obligations
BY DEF TypeOK, decisionPolicy, Policy

-------------------------------------------------------------------------------
(* No state shows a prohibition and a permission in force at once.         *)
THEOREM NeverBothActiveCorrect == Spec => []NeverBothActive
<1>1. TypeOK => NeverBothActive
  BY ForcingKeepsRules, ProhibitionExcludes DEF NeverBothActive, decision
<1> QED
  BY <1>1, TypeCorrect, PTL

-------------------------------------------------------------------------------
(* The answer and the report, derived apart, agree in every state.         *)
THEOREM CoarseMatchesDetailedCorrect == Spec => []CoarseMatchesDetailed
<1>1. TypeOK => CoarseMatchesDetailed
  <2> SUFFICES ASSUME TypeOK
               PROVE  CoarseMatchesDetailed
    OBVIOUS
  <2> DEFINE active == {i \in DOMAIN policy.permissions : PermissionActive(decisionPolicy, ask, i)}
  <2>1. ask.config.dutyMode \in {"advise", "deny"}
    BY DEF TypeOK, Ask, Config
  <2>2. ASSUME decision # "error", active # {}
        PROVE  decision = "allow"
    BY <2>2, ActiveAllows DEF decision
  <2>3. ASSUME decision = "allow", active = {}, policy.permissions # <<>>
        PROVE  /\ ask.config.dutyMode = "advise"
               /\ \E e \in unresolved_duties(decisionPolicy, ask) : e.attachment = "permission"
    <3>1. /\ ~unrecognized_action(decisionPolicy, ask.config)
          /\ ~obligation_forces_deny(decisionPolicy, ask)
          /\ Fired(decisionPolicy, ask) # {} => permission_wins(decisionPolicy, ask)
          /\ Granting(decisionPolicy, ask) # {}
      BY <2>3, AllowNeedsGrant, ForcingKeepsRules DEF decision
    <3>2. PICK i \in Granting(decisionPolicy, ask) : TRUE
      BY <3>1
    <3>3. i \in DOMAIN policy.permissions
      BY <3>2, ForcingKeepsRules DEF Granting
    <3>4. ~duties_resolved(decisionPolicy.permissions[i], ask.claims)
      BY <2>3, <3>1, <3>2, <3>3 DEF PermissionActive, conflict_active
    <3> QED
      BY <2>1, <3>1, <3>2, <3>4, AdvisoryGrantListsItsDuty
  <2> QED
    BY <2>2, <2>3 DEF CoarseMatchesDetailed
<1> QED
  BY <1>1, TypeCorrect, PTL

-------------------------------------------------------------------------------
(* What the reports and the trace are read from, of a typed state.         *)
LEMMA DecidedPolicyType ==
  ASSUME TypeOK
  PROVE  /\ decisionPolicy \in Policy
         /\ DOMAIN decisionPolicy.permissions \subseteq Nat
         /\ DOMAIN decisionPolicy.prohibitions \subseteq Nat
         /\ ask.config.dutyMode \in {"advise", "deny"}
<1>1. decisionPolicy \in Policy
  BY DEF TypeOK, decisionPolicy, Policy
<1>2. /\ decisionPolicy.permissions \in Seq(Rule)
      /\ decisionPolicy.prohibitions \in Seq(Rule)
  BY <1>1 DEF Policy
<1>3. ask.config.dutyMode \in {"advise", "deny"}
  BY DEF TypeOK, Ask, Config
<1> QED
  BY <1>1, <1>2, <1>3

LEMMA ReportOfPermission ==
  ASSUME NEW i \in DOMAIN decisionPolicy.permissions
  PROVE  /\ reports.permissions[i] = permission_report(decisionPolicy, ask, i)
         /\ reports.permissions[i].activation = "Inactive" <=> ~PermissionActive(decisionPolicy, ask, i)
         /\ reports.permissions[i].deontic = "Fulfilled" <=> PermissionActive(decisionPolicy, ask, i)
<1>1. reports.permissions[i] = permission_report(decisionPolicy, ask, i)
  BY DEF reports, derive_detailed_rule_reports
<1>2. /\ permission_report(decisionPolicy, ask, i).activation = "Inactive"
           <=> ~PermissionActive(decisionPolicy, ask, i)
      /\ permission_report(decisionPolicy, ask, i).deontic = "Fulfilled"
           <=> PermissionActive(decisionPolicy, ask, i)
  BY DEF permission_report
<1> QED
  BY <1>1, <1>2

LEMMA ReportOfProhibition ==
  ASSUME NEW i \in DOMAIN decisionPolicy.prohibitions
  PROVE  /\ reports.prohibitions[i].deontic = "Violated" <=> ProhibitionActive(decisionPolicy, ask, i)
         /\ reports.prohibitions[i].deontic = "NonSet" <=> ~ProhibitionActive(decisionPolicy, ask, i)
<1>1. reports.prohibitions[i] = prohibition_report(decisionPolicy, ask, i)
  BY DEF reports, derive_detailed_rule_reports
<1>2. /\ prohibition_report(decisionPolicy, ask, i).deontic = "Violated"
           <=> ProhibitionActive(decisionPolicy, ask, i)
      /\ prohibition_report(decisionPolicy, ask, i).deontic = "NonSet"
           <=> ~ProhibitionActive(decisionPolicy, ask, i)
  BY DEF prohibition_report
<1> QED
  BY <1>1, <1>2

(* The report of a permission has every premise hold iff it fires.         *)
LEMMA PremisesHoldIffFires ==
  ASSUME NEW i \in DOMAIN decisionPolicy.permissions
  PROVE  PremisesHold(reports.permissions[i]) <=> fires(decisionPolicy.permissions[i], ask)
<1>1. reports.permissions[i] = permission_report(decisionPolicy, ask, i)
  BY ReportOfPermission
<1> QED
  BY <1>1, PremisesOfFiring DEF PremisesHold, fires, applies

(* A permission left open by a duty has a chain reported without a         *)
(* fulfilled hop, and so has a policy left open by an obligation.          *)
LEMMA OpenDutyIsReported ==
  ASSUME TypeOK, NEW i \in DOMAIN decisionPolicy.permissions,
         ~duties_resolved(decisionPolicy.permissions[i], ask.claims)
  PROVE  UnmetDuty(i)
<1>1. policy.permissions = decisionPolicy.permissions
  BY ForcingKeepsRules
<1>2. PICK d \in DOMAIN policy.permissions[i].duties :
        outstanding_duty(policy.permissions[i].duties[d], ask.claims)
  BY <1>1 DEF duties_resolved
<1>3. policy.permissions[i].duties \in Seq(Chain)
  <2>1. policy.permissions \in Seq(Rule)
    BY DEF TypeOK, Policy
  <2>2. policy.permissions[i] \in Rule
    BY <1>1, <2>1
  <2> QED
    BY <2>2 DEF Rule
<1>4. policy.permissions[i].duties[d] \in Chain
  BY <1>2, <1>3
<1>5. Unmet(policy.permissions[i].duties[d])
  BY <1>2, <1>4, UnfulfilledIsOutstanding DEF Unmet
<1> QED
  BY <1>5 DEF UnmetDuty

LEMMA OpenObligationIsReported ==
  ASSUME TypeOK, obligation_forces_deny(decisionPolicy, ask)
  PROVE  UnmetObligation
<1>1. PICK d \in DOMAIN policy.obligations : outstanding_duty(policy.obligations[d], ask.claims)
  BY ForcingKeepsRules DEF obligation_forces_deny
<1>2. policy.obligations[d] \in Chain
  BY DEF TypeOK, Policy
<1>3. Unmet(policy.obligations[d])
  BY <1>1, <1>2, UnfulfilledIsOutstanding DEF Unmet
<1> QED
  BY <1>3 DEF UnmetObligation

(* Whoever a trace credits for an Allow, the reports show in that part.    *)
LEMMA AllowCreditsWhatIsShown ==
  ASSUME TypeOK, decision = "allow",
         NEW why, why = AllowReason(decisionPolicy, ask)
  PROVE  CreditShown(why.clause, why.rule, reports.permissions, reports.prohibitions)
<1> DEFINE p == decisionPolicy
<1>1. /\ ~obligation_forces_deny(p, ask)
      /\ Fired(p, ask) # {} => permission_wins(p, ask)
      /\ Granting(p, ask) # {} \/ p.permissions = <<>>
  BY AllowNeedsGrant DEF decision
<1>2. CASE p.permissions = <<>>
  <2>1. why.clause = "open default"
    BY <1>2 DEF AllowReason
  <2>2. reports.permissions = <<>>
    BY <1>2 DEF reports, derive_detailed_rule_reports
  <2>3. Granting(p, ask) = {}
    BY <1>2 DEF Granting
  <2>4. Fired(p, ask) = {}
    BY <1>1, <2>3 DEF permission_wins, conflict_active
  <2>5. DOMAIN reports.prohibitions = DOMAIN p.prohibitions
    BY DEF reports, derive_detailed_rule_reports
  <2>6. \A j \in DOMAIN p.prohibitions : ~ProhibitionActive(p, ask, j)
    BY <2>4 DEF ProhibitionActive
  <2>7. \A j \in DOMAIN reports.prohibitions : reports.prohibitions[j].deontic = "NonSet"
    BY <2>5, <2>6, ReportOfProhibition
  <2> QED
    BY <2>1, <2>2, <2>7 DEF CreditShown
<1>3. CASE p.permissions # <<>>
  <2> DEFINE i == First(Granting(p, ask))
  <2>1. why.clause \in {"permission", "permission over prohibition"} /\ why.rule = i
    BY <1>1, <1>3 DEF AllowReason
  <2>2. Granting(p, ask) \in SUBSET Nat /\ Granting(p, ask) # {}
    BY <1>1, <1>3, DecidedPolicyType DEF Granting
  <2>3. i \in Granting(p, ask)
    BY <2>2, FirstIsOne
  <2> HIDE DEF i
  <2>4. i \in DOMAIN p.permissions /\ grants(p.permissions[i], ask)
    BY <2>3 DEF Granting
  <2>5. PremisesHold(reports.permissions[i])
    BY <2>4, PremisesHoldIffFires DEF grants
  <2>6. CASE duties_resolved(p.permissions[i], ask.claims)
    <3>1. PermissionActive(p, ask, i)
      BY <1>1, <2>3, <2>6 DEF PermissionActive, conflict_active
    <3>2. reports.permissions[i].deontic = "Fulfilled"
      BY <2>4, <3>1, ReportOfPermission
    <3> QED
      BY <2>1, <2>5, <3>2 DEF CreditShown
  <2>7. CASE ~duties_resolved(p.permissions[i], ask.claims)
    <3>1. ask.config.dutyMode = "advise"
      BY <2>4, <2>7, DecidedPolicyType DEF grants
    <3>2. UnmetDuty(i)
      BY <2>4, <2>7, OpenDutyIsReported
    <3> QED
      BY <2>1, <2>5, <3>1, <3>2 DEF CreditShown
  <2> QED
    BY <2>6, <2>7
<1> QED
  BY <1>2, <1>3

(* Were one premise of a report to hold that does not, the rest decide.    *)
LEMMA SparedTarget ==
  ASSUME NEW i \in DOMAIN decisionPolicy.permissions,
         action_applies(decisionPolicy.permissions[i], ask),
         matches(decisionPolicy.permissions[i], ask.claims),
         NEW report, report = permission_report(decisionPolicy, ask, i)
  PROVE  PremisesHold([report EXCEPT !.premises.target = TRUE])
<1> DEFINE spared == [report EXCEPT !.premises.target = TRUE]
<1>1. report.premises.action /\ \A c \in DOMAIN report.premises.constraints : report.premises.constraints[c]
  BY PremisesOfFiring
<1>2. /\ spared.premises.target = TRUE
      /\ spared.premises.action = report.premises.action
      /\ spared.premises.constraints = report.premises.constraints
  BY DEF permission_report, rule_premise_reports
<1> HIDE DEF spared
<1> QED
  BY <1>1, <1>2 DEF PremisesHold, spared

LEMMA SparedAction ==
  ASSUME NEW i \in DOMAIN decisionPolicy.permissions,
         target_applies(decisionPolicy.permissions[i], ask),
         matches(decisionPolicy.permissions[i], ask.claims),
         NEW report, report = permission_report(decisionPolicy, ask, i)
  PROVE  PremisesHold([report EXCEPT !.premises.action = TRUE])
<1> DEFINE spared == [report EXCEPT !.premises.action = TRUE]
<1>1. report.premises.target /\ \A c \in DOMAIN report.premises.constraints : report.premises.constraints[c]
  BY PremisesOfFiring
<1>2. /\ spared.premises.action = TRUE
      /\ spared.premises.target = report.premises.target
      /\ spared.premises.constraints = report.premises.constraints
  BY DEF permission_report, rule_premise_reports
<1> HIDE DEF spared
<1> QED
  BY <1>1, <1>2 DEF PremisesHold, spared

(* A reason is read by its two fields.                                     *)
LEMMA ReasonParts ==
  ASSUME NEW c, NEW i, NEW why, why = [clause |-> c, rule |-> i]
  PROVE  why.clause = c /\ why.rule = i
OBVIOUS

(* Whoever a trace blames for a Deny, the reports show in that part.       *)
LEMMA DenyBlamesWhatIsShown ==
  ASSUME TypeOK, decision = "deny",
         NEW why, why = DenyReason(decisionPolicy, ask, policy.conflict, mergeForced)
  PROVE  BlameShown(why.clause, why.rule, reports.permissions, reports.prohibitions)
<1> DEFINE p == decisionPolicy
<1>t. /\ p \in Policy
      /\ DOMAIN p.permissions \subseteq Nat /\ DOMAIN p.prohibitions \subseteq Nat
  BY DecidedPolicyType
<1>p. /\ DOMAIN reports.permissions = DOMAIN p.permissions
      /\ DOMAIN reports.prohibitions = DOMAIN p.prohibitions
  BY DEF reports, derive_detailed_rule_reports
<1>d. decide(p, ask) = "deny"
  BY DEF decision
<1>o. /\ (Fired(p, ask) # {} => ~permission_wins(p, ask) \/ obligation_forces_deny(p, ask))
      /\ Fired(p, ask) = {} =>
           ~permission_requirement_met(p, ask) \/ obligation_forces_deny(p, ask)
  BY <1>d DEF decide
<1>i. \A j \in DOMAIN reports.permissions : reports.permissions[j].activation = "Inactive"
  <2>1. \A j : ~PermissionActive(p, ask, j)
    BY <1>d, ActiveAllows
  <2> QED
    BY <1>p, <2>1, ReportOfPermission
<1>v. ASSUME Fired(p, ask) # {}, ~permission_wins(p, ask), NEW j \in Fired(p, ask)
      PROVE  j \in DOMAIN reports.prohibitions /\ reports.prohibitions[j].deontic = "Violated"
  <2>1. j \in DOMAIN p.prohibitions /\ ProhibitionActive(p, ask, j)
    BY <1>v DEF Fired, ProhibitionActive
  <2> QED
    BY <1>p, <2>1, ReportOfProhibition
<1> DEFINE collides == conflict_active(p, ask)
           held     == HeldByDuty(p, ask)
           off      == BlockedOnlyByTarget(p, ask)
           refined  == BlockedOnlyByRefinement(p, ask)
<1>s. /\ held \in SUBSET Nat /\ off \in SUBSET Nat /\ refined \in SUBSET Nat
      /\ Fired(p, ask) \in SUBSET Nat
  BY <1>t DEF HeldByDuty, BlockedOnlyByTarget, BlockedOnlyByRefinement, Fired
<1>1. CASE collides /\ (mergeForced \/ policy.conflict = "invalid")
  <2>1. why.clause \in {"void", "void by merge"}
    BY <1>1 DEF DenyReason
  <2>2. p.conflict = "invalid"
    BY <1>1 DEF decisionPolicy, TypeOK, Policy
  <2>3. Fired(p, ask) # {} /\ ~permission_wins(p, ask)
    BY <1>1, <2>2 DEF conflict_active, permission_wins
  <2>4. \E j \in DOMAIN reports.prohibitions : reports.prohibitions[j].deontic = "Violated"
    BY <1>v, <2>3
  <2> QED
    BY <1>i, <2>1, <2>4 DEF BlameShown
<1>2. CASE ~(collides /\ (mergeForced \/ policy.conflict = "invalid")) /\ Fired(p, ask) # {}
  <2> DEFINE j == First(Fired(p, ask))
  <2>1. why.clause \in {"prohibition", "prohibition over permission"} /\ why.rule = j
    BY <1>2 DEF DenyReason
  <2>2. j \in Fired(p, ask)
    BY <1>2, <1>s, FirstIsOne
  <2> HIDE DEF j
  <2>3. CASE permission_wins(p, ask)
    <3>1. UnmetObligation
      BY <1>o, <1>2, <2>3, OpenObligationIsReported
    <3> QED
      BY <1>i, <2>1, <2>3, <3>1 DEF BlameShown
  <2>4. CASE ~permission_wins(p, ask)
    <3>1. reports.prohibitions[j].deontic = "Violated"
      BY <1>v, <1>2, <2>2, <2>4
    <3> QED
      BY <1>i, <2>1, <3>1 DEF BlameShown
  <2> QED
    BY <2>3, <2>4
<1>3. CASE Fired(p, ask) = {} /\ permission_requirement_met(p, ask)
  <2>1. obligation_forces_deny(p, ask)
    BY <1>o, <1>3
  <2>2. unresolved_obligations(p, ask.claims) # {}
    BY <2>1 DEF obligation_forces_deny, unresolved_obligations
  <2>3. why.clause = "obligation"
    BY <1>3, <2>2 DEF DenyReason, TracedRequirementMet, conflict_active
  <2>4. UnmetObligation
    BY <2>1, OpenObligationIsReported
  <2> QED
    BY <1>i, <2>3, <2>4 DEF BlameShown
<1>4. CASE Fired(p, ask) = {} /\ ~permission_requirement_met(p, ask)
  <2>1. why = IF held # {} /\ ~duties_resolved(p.permissions[First(held)], ask.claims)
                THEN [clause |-> "permission duty", rule |-> First(held)]
              ELSE IF off # {} THEN [clause |-> "target", rule |-> First(off)]
              ELSE IF refined # {} THEN [clause |-> "refinement", rule |-> First(refined)]
              ELSE [clause |-> "closed default", rule |-> 0]
    BY <1>4 DEF DenyReason, TracedRequirementMet, conflict_active
  <2>2. CASE held # {} /\ ~duties_resolved(p.permissions[First(held)], ask.claims)
    <3> DEFINE i == First(held)
    <3>1. i \in held
      BY <1>s, <2>2, FirstIsOne
    <3>2. why.clause = "permission duty" /\ why.rule = i
      <4>1. why = [clause |-> "permission duty", rule |-> i]
        BY <2>1, <2>2, Zenon
      <4> QED
        BY <4>1, ReasonParts
    <3>u. ~duties_resolved(p.permissions[i], ask.claims)
      BY <2>2
    <3> HIDE DEF i
    <3>3. i \in DOMAIN p.permissions /\ fires(p.permissions[i], ask)
      BY <3>1 DEF HeldByDuty
    <3>4. PremisesHold(reports.permissions[i])
      BY <3>3, PremisesHoldIffFires
    <3>5. UnmetDuty(i)
      BY <3>3, <3>u, OpenDutyIsReported
    <3> QED
      BY <1>i, <3>2, <3>4, <3>5 DEF BlameShown
  <2>3. CASE /\ ~(held # {} /\ ~duties_resolved(p.permissions[First(held)], ask.claims))
             /\ off # {}
    <3> DEFINE i == First(off)
    <3>1. i \in off
      BY <1>s, <2>3, FirstIsOne
    <3>2. why.clause = "target" /\ why.rule = i
      <4>1. why = [clause |-> "target", rule |-> i]
        BY <2>1, <2>3, Zenon
      <4> QED
        BY <4>1
    <3> HIDE DEF i
    <3>3. /\ i \in DOMAIN p.permissions
          /\ ~target_applies(p.permissions[i], ask)
          /\ action_applies(p.permissions[i], ask)
          /\ matches(p.permissions[i], ask.claims)
      BY <3>1 DEF BlockedOnlyByTarget
    <3>4. reports.permissions[i] = permission_report(p, ask, i)
      BY <3>3, ReportOfPermission
    <3>5. ~reports.permissions[i].premises.target
      BY <3>3, <3>4, PremisesOfFiring
    <3>6. PremisesHold([reports.permissions[i] EXCEPT !.premises.target = TRUE])
      BY <3>3, <3>4, SparedTarget
    <3> QED
      BY <1>i, <3>2, <3>5, <3>6 DEF BlameShown
  <2>4. CASE /\ ~(held # {} /\ ~duties_resolved(p.permissions[First(held)], ask.claims))
             /\ off = {} /\ refined # {}
    <3> DEFINE i == First(refined)
    <3>1. i \in refined
      BY <1>s, <2>4, FirstIsOne
    <3>2. why.clause = "refinement" /\ why.rule = i
      <4>1. why = [clause |-> "refinement", rule |-> i]
        BY <2>1, <2>4, Zenon
      <4> QED
        BY <4>1
    <3> HIDE DEF i
    <3>3. /\ i \in DOMAIN p.permissions
          /\ target_applies(p.permissions[i], ask)
          /\ covers_action(p.permissions[i], ask)
          /\ matches(p.permissions[i], ask.claims)
          /\ ~action_applies(p.permissions[i], ask)
      BY <3>1 DEF BlockedOnlyByRefinement, action_applies
    <3>4. reports.permissions[i] = permission_report(p, ask, i)
      BY <3>3, ReportOfPermission
    <3>5. reports.permissions[i].premises.covers /\ ~reports.permissions[i].premises.action
      BY <3>3, <3>4, PremisesOfFiring
    <3>6. PremisesHold([reports.permissions[i] EXCEPT !.premises.action = TRUE])
      BY <3>3, <3>4, SparedAction
    <3> QED
      BY <1>i, <3>2, <3>5, <3>6 DEF BlameShown
  <2>5. CASE /\ ~(held # {} /\ ~duties_resolved(p.permissions[First(held)], ask.claims))
             /\ off = {} /\ refined = {}
    <3>1. why.clause = "closed default"
      <4>1. why = [clause |-> "closed default", rule |-> 0]
        BY <2>1, <2>5, Zenon
      <4> QED
        BY <4>1, ReasonParts
    <3>2. held = {}
      <4> SUFFICES ASSUME held # {}
                   PROVE  FALSE
        OBVIOUS
      <4> DEFINE i == First(held)
      <4>1. i \in held /\ duties_resolved(p.permissions[i], ask.claims)
        BY <1>s, <2>5, FirstIsOne
      <4> HIDE DEF i
      <4>2. i \in Granting(p, ask)
        BY <4>1 DEF HeldByDuty, Granting, grants
      <4> QED
        BY <1>4, <4>2 DEF permission_requirement_met
    <3>3. \A j \in DOMAIN p.permissions : ~fires(p.permissions[j], ask)
      BY <3>2 DEF HeldByDuty
    <3>4. \A j \in DOMAIN reports.permissions : ~PremisesHold(reports.permissions[j])
      BY <1>p, <3>3, PremisesHoldIffFires
    <3> QED
      BY <1>i, <3>1, <3>4 DEF BlameShown
  <2> QED
    BY <2>2, <2>3, <2>4, <2>5
<1> QED
  BY <1>1, <1>2, <1>3, <1>4 DEF conflict_active

(* The trace, which derives the cause a second time, blames or credits     *)
(* what the detailed report shows in that part, in every state.            *)
THEOREM TraceMatchesReportCorrect == Spec => []TraceMatchesReport
<1>1. TypeOK => TraceMatchesReport
  <2> SUFFICES ASSUME TypeOK
               PROVE  TraceMatchesReport
    OBVIOUS
  <2>1. decision \in {"error", "deny", "allow"}
    BY DEF decision, decide
  <2>2. reason = describe_reason(decisionPolicy, ask, policy.conflict, mergeForced)
    BY DEF reason
  <2>3. CASE decision = "error"
    <3>1. reason.clause = "unrecognized action"
      BY <2>2, <2>3 DEF describe_reason, decision
    <3> QED
      BY <2>3, <3>1 DEF TraceMatchesReport
  <2>4. CASE decision = "allow"
    <3>1. reason = AllowReason(decisionPolicy, ask)
      BY <2>2, <2>4 DEF describe_reason, decision
    <3>2. CreditShown(reason.clause, reason.rule, reports.permissions, reports.prohibitions)
      BY <2>4, <3>1, AllowCreditsWhatIsShown
    <3> QED
      BY <2>4, <3>2 DEF TraceMatchesReport
  <2>5. CASE decision = "deny"
    <3>1. reason = DenyReason(decisionPolicy, ask, policy.conflict, mergeForced)
      BY <2>2, <2>5 DEF describe_reason, decision
    <3>2. BlameShown(reason.clause, reason.rule, reports.permissions, reports.prohibitions)
      BY <2>5, <3>1, DenyBlamesWhatIsShown
    <3> QED
      BY <2>5, <3>2 DEF TraceMatchesReport
  <2> QED
    BY <2>1, <2>3, <2>4, <2>5
<1> QED
  BY <1>1, TypeCorrect, PTL

-------------------------------------------------------------------------------
(* Whatever step is taken, the rules already there stay, under the same    *)
(* config, the same declared strategy and what was merged.                 *)
LEMMA StepExtends ==
  ASSUME TypeOK, [Next]_vars
  PROVE  /\ ExtendsRules(policy, policy')
         /\ policy'.conflict = policy.conflict
         /\ merged \subseteq merged'
         /\ ask'.config = ask.config
<1>t. policy \in Policy /\ ask \in Ask
  BY DEF TypeOK
<1>s. ExtendsRules(policy, policy)
  BY DEF ExtendsRules, Extends
<1>1. ASSUME NEW p \in Ancestors, MergeAncestor(p)
      PROVE  /\ ExtendsRules(policy, policy')
             /\ policy'.conflict = policy.conflict
             /\ merged \subseteq merged'
             /\ ask'.config = ask.config
  <2>1. p \in Policy
    BY SessionAssumption
  <2>2. /\ policy.permissions \in Seq(Rule) /\ p.permissions \in Seq(Rule)
        /\ policy.prohibitions \in Seq(Rule) /\ p.prohibitions \in Seq(Rule)
        /\ policy.obligations \in Seq(Chain) /\ p.obligations \in Seq(Chain)
    BY <1>t, <2>1 DEF Policy
  <2>3. /\ policy'.permissions = policy.permissions \o p.permissions
        /\ policy'.prohibitions = policy.prohibitions \o p.prohibitions
        /\ policy'.obligations = policy.obligations \o p.obligations
        /\ policy'.conflict = policy.conflict
    BY <1>t, <1>1 DEF MergeAncestor, Policy
  <2>4. Extends(policy.permissions, policy'.permissions)
    BY <2>2, <2>3, AppendExtends
  <2>5. Extends(policy.prohibitions, policy'.prohibitions)
    BY <2>2, <2>3, AppendExtends
  <2>6. Extends(policy.obligations, policy'.obligations)
    BY <2>2, <2>3, AppendExtends
  <2> QED
    BY <1>1, <2>3, <2>4, <2>5, <2>6 DEF ExtendsRules, MergeAncestor
<1>2. ASSUME NEW k \in Key, NEW held \in SUBSET Value, SupplyClaim(k, held)
      PROVE  ask'.config = ask.config /\ UNCHANGED <<policy, merged>>
  BY <1>t, <1>2 DEF SupplyClaim, Ask
<1>3. ASSUME NEW k \in Key, WithdrawClaim(k)
      PROVE  ask'.config = ask.config /\ UNCHANGED <<policy, merged>>
  BY <1>t, <1>3 DEF WithdrawClaim, Ask
<1>4. ASSUME NEW a, NEW t, AskAbout(a, t)
      PROVE  ask'.config = ask.config /\ UNCHANGED <<policy, merged>>
  BY <1>t, <1>4 DEF AskAbout, Ask
<1>5. ASSUME NEW c, JoinCollection(c)
      PROVE  ask'.config = ask.config /\ UNCHANGED <<policy, merged>>
  BY <1>t, <1>5 DEF JoinCollection, Ask
<1>6. CASE UNCHANGED vars
  BY <1>s, <1>6 DEF vars
<1> QED
  BY <1>s, <1>1, <1>2, <1>3, <1>4, <1>5, <1>6 DEF Next

(* No fact, question or inherited rule repairs an undeclared action.       *)
THEOREM ErrorIsFinalCorrect == Spec => ErrorIsFinal
<1>1. TypeOK /\ TypeOK' /\ [Next]_vars => [decision = "error" => decision' = "error"]_vars
  <2> SUFFICES ASSUME TypeOK, TypeOK', [Next]_vars, decision = "error"
               PROVE  decision' = "error"
    OBVIOUS
  <2>1. unrecognized_action(decisionPolicy, ask.config)
    BY ErrorIffUnrecognized DEF decision
  <2>2. unrecognized_action(policy, ask.config)
    BY <2>1, ForcingKeepsRules DEF unrecognized_action
  <2>3. unrecognized_action(policy', ask'.config)
    BY <2>2, StepExtends, UnrecognizedGrows
  <2>4. /\ decisionPolicy'.permissions = policy'.permissions
        /\ decisionPolicy'.prohibitions = policy'.prohibitions
        /\ decisionPolicy'.obligations = policy'.obligations
    BY DEF TypeOK, decisionPolicy, Policy
  <2>5. unrecognized_action(decisionPolicy', ask'.config)
    BY <2>3, <2>4 DEF unrecognized_action
  <2>6. decide(decisionPolicy', ask') = "error"
    BY <2>5, ErrorIffUnrecognized
  <2> QED
    BY <2>6 DEF decision
<1> QED
  BY <1>1, TypeCorrect, PTL DEF Spec, ErrorIsFinal

-------------------------------------------------------------------------------
(* The strategies in play only accumulate: a forced conflict stays forced. *)
LEMMA ForcedStaysForced ==
  ASSUME policy \in Policy, policy' \in Policy, merged' \subseteq Ancestors,
         policy'.conflict = policy.conflict, merged \subseteq merged', mergeForced
  PROVE  mergeForced'
<1> DEFINE named == explicit_conflict_values(policy)
                      \cup UNION {explicit_conflict_values(p) : p \in merged}
<1> DEFINE later == explicit_conflict_values(policy')
                      \cup UNION {explicit_conflict_values(p) : p \in merged'}
<1>1. named \subseteq later
  BY DEF explicit_conflict_values
<1>2. later \subseteq {"perm", "prohibit"}
  <2>1. ASSUME NEW p \in Policy
        PROVE  explicit_conflict_values(p) \subseteq {"perm", "prohibit"}
    BY DEF explicit_conflict_values, Policy
  <2> QED
    BY <2>1, SessionAssumption
<1>3. IsFiniteSet({"perm", "prohibit"})
  <2>1. IsFiniteSet({"perm"})
    BY FS_Singleton
  <2>2. IsFiniteSet({"perm"} \cup {"prohibit"})
    BY <2>1, FS_AddElement
  <2>3. {"perm"} \cup {"prohibit"} = {"perm", "prohibit"}
    OBVIOUS
  <2> QED
    BY <2>2, <2>3
<1>4. Cardinality(named) > 1
  BY DEF mergeForced
<1>5. Cardinality(later) > 1 => mergeForced'
  BY DEF mergeForced
<1> HIDE DEF named, later
<1>6. IsFiniteSet(later)
  BY <1>2, <1>3, FS_Subset
<1>7. IsFiniteSet(named) /\ Cardinality(named) <= Cardinality(later)
  BY <1>1, <1>6, FS_Subset
<1>8. Cardinality(named) \in Nat /\ Cardinality(later) \in Nat
  BY <1>6, <1>7, FS_CardinalityType
<1>9. Cardinality(later) > 1
  BY <1>4, <1>7, <1>8
<1> QED
  BY <1>5, <1>9

(* An ancestor that brings no permission can only restrict.                *)
THEOREM BansOnlyRestrictCorrect == Spec => BansOnlyRestrict
<1>1. TypeOK /\ TypeOK' /\ [Next]_vars =>
        [(ask' = ask /\ policy'.permissions = policy.permissions)
           => (decision # "allow" => decision' # "allow")]_vars
  <2> SUFFICES ASSUME TypeOK, TypeOK', [Next]_vars, ask' = ask,
                      policy'.permissions = policy.permissions, decision' = "allow"
               PROVE  decision = "allow"
    OBVIOUS
  <2>1. /\ ExtendsRules(policy, policy')
        /\ policy'.conflict = policy.conflict
        /\ merged \subseteq merged'
    BY StepExtends
  <2>2. policy \in Policy /\ policy' \in Policy /\ merged' \subseteq Ancestors
    BY DEF TypeOK
  <2>3. mergeForced => mergeForced'
    BY <2>1, <2>2, ForcedStaysForced
  <2>4. /\ decisionPolicy'.permissions = policy'.permissions
        /\ decisionPolicy'.prohibitions = policy'.prohibitions
        /\ decisionPolicy'.obligations = policy'.obligations
    BY <2>2 DEF decisionPolicy, Policy
  <2>5. ExtendsRules(decisionPolicy, decisionPolicy')
    BY <2>1, <2>4, ForcingKeepsRules DEF ExtendsRules
  <2>6. decisionPolicy.permissions = decisionPolicy'.permissions
    BY <2>4, ForcingKeepsRules
  <2>7. decisionPolicy'.conflict = "perm" => decisionPolicy.conflict = "perm"
    BY <2>1, <2>2, <2>3 DEF decisionPolicy, Policy
  <2>8. decide(decisionPolicy', ask) = "allow"
    BY DEF decision
  <2> QED
    BY <2>5, <2>6, <2>7, <2>8, MoreBansAllowLess DEF decision
<1> QED
  BY <1>1, TypeCorrect, PTL DEF Spec, BansOnlyRestrict

-------------------------------------------------------------------------------
(* The walk down a chain stays inside it. *)
LEMMA WalkedInside ==
  ASSUME NEW chain \in Chain
  PROVE  1..LastWalked(chain) \subseteq DOMAIN chain
<1>1. chain \in Seq(Duty) /\ Len(chain) \in Nat /\ DOMAIN chain = 1..Len(chain)
  BY DEF Chain
<1> QED
  BY <1>1, DepthAssumption DEF LastWalked

(* Performing duties only resolves chains. *)
LEMMA DischargeResolves ==
  ASSUME NEW p, NEW a, NEW b, OnlyDischarges(p, a, b),
         NEW chain \in ChainsOf(p), chain \in Chain, outstanding_duty(chain, b.claims)
  PROVE  outstanding_duty(chain, a.claims)
BY WalkedInside DEF OnlyDischarges, outstanding_duty

(* Performing a duty never costs a permission.                             *)
LEMMA DischargedStillAllows ==
  ASSUME NEW p \in Policy, NEW a, NEW b, OnlyDischarges(p, a, b), decide(p, a) = "allow"
  PROVE  decide(p, b) = "allow"
<1>1. /\ ~unrecognized_action(p, a.config)
      /\ ~obligation_forces_deny(p, a)
      /\ Fired(p, a) # {} => permission_wins(p, a)
  BY AllowNeedsGrant
<1>2. a.config = b.config /\ ~unrecognized_action(p, b.config)
  BY <1>1 DEF OnlyDischarges
<1>3. ~obligation_forces_deny(p, b)
  <2>1. ASSUME NEW d \in DOMAIN p.obligations
        PROVE  p.obligations[d] \in ChainsOf(p) /\ p.obligations[d] \in Chain
    BY DEF ChainsOf, Policy
  <2> QED
    BY <1>1, <1>2, <2>1, DischargeResolves DEF obligation_forces_deny
<1>4. Fired(p, a) = Fired(p, b)
  BY DEF Fired, OnlyDischarges
<1>5. Granting(p, a) \subseteq Granting(p, b)
  <2> SUFFICES ASSUME NEW i \in Granting(p, a)
               PROVE  i \in Granting(p, b)
    OBVIOUS
  <2>1. i \in DOMAIN p.permissions /\ grants(p.permissions[i], a)
    BY DEF Granting
  <2>2. fires(p.permissions[i], b)
    BY <2>1 DEF grants, OnlyDischarges
  <2>3. p.permissions[i] \in Rule
    BY <2>1 DEF Policy
  <2>4. ASSUME NEW d \in DOMAIN p.permissions[i].duties
        PROVE  /\ p.permissions[i].duties[d] \in ChainsOf(p)
               /\ p.permissions[i].duties[d] \in Chain
    <3>1. p.permissions[i].duties \in Seq(Chain)
      BY <2>3 DEF Rule
    <3>2. p.permissions[i].duties[d] \in Chain
      BY <3>1
    <3> QED
      BY <2>1, <3>2 DEF ChainsOf
  <2>5. duties_resolved(p.permissions[i], a.claims) => duties_resolved(p.permissions[i], b.claims)
    BY <2>4, DischargeResolves DEF duties_resolved
  <2>6. grants(p.permissions[i], b)
    BY <1>2, <2>1, <2>2, <2>5 DEF grants
  <2> QED
    BY <2>1, <2>6 DEF Granting
<1>6. permission_wins(p, a) => permission_wins(p, b)
  BY <1>4, <1>5 DEF permission_wins, conflict_active
<1>7. permission_requirement_met(p, a) => permission_requirement_met(p, b)
  BY <1>2, <1>5 DEF permission_requirement_met
<1> QED
  BY <1>1, <1>2, <1>3, <1>4, <1>6, <1>7 DEF decide

THEOREM DischargeKeepsAllowCorrect == Spec => DischargeKeepsAllow
<1>1. TypeOK => [(UNCHANGED <<policy, merged>> /\ OnlyDischarges(policy, ask, ask'))
                   => (decision = "allow" => decision' = "allow")]_vars
  <2> SUFFICES ASSUME TypeOK, UNCHANGED <<policy, merged>>, OnlyDischarges(policy, ask, ask'),
                      decision = "allow"
               PROVE  decision' = "allow"
    OBVIOUS
  <2>1. decisionPolicy' = decisionPolicy
    BY DEF decisionPolicy, mergeForced
  <2>2. decisionPolicy \in Policy
    BY DEF TypeOK, decisionPolicy, Policy
  <2>3. ChainsOf(decisionPolicy) = ChainsOf(policy)
    BY ForcingKeepsRules DEF ChainsOf
  <2>4. OnlyDischarges(decisionPolicy, ask, ask')
    BY <2>3, ForcingKeepsRules DEF OnlyDischarges
  <2>5. decide(decisionPolicy, ask') = "allow"
    BY <2>2, <2>4, DischargedStillAllows DEF decision
  <2> QED
    BY <2>1, <2>5 DEF decision
<1> QED
  BY <1>1, TypeCorrect, PTL DEF Spec, DischargeKeepsAllow

-------------------------------------------------------------------------------
(* What the runner infers from the reports is what the engine answered:    *)
(* of every policy whose chains are walked to their end the verdict, if it *)
(* is one, is the decision, and the duties listed are those shown open.    *)
THEOREM ReportForetellsCorrect == Spec => []ReportForetells
<1>1. TypeOK => ReportForetells
  <2> SUFFICES ASSUME TypeOK, decision # "error", EveryChainWalked(reports)
               PROVE  /\ policy_verdict(reports, ask.config) \in {"indeterminate", decision}
                      /\ DutiesCrossCheck(reports, ask.config, listed_duties)
    BY DEF ReportForetells
  <2>1. decisionPolicy \in Policy /\ ask.config.dutyMode \in {"advise", "deny"}
    BY DecidedPolicyType
  <2>2. reports = derive_detailed_rule_reports(decisionPolicy, ask)
    BY DEF reports
  <2>3. decide(decisionPolicy, ask) # "error" /\ ~unrecognized_action(decisionPolicy, ask.config)
    BY ErrorIffUnrecognized DEF decision
  <2>4. listed_duties = {e \in unresolved_duties(decisionPolicy, ask) :
                           ~(ask.config.dutyMode = "deny" /\ plain_policy_obligation(e))}
    BY DEF listed_duties
  <2> DEFINE all == reports
             listed == listed_duties
             p == decisionPolicy
  <2> HIDE DEF all, listed, p
  <2>5. policy_verdict(all, ask.config) \in {"indeterminate", decide(p, ask)}
    BY <2>1, <2>2, <2>3, VerdictForetells DEF all, p
  <2>6. DutiesCrossCheck(all, ask.config, listed)
    BY <2>1, <2>2, <2>3, <2>4, DutiesForetold DEF all, p, listed
  <2> QED
    BY <2>5, <2>6 DEF all, p, listed, decision
<1> QED
  BY <1>1, TypeCorrect, PTL

(* Of every chain, of whatever length, what is listed as outstanding is    *)
(* the last duty the reports show in force, and just if unperformed.       *)
THEOREM ListedWhereReportedCorrect == Spec => []ListedWhereReported
<1>1. TypeOK => ListedWhereReported
  <2> SUFFICES ASSUME TypeOK, decision # "error", NEW c \in ReportedChains(decisionPolicy, ask)
               PROVE  {e.depth : e \in {e \in unresolved_duties(decisionPolicy, ask) :
                                         <<e.attachment, e.rule, e.duty>> = <<c[1], c[2], c[3]>>}}
                        = {h - 1 : h \in OpenHops(c[4], c[5], ask.claims)}
    BY DEF ListedWhereReported, OpenHops, InForceHops
  <2>1. decisionPolicy \in Policy
    BY DecidedPolicyType
  <2>2. ~unrecognized_action(decisionPolicy, ask.config)
    BY ErrorIffUnrecognized DEF decision
  <2> QED
    BY <2>1, <2>2, ListedIsDeepest
<1> QED
  BY <1>1, TypeCorrect, PTL
===============================================================================
