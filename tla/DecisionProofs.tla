---------------------------- MODULE DecisionProofs ----------------------------
(***************************************************************************)
(* Facts about decide and the report, of any two policies and questions:   *)
(* no state, no step.                                                      *)
(***************************************************************************)
EXTENDS Compare, FiniteSetTheorems, WellFoundedInduction, TLAPS

(* A prohibition in force excludes every permission, and an Allow.         *)
LEMMA ProhibitionExcludes ==
  ASSUME NEW p, NEW q, NEW j, ProhibitionActive(p, q, j)
  PROVE  /\ \A i \in DOMAIN p.permissions : ~PermissionActive(p, q, i)
         /\ decide(p, q) # "allow"
<1>1. Fired(p, q) # {} /\ ~permission_wins(p, q)
  BY DEF ProhibitionActive
<1>2. ASSUME NEW i, PermissionActive(p, q, i)
      PROVE  FALSE
  BY <1>1, <1>2 DEF PermissionActive, conflict_active
<1>3. decide(p, q) # "allow"
  BY <1>1 DEF decide
<1> QED
  BY <1>2, <1>3

(* An Active permission is granting, unopposed and undenied: an Allow.     *)
LEMMA ActiveAllows ==
  ASSUME NEW p, NEW q, NEW i, PermissionActive(p, q, i), decide(p, q) # "error"
  PROVE  decide(p, q) = "allow"
<1>1. Granting(p, q) # {} /\ ~obligation_forces_deny(p, q)
  BY DEF PermissionActive
<1>2. Fired(p, q) # {} => permission_wins(p, q)
  BY <1>1 DEF PermissionActive, conflict_active
<1>3. permission_requirement_met(p, q)
  BY <1>1 DEF permission_requirement_met
<1>4. ~unrecognized_action(p, q.config)
  BY DEF decide
<1> QED
  BY <1>1, <1>2, <1>3, <1>4 DEF decide

(* An Allow has a granting permission, or no permission was written.       *)
LEMMA AllowNeedsGrant ==
  ASSUME NEW p, NEW q, decide(p, q) = "allow"
  PROVE  /\ ~unrecognized_action(p, q.config)
         /\ ~obligation_forces_deny(p, q)
         /\ Fired(p, q) # {} => permission_wins(p, q)
         /\ Granting(p, q) # {} \/ p.permissions = <<>>
BY DEF decide, permission_requirement_met, permission_wins, conflict_active

(* A granting permission that duty_mode advise let through although a duty *)
(* of its own is outstanding: its open duty is listed.                     *)
LEMMA AdvisoryGrantListsItsDuty ==
  ASSUME NEW p, NEW q, q.config.dutyMode \in {"advise", "deny"},
         ~unrecognized_action(p, q.config),
         NEW i \in Granting(p, q), ~duties_resolved(p.permissions[i], q.claims)
  PROVE  /\ q.config.dutyMode = "advise"
         /\ OutstandingOf(p.permissions[i], q.claims) # {}
         /\ \E e \in unresolved_duties(p, q) : e.attachment = "permission"
<1>1. i \in DOMAIN p.permissions /\ grants(p.permissions[i], q)
  BY DEF Granting
<1>2. q.config.dutyMode = "advise" /\ fires(p.permissions[i], q)
  BY <1>1 DEF grants
<1>3. PICK d \in DOMAIN p.permissions[i].duties :
        outstanding_duty(p.permissions[i].duties[d], q.claims)
  BY DEF duties_resolved
<1>4. d \in OutstandingOf(p.permissions[i], q.claims)
  BY <1>3 DEF OutstandingOf
<1> DEFINE e == Entry("permission", i, d, p.permissions[i].duties[d])
<1>5. e \in unresolved_permission_duties(p, q)
  BY <1>1, <1>2, <1>4 DEF unresolved_permission_duties
<1>6. e.attachment = "permission"
  BY DEF Entry
<1> HIDE DEF e
<1>7. e \in unresolved_duties(p, q)
  BY <1>5 DEF unresolved_duties
<1> QED
  BY <1>2, <1>4, <1>6, <1>7

-------------------------------------------------------------------------------
(* What a merge leaves of a list of rules: a prefix.                       *)
Extends(s, t) == \A i \in DOMAIN s : i \in DOMAIN t /\ t[i] = s[i]

(* s is where it was when t is appended to it. *)
LEMMA AppendExtends ==
  ASSUME NEW S, NEW s \in Seq(S), NEW t \in Seq(S)
  PROVE  Extends(s, s \o t)
BY DEF Extends

ExtendsRules(p, r) ==
  /\ Extends(p.permissions, r.permissions)
  /\ Extends(p.prohibitions, r.prohibitions)
  /\ Extends(p.obligations, r.obligations)

LEMMA ErrorIffUnrecognized ==
  ASSUME NEW p, NEW q
  PROVE  decide(p, q) = "error" <=> unrecognized_action(p, q.config)
BY DEF decide

LEMMA UnrecognizedGrows ==
  ASSUME NEW p, NEW r, NEW config, ExtendsRules(p, r), unrecognized_action(p, config)
  PROVE  unrecognized_action(r, config)
BY DEF ExtendsRules, Extends, unrecognized_action

(* r has p's rules and more, and the permissions of p: what r allows, p    *)
(* allows, unless only r's strategy lets a permission win.                 *)
LEMMA MoreBansAllowLess ==
  ASSUME NEW p, NEW r, NEW q, ExtendsRules(p, r), p.permissions = r.permissions,
         r.conflict = "perm" => p.conflict = "perm", decide(r, q) = "allow"
  PROVE  decide(p, q) = "allow"
<1>1. /\ ~unrecognized_action(r, q.config)
      /\ ~obligation_forces_deny(r, q)
      /\ Fired(r, q) # {} => permission_wins(r, q)
  BY AllowNeedsGrant
<1>2. ~unrecognized_action(p, q.config)
  BY <1>1, UnrecognizedGrows
<1>3. ~obligation_forces_deny(p, q)
  BY <1>1 DEF obligation_forces_deny, ExtendsRules, Extends
<1>4. Granting(p, q) = Granting(r, q)
  BY DEF Granting
<1>5. Fired(p, q) # {} => Fired(r, q) # {}
  BY DEF Fired, ExtendsRules, Extends
<1>6. CASE Fired(p, q) # {}
  <2>1. permission_wins(p, q)
    BY <1>1, <1>4, <1>5, <1>6 DEF permission_wins, conflict_active
  <2> QED
    BY <1>2, <1>3, <1>6, <2>1 DEF decide
<1>7. CASE Fired(p, q) = {}
  <2>1. permission_requirement_met(r, q)
    BY <1>1 DEF decide, permission_requirement_met, permission_wins, conflict_active
  <2>2. permission_requirement_met(p, q)
    BY <1>4, <2>1 DEF permission_requirement_met
  <2> QED
    BY <1>2, <1>3, <1>7, <2>2 DEF decide
<1> QED
  BY <1>6, <1>7

-------------------------------------------------------------------------------
(* Of rules given by their positions, the first is one of them.            *)
LEMMA FirstIsOne ==
  ASSUME NEW S \in SUBSET Nat, S # {}
  PROVE  First(S) \in S /\ \A j \in S : First(S) <= j
<1> DEFINE R == OpToRel(<, Nat)
<1>1. IsWellFoundedOn(R, Nat)
  BY NatLessThanWellFounded
<1>2. \A i, j \in Nat : <<j, i>> \in R <=> j < i
  BY DEF OpToRel
<1> HIDE DEF R
<1>3. PICK i \in S : \A j \in S : ~ (<<j, i>> \in R)
  BY <1>1, WFMin
<1>4. \A j \in S : ~ (j < i)
  BY <1>2, <1>3
<1>5. \A j \in S : i <= j
  BY <1>4
<1> QED
  BY <1>5 DEF First

-------------------------------------------------------------------------------
(* What a permission report tells of its premises is whether it fires.     *)
LEMMA PremisesOfFiring ==
  ASSUME NEW p, NEW q, NEW i, NEW rule, rule = p.permissions[i],
         NEW premises, premises = permission_report(p, q, i).premises
  PROVE  /\ premises.target <=> target_applies(rule, q)
         /\ premises.covers <=> covers_action(rule, q)
         /\ premises.action <=> action_applies(rule, q)
         /\ (\A c \in DOMAIN premises.constraints : premises.constraints[c])
              <=> matches(rule, q.claims)
<1>1. premises = rule_premise_reports(rule, q)
  BY DEF permission_report
<1>2. premises.constraints = [c \in rule.constraints |-> evaluate(c, q.claims)]
  BY <1>1 DEF rule_premise_reports, evaluate_report
<1> QED
  BY <1>1, <1>2 DEF rule_premise_reports, matches

LEMMA DeonticOfDuty ==
  ASSUME NEW chain, NEW root, NEW claims, NEW h
  PROVE  duty_report_for(chain, root, claims, h).deontic = "Fulfilled"
           <=> InForce(chain, root, claims, h) /\ duty_satisfied(chain[h], claims)
<1>1. duty_report_for(chain, root, claims, h).deontic
        = DutyDeontic(InForce(chain, root, claims, h), duty_satisfied(chain[h], claims))
  BY DEF duty_report_for
<1> QED
  BY <1>1 DEF DutyDeontic

(* Of a chain whose root is in force, no hop is reported fulfilled iff the *)
(* chain is outstanding: the report, which stops one hop past the bound,   *)
(* and the walk, which stops at it, find the same first satisfied hop.     *)
LEMMA UnfulfilledIsOutstanding ==
  ASSUME NEW chain \in Chain, NEW claims, NEW hops, hops = duty_chain_reports(chain, TRUE, claims)
  PROVE  (\A h \in DOMAIN hops : hops[h].deontic # "Fulfilled") <=> outstanding_duty(chain, claims)
<1>1. Len(chain) \in Nat /\ MaxConsequenceDepth \in Nat
  BY DepthAssumption DEF Chain
<1> DEFINE reported == IF Len(chain) <= MaxConsequenceDepth + 2 THEN Len(chain)
                                                             ELSE MaxConsequenceDepth + 2
<1>2. DOMAIN hops = 1..reported
  BY DEF duty_chain_reports
<1>3. ASSUME NEW h \in 1..reported
      PROVE  hops[h].deontic = "Fulfilled"
               <=> InForce(chain, TRUE, claims, h) /\ duty_satisfied(chain[h], claims)
  <2>1. hops[h] = duty_report_for(chain, TRUE, claims, h)
    BY DEF duty_chain_reports
  <2> QED
    BY <2>1, DeonticOfDuty
<1>4. LastWalked(chain) \in Nat /\ 1..LastWalked(chain) \subseteq 1..reported
  BY <1>1 DEF LastWalked
<1>5. \A h \in 1..reported : h <= MaxConsequenceDepth + 1 => h \in 1..LastWalked(chain)
  BY <1>1 DEF LastWalked
<1>6. \A h \in 1..LastWalked(chain) : h <= MaxConsequenceDepth + 1
  BY <1>1 DEF LastWalked
<1> HIDE DEF reported
<1>7. ASSUME outstanding_duty(chain, claims), NEW h \in 1..reported
      PROVE  hops[h].deontic # "Fulfilled"
  BY <1>3, <1>5, <1>7 DEF InForce, outstanding_duty
<1>8. ASSUME ~outstanding_duty(chain, claims)
      PROVE  \E h \in 1..reported : hops[h].deontic = "Fulfilled"
  <2> DEFINE S == {h \in 1..LastWalked(chain) : duty_satisfied(chain[h], claims)}
  <2>1. S \in SUBSET Nat /\ S # {}
    BY <1>4, <1>8 DEF outstanding_duty
  <2> DEFINE h == First(S)
  <2>2. h \in S /\ \A g \in S : h <= g
    BY <2>1, FirstIsOne
  <2> HIDE DEF h
  <2>3. h \in 1..LastWalked(chain) /\ duty_satisfied(chain[h], claims)
    BY <2>2
  <2>4. \A g \in 1..(h - 1) : ~duty_satisfied(chain[g], claims)
    <3> SUFFICES ASSUME NEW g \in 1..(h - 1), duty_satisfied(chain[g], claims)
                 PROVE  FALSE
      OBVIOUS
    <3>1. g \in 1..LastWalked(chain) /\ g < h
      BY <1>4, <2>3
    <3> QED
      BY <2>2, <3>1
  <2>5. InForce(chain, TRUE, claims, h)
    BY <1>6, <2>3, <2>4 DEF InForce
  <2> QED
    BY <1>3, <1>4, <2>3, <2>5
<1> QED
  BY <1>2, <1>7, <1>8

-------------------------------------------------------------------------------
(* Sets listed without repetition by what they are about.                  *)
LEMMA ImageIsFinite ==
  ASSUME NEW S, IsFiniteSet(S), NEW f, DOMAIN f = S
  PROVE  IsFiniteSet({f[x] : x \in S})
<1> DEFINE T == {f[x] : x \in S}
           g == [x \in S |-> f[x]]
<1>1. g \in Surjection(S, T)
  BY DEF Surjection
<1> QED
  BY <1>1, FS_Surjection

LEMMA InjectiveImage ==
  ASSUME NEW S, IsFiniteSet(S), NEW f, DOMAIN f = S,
         \A x, y \in S : f[x] = f[y] => x = y
  PROVE  Cardinality({f[x] : x \in S}) = Cardinality(S)
<1> DEFINE T == {f[x] : x \in S}
           g == [x \in S |-> f[x]]
<1>1. g \in Injection(S, T)
  BY DEF Injection, IsInjective
<1>2. g \in Surjection(S, T)
  BY DEF Surjection
<1>3. ExistsBijection(S, T)
  BY <1>1, <1>2 DEF ExistsBijection, Bijection
<1> QED
  BY <1>3, FS_Bijection

LEMMA DomainIsFinite ==
  ASSUME NEW S, NEW s \in Seq(S)
  PROVE  IsFiniteSet(DOMAIN s)
<1>1. DOMAIN s = 1..Len(s) /\ Len(s) \in Nat
  OBVIOUS
<1> QED
  BY <1>1, FS_Interval

-------------------------------------------------------------------------------
(* The chains of one list of rules, as the report goes through them.       *)
RuleChains(kind, rules, inForce) ==
  UNION {{<<kind, i, d, rules[i].duties[d], inForce[i]>> : d \in DOMAIN rules[i].duties} :
         i \in DOMAIN rules}

LEMMA RuleChainsFinite ==
  ASSUME NEW kind, NEW rules \in Seq(Rule), NEW inForce
  PROVE  IsFiniteSet(RuleChains(kind, rules, inForce))
<1> DEFINE at == [i \in DOMAIN rules |->
                    {<<kind, i, d, rules[i].duties[d], inForce[i]>> : d \in DOMAIN rules[i].duties}]
<1>1. IsFiniteSet(DOMAIN rules)
  BY DomainIsFinite
<1>2. ASSUME NEW i \in DOMAIN rules
      PROVE  IsFiniteSet(at[i])
  <2>1. rules[i] \in Rule
    OBVIOUS
  <2>2. rules[i].duties \in Seq(Chain)
    BY <2>1 DEF Rule
  <2>3. IsFiniteSet(DOMAIN rules[i].duties)
    BY <2>2, DomainIsFinite
  <2> DEFINE f == [d \in DOMAIN rules[i].duties |-> <<kind, i, d, rules[i].duties[d], inForce[i]>>]
  <2>4. at[i] = {f[d] : d \in DOMAIN rules[i].duties}
    OBVIOUS
  <2>5. DOMAIN f = DOMAIN rules[i].duties
    OBVIOUS
  <2> HIDE DEF f, at
  <2> QED
    BY <2>3, <2>4, <2>5, ImageIsFinite
<1>3. RuleChains(kind, rules, inForce) = UNION {at[i] : i \in DOMAIN rules}
  BY DEF RuleChains
<1>4. DOMAIN at = DOMAIN rules
  OBVIOUS
<1> HIDE DEF at
<1>5. IsFiniteSet({at[i] : i \in DOMAIN rules})
  BY <1>1, <1>4, ImageIsFinite
<1> QED
  BY <1>2, <1>3, <1>5, FS_UNION

ObligationChains(p) ==
  {<<"obligation", 0, d, p.obligations[d], TRUE>> : d \in DOMAIN p.obligations}

LEMMA ReportedChainsSplit ==
  ASSUME NEW p, NEW q
  PROVE  ReportedChains(p, q) =
           ObligationChains(p)
           \cup RuleChains("permission", p.permissions,
                         [i \in DOMAIN p.permissions |-> fires(p.permissions[i], q)])
           \cup RuleChains("prohibition", p.prohibitions,
                         [i \in DOMAIN p.prohibitions |-> ProhibitionActive(p, q, i)])
<1>1. \A i \in DOMAIN p.permissions :
        fires(p.permissions[i], q) = [j \in DOMAIN p.permissions |-> fires(p.permissions[j], q)][i]
  OBVIOUS
<1>2. \A i \in DOMAIN p.prohibitions :
        ProhibitionActive(p, q, i) = [j \in DOMAIN p.prohibitions |-> ProhibitionActive(p, q, j)][i]
  OBVIOUS
<1> DEFINE A == RuleChains("permission", p.permissions,
                         [i \in DOMAIN p.permissions |-> fires(p.permissions[i], q)])
           B == RuleChains("prohibition", p.prohibitions,
                         [i \in DOMAIN p.prohibitions |-> ProhibitionActive(p, q, i)])
           C == UNION {{<<"permission", i, d, p.permissions[i].duties[d],
                          fires(p.permissions[i], q)>> :
                          d \in DOMAIN p.permissions[i].duties} : i \in DOMAIN p.permissions}
           D == UNION {{<<"prohibition", i, d, p.prohibitions[i].duties[d],
                          ProhibitionActive(p, q, i)>> :
                          d \in DOMAIN p.prohibitions[i].duties} : i \in DOMAIN p.prohibitions}
<1>3. ASSUME NEW x
      PROVE  x \in A <=> x \in C
  <2>1. x \in A <=> \E i \in DOMAIN p.permissions : \E d \in DOMAIN p.permissions[i].duties :
          x = <<"permission", i, d, p.permissions[i].duties[d], [j \in DOMAIN p.permissions |-> fires(p.permissions[j], q)][i]>>
    BY DEF RuleChains
  <2>2. x \in C <=> \E i \in DOMAIN p.permissions : \E d \in DOMAIN p.permissions[i].duties :
          x = <<"permission", i, d, p.permissions[i].duties[d], fires(p.permissions[i], q)>>
    OBVIOUS
  <2> QED
    BY <1>1, <2>1, <2>2
<1>4. ASSUME NEW x
      PROVE  x \in B <=> x \in D
  <2>1. x \in B <=> \E i \in DOMAIN p.prohibitions : \E d \in DOMAIN p.prohibitions[i].duties :
          x = <<"prohibition", i, d, p.prohibitions[i].duties[d], [j \in DOMAIN p.prohibitions |-> ProhibitionActive(p, q, j)][i]>>
    BY DEF RuleChains
  <2>2. x \in D <=> \E i \in DOMAIN p.prohibitions : \E d \in DOMAIN p.prohibitions[i].duties :
          x = <<"prohibition", i, d, p.prohibitions[i].duties[d], ProhibitionActive(p, q, i)>>
    OBVIOUS
  <2> QED
    BY <1>2, <2>1, <2>2
<1>5. ReportedChains(p, q) = ObligationChains(p) \cup C \cup D
  BY DEF ReportedChains, ObligationChains
<1> HIDE DEF A, B, C, D
<1>6. ReportedChains(p, q) = ObligationChains(p) \cup A \cup B
  BY <1>3, <1>4, <1>5
<1> QED
  BY <1>6 DEF A, B

LEMMA ReportedChainsFinite ==
  ASSUME NEW p \in Policy, NEW q
  PROVE  IsFiniteSet(ReportedChains(p, q))
<1>1. p.permissions \in Seq(Rule) /\ p.prohibitions \in Seq(Rule) /\ p.obligations \in Seq(Chain)
  BY DEF Policy
<1> DEFINE f == [d \in DOMAIN p.obligations |-> <<"obligation", 0, d, p.obligations[d], TRUE>>]
<1>2. IsFiniteSet(DOMAIN p.obligations) /\ DOMAIN f = DOMAIN p.obligations
  BY <1>1, DomainIsFinite
<1>3. ObligationChains(p) = {f[d] : d \in DOMAIN p.obligations}
  BY DEF ObligationChains
<1> HIDE DEF f
<1>4. IsFiniteSet(ObligationChains(p))
  BY <1>2, <1>3, ImageIsFinite
<1> QED
  BY <1>1, <1>4, ReportedChainsSplit, RuleChainsFinite, FS_Union

(* A chain is what the document holds at a place of the policy, and there  *)
(* is one per place.                                                       *)
LEMMA ReportedChainType ==
  ASSUME NEW p \in Policy, NEW q, NEW c \in ReportedChains(p, q)
  PROVE  /\ c[4] \in Chain /\ Len(c[4]) \in Nat /\ Len(c[4]) >= 1
         /\ c = <<c[1], c[2], c[3], c[4], c[5]>>
<1>1. p.permissions \in Seq(Rule) /\ p.prohibitions \in Seq(Rule) /\ p.obligations \in Seq(Chain)
  BY DEF Policy
<1>2. c[4] \in Chain /\ c = <<c[1], c[2], c[3], c[4], c[5]>>
  <2>1. CASE c \in ObligationChains(p)
    <3>1. PICK d \in DOMAIN p.obligations : c = <<"obligation", 0, d, p.obligations[d], TRUE>>
      BY <2>1 DEF ObligationChains
    <3>2. p.obligations[d] \in Chain
      BY <1>1
    <3> QED
      BY <3>1, <3>2
  <2>2. ASSUME NEW kind, NEW rules \in Seq(Rule), NEW inForce, c \in RuleChains(kind, rules, inForce)
        PROVE  c[4] \in Chain /\ c = <<c[1], c[2], c[3], c[4], c[5]>>
    <3>0. PICK i \in DOMAIN rules : \E d \in DOMAIN rules[i].duties :
            c = <<kind, i, d, rules[i].duties[d], inForce[i]>>
      BY <2>2 DEF RuleChains
    <3>1. PICK d \in DOMAIN rules[i].duties :
            c = <<kind, i, d, rules[i].duties[d], inForce[i]>>
      BY <3>0
    <3>2. rules[i] \in Rule
      OBVIOUS
    <3>3. rules[i].duties \in Seq(Chain)
      BY <3>2 DEF Rule
    <3>4. rules[i].duties[d] \in Chain
      BY <3>3
    <3> QED
      BY <3>1, <3>4
  <2> QED
    BY <1>1, <2>1, <2>2, ReportedChainsSplit
<1> QED
  BY <1>2 DEF Chain

LEMMA OneChainPerPlace ==
  ASSUME NEW p, NEW q, NEW c \in ReportedChains(p, q), NEW e \in ReportedChains(p, q),
         c[1] = e[1], c[2] = e[2], c[3] = e[3]
  PROVE  c = e
<1>1. ASSUME NEW kind, NEW rules, NEW inForce,
             c \in RuleChains(kind, rules, inForce), e \in RuleChains(kind, rules, inForce)
      PROVE  c = e
  BY <1>1 DEF RuleChains
<1>2. ASSUME NEW kind, NEW rules, NEW inForce, NEW x \in RuleChains(kind, rules, inForce)
      PROVE  x[1] = kind
  BY DEF RuleChains
<1>3. ASSUME NEW x \in ObligationChains(p)
      PROVE  x[1] = "obligation" /\ \E d : x = <<"obligation", 0, d, p.obligations[d], TRUE>>
  <2>1. PICK d \in DOMAIN p.obligations : x = <<"obligation", 0, d, p.obligations[d], TRUE>>
    BY DEF ObligationChains
  <2> QED
    BY <2>1
<1>4. CASE c \in ObligationChains(p) /\ e \in ObligationChains(p)
  <2>1. PICK d : c = <<"obligation", 0, d, p.obligations[d], TRUE>>
    BY <1>3, <1>4
  <2>2. PICK f : e = <<"obligation", 0, f, p.obligations[f], TRUE>>
    BY <1>3, <1>4
  <2>3. c[3] = d /\ e[3] = f
    BY <2>1, <2>2
  <2> QED
    BY <2>1, <2>2, <2>3
<1> DEFINE A == RuleChains("permission", p.permissions,
                         [i \in DOMAIN p.permissions |-> fires(p.permissions[i], q)])
           B == RuleChains("prohibition", p.prohibitions,
                         [i \in DOMAIN p.prohibitions |-> ProhibitionActive(p, q, i)])
<1>5. /\ \A x \in A : x[1] = "permission"
      /\ \A x \in B : x[1] = "prohibition"
  BY <1>2
<1>6. c \in A /\ e \in A => c = e
  BY <1>1
<1>7. c \in B /\ e \in B => c = e
  BY <1>1
<1>8. c \in ObligationChains(p) \cup A \cup B /\ e \in ObligationChains(p) \cup A \cup B
  BY ReportedChainsSplit
<1> HIDE DEF A, B
<1> QED
  BY <1>3, <1>4, <1>5, <1>6, <1>7, <1>8

-------------------------------------------------------------------------------
(* The chains left open: in force from their root, no hop satisfied.       *)
OpenChains(p, q) ==
  {c \in ReportedChains(p, q) : c[5] /\ outstanding_duty(c[4], q.claims)}

(* The report of the last duty of a chain. *)
LastReport(c, claims) ==
  [chain |-> c, depth |-> Len(c[4]) - 1,
   report |-> duty_chain_reports(c[4], c[5], claims)[Len(c[4])]]

(* The last duty of a chain walked to its end is reported in force and     *)
(* unperformed iff the chain is left open.                                 *)
LEMMA LastHopIsOpen ==
  ASSUME NEW chain \in Chain, LastWalked(chain) = Len(chain), NEW root, NEW claims,
         NEW hops, hops = duty_chain_reports(chain, root, claims)
  PROVE  /\ 1 \in DOMAIN hops /\ Len(chain) \in DOMAIN hops
         /\ (hops[Len(chain)].activation = "Active" /\ hops[Len(chain)].performance = "Unperformed")
              <=> root /\ outstanding_duty(chain, claims)
<1> DEFINE n == Len(chain)
<1>1. n \in Nat /\ n >= 1 /\ MaxConsequenceDepth \in Nat
  BY DepthAssumption DEF Chain
<1>2. n <= MaxConsequenceDepth + 1
  BY <1>1 DEF LastWalked
<1>3. DOMAIN hops = 1..n
  BY <1>1, <1>2 DEF duty_chain_reports
<1>4. 1 \in 1..n /\ n \in 1..n
  BY <1>1
<1>5. hops[n] = duty_report_for(chain, root, claims, n)
  BY <1>3, <1>4 DEF duty_chain_reports
<1>6. InForce(chain, root, claims, n)
        <=> root /\ \A g \in 1..(n - 1) : ~duty_satisfied(chain[g], claims)
  BY <1>2 DEF InForce
<1>7. outstanding_duty(chain, claims)
        <=> /\ \A g \in 1..(n - 1) : ~duty_satisfied(chain[g], claims)
            /\ ~duty_satisfied(chain[n], claims)
  <2>1. outstanding_duty(chain, claims) <=> \A h \in 1..n : ~duty_satisfied(chain[h], claims)
    BY DEF outstanding_duty
  <2>2. \A h : h \in 1..n <=> h \in 1..(n - 1) \/ h = n
    BY <1>1
  <2> QED
    BY <2>1, <2>2
<1>8. (hops[n].activation = "Active" /\ hops[n].performance = "Unperformed")
        <=> InForce(chain, root, claims, n) /\ ~duty_satisfied(chain[n], claims)
  BY <1>5 DEF duty_report_for
<1> QED
  BY <1>3, <1>4, <1>6, <1>7, <1>8

(* Where every chain is walked to its end, the reports of what is left     *)
(* open are one for each chain left open: that of its last duty.           *)
LEMMA OutstandingAreOpen ==
  ASSUME NEW p \in Policy, NEW q, NEW reports, reports = derive_detailed_rule_reports(p, q),
         EveryChainWalked(reports)
  PROVE  /\ \A c \in ReportedChains(p, q) : LastWalked(c[4]) = Len(c[4])
         /\ Outstanding(reports) = {LastReport(c, q.claims) : c \in OpenChains(p, q)}
<1> DEFINE H(c) == duty_chain_reports(c[4], c[5], q.claims)
<1>1. reports.duties =
        UNION {{[chain |-> c, depth |-> h - 1, report |-> H(c)[h]] : h \in DOMAIN H(c)} :
               c \in ReportedChains(p, q)}
  BY DEF derive_detailed_rule_reports, duty_reports
<1>2. \A d : d \in reports.duties <=>
        \E c \in ReportedChains(p, q) : \E h \in DOMAIN H(c) :
          d = [chain |-> c, depth |-> h - 1, report |-> H(c)[h]]
  BY <1>1
<1> HIDE DEF H
<1>3. ASSUME NEW c \in ReportedChains(p, q)
      PROVE  LastWalked(c[4]) = Len(c[4])
  <2>1. c[4] \in Chain /\ Len(c[4]) \in Nat /\ Len(c[4]) >= 1
    BY ReportedChainType
  <2>2. 1 \in DOMAIN H(c)
    BY <2>1, DepthAssumption DEF H, duty_chain_reports
  <2> DEFINE d == [chain |-> c, depth |-> 1 - 1, report |-> H(c)[1]]
  <2>3. d \in reports.duties
    BY <1>2, <2>2
  <2>4. d.chain = c
    OBVIOUS
  <2> HIDE DEF d
  <2> QED
    BY <2>3, <2>4 DEF EveryChainWalked
<1>4. ASSUME NEW c \in ReportedChains(p, q)
      PROVE  /\ Len(c[4]) \in DOMAIN H(c) /\ DOMAIN H(c) \subseteq Int
             /\ (H(c)[Len(c[4])].activation = "Active" /\ H(c)[Len(c[4])].performance = "Unperformed")
                  <=> c \in OpenChains(p, q)
  <2>1. c[4] \in Chain /\ Len(c[4]) \in Nat
    BY ReportedChainType
  <2>2. /\ Len(c[4]) \in DOMAIN H(c)
        /\ (H(c)[Len(c[4])].activation = "Active" /\ H(c)[Len(c[4])].performance = "Unperformed")
             <=> c[5] /\ outstanding_duty(c[4], q.claims)
    BY <1>3, <2>1, LastHopIsOpen DEF H
  <2>3. DOMAIN H(c) \subseteq Int
    BY <2>1, DepthAssumption DEF H, duty_chain_reports
  <2> QED
    BY <2>2, <2>3 DEF OpenChains
<1>5. ASSUME NEW d \in Outstanding(reports)
      PROVE  \E c \in OpenChains(p, q) : d = LastReport(c, q.claims)
  <2>1. /\ d \in reports.duties
        /\ d.report.activation = "Active" /\ d.report.performance = "Unperformed"
        /\ d.depth + 1 = Len(d.chain[4])
    BY DEF Outstanding, ActiveUnperformed, is_terminal
  <2>2. PICK c \in ReportedChains(p, q) : \E h \in DOMAIN H(c) :
          d = [chain |-> c, depth |-> h - 1, report |-> H(c)[h]]
    BY <1>2, <2>1
  <2>3. PICK h \in DOMAIN H(c) : d = [chain |-> c, depth |-> h - 1, report |-> H(c)[h]]
    BY <2>2
  <2>4. d.chain = c /\ d.depth = h - 1 /\ d.report = H(c)[h]
    BY <2>3
  <2>5. h \in Int /\ Len(c[4]) \in Nat
    BY <1>4, ReportedChainType
  <2>6. h = Len(c[4])
    BY <2>1, <2>4, <2>5
  <2>7. c \in OpenChains(p, q)
    BY <1>4, <2>1, <2>4, <2>6
  <2>8. d = LastReport(c, q.claims)
    BY <2>3, <2>6 DEF LastReport, H
  <2> QED
    BY <2>7, <2>8
<1>6. ASSUME NEW c \in OpenChains(p, q)
      PROVE  LastReport(c, q.claims) \in Outstanding(reports)
  <2>1. c \in ReportedChains(p, q)
    BY DEF OpenChains
  <2>2. Len(c[4]) \in Nat
    BY <2>1, ReportedChainType
  <2> DEFINE d == LastReport(c, q.claims)
  <2>3. /\ d = [chain |-> c, depth |-> Len(c[4]) - 1, report |-> H(c)[Len(c[4])]]
        /\ d.chain = c /\ d.depth = Len(c[4]) - 1 /\ d.report = H(c)[Len(c[4])]
    BY DEF LastReport, H
  <2> HIDE DEF d
  <2>4. d \in reports.duties
    BY <1>2, <1>4, <2>1, <2>3
  <2>5. ActiveUnperformed(d)
    BY <1>4, <2>1, <2>3 DEF ActiveUnperformed
  <2>6. is_terminal(d)
    BY <2>2, <2>3 DEF is_terminal
  <2>7. d \in Outstanding(reports)
    BY <2>4, <2>5, <2>6 DEF Outstanding
  <2> QED
    BY <2>7 DEF d
<1>7. \A d : d \in Outstanding(reports) <=> d \in {LastReport(c, q.claims) : c \in OpenChains(p, q)}
  BY <1>5, <1>6
<1> QED
  BY <1>3, <1>7

(* The entry an open chain gets in the list of unresolved duties.          *)
EntryOf(c) == Entry(c[1], c[2], c[3], c[4])

(* What is listed as unresolved is what is left open, chain by chain.      *)
LEMMA UnresolvedAreOpen ==
  ASSUME NEW p \in Policy, NEW q, ~unrecognized_action(p, q.config)
  PROVE  unresolved_duties(p, q) = {EntryOf(c) : c \in OpenChains(p, q)}
<1> DEFINE O == ObligationChains(p)
           A == RuleChains("permission", p.permissions,
                         [i \in DOMAIN p.permissions |-> fires(p.permissions[i], q)])
           B == RuleChains("prohibition", p.prohibitions,
                         [i \in DOMAIN p.prohibitions |-> ProhibitionActive(p, q, i)])
           Listed(S) == {EntryOf(c) : c \in {c \in S : c[5] /\ outstanding_duty(c[4], q.claims)}}
<1>1. ASSUME NEW e
      PROVE  e \in unresolved_obligations(p, q.claims) <=> e \in Listed(O)
  <2>1. ASSUME e \in unresolved_obligations(p, q.claims)
        PROVE  e \in Listed(O)
    <3>1. PICK d \in DOMAIN p.obligations :
            /\ outstanding_duty(p.obligations[d], q.claims)
            /\ e = Entry("obligation", 0, d, p.obligations[d])
      BY <2>1 DEF unresolved_obligations
    <3> DEFINE c == <<"obligation", 0, d, p.obligations[d], TRUE>>
    <3>2. c \in O /\ c[5] /\ outstanding_duty(c[4], q.claims) /\ e = EntryOf(c)
      BY <3>1 DEF ObligationChains, EntryOf
    <3> HIDE DEF c, O
    <3> QED
      BY <3>2
  <2>2. ASSUME e \in Listed(O)
        PROVE  e \in unresolved_obligations(p, q.claims)
    <3>1. PICK c \in O : outstanding_duty(c[4], q.claims) /\ e = EntryOf(c)
      BY <2>2
    <3>2. PICK d \in DOMAIN p.obligations : c = <<"obligation", 0, d, p.obligations[d], TRUE>>
      BY <3>1 DEF ObligationChains
    <3>3. e = Entry("obligation", 0, d, p.obligations[d])
          /\ outstanding_duty(p.obligations[d], q.claims)
      BY <3>1, <3>2 DEF EntryOf
    <3> QED
      BY <3>3 DEF unresolved_obligations
  <2> QED
    BY <2>1, <2>2
<1>2. ASSUME NEW kind, NEW rules, NEW inForce, NEW S, DOMAIN inForce = DOMAIN rules,
             S \subseteq DOMAIN rules, \A i \in DOMAIN rules : inForce[i] <=> i \in S, NEW e
      PROVE  e \in UNION {{Entry(kind, i, d, rules[i].duties[d]) :
                             d \in OutstandingOf(rules[i], q.claims)} : i \in S}
               <=> e \in Listed(RuleChains(kind, rules, inForce))
  <2> DEFINE C == RuleChains(kind, rules, inForce)
  <2>1. ASSUME NEW i \in S, NEW d \in OutstandingOf(rules[i], q.claims),
               e = Entry(kind, i, d, rules[i].duties[d])
        PROVE  e \in Listed(C)
    <3> DEFINE c == <<kind, i, d, rules[i].duties[d], inForce[i]>>
    <3>1. i \in DOMAIN rules /\ inForce[i] /\ d \in DOMAIN rules[i].duties
          /\ outstanding_duty(rules[i].duties[d], q.claims)
      BY <1>2 DEF OutstandingOf
    <3>2. c \in C
      <4> DEFINE T == {<<kind, i, f, rules[i].duties[f], inForce[i]>> : f \in DOMAIN rules[i].duties}
      <4>1. c \in T
        BY <3>1
      <4> HIDE DEF T, c
      <4>2. T \in {{<<kind, j, f, rules[j].duties[f], inForce[j]>> : f \in DOMAIN rules[j].duties} :
                     j \in DOMAIN rules}
        BY <3>1 DEF T
      <4> QED
        BY <4>1, <4>2 DEF RuleChains
    <3>3. c[5] /\ outstanding_duty(c[4], q.claims) /\ e = EntryOf(c)
      BY <2>1, <3>1 DEF EntryOf
    <3> HIDE DEF c, C
    <3> QED
      BY <3>2, <3>3
  <2>2. ASSUME e \in Listed(C)
        PROVE  \E i \in S : \E d \in OutstandingOf(rules[i], q.claims) :
                 e = Entry(kind, i, d, rules[i].duties[d])
    <3>1. PICK c \in C : c[5] /\ outstanding_duty(c[4], q.claims) /\ e = EntryOf(c)
      BY <2>2
    <3>2. PICK i \in DOMAIN rules : \E d \in DOMAIN rules[i].duties :
            c = <<kind, i, d, rules[i].duties[d], inForce[i]>>
      BY <3>1 DEF RuleChains
    <3>3. PICK d \in DOMAIN rules[i].duties : c = <<kind, i, d, rules[i].duties[d], inForce[i]>>
      BY <3>2
    <3>4. inForce[i] /\ outstanding_duty(rules[i].duties[d], q.claims)
          /\ e = Entry(kind, i, d, rules[i].duties[d])
      BY <3>1, <3>3 DEF EntryOf
    <3>5. i \in S /\ d \in OutstandingOf(rules[i], q.claims)
      BY <1>2, <3>4 DEF OutstandingOf
    <3> QED
      BY <3>4, <3>5
  <2> QED
    BY <2>1, <2>2
<1>3. ASSUME NEW e
      PROVE  e \in unresolved_permission_duties(p, q) <=> e \in Listed(A)
  <2> DEFINE S == {i \in DOMAIN p.permissions : fires(p.permissions[i], q)}
             f == [i \in DOMAIN p.permissions |-> fires(p.permissions[i], q)]
  <2>1. DOMAIN f = DOMAIN p.permissions /\ S \subseteq DOMAIN p.permissions
        /\ \A i \in DOMAIN p.permissions : f[i] <=> i \in S
    OBVIOUS
  <2>2. unresolved_permission_duties(p, q) =
          UNION {{Entry("permission", i, d, p.permissions[i].duties[d]) :
                    d \in OutstandingOf(p.permissions[i], q.claims)} : i \in S}
    BY DEF unresolved_permission_duties
  <2> HIDE DEF S, f, Listed
  <2>3. e \in unresolved_permission_duties(p, q)
          <=> e \in Listed(RuleChains("permission", p.permissions, f))
    BY <1>2, <2>1, <2>2
  <2> QED
    BY <2>3 DEF f
<1>4. ASSUME NEW e
      PROVE  e \in unresolved_remedies(p, q) <=> e \in Listed(B)
  <2> DEFINE S == {i \in DOMAIN p.prohibitions : ProhibitionActive(p, q, i)}
             f == [i \in DOMAIN p.prohibitions |-> ProhibitionActive(p, q, i)]
  <2>1. DOMAIN f = DOMAIN p.prohibitions /\ S \subseteq DOMAIN p.prohibitions
        /\ \A i \in DOMAIN p.prohibitions : f[i] <=> i \in S
    OBVIOUS
  <2>2. S = IF permission_wins(p, q) THEN {} ELSE Fired(p, q)
    BY DEF ProhibitionActive, Fired
  <2>3. unresolved_remedies(p, q) =
          UNION {{Entry("prohibition", i, d, p.prohibitions[i].duties[d]) :
                    d \in OutstandingOf(p.prohibitions[i], q.claims)} : i \in S}
    <3>1. CASE permission_wins(p, q)
      BY <2>2, <3>1 DEF unresolved_remedies
    <3>2. CASE ~permission_wins(p, q)
      BY <2>2, <3>2, Zenon DEF unresolved_remedies
    <3> QED
      BY <3>1, <3>2
  <2> HIDE DEF S, f, Listed
  <2>4. e \in unresolved_remedies(p, q)
          <=> e \in Listed(RuleChains("prohibition", p.prohibitions, f))
    BY <1>2, <2>1, <2>3
  <2> QED
    BY <2>4 DEF f
<1>5. unresolved_duties(p, q) = unresolved_obligations(p, q.claims)
         \cup unresolved_permission_duties(p, q) \cup unresolved_remedies(p, q)
  BY DEF unresolved_duties
<1>6. ReportedChains(p, q) = O \cup A \cup B
  BY ReportedChainsSplit
<1> HIDE DEF O, A, B
<1>7. {EntryOf(c) : c \in OpenChains(p, q)} = Listed(O) \cup Listed(A) \cup Listed(B)
  BY <1>6 DEF OpenChains
<1> HIDE DEF Listed
<1>8. \A e : e \in unresolved_duties(p, q) <=> e \in {EntryOf(c) : c \in OpenChains(p, q)}
  BY <1>1, <1>3, <1>4, <1>5, <1>7
<1> QED
  BY <1>8

(* Where every chain is walked to its end, the duties listed are those the *)
(* reports show open, action by action: both are one for each open chain.  *)
LEMMA DutiesForetold ==
  ASSUME NEW p \in Policy, NEW q, ~unrecognized_action(p, q.config),
         NEW reports, reports = derive_detailed_rule_reports(p, q), EveryChainWalked(reports),
         NEW listed,
         listed = {e \in unresolved_duties(p, q) :
                     ~(q.config.dutyMode = "deny" /\ plain_policy_obligation(e))}
  PROVE  DutiesCrossCheck(reports, q.config, listed)
<1> DEFINE Open == OpenChains(p, q)
           Left(c) == q.config.dutyMode = "deny" /\ c[1] = "obligation" /\ Len(c[4]) - 1 = 0
           ActionOf(c) == c[4][Len(c[4])].action
           R(c) == LastReport(c, q.claims)
<1>1. Outstanding(reports) = {R(c) : c \in Open}
      /\ \A c \in ReportedChains(p, q) : LastWalked(c[4]) = Len(c[4])
  BY OutstandingAreOpen
<1>2. unresolved_duties(p, q) = {EntryOf(c) : c \in Open}
  BY UnresolvedAreOpen
<1>3. Open \subseteq ReportedChains(p, q) /\ IsFiniteSet(Open)
  BY ReportedChainsFinite, FS_Subset DEF OpenChains
<1>4. ASSUME NEW c \in Open
      PROVE  /\ duty_action(R(c)) = ActionOf(c)
             /\ R(c).chain = c
             /\ is_plain_policy_obligation(R(c)) <=> c[1] = "obligation" /\ Len(c[4]) - 1 = 0
  <2>1. Len(c[4]) \in Nat
    BY <1>3, ReportedChainType
  <2>2. R(c).chain = c /\ R(c).depth = Len(c[4]) - 1
    BY DEF LastReport
  <2>3. (Len(c[4]) - 1) + 1 = Len(c[4])
    BY <2>1
  <2> HIDE DEF R
  <2> QED
    BY <2>2, <2>3 DEF duty_action, walk_consequence, is_plain_policy_obligation
<1>5. ASSUME NEW c \in Open
      PROVE  /\ EntryOf(c).action = ActionOf(c)
             /\ EntryOf(c).attachment = c[1] /\ EntryOf(c).rule = c[2] /\ EntryOf(c).duty = c[3]
             /\ plain_policy_obligation(EntryOf(c)) <=> c[1] = "obligation" /\ Len(c[4]) - 1 = 0
  <2>1. LastWalked(c[4]) = Len(c[4])
    BY <1>1, <1>3
  <2> QED
    BY <2>1 DEF EntryOf, Entry, plain_policy_obligation
<1> SUFFICES ASSUME NEW a \in Action
             PROVE  Cardinality({d \in expected_outstanding(reports, q.config) : duty_action(d) = a})
                      = Cardinality({e \in listed : e.action = a})
  BY DEF DutiesCrossCheck
<1> DEFINE K == {c \in Open : ActionOf(c) = a /\ ~Left(c)}
           f == [c \in K |-> R(c)]
           g == [c \in K |-> EntryOf(c)]
<1> HIDE DEF Open, R, ActionOf
<1>6. IsFiniteSet(K)
  BY <1>3, FS_Subset
<1>7. {d \in expected_outstanding(reports, q.config) : duty_action(d) = a} = {f[c] : c \in K}
  BY <1>1, <1>4 DEF expected_outstanding
<1>8. {e \in listed : e.action = a} = {g[c] : c \in K}
  BY <1>2, <1>5
<1>9. DOMAIN f = K /\ \A c, e \in K : f[c] = f[e] => c = e
  BY <1>4
<1>10. DOMAIN g = K /\ \A c, e \in K : g[c] = g[e] => c = e
  <2>1. ASSUME NEW c \in K, NEW e \in K, EntryOf(c) = EntryOf(e)
        PROVE  c = e
    <3>1. c[1] = e[1] /\ c[2] = e[2] /\ c[3] = e[3]
      BY <1>5, <2>1
    <3>2. c \in ReportedChains(p, q) /\ e \in ReportedChains(p, q)
      BY <1>3
    <3> QED
      BY <3>1, <3>2, OneChainPerPlace
  <2> QED
    BY <2>1
<1> HIDE DEF f, g, K
<1>11. Cardinality({f[c] : c \in K}) = Cardinality(K)
  BY <1>6, <1>9, InjectiveImage
<1>12. Cardinality({g[c] : c \in K}) = Cardinality(K)
  BY <1>6, <1>10, InjectiveImage
<1> QED
  BY <1>7, <1>8, <1>11, <1>12

(* What the reports imply of the answer, if they imply anything, is the    *)
(* answer.                                                                 *)
LEMMA VerdictForetells ==
  ASSUME NEW p \in Policy, NEW q, q.config.dutyMode \in {"advise", "deny"},
         decide(p, q) # "error",
         NEW reports, reports = derive_detailed_rule_reports(p, q), EveryChainWalked(reports)
  PROVE  policy_verdict(reports, q.config) \in {"indeterminate", decide(p, q)}
<1> DEFINE perm == {i \in DOMAIN p.permissions : PermissionActive(p, q, i)}
           prohib == {i \in DOMAIN p.prohibitions : ProhibitionActive(p, q, i)}
<1>r. ~unrecognized_action(p, q.config)
  BY ErrorIffUnrecognized
<1>1. AnyActive(reports.permissions) <=> perm # {}
  <2>1. reports.permissions = [i \in DOMAIN p.permissions |-> permission_report(p, q, i)]
    BY DEF derive_detailed_rule_reports
  <2>2. \A i : permission_report(p, q, i).activation = "Active" <=> PermissionActive(p, q, i)
    BY DEF permission_report
  <2> QED
    BY <2>1, <2>2 DEF AnyActive
<1>2. AnyActive(reports.prohibitions) <=> prohib # {}
  <2>1. reports.prohibitions = [i \in DOMAIN p.prohibitions |-> prohibition_report(p, q, i)]
    BY DEF derive_detailed_rule_reports
  <2>2. \A i : prohibition_report(p, q, i).activation = "Active" <=> ProhibitionActive(p, q, i)
    BY DEF prohibition_report
  <2> QED
    BY <2>1, <2>2 DEF AnyActive
<1>3. outstanding_obligation(reports, q.config) <=> obligation_forces_deny(p, q)
  <2>1. Outstanding(reports) = {LastReport(c, q.claims) : c \in OpenChains(p, q)}
    BY OutstandingAreOpen
  <2>2. \A c : LastReport(c, q.claims).chain = c
    BY DEF LastReport
  <2>3. (\E d \in Outstanding(reports) : d.chain[1] = "obligation")
          <=> \E c \in OpenChains(p, q) : c[1] = "obligation"
    <3>1. \A d \in Outstanding(reports) : \E c \in OpenChains(p, q) : d = LastReport(c, q.claims)
      BY <2>1
    <3>2. \A c \in OpenChains(p, q) : LastReport(c, q.claims) \in Outstanding(reports)
      BY <2>1
    <3> QED
      BY <2>2, <3>1, <3>2
  <2>4. ASSUME NEW c \in OpenChains(p, q), c[1] = "obligation"
        PROVE  \E d \in DOMAIN p.obligations : outstanding_duty(p.obligations[d], q.claims)
    <3>1. c \in ReportedChains(p, q) /\ outstanding_duty(c[4], q.claims)
      BY DEF OpenChains
    <3>2. ASSUME NEW kind, NEW rules, NEW inForce, c \in RuleChains(kind, rules, inForce)
          PROVE  c[1] = kind
      BY <3>2 DEF RuleChains
    <3>3. c \in ObligationChains(p)
      BY <2>4, <3>1, <3>2, ReportedChainsSplit
    <3>4. PICK d \in DOMAIN p.obligations : c = <<"obligation", 0, d, p.obligations[d], TRUE>>
      BY <3>3 DEF ObligationChains
    <3>5. outstanding_duty(p.obligations[d], q.claims)
      BY <3>1, <3>4
    <3> QED
      BY <3>5
  <2>5. ASSUME NEW d \in DOMAIN p.obligations, outstanding_duty(p.obligations[d], q.claims)
        PROVE  \E c \in OpenChains(p, q) : c[1] = "obligation"
    <3> DEFINE c == <<"obligation", 0, d, p.obligations[d], TRUE>>
    <3>1. c \in ObligationChains(p) /\ c[1] = "obligation" /\ c[5]
          /\ outstanding_duty(c[4], q.claims)
      BY <2>5 DEF ObligationChains
    <3> HIDE DEF c
    <3>2. c \in OpenChains(p, q)
      BY <3>1, ReportedChainsSplit DEF OpenChains
    <3> QED
      BY <3>1, <3>2
  <2> QED
    BY <2>3, <2>4, <2>5 DEF outstanding_obligation, obligation_forces_deny
<1>4. reports.permissions = <<>> <=> p.permissions = <<>>
  <2>1. p.permissions \in Seq(Rule)
    BY DEF Policy
  <2>2. reports.permissions = [i \in DOMAIN p.permissions |-> permission_report(p, q, i)]
    BY DEF derive_detailed_rule_reports
  <2> QED
    BY <2>1, <2>2
<1>5. CASE prohib # {} \/ obligation_forces_deny(p, q)
  <2>1. policy_verdict(reports, q.config) = "deny"
    BY <1>2, <1>3, <1>5 DEF policy_verdict
  <2>2. decide(p, q) # "allow"
    BY <1>5, ProhibitionExcludes DEF decide
  <2>3. decide(p, q) = "deny"
    BY <2>2 DEF decide
  <2> QED
    BY <2>1, <2>3
<1>6. CASE prohib = {} /\ ~obligation_forces_deny(p, q) /\ perm # {}
  <2>1. policy_verdict(reports, q.config) = "allow"
    BY <1>1, <1>2, <1>3, <1>6 DEF policy_verdict
  <2>2. decide(p, q) = "allow"
    BY <1>6, ActiveAllows
  <2> QED
    BY <2>1, <2>2
<1>7. CASE prohib = {} /\ ~obligation_forces_deny(p, q) /\ perm = {}
  <2>1. Fired(p, q) # {} => permission_wins(p, q)
    BY <1>7 DEF ProhibitionActive, Fired
  <2>2. CASE p.permissions = <<>>
    <3>1. Granting(p, q) = {}
      BY <2>2 DEF Granting
    <3>2. Fired(p, q) = {}
      BY <2>1, <3>1 DEF permission_wins, conflict_active
    <3>3. decide(p, q) = IF q.config.behaviour = "open" THEN "allow" ELSE "deny"
      BY <1>r, <1>7, <2>2, <3>1, <3>2 DEF decide, permission_requirement_met
    <3>4. policy_verdict(reports, q.config) = IF q.config.behaviour = "open" THEN "allow" ELSE "deny"
      BY <1>1, <1>2, <1>3, <1>4, <1>7, <2>2 DEF policy_verdict
    <3> QED
      BY <3>3, <3>4
  <2>3. CASE p.permissions # <<>> /\ q.config.dutyMode = "deny"
    <3>1. Granting(p, q) = {}
      <4> SUFFICES ASSUME NEW i \in Granting(p, q)
                   PROVE  FALSE
        OBVIOUS
      <4>1. i \in DOMAIN p.permissions /\ duties_resolved(p.permissions[i], q.claims)
        BY <2>3 DEF Granting, grants
      <4>2. conflict_active(p, q) => permission_wins(p, q)
        BY <2>1 DEF conflict_active
      <4>3. PermissionActive(p, q, i)
        BY <1>7, <4>1, <4>2 DEF PermissionActive
      <4> QED
        BY <1>7, <4>1, <4>3
    <3>2. decide(p, q) = "deny"
      BY <1>r, <2>1, <2>3, <3>1 DEF decide, permission_requirement_met, permission_wins, conflict_active
    <3>3. policy_verdict(reports, q.config) = "deny"
      BY <1>1, <1>2, <1>3, <1>4, <1>7, <2>3 DEF policy_verdict
    <3> QED
      BY <3>2, <3>3
  <2>4. CASE p.permissions # <<>> /\ q.config.dutyMode # "deny"
    BY <1>1, <1>2, <1>3, <1>4, <1>7, <2>4 DEF policy_verdict
  <2> QED
    BY <2>2, <2>3, <2>4
<1> QED
  BY <1>5, <1>6, <1>7

-------------------------------------------------------------------------------
(* Two claims maps tell the same of the keys in K.                         *)
Agree(claims, other, K) ==
  \A k \in K : /\ k \in DOMAIN claims <=> k \in DOMAIN other
               /\ k \in DOMAIN claims => claims[k] = other[k]

LEMMA ConstraintReads ==
  ASSUME NEW c, NEW claims, NEW other, NEW K, c.leftOperand \in K, Agree(claims, other, K)
  PROVE  evaluate(c, claims) <=> evaluate(c, other)
BY DEF Agree, evaluate

LEMMA RuleReads ==
  ASSUME NEW rule, NEW claims, NEW other, NEW K,
         collect_rule_left_operands(rule) \subseteq K, Agree(claims, other, K)
  PROVE  /\ matches(rule, claims) <=> matches(rule, other)
         /\ refinement_satisfied(rule, claims) <=> refinement_satisfied(rule, other)
<1>1. \A c \in rule.constraints \cup rule.refinement : c.leftOperand \in K
  BY DEF collect_rule_left_operands
<1>2. \A c \in rule.constraints \cup rule.refinement : evaluate(c, claims) <=> evaluate(c, other)
  BY <1>1, ConstraintReads
<1> QED
  BY <1>2 DEF matches, refinement_satisfied

LEMMA ChainReads ==
  ASSUME NEW chain, NEW claims, NEW other, NEW K,
         collect_duty_chain_left_operands(chain) \subseteq K, Agree(claims, other, K)
  PROVE  outstanding_duty(chain, claims) <=> outstanding_duty(chain, other)
<1>1. \A h \in 1..LastWalked(chain) : collect_rule_left_operands(chain[h]) \subseteq K
  BY DEF collect_duty_chain_left_operands
<1>2. \A h \in 1..LastWalked(chain) :
        duty_satisfied(chain[h], claims) <=> duty_satisfied(chain[h], other)
  BY <1>1, RuleReads DEF duty_satisfied
<1> QED
  BY <1>2 DEF outstanding_duty

(* What a list of rules tells of the claims. *)
RulesRead(rules, K) ==
  \A i \in DOMAIN rules :
    /\ collect_rule_left_operands(rules[i]) \subseteq K
    /\ \A d \in DOMAIN rules[i].duties :
         collect_duty_chain_left_operands(rules[i].duties[d]) \subseteq K

LEMMA ReferencedAre ==
  ASSUME NEW p, NEW K
  PROVE  referenced_left_operands(p) \subseteq K <=>
           /\ RulesRead(p.permissions, K)
           /\ RulesRead(p.prohibitions, K)
           /\ \A d \in DOMAIN p.obligations :
                collect_duty_chain_left_operands(p.obligations[d]) \subseteq K
<1> DEFINE Of(rules) == UNION {collect_rule_left_operands(rules[i]) \cup
                            UNION {collect_duty_chain_left_operands(rules[i].duties[d]) :
                                   d \in DOMAIN rules[i].duties} : i \in DOMAIN rules}
<1>1. \A rules : Of(rules) \subseteq K <=> RulesRead(rules, K)
  BY DEF RulesRead
<1>2. referenced_left_operands(p) =
        Of(p.permissions) \cup Of(p.prohibitions) \cup
        UNION {collect_duty_chain_left_operands(p.obligations[d]) : d \in DOMAIN p.obligations}
  BY DEF referenced_left_operands
<1> HIDE DEF Of
<1> QED
  BY <1>1, <1>2

(* The same question, asked with other claims. *)
SameButClaims(q, r) ==
  /\ r.config = q.config /\ r.action = q.action
  /\ r.target = q.target /\ r.assetCollections = q.assetCollections

LEMMA RulesTurnOnKeys ==
  ASSUME NEW q, NEW r, SameButClaims(q, r), NEW K, Agree(q.claims, r.claims, K),
         NEW rules, RulesRead(rules, K), NEW i \in DOMAIN rules
  PROVE  /\ fires(rules[i], q) <=> fires(rules[i], r)
         /\ grants(rules[i], q) <=> grants(rules[i], r)
         /\ OutstandingOf(rules[i], q.claims) = OutstandingOf(rules[i], r.claims)
<1>1. collect_rule_left_operands(rules[i]) \subseteq K
  BY DEF RulesRead
<1>2. \A d \in DOMAIN rules[i].duties :
        outstanding_duty(rules[i].duties[d], q.claims) <=> outstanding_duty(rules[i].duties[d], r.claims)
  BY ChainReads DEF RulesRead
<1>3. fires(rules[i], q) <=> fires(rules[i], r)
  BY <1>1, RuleReads DEF fires, applies, action_applies, target_applies, covers_action, SameButClaims
<1>4. duties_resolved(rules[i], q.claims) <=> duties_resolved(rules[i], r.claims)
  BY <1>2 DEF duties_resolved
<1> QED
  BY <1>2, <1>3, <1>4 DEF grants, OutstandingOf, SameButClaims

(* Claims outside the keys a policy refers to change nothing.              *)
LEMMA PolicyReads ==
  ASSUME NEW q, NEW r, SameButClaims(q, r), NEW K, Agree(q.claims, r.claims, K),
         NEW p, referenced_left_operands(p) \subseteq K
  PROVE  /\ decide(p, q) = decide(p, r)
         /\ unresolved_duties(p, q) = unresolved_duties(p, r)
<1>1. /\ RulesRead(p.permissions, K) /\ RulesRead(p.prohibitions, K)
      /\ \A d \in DOMAIN p.obligations :
           collect_duty_chain_left_operands(p.obligations[d]) \subseteq K
  BY ReferencedAre
<1>2. \A d \in DOMAIN p.obligations :
        outstanding_duty(p.obligations[d], q.claims) <=> outstanding_duty(p.obligations[d], r.claims)
  BY <1>1, ChainReads
<1>3. \A i \in DOMAIN p.permissions :
        /\ fires(p.permissions[i], q) <=> fires(p.permissions[i], r)
        /\ grants(p.permissions[i], q) <=> grants(p.permissions[i], r)
        /\ OutstandingOf(p.permissions[i], q.claims) = OutstandingOf(p.permissions[i], r.claims)
  BY <1>1, RulesTurnOnKeys
<1>4. \A i \in DOMAIN p.prohibitions :
        /\ fires(p.prohibitions[i], q) <=> fires(p.prohibitions[i], r)
        /\ OutstandingOf(p.prohibitions[i], q.claims) = OutstandingOf(p.prohibitions[i], r.claims)
  BY <1>1, RulesTurnOnKeys
<1>5. Fired(p, q) = Fired(p, r) /\ Granting(p, q) = Granting(p, r)
  BY <1>3, <1>4 DEF Fired, Granting
<1>6. permission_wins(p, q) <=> permission_wins(p, r)
  BY <1>5 DEF permission_wins, conflict_active
<1>7. r.config = q.config
  BY DEF SameButClaims
<1>8. /\ obligation_forces_deny(p, q) <=> obligation_forces_deny(p, r)
      /\ permission_requirement_met(p, q) <=> permission_requirement_met(p, r)
  BY <1>2, <1>5, <1>7 DEF obligation_forces_deny, permission_requirement_met
<1>9. decide(p, q) = decide(p, r)
  BY <1>5, <1>6, <1>7, <1>8 DEF decide
<1>10. unresolved_obligations(p, q.claims) = unresolved_obligations(p, r.claims)
  BY <1>2 DEF unresolved_obligations
<1>11. unresolved_permission_duties(p, q) = unresolved_permission_duties(p, r)
  <2> DEFINE Open(i, S) == {Entry("permission", i, d, p.permissions[i].duties[d]) : d \in S}
  <2>1. {i \in DOMAIN p.permissions : fires(p.permissions[i], q)}
          = {i \in DOMAIN p.permissions : fires(p.permissions[i], r)}
    BY <1>3
  <2> HIDE DEF Open
  <2>2. /\ unresolved_permission_duties(p, q) =
             UNION {Open(i, OutstandingOf(p.permissions[i], q.claims)) :
                    i \in {i \in DOMAIN p.permissions : fires(p.permissions[i], q)}}
        /\ unresolved_permission_duties(p, r) =
             UNION {Open(i, OutstandingOf(p.permissions[i], r.claims)) :
                    i \in {i \in DOMAIN p.permissions : fires(p.permissions[i], r)}}
    BY DEF unresolved_permission_duties, Open
  <2> QED
    BY <1>3, <2>1, <2>2
<1>12. unresolved_remedies(p, q) = unresolved_remedies(p, r)
  <2> DEFINE Open(i, S) == {Entry("prohibition", i, d, p.prohibitions[i].duties[d]) : d \in S}
             All(ask) == UNION {Open(i, OutstandingOf(p.prohibitions[i], ask.claims)) : i \in Fired(p, ask)}
  <2>1. Fired(p, q) \subseteq DOMAIN p.prohibitions
    BY DEF Fired
  <2> HIDE DEF Open
  <2>2. All(q) = All(r)
    BY <1>4, <1>5, <2>1
  <2>3. \A ask : unresolved_remedies(p, ask) = IF permission_wins(p, ask) THEN {} ELSE All(ask)
    BY DEF unresolved_remedies, Open
  <2> HIDE DEF All
  <2> QED
    BY <1>6, <2>2, <2>3
<1> QED
  BY <1>7, <1>9, <1>10, <1>11, <1>12 DEF unresolved_duties

-------------------------------------------------------------------------------
(* Listing and report stop at one hop, past the bound or not.              *)

(* The duties of a chain reported in force; the deepest, if unperformed.   *)
InForceHops(chain, root, claims) ==
  {h \in DOMAIN duty_chain_reports(chain, root, claims) :
     duty_chain_reports(chain, root, claims)[h].activation = "Active"}

OpenHops(chain, root, claims) ==
  {h \in InForceHops(chain, root, claims) :
     /\ \A g \in InForceHops(chain, root, claims) : g <= h
     /\ duty_chain_reports(chain, root, claims)[h].performance = "Unperformed"}

(* There is one just if the chain is left open: the last one walked.       *)
LEMMA DeepestInForce ==
  ASSUME NEW chain \in Chain, NEW root, NEW claims, NEW h
  PROVE  h \in OpenHops(chain, root, claims)
           <=> root /\ outstanding_duty(chain, claims) /\ h = LastWalked(chain)
<1> DEFINE hops == duty_chain_reports(chain, root, claims)
           inForce == InForceHops(chain, root, claims)
           n == Len(chain)
           w == LastWalked(chain)
           Met(g) == duty_satisfied(chain[g], claims)
<1>1. n \in Nat /\ n >= 1 /\ MaxConsequenceDepth \in Nat
  BY DepthAssumption DEF Chain
<1>2. /\ w \in Nat /\ 1 <= w /\ w <= n /\ w <= MaxConsequenceDepth + 1
      /\ w = n \/ w = MaxConsequenceDepth + 1
  BY <1>1 DEF LastWalked
<1>3. /\ DOMAIN hops \subseteq 1..n
      /\ \A g \in 1..n : g <= MaxConsequenceDepth + 1 => g \in DOMAIN hops
      /\ \A g \in DOMAIN hops : hops[g] = duty_report_for(chain, root, claims, g)
  BY <1>1 DEF duty_chain_reports
<1>4. \A g \in DOMAIN hops :
        /\ g \in inForce <=> InForce(chain, root, claims, g)
        /\ g \in inForce => (hops[g].performance = "Unperformed" <=> ~Met(g))
  BY <1>3 DEF duty_report_for, InForceHops
<1> HIDE DEF w, n
<1>5. \A g \in DOMAIN hops :
        g \in inForce <=> root /\ g <= w /\ \A k \in 1..(g - 1) : ~Met(k)
  BY <1>1, <1>2, <1>3, <1>4 DEF InForce
<1>6. outstanding_duty(chain, claims) <=> \A k \in 1..w : ~Met(k)
  BY DEF outstanding_duty, w
<1> HIDE DEF Met
<1>7. inForce \subseteq DOMAIN hops
  BY DEF InForceHops
<1>8. h \in OpenHops(chain, root, claims)
         <=> h \in inForce /\ (\A g \in inForce : g <= h) /\ hops[h].performance = "Unperformed"
  BY DEF OpenHops
<1> HIDE DEF hops, inForce
<1>9. ASSUME h \in inForce, \A g \in inForce : g <= h, hops[h].performance = "Unperformed"
      PROVE  root /\ outstanding_duty(chain, claims) /\ h = w
  <2>1. /\ h \in DOMAIN hops /\ h \in 1..n /\ h <= w /\ root /\ ~Met(h)
        /\ \A k \in 1..(h - 1) : ~Met(k)
    BY <1>3, <1>4, <1>5, <1>7, <1>9
  <2>2. \A k \in 1..h : ~Met(k)
    <3>1. \A k \in 1..h : k \in 1..(h - 1) \/ k = h
      BY <1>1, <2>1
    <3> QED
      BY <2>1, <3>1
  <2>3. ~(h < w)
    <3> SUFFICES ASSUME h < w
                 PROVE  FALSE
      OBVIOUS
    <3>1. h + 1 \in 1..n /\ h + 1 <= MaxConsequenceDepth + 1 /\ h + 1 <= w /\ (h + 1) - 1 = h
      BY <1>1, <1>2, <2>1
    <3>2. h + 1 \in inForce
      BY <1>3, <1>5, <2>1, <2>2, <3>1
    <3>3. h + 1 <= h
      BY <1>9, <3>2
    <3> QED
      BY <1>1, <2>1, <3>3
  <2>4. h = w
    BY <1>1, <1>2, <2>1, <2>3
  <2> QED
    BY <1>6, <2>1, <2>2, <2>4
<1>10. ASSUME root, outstanding_duty(chain, claims), h = w
      PROVE  /\ h \in inForce /\ (\A g \in inForce : g <= h)
             /\ hops[h].performance = "Unperformed"
  <2>0. h \in 1..n /\ h <= MaxConsequenceDepth + 1
    BY <1>1, <1>2, <1>10
  <2>1. h \in DOMAIN hops
    BY <1>3, <2>0
  <2>2. \A k \in 1..(h - 1) : ~Met(k)
    BY <1>2, <1>6, <1>10
  <2>3. ~Met(h)
    BY <1>2, <1>6, <1>10
  <2>4. h \in inForce /\ \A g \in inForce : g <= h
    BY <1>2, <1>5, <1>7, <1>10, <2>1, <2>2
  <2> QED
    BY <1>4, <2>1, <2>3, <2>4
<1> QED
  BY <1>8, <1>9, <1>10 DEF w

(* What is listed of a chain is its deepest duty reported in force.        *)
LEMMA ListedIsDeepest ==
  ASSUME NEW p \in Policy, NEW q, ~unrecognized_action(p, q.config),
         NEW c \in ReportedChains(p, q)
  PROVE  {e.depth : e \in {e \in unresolved_duties(p, q) :
                            <<e.attachment, e.rule, e.duty>> = <<c[1], c[2], c[3]>>}}
           = {h - 1 : h \in OpenHops(c[4], c[5], q.claims)}
<1> DEFINE Listed == {e \in unresolved_duties(p, q) :
                        <<e.attachment, e.rule, e.duty>> = <<c[1], c[2], c[3]>>}
           Open == OpenHops(c[4], c[5], q.claims)
<1>1. c[4] \in Chain
  BY ReportedChainType
<1>2. \A h : h \in Open <=> c \in OpenChains(p, q) /\ h = LastWalked(c[4])
  <2>1. c \in OpenChains(p, q) <=> c[5] /\ outstanding_duty(c[4], q.claims)
    BY DEF OpenChains
  <2> QED
    BY <1>1, <2>1, DeepestInForce
<1>3. \A d : /\ EntryOf(d).attachment = d[1] /\ EntryOf(d).rule = d[2]
             /\ EntryOf(d).duty = d[3] /\ EntryOf(d).depth = LastWalked(d[4]) - 1
  BY DEF EntryOf, Entry
<1>4. \A e : e \in Listed <=> c \in OpenChains(p, q) /\ e = EntryOf(c)
  <2>1. ASSUME NEW e \in Listed
        PROVE  c \in OpenChains(p, q) /\ e = EntryOf(c)
    <3>1. PICK d \in OpenChains(p, q) : e = EntryOf(d)
      BY UnresolvedAreOpen
    <3>2. d[1] = c[1] /\ d[2] = c[2] /\ d[3] = c[3]
      BY <1>3, <3>1
    <3>3. d = c
      BY <3>2, OneChainPerPlace DEF OpenChains
    <3> QED
      BY <3>1, <3>3
  <2>2. ASSUME c \in OpenChains(p, q)
        PROVE  EntryOf(c) \in Listed
    BY <1>3, <2>2, UnresolvedAreOpen
  <2> QED
    BY <2>1, <2>2
<1> HIDE DEF Listed, Open
<1>5. ASSUME c \in OpenChains(p, q)
      PROVE  {e.depth : e \in Listed} = {h - 1 : h \in Open}
  <2>1. Listed = {EntryOf(c)} /\ Open = {LastWalked(c[4])}
    BY <1>2, <1>4, <1>5
  <2> QED
    BY <1>3, <2>1
<1>6. ASSUME c \notin OpenChains(p, q)
      PROVE  {e.depth : e \in Listed} = {h - 1 : h \in Open}
  <2>1. Listed = {} /\ Open = {}
    BY <1>2, <1>4, <1>6
  <2> QED
    BY <2>1
<1>7. {e.depth : e \in Listed} = {h - 1 : h \in Open}
  BY <1>5, <1>6
<1> QED
  BY <1>7 DEF Listed, Open

===============================================================================
