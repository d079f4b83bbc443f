-------------------------------- MODULE Adapter -------------------------------
(***************************************************************************)
(* The DSP adapter at work.  The author of a document adds statements to   *)
(* it; it is received, rewritten by three passes, read, looked over for    *)
(* contradictions and offered to the engine with a minimal configuration;  *)
(* and its author goes on.                                                 *)
(***************************************************************************)
EXTENDS Ingest

CONSTANTS
  Envelopes,      \* the documents an author may start from
  Facts,          \* the statements an author may add: what a node hangs by, property, value
  MaxFacts,       \* bound: statements added to one document
  Blank           \* the tree before there is one, and the policy before it is read

ASSUME FactsAssumption ==
  /\ MaxFacts \in Nat
  /\ \A fact \in Facts : DOMAIN fact = {"under", "prop", "value"}
  /\ NoId \notin Asset \cup Action

VARIABLES
  doc,          \* as its author wrote it
  facts,        \* how many statements were added to it
  phase,        \* of its ingestion
  tree,         \* as the passes leave it
  warned,       \* what there were warnings about
  policy        \* as it was read

adapterVars == <<doc, facts, phase, tree, warned, policy>>

-------------------------------------------------------------------------------
(* A slip: no target is not every target. *)
targets_collide_Named(a, b) == a = b

(* A rule without a target is about every asset. *)
targets_collide(a, b) == a = b \/ a = NoId \/ b = NoId

Collide(rules, prohibitions) ==
  {pair \in (DOMAIN rules) \X (DOMAIN prohibitions) :
     LET r == rules[pair[1]].rule
         q == prohibitions[pair[2]].rule
     IN  r.action = q.action /\ targets_collide(r.target, q.target)}

(* A slip: the alternatives of an or are taken for joint requirements.     *)
RECURSIVE conjunctive_eq_Through(_)
conjunctive_eq_Through(c) ==
  IF IsGroup(c)
    THEN IF c.grouping = "xone" THEN {}
         ELSE UNION {conjunctive_eq_Through(c.operands[i]) : i \in DOMAIN c.operands}
    ELSE {atom \in {c} : atom.operator = "eq"}

RECURSIVE conjunctive_eq(_)
conjunctive_eq(c) ==
  IF IsGroup(c)
    THEN IF c.grouping \in {"xone", "or"} THEN {}
         ELSE UNION {conjunctive_eq(c.operands[i]) : i \in DOMAIN c.operands}
    ELSE {atom \in {c} : atom.operator = "eq"}

Conjuncts(constraints) == UNION {conjunctive_eq(constraints[i]) : i \in DOMAIN constraints}

(* Two equalities on one operand that ask for different values.            *)
unsatisfiable_constraints_in(constraints) ==
  \E a, b \in Conjuncts(constraints) :
    a.leftOperand = b.leftOperand /\ a.rightOperand # b.rightOperand

(* A slip: the duties of a rule are not looked into. *)
collect_actions_RuleOnly(r) == {r.rule.action}

collect_actions(r) ==
  {r.rule.action} \cup {r.consequence[h].action : h \in DOMAIN r.consequence}
    \cup UNION {{r.duties[d][h].action : h \in DOMAIN r.duties[d]} : d \in DOMAIN r.duties}

RulesOf(read) == [permission |-> read.permissions, prohibition |-> read.prohibitions,
                  obligation |-> read.obligations]

(* Every action named, none included in another.                           *)
Declared(S) == LET list == Listed(S) IN
               [i \in DOMAIN list |-> [id |-> list[i], includedIn |-> NoAction]]

minimal_config(read) ==
  [actions |-> Declared(UNION {UNION {collect_actions(RulesOf(read)[list][i]) :
                                        i \in DOMAIN RulesOf(read)[list]} : list \in RuleLists}),
   behaviour |-> "closed", dutyMode |-> "advise"]

request_for(read, asset, action) ==
  [config |-> minimal_config(read), claims |-> <<>>, action |-> action, target |-> asset,
   assetCollections |-> {}]

-------------------------------------------------------------------------------
AdapterInit ==
  /\ doc \in Envelopes
  /\ facts = 0
  /\ phase = "writing"
  /\ tree = Blank /\ warned = {} /\ policy = Blank

Under(path) ==
  IF node_at_path(doc, path).isPolicy THEN "policy"
  ELSE IF path = <<>> THEN "root" ELSE path[Len(path)][1]

(* The author adds a statement somewhere in the document. *)
State(path, fact) ==
  /\ phase = "writing"
  /\ facts < MaxFacts
  /\ Under(path) = fact.under
  /\ doc' = Replace(doc, path, push(node_at_path(doc, path), fact.prop, <<fact.value>>))
  /\ facts' = facts + 1
  /\ UNCHANGED <<phase, tree, warned, policy>>

(* A document is received and expanded into its tree. *)
Receive ==
  /\ phase = "writing"
  /\ phase' = "expanded"
  /\ tree' = doc
  /\ UNCHANGED <<doc, facts, warned, policy>>

Internalize ==
  /\ phase = "expanded"
  /\ phase' = "internalized"
  /\ tree' = internalize_inverse_properties(tree)
  /\ warned' = {w \in {"reference"} : DanglingRefs(tree) # {}}
  /\ UNCHANGED <<doc, facts, policy>>

PushDown ==
  /\ phase = "internalized"
  /\ phase' = "pushed"
  /\ tree' = push_down_policy_level_target(tree)
  /\ UNCHANGED <<doc, facts, warned, policy>>

(* A slip: what was split is not split again below. *)
Split_Shallow ==
  /\ phase = "pushed"
  /\ phase' = "split"
  /\ tree' = expand_compound_rules_at(tree, MAX_WALK_DEPTH)
  /\ warned' = warned \cup {w \in {"compound"} : tree' # tree}
  /\ UNCHANGED <<doc, facts, policy>>

Split ==
  /\ phase = "pushed"
  /\ phase' = "split"
  /\ tree' = expand_compound_rules(tree)
  /\ warned' = warned \cup {w \in {"compound"} : tree' # tree}
  /\ UNCHANGED <<doc, facts, policy>>

ThePolicy == node_at_path(tree, PolicyPath(tree))

Read ==
  /\ phase = "split"
  /\ OnePolicy(tree) /\ policy_readable(ThePolicy)
  /\ phase' = "ingested"
  /\ policy' = policy_from(ThePolicy)
  /\ warned' = warned \cup ReadingWarnings(ThePolicy)
  /\ UNCHANGED <<doc, facts, tree>>

(* No policy or several, or a rule that cannot be read in full. *)
Refuse ==
  /\ phase = "split"
  /\ ~(OnePolicy(tree) /\ policy_readable(ThePolicy))
  /\ phase' = "refused"
  /\ UNCHANGED <<doc, facts, tree, warned, policy>>

(* The author takes the document up again. *)
Revise ==
  /\ phase \in {"ingested", "refused"}
  /\ phase' = "writing"
  /\ tree' = Blank /\ warned' = {} /\ policy' = Blank
  /\ UNCHANGED <<doc, facts>>

AdapterNext ==
  \/ \E path \in Paths(doc), fact \in Facts : State(path, fact)
  \/ Receive \/ Internalize \/ PushDown \/ Split \/ Read \/ Refuse \/ Revise

AdapterSpec == AdapterInit /\ [][AdapterNext]_adapterVars

-------------------------------------------------------------------------------
(***************************************************************************)
(* What a document means, wherever in it things are stated: a rule is      *)
(* about its own actions and targets, or else the policy's, those it or    *)
(* they are said to have included; a duty only about its own.              *)
(***************************************************************************)
Unstated == Iri(NoId)

ValuesOf(n, p) == {get(n, p)[i] : i \in DOMAIN get(n, p)}
Subjects(root, forward, n) ==
  {Iri(ref[1]) : ref \in {ref \in InverseRefs(root)[forward] : ref[2] = n.id}}
Stated(root, n, forward) == ValuesOf(n, forward) \cup Subjects(root, forward, n)

Default(S, default) == IF S = {} THEN {default} ELSE S

RECURSIVE MeantBy(_, _, _, _)
MeantBy(root, n, actions, targets) ==
  LET own == Stated(root, n, "target")
      duties == [p \in DutyLists |->
        UNION {MeantBy(root, value.node, {Unstated}, {Unstated}) :
               value \in {value \in ValuesOf(n, p) : is_node(value)}}]
  IN  {[action |-> a, target |-> t, duties |-> duties, constraints |-> get(n, "constraint")] :
         a \in IF get(n, "action") = <<>> THEN actions ELSE ValuesOf(n, "action"),
         t \in IF own = {} THEN targets ELSE own}

Meaning(root) ==
  IF ~OnePolicy(root) THEN [list \in RuleLists |-> {}]
  ELSE LET p == node_at_path(root, PolicyPath(root)) IN
       [list \in RuleLists |->
          UNION {MeantBy(root, value.node, {Iri(own_action(p))},
                         Default(Stated(root, p, "target"), Unstated)) :
                 value \in {value \in ValuesOf(p, list) : is_node(value)}}]

Parties(root) ==
  IF ~OnePolicy(root) THEN {}
  ELSE LET p == node_at_path(root, PolicyPath(root)) IN
       [forward \in {"assignee", "assigner"} |-> Stated(root, p, forward)]

(* None of the three passes changes what the document means.               *)
EachPassKeepsMeaning ==
  [][phase' \in {"internalized", "pushed", "split"} =>
       Meaning(tree') = Meaning(tree) /\ Parties(tree') = Parties(tree)]_adapterVars

-------------------------------------------------------------------------------
Named(m) == as_string(m.target) # NoId \/ m.target = Unstated

About(m) == <<action_name(m.action), as_string(m.target)>>
HopAbout(hop) == <<hop.action, hop.target>>

(* The hops a document states after a duty, taking the first of several.   *)
RECURSIVE Hops(_)
Hops(n) ==
  IF get(n, "consequence") = <<>> THEN 0
  ELSE IF ~is_node(Successor(n)) THEN 0 ELSE 1 + Hops(Successor(n).node)

ReadHops(i, list, d) ==
  LET r == RulesOf(policy)[list][i] IN
  IF list = "obligation" THEN Len(r.consequence) ELSE Len(r.duties[d]) - 1

DutyChains ==
  {<<i, list, d>> \in (1..3) \X RuleLists \X (1..3) :
     /\ i \in DOMAIN get(ThePolicy, list)
     /\ list # "obligation" => d \in DOMAIN get(get(ThePolicy, list)[i].node, DutyProperty[list])
     /\ list = "obligation" => d = 1}

WrittenHops(i, list, d) ==
  LET n == get(ThePolicy, list)[i].node IN
  IF list = "obligation" THEN Hops(n) ELSE Hops(get(n, DutyProperty[list])[d].node)

Described(list) == Meaning(doc)[list]
AllNamed ==
  \A list \in RuleLists : \A m \in Described(list) :
    Named(m) /\ \A p \in DutyLists : \A d \in m.duties[p] : Named(d)

(* The document means what was read, rule for rule and duty for duty, where *)
(* it names its targets and does not describe them in place; and a chain of *)
(* consequences read shorter than it is written is warned about.            *)
ReadsWhatIsMeant ==
  phase = "ingested" =>
    /\ AllNamed => \A list \in RuleLists :
         LET rules == RulesOf(policy)[list]
             Duties(m) == IF list = "obligation" THEN {} ELSE {About(d) : d \in m.duties[DutyProperty[list]]}
         IN  {<<About(m), Duties(m), Len(m.constraints)>> : m \in Described(list)} =
               {<<HopAbout(rules[i].rule), {HopAbout(rules[i].duties[d][1]) : d \in DOMAIN rules[i].duties},
                  Len(rules[i].rule.constraints)>> : i \in DOMAIN rules}
    /\ \A <<i, list, d>> \in DutyChains :
         ReadHops(i, list, d) # WrittenHops(i, list, d) => list \in warned

-------------------------------------------------------------------------------
(* The policy as the engine sees it, but for the constraints.              *)
Hop(h) == [action |-> h.action, constraints |-> {}, refinement |-> {}]
EngineRule(r) ==
  [action |-> r.rule.action, target |-> IF r.rule.target = NoId THEN NoTarget ELSE r.rule.target,
   constraints |-> {}, refinement |-> {},
   duties |-> [d \in DOMAIN r.duties |-> [h \in DOMAIN r.duties[d] |-> Hop(r.duties[d][h])]]]
EnginePolicy ==
  [permissions |-> [i \in DOMAIN policy.permissions |-> EngineRule(policy.permissions[i])],
   prohibitions |-> [i \in DOMAIN policy.prohibitions |-> EngineRule(policy.prohibitions[i])],
   obligations |-> [i \in DOMAIN policy.obligations |->
     <<Hop(policy.obligations[i].rule)>> \o
       [h \in DOMAIN policy.obligations[i].consequence |-> Hop(policy.obligations[i].consequence[h])]],
   conflict |-> policy.conflict]

(* The minimal configuration leaves the engine no action to stumble over:  *)
(* not in any duty of any rule, and not in a request for what a rule names. *)
MinimalConfigRecognises ==
  phase = "ingested" =>
    /\ ~unrecognized_action(EnginePolicy, minimal_config(policy))
    /\ \A a \in declared_actions(minimal_config(policy).actions), asset \in Asset :
         decide(EnginePolicy, request_for(policy, asset, a)) # "error"

(* Two rules are reported as colliding exactly if the engine would apply    *)
(* both to some request made with that configuration.                       *)
BothApply(r, q) ==
  \E a \in Action, asset \in Asset :
    LET ask == request_for(policy, asset, a) IN
    applies(EngineRule(r), ask) /\ applies(EngineRule(q), ask)

CollisionsAreReal ==
  phase = "ingested" =>
    \A list \in {"permission", "obligation"} :
      LET rules == RulesOf(policy)[list] IN
      Collide(rules, policy.prohibitions) =
        {pair \in (DOMAIN rules) \X (DOMAIN policy.prohibitions) :
           BothApply(rules[pair[1]], policy.prohibitions[pair[2]])}

-------------------------------------------------------------------------------
(* asserted: the values the claims of a request hold for each operand,     *)
(* none where there is no claim.                                           *)
RECURSIVE holds(_, _)
holds(c, asserted) ==
  IF ~IsGroup(c)
    THEN LET values == asserted[c.leftOperand] IN
         \/ c.operator = "eq" /\ c.rightOperand \in values
         \/ c.operator = "neq" /\ values # {} /\ c.rightOperand \notin values
  ELSE LET held == {i \in DOMAIN c.operands : holds(c.operands[i], asserted)} IN
       \/ c.grouping = "xone" /\ Cardinality(held) = 1
       \/ c.grouping = "or" /\ held # {}
       \/ c.grouping \in {"and", "andSequence"} /\ held = DOMAIN c.operands

RECURSIVE Atoms(_)
Atoms(c) == IF IsGroup(c) THEN UNION {Atoms(c.operands[i]) : i \in DOMAIN c.operands} ELSE {c}

RECURSIVE OnlyEqualities(_)
OnlyEqualities(c) ==
  IF IsGroup(c)
    THEN c.grouping \in {"and", "andSequence"} /\ \A i \in DOMAIN c.operands : OnlyEqualities(c.operands[i])
    ELSE c.operator = "eq"

ConstraintLists ==
  UNION {{RulesOf(policy)[list][i].rule.constraints : i \in DOMAIN RulesOf(policy)[list]} :
         list \in RuleLists}

(* The claims that match all constraints of a rule. *)
Matching(constraints) ==
  LET atoms == UNION {Atoms(constraints[c]) : c \in DOMAIN constraints} IN
  {asserted \in [{a.leftOperand : a \in atoms} -> SUBSET {a.rightOperand : a \in atoms}] :
     \A c \in DOMAIN constraints : holds(constraints[c], asserted)}

Single(asserted) == \A left \in DOMAIN asserted : Cardinality(asserted[left]) <= 1

(* A rule reported unsatisfiable matches no claims of one value each: those *)
(* it does match hold several for an operand two equalities disagree on.    *)
(* One that asks for nothing but equalities together and is not reported    *)
(* matches claims of one value each.                                        *)
ReportedNeedsSeveralValues ==
  phase = "ingested" =>
    \A constraints \in ConstraintLists :
      LET reported == unsatisfiable_constraints_in(constraints)
          torn == {a.leftOperand : a \in {a \in Conjuncts(constraints) :
                     \E b \in Conjuncts(constraints) : /\ a.leftOperand = b.leftOperand
                                                       /\ a.rightOperand # b.rightOperand}}
      IN  /\ \A asserted \in Matching(constraints) :
                reported => \E left \in torn : Cardinality(asserted[left]) > 1
          /\ (\A c \in DOMAIN constraints : OnlyEqualities(constraints[c])) =>
                reported \/ \E asserted \in Matching(constraints) : Single(asserted)

===============================================================================
