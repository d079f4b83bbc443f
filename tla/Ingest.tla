-------------------------------- MODULE Ingest --------------------------------
(***************************************************************************)
(* How the DSP adapter reads a JSON-LD policy document into the policy the *)
(* engine takes on the wire, and what it warns about.  Three passes        *)
(* rewrite the node tree it expands to: inverse references are turned      *)
(* round (N1), the targets of the policy are handed to the rules without   *)
(* one, and a rule naming several actions or targets is split into atomic  *)
(* ones (N5).  Names are compact here: odrl:use and its full IRI are one   *)
(* term.                                                                   *)
(***************************************************************************)
EXTENDS Naturals, Sequences, FiniteSets, TLC, Decision

CONSTANTS
  NoId,          \* the @id of a node that has none, and the string of a value that has none
  MAX_WALK_DEPTH \* how deep a document is searched for its policy, and split

ASSUME WalkAssumption == MAX_WALK_DEPTH \in Nat

(* A value is an IRI, a literal or a node object; of the JSON-LD keywords  *)
(* a node keeps its @id and whether its @type is an ODRL policy class.     *)
Iri(x) == [kind |-> "iri", id |-> x]
Literal(x) == [kind |-> "literal", id |-> x]
Inline(n) == [kind |-> "node", node |-> n]
NodeOf(id, isPolicy, props) == [id |-> id, isPolicy |-> isPolicy, props |-> props]

is_node(value) == value.kind = "node"

(* No property is ever kept without a value. *)
get(n, p) == IF p \in DOMAIN n.props THEN n.props[p] ELSE <<>>

push(n, p, values) ==
  IF values = <<>> THEN n
  ELSE [n EXCEPT !.props = (p :> (get(n, p) \o values)) @@ n.props]

Without(n, ps) == [n EXCEPT !.props = [p \in DOMAIN n.props \ ps |-> n.props[p]]]

-------------------------------------------------------------------------------
(* A path leads from the root through a property and the place of a value. *)
Steps(n) == UNION {{<<p, i>> : i \in {i \in DOMAIN n.props[p] : is_node(n.props[p][i])}} :
                   p \in DOMAIN n.props}
Child(n, step) == n.props[step[1]][step[2]].node

RECURSIVE Paths(_)
Paths(n) == {<<>>} \cup UNION {{<<s>> \o path : path \in Paths(Child(n, s))} : s \in Steps(n)}

RECURSIVE node_at_path(_, _)
node_at_path(n, path) ==
  IF path = <<>> THEN n ELSE node_at_path(Child(n, Head(path)), Tail(path))

RECURSIVE Replace(_, _, _)
Replace(n, path, by) ==
  IF path = <<>> THEN by
  ELSE LET s == Head(path) IN
       [n EXCEPT !.props[s[1]][s[2]] = Inline(Replace(Child(n, s), Tail(path), by))]

(* The topmost policy nodes, down to the bound. *)
RECURSIVE collect_policy_nodes(_, _)
collect_policy_nodes(n, depth) ==
  IF depth > MAX_WALK_DEPTH THEN {}
  ELSE IF n.isPolicy THEN {<<>>}
  ELSE UNION {{<<s>> \o path : path \in collect_policy_nodes(Child(n, s), depth + 1)} :
              s \in Steps(n)}

PolicyPaths(root) == collect_policy_nodes(root, 0)
OnePolicy(root) == Cardinality(PolicyPaths(root)) = 1
PolicyPath(root) == CHOOSE path \in PolicyPaths(root) : TRUE

-------------------------------------------------------------------------------
(* N1.  A statement of a node about another is a pair of their names.      *)
Inverse == [target |-> "hasPolicy", assignee |-> "assigneeOf", assigner |-> "assignerOf"]

node_reference_id(value) ==
  CASE value.kind = "iri" -> value.id
    [] value.kind = "node" -> value.node.id
    [] OTHER -> NoId

collect_inverse_refs(root, inverse) ==
  UNION {LET subject == node_at_path(root, path) IN
         {<<subject.id, node_reference_id(get(subject, inverse)[i])>> :
            i \in DOMAIN get(subject, inverse)} : path \in Paths(root)}

(* Neither end can be without a name. *)
InverseRefs(root) ==
  [forward \in DOMAIN Inverse |->
     {ref \in collect_inverse_refs(root, Inverse[forward]) : ref[1] # NoId /\ ref[2] # NoId}]

(* A set as a list: which order it takes only shows in the order of rules. *)
Listed(S) == CHOOSE list \in [1..Cardinality(S) -> S] : \A x \in S : \E i \in DOMAIN list : list[i] = x

(* A slip: a node that has a value already keeps that one. *)
NotYetStated_First(n, forward, subjects) ==
  IF get(n, forward) # <<>> THEN {} ELSE subjects

(* A value is injected unless the node states that very one. *)
NotYetStated(n, forward, subjects) ==
  {x \in subjects : \A i \in DOMAIN get(n, forward) : get(n, forward)[i] # Iri(x)}

inject_iri_if_new(n, forward, refs) ==
  LET subjects == {ref[1] : ref \in {ref \in refs[forward] : ref[2] = n.id}}
      list     == Listed(NotYetStated(n, forward, subjects))
  IN  push(n, forward, [i \in DOMAIN list |-> Iri(list[i])])

RECURSIVE internalized(_, _)
internalized(n, refs) ==
  LET below == [n EXCEPT !.props = [p \in DOMAIN n.props |-> [i \in DOMAIN n.props[p] |->
                  IF is_node(n.props[p][i]) THEN Inline(internalized(n.props[p][i].node, refs))
                  ELSE n.props[p][i]]]]
  IN  inject_iri_if_new(
        inject_iri_if_new(inject_iri_if_new(below, "target", refs), "assignee", refs),
        "assigner", refs)

internalize_inverse_properties(root) == internalized(root, InverseRefs(root))

(* A reference to a name no node of the document has is warned about.      *)
DanglingRefs(root) ==
  LET names == {node_at_path(root, path).id : path \in Paths(root)} IN
  {ref \in UNION {InverseRefs(root)[forward] : forward \in DOMAIN Inverse} : ref[2] \notin names}

-------------------------------------------------------------------------------
RuleLists == {"permission", "prohibition", "obligation"}
DutyLists == {"duty", "remedy", "consequence"}

HandedDown(policy) == get(policy, "target")

(* Each rule stated in place and without a target takes all the policy's.  *)
push_down_policy_level_target(root) ==
  IF ~OnePolicy(root) THEN root
  ELSE LET path   == PolicyPath(root)
           policy == node_at_path(root, path)
           Given(value) ==
             IF is_node(value) /\ get(value.node, "target") = <<>>
               THEN Inline(push(value.node, "target", HandedDown(policy))) ELSE value
       IN  Replace(root, path,
             [policy EXCEPT !.props = [p \in DOMAIN policy.props |->
                IF p \in RuleLists
                  THEN [i \in DOMAIN policy.props[p] |-> Given(policy.props[p][i])]
                  ELSE policy.props[p]]])

-------------------------------------------------------------------------------
Flat(lists) ==
  LET upTo[i \in 0..Len(lists)] == IF i = 0 THEN <<>> ELSE upTo[i - 1] \o lists[i]
  IN  upTo[Len(lists)]

(* None of its own is one variant, not zero. *)
Variants(values) ==
  IF values = <<>> THEN << <<>> >> ELSE [i \in DOMAIN values |-> <<values[i]>>]

IsCompound(n) == Len(get(n, "action")) > 1 \/ Len(get(n, "target")) > 1

(* One clone for each pair of an action and a target. *)
expand_one_rule(n) ==
  LET actions == Variants(get(n, "action"))
      targets == Variants(get(n, "target"))
      bare    == Without(n, {"action", "target"})
  IN  IF ~IsCompound(n) THEN <<n>>
      ELSE [k \in 1..(Len(actions) * Len(targets)) |->
              push(push(bare, "action", actions[((k - 1) \div Len(targets)) + 1]),
                   "target", targets[((k - 1) % Len(targets)) + 1])]

SplitValue(value) ==
  IF ~is_node(value) THEN <<value>>
  ELSE LET rules == expand_one_rule(value.node) IN [k \in DOMAIN rules |-> Inline(rules[k])]

(* N5: rules and duties, wherever they hang, down to the bound.            *)
RECURSIVE expand_compound_rules_at(_, _)
expand_compound_rules_at(n, depth) ==
  IF depth > MAX_WALK_DEPTH THEN n
  ELSE LET Split(p) == IF p \in RuleLists \cup DutyLists
                         THEN Flat([i \in DOMAIN n.props[p] |-> SplitValue(n.props[p][i])])
                         ELSE n.props[p]
           Below(value) == IF is_node(value)
                             THEN Inline(expand_compound_rules_at(value.node, depth + 1))
                             ELSE value
       IN  [n EXCEPT !.props = [p \in DOMAIN n.props |->
              LET split == Split(p) IN [i \in DOMAIN split |-> Below(split[i])]]]

expand_compound_rules(root) == expand_compound_rules_at(root, 0)

-------------------------------------------------------------------------------
CONSTANT MAX_CONSTRAINT_DEPTH

ASSUME ConstraintDepthAssumption == MAX_CONSTRAINT_DEPTH \in Nat

-------------------------------------------------------------------------------
(* The string a value carries: a node that says anything has none.         *)
as_string(value) ==
  IF ~is_node(value) THEN value.id
  ELSE IF DOMAIN value.node.props = {} THEN value.node.id
  ELSE NoId

first_string(n, p) == IF get(n, p) = <<>> THEN NoId ELSE as_string(get(n, p)[1])

Strings(n, p) ==
  LET Kept(value) == as_string(value) # NoId IN
  LET kept == SelectSeq(get(n, p), Kept) IN [i \in DOMAIN kept |-> as_string(kept[i])]

Or(first, second) == IF first # NoId THEN first ELSE second

(* The term an action is named by: its rdf:value, or its own @id.          *)
action_name(value) ==
  IF is_node(value) THEN Or(first_string(value.node, "value"), value.node.id) ELSE value.id

own_action(n) == IF get(n, "action") = <<>> THEN NoId ELSE action_name(get(n, "action")[1])

(* The policy's action serves only the rules that state none of their own. *)
action_from(n, policyAction) == IF get(n, "action") = <<>> THEN policyAction ELSE own_action(n)

-------------------------------------------------------------------------------
(* Constraints.  Of the lists a hand-written object carries the engine     *)
(* evaluates one, and the adapter must pick the same.                      *)
Groupings == <<"xone", "or", "and", "andSequence">>
Grouping(n) ==
  LET carried == {g \in DOMAIN Groupings : get(n, Groupings[g]) # <<>>} IN
  IF carried = {} THEN "none" ELSE Groupings[CHOOSE g \in carried : \A h \in carried : g <= h]

Atom(left, operator, right) == [leftOperand |-> left, operator |-> operator, rightOperand |-> right]
Group(g, operands) == [grouping |-> g, operands |-> operands]
IsGroup(c) == "grouping" \in DOMAIN c

(* What is not read in full is refused: without it the rule would be less  *)
(* constrained.                                                            *)
RECURSIVE constraint_readable(_, _)
constraint_readable(value, depth) ==
  /\ is_node(value)
  /\ depth <= MAX_CONSTRAINT_DEPTH
  /\ LET n == value.node
         g == Grouping(n)
     IN  IF g # "none"
           THEN \A i \in DOMAIN get(n, g) : constraint_readable(get(n, g)[i], depth + 1)
           ELSE /\ first_string(n, "leftOperand") # NoId
                /\ first_string(n, "operator") \in Operators
                /\ Strings(n, "rightOperand") # <<>>

(* The strings of a right operand are joined, in order. *)
RECURSIVE constraint_from(_)
constraint_from(n) ==
  LET g == Grouping(n) IN
  IF g # "none"
    THEN Group(g, [i \in DOMAIN get(n, g) |-> constraint_from(get(n, g)[i].node)])
    ELSE Atom(first_string(n, "leftOperand"), first_string(n, "operator"),
              Strings(n, "rightOperand"))

constraints_readable(n, p) == \A i \in DOMAIN get(n, p) : constraint_readable(get(n, p)[i], 0)
constraints_from(n, p) == [i \in DOMAIN get(n, p) |-> constraint_from(get(n, p)[i].node)]

(* The refinements of an action stated as a node, read as a conjunction.   *)
ActionNodes(n) ==
  IF get(n, "action") # <<>> /\ is_node(get(n, "action")[1])
    THEN {get(n, "action")[1].node} ELSE {}
refinement_from(n) ==
  UNION {{constraints_from(a, "refinement")[i] : i \in DOMAIN get(a, "refinement")} :
         a \in ActionNodes(n)}

hop_readable(n, policyAction) ==
  /\ action_from(n, policyAction) # NoId
  /\ constraints_readable(n, "constraint")
  /\ \A a \in ActionNodes(n) : constraints_readable(a, "refinement")

hop_from(n, policyAction, policyTarget) ==
  [action |-> action_from(n, policyAction),
   target |-> Or(first_string(n, "target"), policyTarget),
   constraints |-> constraints_from(n, "constraint"),
   refinement |-> refinement_from(n)]

-------------------------------------------------------------------------------
(* Duties.  Only the first successor is taken, and none past the bound; a  *)
(* duty of a rule starts its successors at 1, an obligation its at 0.  No  *)
(* duty inherits an action or a target.                                    *)
HasSuccessor(n, depth) == get(n, "consequence") # <<>> /\ depth < MaxConsequenceDepth
Successor(n) == get(n, "consequence")[1]

RECURSIVE consequence_readable(_, _)
consequence_readable(n, depth) ==
  HasSuccessor(n, depth) =>
    /\ is_node(Successor(n))
    /\ hop_readable(Successor(n).node, NoId)
    /\ consequence_readable(Successor(n).node, depth + 1)

RECURSIVE consequence_from(_, _)
consequence_from(n, depth) ==
  IF ~HasSuccessor(n, depth) THEN <<>>
  ELSE <<hop_from(Successor(n).node, NoId, NoId)>> \o consequence_from(Successor(n).node, depth + 1)

(* What a rule may say and the engine has no place for. *)
UNEVALUATED_RULE_PROPERTIES == {"output", "assignee", "assigner", "relation"}

HopWarns(n) ==
  Len(get(n, "action")) > 1 \/ \E p \in UNEVALUATED_RULE_PROPERTIES : get(n, p) # <<>>

DutyWarns(n) == HopWarns(n) \/ get(n, "duty") # <<>> \/ get(n, "remedy") # <<>>

RECURSIVE consequence_warns(_, _)
consequence_warns(n, depth) ==
  \/ Len(get(n, "consequence")) > 1
  \/ get(n, "consequence") # <<>> /\ depth >= MaxConsequenceDepth
  \/ /\ HasSuccessor(n, depth)
     /\ DutyWarns(Successor(n).node) \/ consequence_warns(Successor(n).node, depth + 1)

duty_from(n) == <<hop_from(n, NoId, NoId)>> \o consequence_from(n, 1)

duties_readable(n, p) ==
  \A i \in DOMAIN get(n, p) :
    /\ is_node(get(n, p)[i])
    /\ hop_readable(get(n, p)[i].node, NoId)
    /\ consequence_readable(get(n, p)[i].node, 1)

duties_from(n, p) == [i \in DOMAIN get(n, p) |-> duty_from(get(n, p)[i].node)]

-------------------------------------------------------------------------------
(* Rules.  Of the three duty properties each list reads one, and names the *)
(* others in a warning.                                                    *)
DutyProperty == [permission |-> "duty", prohibition |-> "remedy", obligation |-> "consequence"]

rule_readable(n, list, policyAction) ==
  /\ hop_readable(n, policyAction)
  /\ IF list = "obligation" THEN consequence_readable(n, 0)
     ELSE duties_readable(n, DutyProperty[list])

rule_from(n, list, policyAction, policyTarget) ==
  [rule |-> hop_from(n, policyAction, policyTarget),
   duties |-> IF list = "obligation" THEN <<>> ELSE duties_from(n, DutyProperty[list]),
   consequence |-> IF list = "obligation" THEN consequence_from(n, 0) ELSE <<>>]

(* A rule that is only referred to is refused: a dropped prohibition would *)
(* fail open.                                                              *)
rules_readable(n, list) ==
  \A i \in DOMAIN get(n, list) :
    is_node(get(n, list)[i]) /\ rule_readable(get(n, list)[i].node, list, own_action(n))

rules_from(n, list) ==
  [i \in DOMAIN get(n, list) |->
     rule_from(get(n, list)[i].node, list, own_action(n), first_string(n, "target"))]

conflict_strategy_from(term) ==
  IF term \in {"perm", "prohibit", "invalid"} THEN term ELSE "invalid"

policy_readable(n) == \A list \in RuleLists : rules_readable(n, list)

policy_from(n) ==
  [id |-> n.id,
   assigner |-> first_string(n, "assigner"), assignee |-> first_string(n, "assignee"),
   permissions |-> rules_from(n, "permission"), prohibitions |-> rules_from(n, "prohibition"),
   obligations |-> rules_from(n, "obligation"),
   conflict |-> conflict_strategy_from(first_string(n, "conflict")),
   inheritFrom |-> Strings(n, "inheritFrom")]

RuleWarns(n, list) ==
  \/ HopWarns(n) \/ \E p \in DutyLists \ {DutyProperty[list]} : get(n, p) # <<>>
  \/ list = "obligation" /\ consequence_warns(n, 0)
  \/ list # "obligation" /\ \E i \in DOMAIN get(n, DutyProperty[list]) :
       LET duty == get(n, DutyProperty[list])[i].node IN DutyWarns(duty) \/ consequence_warns(duty, 1)

(* The warnings of reading a policy, by what they are about. *)
ReadingWarnings(n) ==
  {p \in {"id"} : n.id = NoId} \cup {p \in {"assigner"} : first_string(n, p) = NoId}
    \cup {p \in {"action"} : Len(get(n, p)) > 1} \cup {p \in {"profile"} : get(n, p) # <<>>}
    \cup {p \in {"conflict"} :
            first_string(n, p) \notin {NoId, "perm", "prohibit", "invalid"}}
    \cup {list \in RuleLists : \E i \in DOMAIN get(n, list) : RuleWarns(get(n, list)[i].node, list)}

===============================================================================
