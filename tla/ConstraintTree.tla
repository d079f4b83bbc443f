----------------------------- MODULE ConstraintTree ---------------------------
(***************************************************************************)
(* Logical constraints: odrl:and, odrl:or, odrl:xone and odrl:andSequence  *)
(* nested to any depth over atoms, and the four walks the engine makes of  *)
(* such a tree: the verdict, its detailed report, its wording in a trace   *)
(* and the claim keys it tells a host to gather.  Each stops at the same   *)
(* depth.  A tree is grown a node at a time, as its author nests it, and   *)
(* asked about as its claims come and go.                                  *)
(***************************************************************************)
EXTENDS Constraints, Naturals, Sequences, FiniteSets

CONSTANTS
  MAX_CONSTRAINT_DEPTH,
  Atoms,        \* the atomic constraints a tree may hold
  Shapes,       \* the sets of logical fields an object may carry
  MaxNodes      \* bound: the nodes of a tree

LogicalFields == {"xone", "or", "and", "andSequence"}

ASSUME TreeAssumption ==
  /\ MAX_CONSTRAINT_DEPTH \in Nat /\ MaxNodes \in Nat
  /\ Atoms \subseteq Constraint
  /\ Shapes \subseteq (SUBSET LogicalFields) \ {{}}

VARIABLES
  tree,         \* the nodes, the root first, every parent before its children
  claims

treeVars == <<tree, claims>>

is_logical(node) == node.fields # {}

(* The one list an object is evaluated by. *)
Combining(node) ==
  IF "xone" \in node.fields THEN "xone"
  ELSE IF "or" \in node.fields THEN "or"
  ELSE IF "and" \in node.fields THEN "and"
  ELSE "andSequence"

Children(n) == {m \in DOMAIN tree : tree[m].parent = n}
logical_children(n) == {m \in Children(n) : tree[m].field = Combining(tree[n])}

depth[n \in DOMAIN tree] ==
  IF tree[n].parent = 0 THEN 0 ELSE depth[tree[n].parent] + 1

(* A slip: a branch too deep to read counts as satisfied. *)
Within_Credited(n, bound, verdict) == depth[n] <= bound => verdict

(* A branch too deep to read is a non-match. *)
Within(n, bound, verdict) == depth[n] <= bound /\ verdict

evaluate_bounded(asserted, bound) ==
  LET sat[n \in DOMAIN tree] ==
        Within(n, bound,
          IF is_logical(tree[n])
            THEN combine(Combining(tree[n]), logical_children(n),
                         {m \in logical_children(n) : sat[m]})
            ELSE evaluate(tree[n].atom, asserted))
  IN  sat[1]

evaluate_tree(asserted) == evaluate_bounded(asserted, MAX_CONSTRAINT_DEPTH)

-------------------------------------------------------------------------------
(* Nodes the report and the trace reach: those on the list each ancestor   *)
(* is evaluated by, down to the first ones past the bound.                 *)
Reached ==
  LET reached[n \in DOMAIN tree] ==
        \/ n = 1
        \/ /\ reached[tree[n].parent]
           /\ n \in logical_children(tree[n].parent)
           /\ depth[tree[n].parent] <= MAX_CONSTRAINT_DEPTH
  IN  {n \in DOMAIN tree : reached[n]}

ReportedChildren(n) == logical_children(n)

(* The satisfaction state of every reported node. *)
evaluate_report ==
  LET state[n \in DOMAIN tree] ==
        IF depth[n] > MAX_CONSTRAINT_DEPTH THEN "Unsatisfied"
        ELSE IF is_logical(tree[n])
          THEN IF combine(Combining(tree[n]), ReportedChildren(n),
                          {m \in ReportedChildren(n) : state[m] = "Satisfied"})
                 THEN "Satisfied" ELSE "Unsatisfied"
        ELSE IF evaluate(tree[n].atom, claims) THEN "Satisfied" ELSE "Unsatisfied"
  IN  [n \in Reached |-> state[n]]

(* The keys the wording of a trace names. *)
describe_constraint ==
  {tree[n].atom.leftOperand :
     n \in {n \in Reached : ~is_logical(tree[n]) /\ depth[n] <= MAX_CONSTRAINT_DEPTH}}

(* A slip: an off-by-one at the bound. *)
collect_left_operands_Short ==
  {tree[n].atom.leftOperand :
     n \in {n \in DOMAIN tree : ~is_logical(tree[n]) /\ depth[n] < MAX_CONSTRAINT_DEPTH}}

(* The keys reported to a host: on every list, evaluated by or not. *)
collect_left_operands ==
  {tree[n].atom.leftOperand :
     n \in {n \in DOMAIN tree : ~is_logical(tree[n]) /\ depth[n] <= MAX_CONSTRAINT_DEPTH}}

-------------------------------------------------------------------------------
Leaf(c, parent, field) == [fields |-> {}, atom |-> c, parent |-> parent, field |-> field]

(* The atomic fields of a logical object take a default, whatever it is. *)
DefaultAtom == CHOOSE c \in Atoms : TRUE
Group(fields, parent, field) ==
  [fields |-> fields, atom |-> DefaultAtom, parent |-> parent, field |-> field]

TreeInit ==
  /\ tree \in {<<Leaf(c, 0, "and")>> : c \in Atoms}
                \cup {<<Group(fields, 0, "and")>> : fields \in Shapes}
  /\ claims = <<>>

(* One more operand on a list of a logical object; level by level, so that *)
(* each tree is grown once.                                                *)
Nest(node) ==
  /\ Len(tree) < MaxNodes
  /\ node.field \in tree[node.parent].fields
  /\ node.parent >= tree[Len(tree)].parent
  /\ tree' = Append(tree, node)
  /\ UNCHANGED claims

AssertClaim(k, held) ==
  /\ claims' = [j \in DOMAIN claims \cup {k} |-> IF j = k THEN held ELSE claims[j]]
  /\ UNCHANGED tree

RetractClaim(k) ==
  /\ k \in DOMAIN claims
  /\ claims' = [j \in DOMAIN claims \ {k} |-> claims[j]]
  /\ UNCHANGED tree

TreeNext ==
  \/ \E n \in DOMAIN tree, field \in LogicalFields :
       \/ \E c \in Atoms : Nest(Leaf(c, n, field))
       \/ \E fields \in Shapes : Nest(Group(fields, n, field))
  \/ \E k \in Key, held \in SUBSET Value : AssertClaim(k, held)
  \/ \E k \in Key : RetractClaim(k)

TreeSpec == TreeInit /\ [][TreeNext]_treeVars

-------------------------------------------------------------------------------
(* The detailed report tells the verdict, and accounts for it: each node   *)
(* of it is in the state its own reported operands give it.                *)
ReportAgrees ==
  /\ (evaluate_report[1] = "Satisfied") = evaluate_tree(claims)
  /\ \A n \in Reached : is_logical(tree[n]) /\ depth[n] <= MAX_CONSTRAINT_DEPTH =>
       LET shown == logical_children(n) \cap Reached IN
       (evaluate_report[n] = "Satisfied") =
          combine(Combining(tree[n]), shown, {m \in shown : evaluate_report[m] = "Satisfied"})

Groups == {n \in DOMAIN tree : is_logical(tree[n])}

(* Where no odrl:xone is involved, refusing to read past the bound loses   *)
(* matches and never makes one.                                            *)
CutNeverCredits ==
  (\A n \in Groups : Combining(tree[n]) # "xone") =>
    (evaluate_tree(claims) => evaluate_bounded(claims, MaxNodes))

Asserted(asserted, k) == IF k \in DOMAIN asserted THEN {asserted[k]} ELSE {}

(* A claim that turns the verdict is one the host was told to gather and   *)
(* one the trace names, however deep the atom that reads it.               *)
VerdictTurnsOnReportedClaims ==
  [][tree' = tree /\ evaluate_tree(claims') # evaluate_tree(claims) =>
       \E k \in collect_left_operands \cap describe_constraint :
         Asserted(claims', k) # Asserted(claims, k)]_treeVars

===============================================================================
