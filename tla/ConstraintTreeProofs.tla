------------------------- MODULE ConstraintTreeProofs -------------------------
(***************************************************************************)
(* The walks the engine makes of a constraint agree on every tree, however *)
(* deep and wide, and on every claims map; and what the compliance runner  *)
(* sends of a tree asks what the tree asks.                                *)
(***************************************************************************)
EXTENDS Dnf, FiniteSetTheorems, WellFoundedInduction, TLAPS

LEMMA LeastNat ==
  ASSUME NEW S \in SUBSET Nat, S # {}
  PROVE  \E i \in S : \A j \in S : i <= j
<1> DEFINE R == OpToRel(<, Nat)
<1>1. IsWellFoundedOn(R, Nat)
  BY NatLessThanWellFounded
<1> HIDE DEF R
<1>2. PICK i \in S : \A j \in S : ~ (<<j, i>> \in R)
  BY <1>1, WFMin
<1>3. \A j \in S : <<j, i>> \in R <=> j < i
  BY DEF R, OpToRel
<1>4. \A j \in S : ~ (j < i)
  BY <1>2, <1>3, Zenon
<1>5. \A j \in S : i <= j
  BY <1>4, SMT
<1> QED
  BY <1>5

Ranking(S) == [S -> Nat]
RankingTo(M, S) == [S -> 0..M]

Inductive(S, rank, Good) ==
  \A n \in S : (\A m \in S : rank[m] < rank[n] => m \in Good) => n \in Good

(* What holds of each node when it holds of those ranked below it holds of *)
(* every node.                                                             *)
LEMMA InductBy ==
  ASSUME NEW S, NEW rank \in Ranking(S), NEW Good, Inductive(S, rank, Good)
  PROVE  S \subseteq Good
<1> USE DEF Ranking, Inductive
<1> SUFFICES ASSUME S \ Good # {}
             PROVE  FALSE
  OBVIOUS
<1> DEFINE Ranks == {rank[n] : n \in S \ Good}
<1>1. Ranks \in SUBSET Nat /\ Ranks # {}
  OBVIOUS
<1>2. PICK r \in Ranks : \A q \in Ranks : r <= q
  BY <1>1, LeastNat
<1>3. PICK n \in S \ Good : r = rank[n]
  BY <1>2
<1>4. ASSUME NEW m \in S, rank[m] < rank[n]
      PROVE  m \in Good
  <2> SUFFICES ASSUME m \notin Good
               PROVE  FALSE
    OBVIOUS
  <2>1. rank[m] \in Ranks /\ rank[n] \in Nat /\ rank[m] \in Nat
    BY <1>3
  <2>2. r <= rank[m]
    BY <1>2, <2>1
  <2> QED
    BY <1>3, <1>4, <2>1, <2>2
<1> QED
  BY <1>3, <1>4

(* A recursive definition that looks only at entries ranked below has a    *)
(* solution.  step gives the entry a node has, given the entries so far.   *)
Steps(S, D) == [S -> [[S -> D] -> D]]

LooksBelow(step, rank, S, D) ==
  \A n \in S : \A f, g \in [S -> D] :
    (\A m \in S : rank[m] < rank[n] => f[m] = g[m]) => step[n][f] = step[n][g]

Solution(f, step, S, D) == f \in [S -> D] /\ \A n \in S : f[n] = step[n][f]

LEMMA RecursionBy ==
  ASSUME NEW S, NEW D, D # {}, NEW M \in Nat, NEW rank \in RankingTo(M, S),
         NEW step \in Steps(S, D), LooksBelow(step, rank, S, D)
  PROVE  \E f : Solution(f, step, S, D)
<1> USE DEF RankingTo, Solution
<1> DEFINE Solves(f, d) == \A n \in S : rank[n] < d => f[n] = step[n][f]
           Good == {d \in 0..(M + 1) : \E f \in [S -> D] : Solves(f, d)}
           R == [d \in 0..(M + 1) |-> d]
<1>1. ASSUME NEW d \in 0..(M + 1), \A e \in 0..(M + 1) : R[e] < R[d] => e \in Good
      PROVE  d \in Good
  <2>1. CASE d = 0
    <3>1. PICK v \in D : TRUE
      OBVIOUS
    <3> DEFINE f == [n \in S |-> v]
    <3>2. f \in [S -> D]
      OBVIOUS
    <3>3. Solves(f, 0)
      OBVIOUS
    <3> QED
      BY <2>1, <3>2, <3>3
  <2>2. CASE d # 0
    <3>1. d - 1 \in 0..(M + 1) /\ d - 1 < d
      BY <2>2
    <3>2. PICK f \in [S -> D] : Solves(f, d - 1)
      BY <1>1, <3>1
    <3> DEFINE g == [n \in S |-> IF rank[n] = d - 1 THEN step[n][f] ELSE f[n]]
    <3>3. g \in [S -> D]
      BY DEF Steps
    <3>4. \A m \in S : rank[m] < d - 1 => g[m] = f[m]
      OBVIOUS
    <3>5. \A m \in S : rank[m] = d - 1 => g[m] = step[m][f]
      OBVIOUS
    <3> HIDE DEF g
    <3>6. ASSUME NEW n \in S, rank[n] < d
          PROVE  g[n] = step[n][g]
      <4>1. rank[n] <= d - 1 /\ rank[n] \in Nat
        BY <3>6
      <4>2. \A m \in S : rank[m] < rank[n] => f[m] = g[m]
        BY <3>4, <4>1
      <4>3. step[n][f] = step[n][g]
        BY <3>3, <4>2 DEF LooksBelow
      <4>4. CASE rank[n] = d - 1
        BY <3>5, <4>3, <4>4
      <4>5. CASE rank[n] < d - 1
        <5>1. g[n] = f[n] /\ f[n] = step[n][f]
          BY <3>2, <3>4, <4>5
        <5> QED
          BY <4>3, <5>1
      <4> QED
        BY <4>1, <4>4, <4>5
    <3>7. Solves(g, d)
      BY <3>6
    <3> QED
      BY <3>3, <3>7
  <2> QED
    BY <2>1, <2>2
<1>2. R \in Ranking(0..(M + 1)) /\ M + 1 \in 0..(M + 1)
  BY DEF Ranking
<1> HIDE DEF Good, R
<1>3. Inductive(0..(M + 1), R, Good)
  BY <1>1 DEF Inductive
<1>4. 0..(M + 1) \subseteq Good
  BY <1>2, <1>3, InductBy
<1>5. PICK f \in [S -> D] : Solves(f, M + 1)
  BY <1>2, <1>4 DEF Good
<1>6. \A n \in S : rank[n] < M + 1
  OBVIOUS
<1> QED
  BY <1>5, <1>6

-------------------------------------------------------------------------------
(* The tree an author nests: a root, and every parent before its children. *)
Node ==
  {node \in [fields : SUBSET LogicalFields, atom : Atoms \cup {DefaultAtom}, parent : Nat,
            field : LogicalFields] : is_logical(node) \/ node.atom \in Atoms}

TreeInv ==
  /\ tree \in Seq(Node) /\ tree # <<>> /\ (Len(tree) <= MaxNodes \/ Len(tree) = 1)
  /\ \A n \in DOMAIN tree : IF n = 1 THEN tree[n].parent = 0 ELSE tree[n].parent \in 1..(n - 1)

LEMMA LeafIsNode ==
  ASSUME NEW c \in Atoms, NEW n \in Nat, NEW field \in LogicalFields
  PROVE  Leaf(c, n, field) \in Node /\ Leaf(c, n, field).parent = n
BY DEF Leaf, Node

LEMMA GroupIsNode ==
  ASSUME NEW fields \in Shapes, NEW n \in Nat, NEW field \in LogicalFields
  PROVE  Group(fields, n, field) \in Node /\ Group(fields, n, field).parent = n
<1>1. fields \in SUBSET LogicalFields /\ fields # {}
  BY TreeAssumption
<1>2. is_logical(Group(fields, n, field)) /\ Group(fields, n, field).parent = n
  BY <1>1 DEF Group, is_logical
<1>3. Group(fields, n, field) \in
        [fields : SUBSET LogicalFields, atom : Atoms \cup {DefaultAtom}, parent : Nat,
         field : LogicalFields]
  BY <1>1 DEF Group
<1> QED
  BY <1>2, <1>3 DEF Node

LEMMA TreeStarts ==
  ASSUME TreeInit
  PROVE  TreeInv
<1>1. PICK node \in Node : tree = <<node>> /\ node.parent = 0
  <2>1. CASE \E c \in Atoms : tree = <<Leaf(c, 0, "and")>>
    BY <2>1, LeafIsNode DEF LogicalFields
  <2>2. CASE \E fields \in Shapes : tree = <<Group(fields, 0, "and")>>
    BY <2>2, GroupIsNode DEF LogicalFields
  <2> QED
    BY <2>1, <2>2 DEF TreeInit
<1> QED
  BY <1>1 DEF TreeInv

LEMMA NestKeeps ==
  ASSUME TreeInv, NEW node \in Node, node.parent \in DOMAIN tree, Nest(node)
  PROVE  TreeInv'
<1>1. /\ tree' \in Seq(Node) /\ tree' # <<>> /\ Len(tree') = Len(tree) + 1
      /\ Len(tree) \in Nat /\ DOMAIN tree = 1..Len(tree) /\ DOMAIN tree' = 1..(Len(tree) + 1)
      /\ tree'[Len(tree) + 1] = node /\ \A n \in DOMAIN tree : tree'[n] = tree[n]
      /\ Len(tree) < MaxNodes /\ Len(tree) # 0
  BY DEF TreeInv, Nest
<1>2. Len(tree') <= MaxNodes
  BY <1>1, TreeAssumption
<1>3. ASSUME NEW n \in DOMAIN tree'
      PROVE  IF n = 1 THEN tree'[n].parent = 0 ELSE tree'[n].parent \in 1..(n - 1)
  <2>1. CASE n \in DOMAIN tree
    BY <1>1, <2>1 DEF TreeInv
  <2>2. CASE n = Len(tree) + 1
    BY <1>1, <2>2
  <2> QED
    BY <1>1, <2>1, <2>2
<1> QED
  BY <1>1, <1>2, <1>3 DEF TreeInv

LEMMA TreeStep ==
  ASSUME TreeInv, [TreeNext]_treeVars
  PROVE  TreeInv'
<1>1. ASSUME NEW n \in DOMAIN tree, NEW field \in LogicalFields, NEW c \in Atoms,
             Nest(Leaf(c, n, field))
      PROVE  TreeInv'
  <2>1. Leaf(c, n, field) \in Node /\ Leaf(c, n, field).parent = n
    BY LeafIsNode DEF TreeInv
  <2> QED
    BY <1>1, <2>1, NestKeeps
<1>2. ASSUME NEW n \in DOMAIN tree, NEW field \in LogicalFields, NEW fields \in Shapes,
             Nest(Group(fields, n, field))
      PROVE  TreeInv'
  <2>1. Group(fields, n, field) \in Node /\ Group(fields, n, field).parent = n
    BY GroupIsNode DEF TreeInv
  <2> QED
    BY <1>2, <2>1, NestKeeps
<1>3. ASSUME UNCHANGED tree
      PROVE  TreeInv'
  BY <1>3 DEF TreeInv
<1> QED
  BY <1>1, <1>2, <1>3 DEF TreeNext, AssertClaim, RetractClaim, treeVars

THEOREM TreeInvCorrect ==
  TreeSpec => []TreeInv
<1>1. TreeInit => TreeInv
  BY TreeStarts
<1>2. TreeInv /\ [TreeNext]_treeVars => TreeInv'
  BY TreeStep
<1> QED
  BY <1>1, <1>2, PTL DEF TreeSpec

-------------------------------------------------------------------------------
(* Nodes from the root down, and from the leaves up.                       *)
Downward == [n \in DOMAIN tree |-> n]
Upward == [n \in DOMAIN tree |-> Len(tree) - n]

LEMMA Ranks ==
  ASSUME TreeInv
  PROVE  /\ Len(tree) \in Nat /\ DOMAIN tree = 1..Len(tree) /\ 1 \in DOMAIN tree
         /\ Downward \in Ranking(DOMAIN tree) /\ Downward \in RankingTo(Len(tree), DOMAIN tree)
         /\ Upward \in Ranking(DOMAIN tree) /\ Upward \in RankingTo(Len(tree), DOMAIN tree)
         /\ \A n \in DOMAIN tree : \A m \in logical_children(n) :
              m \in DOMAIN tree /\ tree[m].parent = n /\ Upward[m] < Upward[n]
         /\ \A n \in DOMAIN tree : tree[n].parent = 0 <=> n = 1
         /\ \A n \in DOMAIN tree : n # 1 =>
              tree[n].parent \in DOMAIN tree /\ Downward[tree[n].parent] < Downward[n]
<1>1. Len(tree) \in Nat /\ DOMAIN tree = 1..Len(tree) /\ 1 \in DOMAIN tree
  BY DEF TreeInv
<1>2. \A n \in DOMAIN tree :
        IF n = 1 THEN tree[n].parent = 0 ELSE tree[n].parent \in 1..(n - 1)
  BY DEF TreeInv
<1>3. \A n \in DOMAIN tree : tree[n].parent = 0 <=> n = 1
  BY <1>1, <1>2
<1>4. \A n \in DOMAIN tree : n # 1 =>
        tree[n].parent \in DOMAIN tree /\ Downward[tree[n].parent] < Downward[n]
  BY <1>1, <1>2 DEF Downward
<1>5. ASSUME NEW n \in DOMAIN tree, NEW m \in logical_children(n)
      PROVE  m \in DOMAIN tree /\ tree[m].parent = n /\ Upward[m] < Upward[n]
  <2>1. m \in DOMAIN tree /\ tree[m].parent = n
    BY DEF logical_children, Children
  <2>2. m # 1 /\ n \in 1..(m - 1)
    BY <1>1, <1>2, <2>1
  <2> QED
    BY <1>1, <2>1, <2>2 DEF Upward
<1>6. /\ Downward \in Ranking(DOMAIN tree) /\ Downward \in RankingTo(Len(tree), DOMAIN tree)
      /\ Upward \in Ranking(DOMAIN tree) /\ Upward \in RankingTo(Len(tree), DOMAIN tree)
  BY <1>1 DEF Downward, Upward, Ranking, RankingTo
<1> QED
  BY <1>1, <1>3, <1>4, <1>5, <1>6

(* The depth of a node is below its place in the tree.                     *)
LEMMA DepthIs ==
  ASSUME TreeInv
  PROVE  /\ depth \in [DOMAIN tree -> Nat]
         /\ \A n \in DOMAIN tree :
              depth[n] = IF tree[n].parent = 0 THEN 0 ELSE depth[tree[n].parent] + 1
         /\ \A n \in DOMAIN tree : depth[n] < n
<1> DEFINE S == DOMAIN tree
           step == [n \in S |-> [f \in [S -> Nat] |->
                     IF tree[n].parent = 0 THEN 0 ELSE f[tree[n].parent] + 1]]
           Runs(g) == g = [n \in S |-> IF tree[n].parent = 0 THEN 0 ELSE g[tree[n].parent] + 1]
<1>1. step \in Steps(S, Nat)
  BY Ranks DEF Steps
<1>2. LooksBelow(step, Downward, S, Nat)
  BY Ranks DEF LooksBelow
<1>3. \A n \in S : \A f \in [S -> Nat] :
        step[n][f] = IF tree[n].parent = 0 THEN 0 ELSE f[tree[n].parent] + 1
  OBVIOUS
<1> HIDE DEF step
<1>4. PICK f \in [S -> Nat] : \A n \in S : f[n] = step[n][f]
  <2>1. Nat # {} /\ Len(tree) \in Nat /\ Downward \in RankingTo(Len(tree), S)
    BY Ranks
  <2>2. \E f : Solution(f, step, S, Nat)
    BY <1>1, <1>2, <2>1, RecursionBy
  <2> QED
    BY <2>2 DEF Solution
<1>5. Runs(f)
  BY <1>3, <1>4
<1>6. Runs(depth)
  BY <1>5 DEF depth
<1>7. Inductive(S, Downward, {n \in S : depth[n] \in Nat /\ depth[n] < n})
  <2> SUFFICES ASSUME NEW n \in S,
                      \A m \in S : Downward[m] < Downward[n] => depth[m] \in Nat /\ depth[m] < m
               PROVE  depth[n] \in Nat /\ depth[n] < n
    BY DEF Inductive
  <2>1. n \in Nat /\ n # 0
    BY Ranks
  <2>2. depth[n] = IF tree[n].parent = 0 THEN 0 ELSE depth[tree[n].parent] + 1
    BY <1>6
  <2>3. CASE tree[n].parent = 0
    BY <2>1, <2>2, <2>3
  <2>4. CASE tree[n].parent # 0
    <3> DEFINE m == tree[n].parent
    <3>1. m \in S /\ Downward[m] < Downward[n] /\ m \in Nat /\ m < n
      BY <2>4, Ranks DEF Downward
    <3> QED
      BY <2>1, <2>2, <2>4, <3>1
  <2> QED
    BY <2>3, <2>4
<1>8. S \subseteq {n \in S : depth[n] \in Nat /\ depth[n] < n}
  BY <1>7, Ranks, InductBy
<1> QED
  BY <1>6, <1>8

-------------------------------------------------------------------------------
(* The verdict: what each node's operands make of it.                      *)
Verdict(n, sat, asserted, bound) ==
  Within(n, bound,
    IF is_logical(tree[n])
      THEN combine(Combining(tree[n]), logical_children(n),
                   {m \in logical_children(n) : sat[m]})
      ELSE evaluate(tree[n].atom, asserted))

Satisfies(sat, asserted, bound) ==
  /\ sat \in [DOMAIN tree -> BOOLEAN]
  /\ \A n \in DOMAIN tree : sat[n] <=> Verdict(n, sat, asserted, bound)
  /\ evaluate_bounded(asserted, bound) = sat[1]

LEMMA SatIs ==
  ASSUME TreeInv, NEW asserted, NEW bound
  PROVE  \E sat : Satisfies(sat, asserted, bound)
<1> DEFINE S == DOMAIN tree
           step == [n \in S |-> [f \in [S -> BOOLEAN] |-> Verdict(n, f, asserted, bound)]]
           Runs(g) == g = [n \in S |-> Verdict(n, g, asserted, bound)]
<1>1. \A n \in S : \A f : Verdict(n, f, asserted, bound) \in BOOLEAN
  BY DEF Verdict, Within
<1>2. step \in Steps(S, BOOLEAN)
  BY <1>1 DEF Steps
<1>3. \A n \in S : \A f \in [S -> BOOLEAN] : step[n][f] = Verdict(n, f, asserted, bound)
  OBVIOUS
<1> HIDE DEF step
<1>4. LooksBelow(step, Upward, S, BOOLEAN)
  <2> SUFFICES ASSUME NEW n \in S, NEW f \in [S -> BOOLEAN], NEW g \in [S -> BOOLEAN],
                      \A m \in S : Upward[m] < Upward[n] => f[m] = g[m]
               PROVE  step[n][f] = step[n][g]
    BY DEF LooksBelow
  <2>1. \A m \in logical_children(n) : f[m] = g[m]
    BY Ranks
  <2>2. {m \in logical_children(n) : f[m]} = {m \in logical_children(n) : g[m]}
    BY <2>1
  <2>3. Verdict(n, f, asserted, bound) = Verdict(n, g, asserted, bound)
    BY <2>2 DEF Verdict
  <2> QED
    BY <1>3, <2>3
<1>5. PICK f \in [S -> BOOLEAN] : \A n \in S : f[n] = step[n][f]
  <2>1. BOOLEAN # {} /\ Len(tree) \in Nat /\ Upward \in RankingTo(Len(tree), S)
    BY Ranks
  <2>2. \E f : Solution(f, step, S, BOOLEAN)
    BY <1>2, <1>4, <2>1, RecursionBy
  <2> QED
    BY <2>2 DEF Solution
<1>6. Runs(f)
  BY <1>3, <1>5
<1> DEFINE sat == CHOOSE g : Runs(g)
<1>7. Runs(sat)
  BY <1>6
<1>8. evaluate_bounded(asserted, bound) = sat[1]
  BY DEF evaluate_bounded, Verdict
<1> HIDE DEF sat
<1>9. sat \in [S -> BOOLEAN]
  BY <1>1, <1>7
<1>10. \A n \in S : sat[n] = Verdict(n, sat, asserted, bound)
  BY <1>7
<1> QED
  BY <1>8, <1>9, <1>10 DEF Satisfies

(* The report's states are the verdicts.                                   *)
State(n, state) ==
  IF depth[n] > MAX_CONSTRAINT_DEPTH THEN "Unsatisfied"
  ELSE IF is_logical(tree[n])
    THEN IF combine(Combining(tree[n]), ReportedChildren(n),
                    {m \in ReportedChildren(n) : state[m] = "Satisfied"})
           THEN "Satisfied" ELSE "Unsatisfied"
  ELSE IF evaluate(tree[n].atom, claims) THEN "Satisfied" ELSE "Unsatisfied"

States == {"Satisfied", "Unsatisfied"}

LEMMA ReportIs ==
  ASSUME TreeInv
  PROVE  \E state : /\ \A n \in DOMAIN tree : state[n] = State(n, state)
                    /\ evaluate_report = [n \in Reached |-> state[n]]
<1> DEFINE S == DOMAIN tree
           step == [n \in S |-> [f \in [S -> States] |-> State(n, f)]]
           Runs(g) == g = [n \in S |-> State(n, g)]
<1>1. \A n \in S : \A f : State(n, f) \in States
  BY DEF State, States
<1>2. step \in Steps(S, States)
  BY <1>1 DEF Steps
<1>3. \A n \in S : \A f \in [S -> States] : step[n][f] = State(n, f)
  OBVIOUS
<1> HIDE DEF step
<1>4. LooksBelow(step, Upward, S, States)
  <2> SUFFICES ASSUME NEW n \in S, NEW f \in [S -> States], NEW g \in [S -> States],
                      \A m \in S : Upward[m] < Upward[n] => f[m] = g[m]
               PROVE  step[n][f] = step[n][g]
    BY DEF LooksBelow
  <2>1. \A m \in ReportedChildren(n) : f[m] = g[m]
    BY Ranks DEF ReportedChildren
  <2>2. {m \in ReportedChildren(n) : f[m] = "Satisfied"}
          = {m \in ReportedChildren(n) : g[m] = "Satisfied"}
    BY <2>1
  <2>3. State(n, f) = State(n, g)
    BY <2>2 DEF State
  <2> QED
    BY <1>3, <2>3
<1>5. PICK f \in [S -> States] : \A n \in S : f[n] = step[n][f]
  <2>1. States # {} /\ Len(tree) \in Nat /\ Upward \in RankingTo(Len(tree), S)
    BY Ranks DEF States
  <2>2. \E f : Solution(f, step, S, States)
    BY <1>2, <1>4, <2>1, RecursionBy
  <2> QED
    BY <2>2 DEF Solution
<1>6. Runs(f)
  BY <1>3, <1>5
<1> DEFINE state == CHOOSE g : Runs(g)
<1>7. Runs(state)
  BY <1>6
<1>8. evaluate_report = [n \in Reached |-> state[n]]
  BY DEF evaluate_report, State
<1> HIDE DEF state
<1>9. \A n \in S : state[n] = State(n, state)
  BY <1>7
<1> QED
  BY <1>8, <1>9

(* Whom the report reaches: the root, and what its parents lead it to.     *)
LEMMA ReachedIs ==
  ASSUME TreeInv
  PROVE  /\ Reached \subseteq DOMAIN tree /\ 1 \in Reached
         /\ \A n \in Reached : depth[n] <= MAX_CONSTRAINT_DEPTH => logical_children(n) \subseteq Reached
<1> DEFINE S == DOMAIN tree
           Next1(n, f) == \/ n = 1
                          \/ /\ f[tree[n].parent]
                             /\ n \in logical_children(tree[n].parent)
                             /\ depth[tree[n].parent] <= MAX_CONSTRAINT_DEPTH
           step == [n \in S |-> [f \in [S -> BOOLEAN] |-> Next1(n, f)]]
           Runs(g) == g = [n \in S |-> Next1(n, g)]
<1>1. \A n \in S : \A f : Next1(n, f) \in BOOLEAN
  OBVIOUS
<1>2. step \in Steps(S, BOOLEAN)
  BY <1>1 DEF Steps
<1>3. \A n \in S : \A f \in [S -> BOOLEAN] : step[n][f] = Next1(n, f)
  OBVIOUS
<1>4. LooksBelow(step, Downward, S, BOOLEAN)
  <2> SUFFICES ASSUME NEW n \in S, NEW f \in [S -> BOOLEAN], NEW g \in [S -> BOOLEAN],
                      \A m \in S : Downward[m] < Downward[n] => f[m] = g[m]
               PROVE  step[n][f] = step[n][g]
    BY DEF LooksBelow
  <2>1. n # 1 => f[tree[n].parent] = g[tree[n].parent]
    BY Ranks
  <2>2. Next1(n, f) = Next1(n, g)
    BY <2>1
  <2> QED
    BY <1>3, <2>2
<1> HIDE DEF step
<1>5. PICK f \in [S -> BOOLEAN] : \A n \in S : f[n] = step[n][f]
  <2>1. BOOLEAN # {} /\ Len(tree) \in Nat /\ Downward \in RankingTo(Len(tree), S)
    BY Ranks
  <2>2. \E f : Solution(f, step, S, BOOLEAN)
    BY <1>2, <1>4, <2>1, RecursionBy
  <2> QED
    BY <2>2 DEF Solution
<1>6. Runs(f)
  <2>1. \A n \in S : f[n] = Next1(n, f)
    BY <1>3, <1>5
  <2> HIDE DEF Next1
  <2>2. f = [n \in S |-> Next1(n, f)]
    BY <1>5, <2>1
  <2> QED
    BY <2>2 DEF Next1
<1> DEFINE reached == CHOOSE g : Runs(g)
<1>7. Runs(reached)
  BY <1>6
<1>8. Reached = {n \in S : reached[n]}
  BY DEF Reached
<1> HIDE DEF reached
<1>9. \A n \in S : reached[n] = Next1(n, reached)
  BY <1>7
<1>10. 1 \in Reached
  BY <1>8, <1>9, Ranks
<1>11. ASSUME NEW n \in Reached, depth[n] <= MAX_CONSTRAINT_DEPTH, NEW m \in logical_children(n)
       PROVE  m \in Reached
  <2>1. m \in S /\ tree[m].parent = n /\ n \in S /\ reached[n]
    BY <1>8, Ranks
  <2>2. Next1(m, reached)
    BY <1>11, <2>1
  <2> QED
    BY <1>8, <1>9, <2>1, <2>2
<1> QED
  BY <1>8, <1>10, <1>11

-------------------------------------------------------------------------------
LEMMA SameOperands ==
  ASSUME TreeInv
  PROVE  ReportAgrees
<1>1. PICK sat : Satisfies(sat, claims, MAX_CONSTRAINT_DEPTH)
  BY SatIs
<1>2. PICK state : /\ \A n \in DOMAIN tree : state[n] = State(n, state)
                   /\ evaluate_report = [n \in Reached |-> state[n]]
  BY ReportIs
<1> DEFINE Good == {n \in DOMAIN tree : state[n] = "Satisfied" <=> sat[n]}
<1>3. Inductive(DOMAIN tree, Upward, Good)
  <2> SUFFICES ASSUME NEW n \in DOMAIN tree, \A m \in DOMAIN tree : Upward[m] < Upward[n] => m \in Good
               PROVE  state[n] = "Satisfied" <=> sat[n]
    BY DEF Inductive
  <2>1. {m \in ReportedChildren(n) : state[m] = "Satisfied"} = {m \in logical_children(n) : sat[m]}
    BY Ranks DEF ReportedChildren
  <2>2. state[n] = "Satisfied" <=>
          /\ ~ (depth[n] > MAX_CONSTRAINT_DEPTH)
          /\ IF is_logical(tree[n])
               THEN combine(Combining(tree[n]), ReportedChildren(n),
                            {m \in ReportedChildren(n) : state[m] = "Satisfied"})
               ELSE evaluate(tree[n].atom, claims)
    BY <1>2 DEF State
  <2>3. depth[n] \in Nat /\ MAX_CONSTRAINT_DEPTH \in Nat
    BY DepthIs, TreeAssumption
  <2>4. sat[n] <=> Verdict(n, sat, claims, MAX_CONSTRAINT_DEPTH)
    BY <1>1 DEF Satisfies
  <2>5. ~ (depth[n] > MAX_CONSTRAINT_DEPTH) <=> depth[n] <= MAX_CONSTRAINT_DEPTH
    BY <2>3
  <2> QED
    BY <2>1, <2>2, <2>4, <2>5 DEF Verdict, Within, ReportedChildren
<1>4. DOMAIN tree \subseteq Good
  BY <1>3, Ranks, InductBy
<1>5. 1 \in Reached /\ 1 \in DOMAIN tree /\ Reached \subseteq DOMAIN tree
  BY Ranks, ReachedIs
<1>6. (evaluate_report[1] = "Satisfied") = evaluate_tree(claims)
  <2>1. evaluate_report[1] = state[1]
    BY <1>2, <1>5
  <2>2. evaluate_tree(claims) = sat[1] /\ sat[1] \in BOOLEAN
    BY <1>1, <1>5 DEF Satisfies, evaluate_tree
  <2>3. (state[1] = "Satisfied") = sat[1]
    BY <1>4, <1>5, <2>2
  <2> QED
    BY <2>1, <2>2, <2>3
<1>7. ASSUME NEW n \in Reached, is_logical(tree[n]), depth[n] <= MAX_CONSTRAINT_DEPTH
      PROVE  (evaluate_report[n] = "Satisfied") =
                combine(Combining(tree[n]), logical_children(n) \cap Reached,
                        {m \in logical_children(n) \cap Reached : evaluate_report[m] = "Satisfied"})
  <2>1. logical_children(n) \cap Reached = logical_children(n) /\ n \in DOMAIN tree
    BY <1>5, <1>7, ReachedIs
  <2>2. \A m \in logical_children(n) : evaluate_report[m] = state[m]
    BY <1>2, <2>1
  <2>3. {m \in logical_children(n) \cap Reached : evaluate_report[m] = "Satisfied"}
          = {m \in ReportedChildren(n) : state[m] = "Satisfied"}
    BY <2>1, <2>2 DEF ReportedChildren
  <2>4. ~ (depth[n] > MAX_CONSTRAINT_DEPTH)
    BY <1>7, <2>1, DepthIs, TreeAssumption
  <2>5. state[n] = "Satisfied" <=>
          combine(Combining(tree[n]), ReportedChildren(n),
                  {m \in ReportedChildren(n) : state[m] = "Satisfied"})
    BY <1>2, <1>7, <2>1, <2>4 DEF State
  <2>6. evaluate_report[n] = state[n]
    BY <1>2
  <2> DEFINE shown == {m \in ReportedChildren(n) : state[m] = "Satisfied"}
  <2>7. combine(Combining(tree[n]), logical_children(n), shown) \in BOOLEAN
    BY DEF combine
  <2> HIDE DEF shown
  <2>8. (evaluate_report[n] = "Satisfied") = combine(Combining(tree[n]), logical_children(n), shown)
    BY <2>5, <2>6, <2>7 DEF ReportedChildren, shown
  <2> QED
    BY <2>1, <2>3, <2>8 DEF shown
<1> QED
  BY <1>6, <1>7 DEF ReportAgrees

(* The detailed report of a constraint tells the verdict the engine came   *)
(* to and accounts for it, for every tree, whatever its depth              *)
(* (evaluate_report and evaluate_bounded in constraint.rs).                *)
THEOREM ReportAgreesCorrect ==
  TreeSpec => []ReportAgrees
BY TreeInvCorrect, SameOperands, PTL

-------------------------------------------------------------------------------
LEMMA DeeperReadsMore ==
  ASSUME TreeInv
  PROVE  CutNeverCredits
<1> SUFFICES ASSUME \A n \in Groups : Combining(tree[n]) # "xone", evaluate_tree(claims)
             PROVE  evaluate_bounded(claims, MaxNodes)
  BY DEF CutNeverCredits
<1>1. PICK cut : Satisfies(cut, claims, MAX_CONSTRAINT_DEPTH)
  BY SatIs
<1>2. PICK full : Satisfies(full, claims, MaxNodes)
  BY SatIs
<1> DEFINE Good == {n \in DOMAIN tree : cut[n] => full[n]}
<1>3. Inductive(DOMAIN tree, Upward, Good)
  <2> SUFFICES ASSUME NEW n \in DOMAIN tree, \A m \in DOMAIN tree : Upward[m] < Upward[n] => m \in Good,
                      cut[n]
               PROVE  full[n]
    BY DEF Inductive
  <2> DEFINE below == logical_children(n)
             one == {m \in below : cut[m]}
             other == {m \in below : full[m]}
  <2>1. one \subseteq other /\ other \subseteq below
    BY Ranks
  <2>2. Verdict(n, cut, claims, MAX_CONSTRAINT_DEPTH)
    BY <1>1 DEF Satisfies
  <2>3. depth[n] <= MaxNodes
    <3>1. depth[n] \in Nat /\ depth[n] < n /\ n <= Len(tree) /\ n \in Nat /\ Len(tree) \in Nat
      BY DepthIs, Ranks
    <3> QED
      BY <3>1, TreeAssumption DEF TreeInv
  <2>4. CASE is_logical(tree[n])
    <3>1. Combining(tree[n]) # "xone"
      BY <2>4 DEF Groups
    <3>2. combine(Combining(tree[n]), below, one)
      BY <2>2, <2>4 DEF Verdict, Within
    <3> HIDE DEF one, other, below
    <3>3. combine(Combining(tree[n]), below, other)
      BY <2>1, <3>1, <3>2 DEF combine
    <3> QED
      BY <1>2, <2>3, <2>4, <3>3 DEF Satisfies, Verdict, Within, other, below
  <2>5. CASE ~is_logical(tree[n])
    BY <1>2, <2>2, <2>3, <2>5 DEF Satisfies, Verdict, Within
  <2> QED
    BY <2>4, <2>5
<1>4. DOMAIN tree \subseteq Good
  BY <1>3, Ranks, InductBy
<1> QED
  BY <1>1, <1>2, <1>4, Ranks DEF Satisfies, evaluate_tree

(* Refusing to read past the depth bound never makes a match, on any tree  *)
(* without an odrl:xone (MAX_CONSTRAINT_DEPTH in constraint.rs).           *)
THEOREM CutNeverCreditsCorrect ==
  TreeSpec => []CutNeverCredits
BY TreeInvCorrect, DeeperReadsMore, PTL

-------------------------------------------------------------------------------
(* Claims that agree on what the trace names give every node it reaches    *)
(* the same verdict.                                                       *)
LEMMA VerdictReadsWhatIsNamed ==
  ASSUME TreeInv, NEW one, NEW other,
         \A k \in collect_left_operands \cap describe_constraint : Asserted(one, k) = Asserted(other, k)
  PROVE  evaluate_tree(one) <=> evaluate_tree(other)
<1>1. PICK sat : Satisfies(sat, one, MAX_CONSTRAINT_DEPTH)
  BY SatIs
<1>2. PICK tas : Satisfies(tas, other, MAX_CONSTRAINT_DEPTH)
  BY SatIs
<1> DEFINE Good == {n \in DOMAIN tree : n \in Reached => (sat[n] <=> tas[n])}
<1>3. Inductive(DOMAIN tree, Upward, Good)
  <2> SUFFICES ASSUME NEW n \in DOMAIN tree, \A m \in DOMAIN tree : Upward[m] < Upward[n] => m \in Good,
                      n \in Reached
               PROVE  sat[n] <=> tas[n]
    BY DEF Inductive
  <2>1. /\ sat[n] <=> Verdict(n, sat, one, MAX_CONSTRAINT_DEPTH)
        /\ tas[n] <=> Verdict(n, tas, other, MAX_CONSTRAINT_DEPTH)
    BY <1>1, <1>2 DEF Satisfies
  <2>2. CASE ~ (depth[n] <= MAX_CONSTRAINT_DEPTH)
    BY <2>1, <2>2 DEF Verdict, Within
  <2>3. CASE depth[n] <= MAX_CONSTRAINT_DEPTH /\ is_logical(tree[n])
    <3>1. \A m \in logical_children(n) : sat[m] <=> tas[m]
      BY <2>3, Ranks, ReachedIs
    <3>2. {m \in logical_children(n) : sat[m]} = {m \in logical_children(n) : tas[m]}
      BY <3>1
    <3> QED
      BY <2>1, <2>3, <3>2 DEF Verdict, Within
  <2>4. CASE depth[n] <= MAX_CONSTRAINT_DEPTH /\ ~is_logical(tree[n])
    <3> DEFINE k == tree[n].atom.leftOperand
    <3>1. k \in collect_left_operands \cap describe_constraint
      BY <2>4 DEF collect_left_operands, describe_constraint
    <3>2. Asserted(one, k) = Asserted(other, k)
      BY <3>1
    <3>3. /\ k \in DOMAIN one <=> k \in DOMAIN other
          /\ k \in DOMAIN one => one[k] = other[k]
      BY <3>2 DEF Asserted
    <3>4. evaluate(tree[n].atom, one) <=> evaluate(tree[n].atom, other)
      BY <3>3 DEF evaluate
    <3> QED
      BY <2>1, <2>4, <3>4 DEF Verdict, Within
  <2> QED
    BY <2>2, <2>3, <2>4
<1>4. DOMAIN tree \subseteq Good
  BY <1>3, Ranks, InductBy
<1> QED
  BY <1>1, <1>2, <1>4, Ranks, ReachedIs DEF Satisfies, evaluate_tree

(* A claim that turns the verdict is one the host was told to gather and   *)
(* one the trace names, however deep the atom that reads it                *)
(* (collect_left_operands and describe_constraint).                        *)
THEOREM VerdictTurnsOnReportedClaimsCorrect ==
  TreeSpec => VerdictTurnsOnReportedClaims
<1>1. ASSUME TreeInv, tree' = tree, evaluate_tree(claims') # evaluate_tree(claims)
      PROVE  \E k \in collect_left_operands \cap describe_constraint :
                Asserted(claims', k) # Asserted(claims, k)
  <2>1. \A asserted : evaluate_tree(asserted) \in BOOLEAN
    BY <1>1, SatIs, Ranks DEF Satisfies, evaluate_tree
  <2>2. PICK later : later = claims'
    OBVIOUS
  <2>3. ~(evaluate_tree(later) <=> evaluate_tree(claims))
    BY <1>1, <2>1, <2>2
  <2>4. \E k \in collect_left_operands \cap describe_constraint :
           Asserted(later, k) # Asserted(claims, k)
    BY <1>1, <2>3, VerdictReadsWhatIsNamed
  <2> QED
    BY <2>2, <2>4
<1>2. TreeInv => [tree' = tree /\ evaluate_tree(claims') # evaluate_tree(claims) =>
                    \E k \in collect_left_operands \cap describe_constraint :
                      Asserted(claims', k) # Asserted(claims, k)]_treeVars
  BY <1>1
<1> QED
  BY <1>2, TreeInvCorrect, PTL DEF VerdictTurnsOnReportedClaims
-------------------------------------------------------------------------------
(* The runner's expansion of a tree: sets of atoms, finitely many at every *)
(* node, one after the other of an and's operands multiplied in.           *)
Disjunction == {X \in SUBSET SUBSET Atoms : IsFiniteSet(X)}

Expanded(n, dnf, e) ==
  [m \in n..Len(tree) |->
     IF m = n THEN {{}}
     ELSE IF m \in logical_children(n) THEN Extended(e[m - 1], dnf[m])
     ELSE e[m - 1]]

Expansion(n, dnf) == CHOOSE e : e = Expanded(n, dnf, e)

Disjuncts(n, dnf) ==
  IF ~is_logical(tree[n]) THEN {{tree[n].atom}}
  ELSE IF Combining(tree[n]) = "or" THEN UNION {dnf[m] : m \in logical_children(n)}
  ELSE Expansion(n, dnf)[Len(tree)]

LEMMA ExtendedIsDisjunction ==
  ASSUME NEW X \in Disjunction, NEW Y \in Disjunction
  PROVE  Extended(X, Y) \in Disjunction
<1> DEFINE joined == [pair \in X \X Y |-> pair[1] \cup pair[2]]
<1>1. IsFiniteSet(X \X Y)
  BY FS_Product DEF Disjunction
<1>2. joined \in Surjection(X \X Y, Extended(X, Y))
  <2>1. \A pair \in X \X Y : joined[pair] \in Extended(X, Y)
    BY DEF Extended
  <2>2. ASSUME NEW d \in Extended(X, Y)
        PROVE  \E pair \in X \X Y : joined[pair] = d
    <3>1. PICK prefix \in X, disjunct \in Y : d = prefix \cup disjunct
      BY DEF Extended
    <3>2. <<prefix, disjunct>> \in X \X Y /\ joined[<<prefix, disjunct>>] = d
      BY <3>1
    <3> QED
      BY <3>2
  <2>3. joined \in [X \X Y -> Extended(X, Y)]
    BY <2>1
  <2> QED
    BY <2>2, <2>3 DEF Surjection
<1>3. IsFiniteSet(Extended(X, Y))
  BY <1>1, <1>2, FS_Surjection
<1>4. Extended(X, Y) \subseteq SUBSET Atoms
  BY DEF Extended, Disjunction
<1> QED
  BY <1>3, <1>4 DEF Disjunction

LEMMA EmptyAndSingle ==
  /\ {} \in Disjunction /\ {{}} \in Disjunction
  /\ \A c \in Atoms : {{c}} \in Disjunction
BY FS_EmptySet, FS_Singleton DEF Disjunction

(* What is multiplied in, operand by operand. *)
LEMMA ExpansionIs ==
  ASSUME TreeInv, NEW n \in DOMAIN tree,
         NEW dnf, \A m \in logical_children(n) : dnf[m] \in Disjunction
  PROVE  LET e == Expansion(n, dnf)
         IN  /\ e \in [n..Len(tree) -> Disjunction]
             /\ e[n] = {{}}
             /\ \A m \in n..(Len(tree) - 1) :
                  e[m + 1] = IF m + 1 \in logical_children(n) THEN Extended(e[m], dnf[m + 1]) ELSE e[m]
<1> DEFINE T == n..Len(tree)
           At(m, e) == IF m = n THEN {{}}
                       ELSE IF m \in logical_children(n) THEN Extended(e[m - 1], dnf[m])
                       ELSE e[m - 1]
           step == [m \in T |-> [e \in [T -> Disjunction] |-> At(m, e)]]
           rank == [m \in T |-> m - n]
<1>1. /\ Len(tree) \in Nat /\ DOMAIN tree = 1..Len(tree) /\ n \in 1..Len(tree)
      /\ T \subseteq 1..Len(tree) /\ n \in T
  BY Ranks
<1>2. \A m \in T : m # n => m - 1 \in T /\ rank[m - 1] < rank[m]
  BY <1>1
<1>3. rank \in RankingTo(Len(tree), T) /\ rank \in Ranking(T)
  BY <1>1 DEF RankingTo, Ranking
<1> HIDE DEF T, rank
<1>4. ASSUME NEW m \in T, NEW e, m # n => e[m - 1] \in Disjunction
      PROVE  At(m, e) \in Disjunction
  BY <1>1, <1>4, EmptyAndSingle, ExtendedIsDisjunction
<1> HIDE DEF At
<1>5. step \in Steps(T, Disjunction)
  BY <1>2, <1>4 DEF Steps
<1>6. \A m \in T : \A e \in [T -> Disjunction] : step[m][e] = At(m, e)
  OBVIOUS
<1> HIDE DEF step
<1>7. LooksBelow(step, rank, T, Disjunction)
  BY <1>2, <1>6 DEF LooksBelow, At
<1>8. PICK f \in [T -> Disjunction] : \A m \in T : f[m] = step[m][f]
  <2>1. Disjunction # {}
    BY EmptyAndSingle
  <2>2. \E g : Solution(g, step, T, Disjunction)
    BY <1>1, <1>3, <1>5, <1>7, <2>1, RecursionBy
  <2> QED
    BY <2>2 DEF Solution
<1>9. f = [m \in T |-> At(m, f)]
  BY <1>6, <1>8
<1>10. f = Expanded(n, dnf, f)
  BY <1>9 DEF Expanded, At, T
<1> DEFINE e == Expansion(n, dnf)
<1>11. e = Expanded(n, dnf, e)
  BY <1>10 DEF Expansion
<1> HIDE DEF e
<1>12. e = [m \in T |-> At(m, e)]
  BY <1>11 DEF Expanded, At, T
<1>13. \A m \in T : e[m] = At(m, e)
  BY <1>12
<1>14. Inductive(T, rank, {m \in T : e[m] \in Disjunction})
  <2> SUFFICES ASSUME NEW m \in T, \A k \in T : rank[k] < rank[m] => e[k] \in Disjunction
               PROVE  e[m] \in Disjunction
    BY DEF Inductive
  <2> QED
    BY <1>2, <1>4, <1>13
<1>15. T \subseteq {m \in T : e[m] \in Disjunction}
  BY <1>3, <1>14, InductBy
<1>16. e \in [T -> Disjunction]
  BY <1>12, <1>15
<1>17. e[n] = {{}}
  BY <1>1, <1>13 DEF At
<1>18. ASSUME NEW m \in n..(Len(tree) - 1)
       PROVE  e[m + 1] = IF m + 1 \in logical_children(n) THEN Extended(e[m], dnf[m + 1]) ELSE e[m]
  <2>1. m + 1 \in T /\ m + 1 # n /\ (m + 1) - 1 = m
    BY <1>1 DEF T
  <2> QED
    BY <1>13, <2>1 DEF At
<1> QED
  BY <1>16, <1>17, <1>18 DEF e, T
LEMMA DisjunctsIs ==
  ASSUME TreeInv, NEW n \in DOMAIN tree,
         NEW dnf, \A m \in logical_children(n) : dnf[m] \in Disjunction
  PROVE  Disjuncts(n, dnf) \in Disjunction
<1>1. CASE ~is_logical(tree[n])
  <2>1. tree[n] \in Node
    BY DEF TreeInv
  <2>2. tree[n].atom \in Atoms
    BY <1>1, <2>1 DEF Node
  <2> QED
    BY <1>1, <2>2, EmptyAndSingle DEF Disjuncts
<1>2. CASE is_logical(tree[n]) /\ Combining(tree[n]) = "or"
  <2> DEFINE K == logical_children(n)
             each == [m \in K |-> dnf[m]]
             S == {dnf[m] : m \in K}
  <2>1. K \subseteq DOMAIN tree /\ IsFiniteSet(DOMAIN tree)
    BY Ranks, FS_Interval
  <2>2. IsFiniteSet(K)
    BY <2>1, FS_Subset
  <2>3. each \in Surjection(K, S)
    BY DEF Surjection
  <2>4. IsFiniteSet(S) /\ \A X \in S : X \in Disjunction
    BY <2>1, <2>2, <2>3, FS_Surjection
  <2>5. IsFiniteSet(UNION S) /\ UNION S \in SUBSET SUBSET Atoms
    BY <2>4, FS_UNION DEF Disjunction
  <2> QED
    BY <1>2, <2>5 DEF Disjuncts, Disjunction
<1>3. CASE is_logical(tree[n]) /\ Combining(tree[n]) # "or"
  <2>1. Len(tree) \in n..Len(tree)
    BY Ranks
  <2> QED
    BY <1>3, <2>1, ExpansionIs DEF Disjuncts
<1> QED
  BY <1>1, <1>2, <1>3

(* Only an operand's own disjuncts are multiplied in. *)
LEMMA ExpansionReadsOperands ==
  ASSUME TreeInv, NEW n \in DOMAIN tree,
         NEW dnf, NEW other,
         \A m \in logical_children(n) : dnf[m] = other[m] /\ dnf[m] \in Disjunction
  PROVE  Expansion(n, dnf)[Len(tree)] = Expansion(n, other)[Len(tree)]
<1> DEFINE T == n..Len(tree)
           rank == [m \in T |-> m - n]
           e == Expansion(n, dnf)
           g == Expansion(n, other)
           Good == {m \in T : e[m] = g[m]}
<1>1. /\ Len(tree) \in Nat /\ n \in 1..Len(tree) /\ n \in T /\ Len(tree) \in T
      /\ T \subseteq 1..Len(tree)
  BY Ranks
<1>2. e[n] = {{}} /\ g[n] = {{}}
  BY ExpansionIs
<1>3. \A m \in n..(Len(tree) - 1) :
        /\ e[m + 1] = IF m + 1 \in logical_children(n) THEN Extended(e[m], dnf[m + 1]) ELSE e[m]
        /\ g[m + 1] = IF m + 1 \in logical_children(n) THEN Extended(g[m], other[m + 1]) ELSE g[m]
  BY ExpansionIs
<1> HIDE DEF e, g
<1>4. Inductive(T, rank, Good)
  <2> SUFFICES ASSUME NEW m \in T, \A k \in T : rank[k] < rank[m] => e[k] = g[k]
               PROVE  e[m] = g[m]
    BY DEF Inductive
  <2>1. CASE m = n
    BY <1>2, <2>1
  <2>2. CASE m # n
    <3>1. m - 1 \in n..(Len(tree) - 1) /\ m - 1 \in T /\ (m - 1) + 1 = m /\ rank[m - 1] < rank[m]
      BY <1>1, <2>2
    <3> QED
      BY <1>3, <3>1
  <2> QED
    BY <2>1, <2>2
<1>5. rank \in Ranking(T)
  BY <1>1 DEF Ranking
<1>6. T \subseteq Good
  BY <1>4, <1>5, InductBy
<1> QED
  BY <1>1, <1>6 DEF e, g

LEMMA DnfIs ==
  ASSUME TreeInv
  PROVE  \E dnf \in [DOMAIN tree -> Disjunction] :
           to_dnf = dnf[1] /\ \A n \in DOMAIN tree : dnf[n] = Disjuncts(n, dnf)
<1> DEFINE S == DOMAIN tree
           step == [n \in S |-> [f \in [S -> Disjunction] |-> Disjuncts(n, f)]]
           Runs(g) == g = [n \in S |-> Disjuncts(n, g)]
<1>1. step \in Steps(S, Disjunction)
  BY Ranks, DisjunctsIs DEF Steps
<1>2. \A n \in S : \A f \in [S -> Disjunction] : step[n][f] = Disjuncts(n, f)
  OBVIOUS
<1> HIDE DEF step
<1>3. LooksBelow(step, Upward, S, Disjunction)
  <2> SUFFICES ASSUME NEW n \in S, NEW f \in [S -> Disjunction], NEW g \in [S -> Disjunction],
                      \A m \in S : Upward[m] < Upward[n] => f[m] = g[m]
               PROVE  step[n][f] = step[n][g]
    BY DEF LooksBelow
  <2>1. \A m \in logical_children(n) : f[m] = g[m] /\ f[m] \in Disjunction
    BY Ranks
  <2>2. {f[m] : m \in logical_children(n)} = {g[m] : m \in logical_children(n)}
    BY <2>1
  <2>3. Expansion(n, f)[Len(tree)] = Expansion(n, g)[Len(tree)]
    BY <2>1, ExpansionReadsOperands
  <2>4. Disjuncts(n, f) = Disjuncts(n, g)
    BY <2>2, <2>3 DEF Disjuncts
  <2> QED
    BY <1>2, <2>4
<1>4. PICK f \in [S -> Disjunction] : \A n \in S : f[n] = step[n][f]
  <2>1. Disjunction # {} /\ Len(tree) \in Nat /\ Upward \in RankingTo(Len(tree), S)
    BY Ranks, EmptyAndSingle
  <2>2. \E g : Solution(g, step, S, Disjunction)
    BY <1>1, <1>3, <2>1, RecursionBy
  <2> QED
    BY <2>2 DEF Solution
<1>5. Runs(f)
  BY <1>2, <1>4
<1> DEFINE dnf == CHOOSE g : Runs(g)
<1>6. Runs(dnf)
  BY <1>5
<1>7. to_dnf = dnf[1]
  BY DEF to_dnf, Disjuncts, Expansion, Expanded
<1> HIDE DEF dnf
<1>8. Inductive(S, Upward, {n \in S : dnf[n] \in Disjunction})
  <2> SUFFICES ASSUME NEW n \in S, \A m \in S : Upward[m] < Upward[n] => dnf[m] \in Disjunction
               PROVE  dnf[n] \in Disjunction
    BY DEF Inductive
  <2>1. \A m \in logical_children(n) : dnf[m] \in Disjunction
    BY Ranks
  <2> QED
    BY <1>6, <2>1, DisjunctsIs
<1>9. S \subseteq {n \in S : dnf[n] \in Disjunction}
  BY <1>8, Ranks, InductBy
<1> QED
  BY <1>6, <1>7, <1>9
(* Of a disjunction, some disjunct must hold, and of that every atom.      *)
Holds(X, asserted) == \E d \in X : \A c \in d : evaluate(c, asserted)

LEMMA ExtendedHolds ==
  ASSUME NEW X, NEW Y, NEW asserted
  PROVE  Holds(Extended(X, Y), asserted) <=> Holds(X, asserted) /\ Holds(Y, asserted)
<1>1. ASSUME NEW prefix \in X, NEW disjunct \in Y
      PROVE  prefix \cup disjunct \in Extended(X, Y)
  BY DEF Extended
<1>2. ASSUME NEW d \in Extended(X, Y)
      PROVE  \E prefix \in X, disjunct \in Y : d = prefix \cup disjunct
  BY DEF Extended
<1>3. ASSUME Holds(X, asserted), Holds(Y, asserted)
      PROVE  Holds(Extended(X, Y), asserted)
  <2>1. PICK prefix \in X : \A c \in prefix : evaluate(c, asserted)
    BY <1>3 DEF Holds
  <2>2. PICK disjunct \in Y : \A c \in disjunct : evaluate(c, asserted)
    BY <1>3 DEF Holds
  <2>3. \A c \in prefix \cup disjunct : evaluate(c, asserted)
    BY <2>1, <2>2
  <2> QED
    BY <1>1, <2>3 DEF Holds
<1>4. ASSUME Holds(Extended(X, Y), asserted)
      PROVE  Holds(X, asserted) /\ Holds(Y, asserted)
  <2>1. PICK d \in Extended(X, Y) : \A c \in d : evaluate(c, asserted)
    BY <1>4 DEF Holds
  <2>2. PICK prefix \in X, disjunct \in Y : d = prefix \cup disjunct
    BY <1>2
  <2> QED
    BY <2>1, <2>2 DEF Holds
<1> QED
  BY <1>3, <1>4

(* Multiplied out, the operands of an and hold together. *)
LEMMA ExpansionHolds ==
  ASSUME TreeInv, NEW n \in DOMAIN tree, NEW asserted,
         NEW dnf, \A m \in logical_children(n) : dnf[m] \in Disjunction
  PROVE  Holds(Expansion(n, dnf)[Len(tree)], asserted)
           <=> \A m \in logical_children(n) : Holds(dnf[m], asserted)
<1> DEFINE T == n..Len(tree)
           rank == [m \in T |-> m - n]
           e == Expansion(n, dnf)
           K == logical_children(n)
           Good == {m \in T : Holds(e[m], asserted)
                                <=> \A k \in K : k <= m => Holds(dnf[k], asserted)}
<1>1. /\ Len(tree) \in Nat /\ n \in 1..Len(tree) /\ n \in T /\ Len(tree) \in T
      /\ T \subseteq 1..Len(tree)
  BY Ranks
<1>2. \A k \in K : k \in 1..Len(tree) /\ n < k
  BY <1>1, Ranks DEF Upward
<1>3. e[n] = {{}}
  BY ExpansionIs
<1>4. \A m \in n..(Len(tree) - 1) :
        e[m + 1] = IF m + 1 \in K THEN Extended(e[m], dnf[m + 1]) ELSE e[m]
  BY ExpansionIs
<1> HIDE DEF e, K
<1>5. Inductive(T, rank, Good)
  <2> SUFFICES ASSUME NEW m \in T, \A k \in T : rank[k] < rank[m] => k \in Good
               PROVE  m \in Good
    BY DEF Inductive
  <2>1. CASE m = n
    <3>1. Holds(e[m], asserted)
      BY <1>3, <2>1 DEF Holds
    <3>2. \A k \in K : ~ (k <= m)
      BY <1>1, <1>2, <2>1
    <3> QED
      BY <3>1, <3>2
  <2>2. CASE m # n
    <3> DEFINE b == m - 1
    <3>1. b \in n..(Len(tree) - 1) /\ b \in T /\ b + 1 = m /\ rank[b] < rank[m]
      BY <1>1, <2>2
    <3>2. Holds(e[b], asserted) <=> \A k \in K : k <= b => Holds(dnf[k], asserted)
      BY <3>1
    <3>3. e[m] = IF m \in K THEN Extended(e[b], dnf[m]) ELSE e[b]
      BY <1>4, <3>1
    <3>4. \A k \in K : k <= m <=> k <= b \/ k = m
      BY <1>1, <1>2
    <3>5. Holds(e[m], asserted)
            <=> Holds(e[b], asserted) /\ (m \in K => Holds(dnf[m], asserted))
      BY <3>3, ExtendedHolds
    <3>6. Holds(e[m], asserted) <=> \A k \in K : k <= m => Holds(dnf[k], asserted)
      BY <3>2, <3>4, <3>5
    <3> QED
      BY <3>6
  <2> QED
    BY <2>1, <2>2
<1>6. rank \in Ranking(T)
  BY <1>1 DEF Ranking
<1>7. Len(tree) \in Good
  <2>1. T \subseteq Good
    BY <1>5, <1>6, InductBy
  <2> QED
    BY <1>1, <2>1
<1> QED
  BY <1>2, <1>7 DEF e, K

LEMMA DisjunctsHold ==
  ASSUME TreeInv, Translatable, NEW n \in DOMAIN tree, NEW asserted,
         NEW dnf, \A m \in logical_children(n) : dnf[m] \in Disjunction
  PROVE  Holds(Disjuncts(n, dnf), asserted) <=>
           IF is_logical(tree[n])
             THEN combine(Combining(tree[n]), logical_children(n),
                          {m \in logical_children(n) : Holds(dnf[m], asserted)})
             ELSE evaluate(tree[n].atom, asserted)
<1> DEFINE K == logical_children(n)
           held == {m \in K : Holds(dnf[m], asserted)}
<1>1. CASE ~is_logical(tree[n])
  <2>1. Disjuncts(n, dnf) = {{tree[n].atom}}
    BY <1>1 DEF Disjuncts
  <2> QED
    BY <1>1, <2>1 DEF Holds
<1>2. CASE is_logical(tree[n]) /\ tree[n].fields = {"or"}
  <2>1. Combining(tree[n]) = "or"
    BY <1>2 DEF Combining
  <2>2. Disjuncts(n, dnf) = UNION {dnf[m] : m \in K}
    BY <1>2, <2>1 DEF Disjuncts
  <2>3. Holds(Disjuncts(n, dnf), asserted) <=> \E m \in K : Holds(dnf[m], asserted)
    BY <2>2 DEF Holds
  <2>4. combine("or", K, held) <=> held # {}
    BY DEF combine
  <2> QED
    BY <1>2, <2>1, <2>3, <2>4
<1>3. CASE is_logical(tree[n]) /\ tree[n].fields = {"and"}
  <2>1. Combining(tree[n]) = "and"
    BY <1>3 DEF Combining
  <2>2. Disjuncts(n, dnf) = Expansion(n, dnf)[Len(tree)]
    BY <1>3, <2>1 DEF Disjuncts
  <2>3. Holds(Disjuncts(n, dnf), asserted) <=> \A m \in K : Holds(dnf[m], asserted)
    BY <2>2, ExpansionHolds
  <2>4. combine("and", K, held) <=> held = K
    BY DEF combine
  <2> QED
    BY <1>3, <2>1, <2>3, <2>4
<1> QED
  BY <1>1, <1>2, <1>3 DEF Translatable

(* The disjuncts say what the tree says: the bound of the runs is past     *)
(* every node.                                                             *)
LEMMA DnfHolds ==
  ASSUME TreeInv, Translatable, NEW asserted
  PROVE  /\ to_dnf \in Disjunction
         /\ Holds(to_dnf, asserted) <=> evaluate_bounded(asserted, MaxNodes)
<1>1. PICK dnf \in [DOMAIN tree -> Disjunction] :
        to_dnf = dnf[1] /\ \A n \in DOMAIN tree : dnf[n] = Disjuncts(n, dnf)
  BY DnfIs
<1>2. PICK sat : Satisfies(sat, asserted, MaxNodes)
  BY SatIs
<1> DEFINE Good == {n \in DOMAIN tree : Holds(dnf[n], asserted) <=> sat[n]}
<1>3. \A n \in DOMAIN tree : depth[n] <= MaxNodes
  <2>1. \A n \in DOMAIN tree : depth[n] \in Nat /\ depth[n] < n /\ n \in 1..Len(tree)
    BY DepthIs, Ranks
  <2>2. Len(tree) \in Nat /\ MaxNodes \in Nat /\ (Len(tree) <= MaxNodes \/ Len(tree) = 1)
    BY Ranks, TreeAssumption DEF TreeInv
  <2> QED
    BY <2>1, <2>2
<1>4. Inductive(DOMAIN tree, Upward, Good)
  <2> SUFFICES ASSUME NEW n \in DOMAIN tree, \A m \in DOMAIN tree : Upward[m] < Upward[n] => m \in Good
               PROVE  Holds(dnf[n], asserted) <=> sat[n]
    BY DEF Inductive
  <2>1. \A m \in logical_children(n) :
          dnf[m] \in Disjunction /\ (Holds(dnf[m], asserted) <=> sat[m])
    BY Ranks
  <2>2. {m \in logical_children(n) : Holds(dnf[m], asserted)}
          = {m \in logical_children(n) : sat[m]}
    BY <2>1
  <2>3. sat[n] <=> Verdict(n, sat, asserted, MaxNodes)
    BY <1>2 DEF Satisfies
  <2>4. Holds(dnf[n], asserted) <=>
           IF is_logical(tree[n])
             THEN combine(Combining(tree[n]), logical_children(n), {m \in logical_children(n) : sat[m]})
             ELSE evaluate(tree[n].atom, asserted)
    BY <1>1, <2>1, <2>2, DisjunctsHold
  <2> QED
    BY <1>3, <2>3, <2>4 DEF Verdict, Within
<1>5. DOMAIN tree \subseteq Good /\ 1 \in DOMAIN tree
  BY <1>4, Ranks, InductBy
<1>6. evaluate_bounded(asserted, MaxNodes) <=> sat[1]
  BY <1>2 DEF Satisfies
<1> QED
  BY <1>1, <1>5, <1>6
-------------------------------------------------------------------------------
(* The copies sent.                                                        *)
LEMMA SetToSeqIs ==
  ASSUME NEW S, IsFiniteSet(S)
  PROVE  SetToSeq(S) \in Seq(S) /\ \A x \in S : \E i \in DOMAIN SetToSeq(S) : SetToSeq(S)[i] = x
<1> DEFINE n == Cardinality(S)
           s == SetToSeq(S)
<1>1. n \in Nat /\ ExistsBijection(1..n, S)
  BY FS_CardinalityType
<1>2. PICK f : f \in Bijection(1..n, S)
  BY <1>1 DEF ExistsBijection
<1>3. f \in [1..n -> S] /\ IsInjective(f)
  BY <1>2 DEF Bijection, Injection
<1>4. s \in [1..n -> S] /\ IsInjective(s)
  BY <1>3 DEF SetToSeq
<1> HIDE DEF s, n
<1>5. IsFiniteSet(1..n) /\ Cardinality(1..n) = n
  BY <1>1, FS_Interval
<1>6. s \in Injection(1..n, S)
  BY <1>4 DEF Injection
<1>7. s \in Surjection(1..n, S)
  BY <1>5, <1>6, FS_Injection DEF n
<1>8. \A x \in S : \E i \in 1..n : s[i] = x
  BY <1>7 DEF Surjection
<1>9. s \in Seq(S) /\ DOMAIN s = 1..n
  BY <1>1, <1>4
<1> QED
  BY <1>8, <1>9 DEF s

(* What some member of a sequence is. *)
Listed(x, s) == \E i \in DOMAIN s : s[i] = x

LEMMA ListedInBoth ==
  ASSUME NEW S, NEW s \in Seq(S), NEW t \in Seq(S), NEW x
  PROVE  s \o t \in Seq(S) /\ (Listed(x, s \o t) <=> Listed(x, s) \/ Listed(x, t))
<1>1. /\ Len(s) \in Nat /\ Len(t) \in Nat /\ DOMAIN s = 1..Len(s) /\ DOMAIN t = 1..Len(t)
      /\ s \o t \in Seq(S) /\ DOMAIN (s \o t) = 1..(Len(s) + Len(t))
      /\ \A i \in 1..Len(s) : (s \o t)[i] = s[i]
      /\ \A i \in 1..Len(t) : (s \o t)[Len(s) + i] = t[i]
  OBVIOUS
<1>2. ASSUME Listed(x, s \o t)
      PROVE  Listed(x, s) \/ Listed(x, t)
  <2>1. PICK i \in 1..(Len(s) + Len(t)) : (s \o t)[i] = x
    BY <1>1, <1>2 DEF Listed
  <2>2. CASE i <= Len(s)
    BY <1>1, <2>1, <2>2 DEF Listed
  <2>3. CASE ~ (i <= Len(s))
    <3>1. i - Len(s) \in 1..Len(t) /\ Len(s) + (i - Len(s)) = i
      BY <1>1, <2>3
    <3>2. t[i - Len(s)] = x
      BY <1>1, <2>1, <3>1
    <3> QED
      BY <1>1, <3>1, <3>2 DEF Listed
  <2> QED
    BY <2>2, <2>3
<1>3. ASSUME Listed(x, s)
      PROVE  Listed(x, s \o t)
  <2>1. PICK i \in 1..Len(s) : s[i] = x
    BY <1>1, <1>3 DEF Listed
  <2>2. i \in 1..(Len(s) + Len(t)) /\ (s \o t)[i] = x
    BY <1>1, <2>1
  <2> QED
    BY <1>1, <2>2 DEF Listed
<1>4. ASSUME Listed(x, t)
      PROVE  Listed(x, s \o t)
  <2>1. PICK i \in 1..Len(t) : t[i] = x
    BY <1>1, <1>4 DEF Listed
  <2>2. Len(s) + i \in 1..(Len(s) + Len(t)) /\ (s \o t)[Len(s) + i] = x
    BY <1>1, <2>1
  <2> QED
    BY <1>1, <2>2 DEF Listed
<1> QED
  BY <1>1, <1>2, <1>3, <1>4

(* Flattened, sequences list what one of them lists. *)
LEMMA FlattenLists ==
  ASSUME NEW S, NEW g \in Seq(Seq(S))
  PROVE  /\ FlattenSeq(g) \in Seq(S)
         /\ \A x : Listed(x, FlattenSeq(g)) <=> \E k \in DOMAIN g : Listed(x, g[k])
<1> DEFINE T == 1..Len(g)
           rank == [i \in T |-> i]
           D == Seq(S)
           At(i, f) == IF i = 1 THEN g[i] ELSE f[i - 1] \o g[i]
           step == [i \in T |-> [f \in [T -> D] |-> At(i, f)]]
           Runs(f) == f = [i \in T |-> At(i, f)]
<1>1. Len(g) \in Nat /\ DOMAIN g = T /\ \A i \in T : g[i] \in D
  OBVIOUS
<1>2. CASE Len(g) = 0
  <2>1. FlattenSeq(g) = g /\ g = <<>> /\ DOMAIN g = {}
    BY <1>1, <1>2 DEF FlattenSeq
  <2> QED
    BY <2>1 DEF Listed
<1>3. CASE Len(g) # 0
  <2>1. rank \in RankingTo(Len(g), T) /\ rank \in Ranking(T) /\ 1 \in T /\ Len(g) \in T
    BY <1>1, <1>3 DEF RankingTo, Ranking
  <2>2. \A i \in T : i # 1 => i - 1 \in T /\ rank[i - 1] < rank[i]
    BY <1>1
  <2>3. ASSUME NEW i \in T, NEW f, i # 1 => f[i - 1] \in D
        PROVE  At(i, f) \in D
    BY <1>1, <2>3
  <2> HIDE DEF T, rank, D
  <2>4. step \in Steps(T, D)
    BY <2>2, <2>3 DEF Steps
  <2>5. LooksBelow(step, rank, T, D)
    BY <2>2 DEF LooksBelow
  <2>6. \A i \in T : \A f \in [T -> D] : step[i][f] = At(i, f)
    OBVIOUS
  <2> HIDE DEF step
  <2>7. PICK f \in [T -> D] : \A i \in T : f[i] = step[i][f]
    <3>1. \E h : Solution(h, step, T, D)
      BY <1>1, <2>1, <2>4, <2>5, RecursionBy
    <3> QED
      BY <3>1 DEF Solution
  <2>8. Runs(f)
    BY <2>6, <2>7
  <2> DEFINE flat == CHOOSE h : Runs(h)
  <2>9. Runs(flat)
    BY <2>8
  <2>10. FlattenSeq(g) = flat[Len(g)]
    BY <1>3 DEF FlattenSeq, T
  <2> HIDE DEF flat
  <2>11. \A i \in T : flat[i] = At(i, flat)
    BY <2>9
  <2> DEFINE Upto(i) == /\ flat[i] \in D
                        /\ \A x : Listed(x, flat[i]) <=> \E k \in T : k <= i /\ Listed(x, g[k])
             Good == {i \in T : Upto(i)}
  <2>12. Inductive(T, rank, Good)
    <3> SUFFICES ASSUME NEW i \in T, \A k \in T : rank[k] < rank[i] => Upto(k)
                 PROVE  Upto(i)
      BY DEF Inductive
    <3>1. CASE i = 1
      <4>1. flat[i] = g[i]
        BY <2>11, <3>1
      <4>2. \A k \in T : k <= i <=> k = i
        BY <1>1, <3>1 DEF T
      <4> QED
        BY <1>1, <4>1, <4>2
    <3>2. CASE i # 1
      <4> DEFINE b == i - 1
      <4>1. b \in T /\ rank[b] < rank[i] /\ \A k \in T : k <= i <=> k <= b \/ k = i
        BY <1>1, <2>2, <3>2 DEF T
      <4>2. Upto(b) /\ g[i] \in Seq(S) /\ flat[b] \in Seq(S)
        BY <1>1, <4>1 DEF D
      <4>3. flat[i] = flat[b] \o g[i]
        BY <2>11, <3>2
      <4>4. flat[i] \in D
        BY <4>2, <4>3, ListedInBoth DEF D
      <4>5. \A x : Listed(x, flat[i]) <=> Listed(x, flat[b]) \/ Listed(x, g[i])
        BY <4>2, <4>3, ListedInBoth
      <4> QED
        BY <4>1, <4>2, <4>4, <4>5
    <3> QED
      BY <3>1, <3>2
  <2>13. Len(g) \in Good
    <3>1. T \subseteq Good
      BY <2>1, <2>12, InductBy
    <3> QED
      BY <2>1, <3>1
  <2>14. \A k \in T : k <= Len(g)
    BY <1>1 DEF T
  <2> QED
    BY <1>1, <2>10, <2>13, <2>14 DEF D
<1> QED
  BY <1>2, <1>3
-------------------------------------------------------------------------------
(* A rule and its copies.                                                  *)
DisjunctsSent(rule) == IF rule.constrained THEN to_dnf ELSE {{}}

ActionSent(fixture, rule) ==
  IF rule.action = NoAction THEN fixture.request.action ELSE rule.action

CopyOf(fixture, rule, d) ==
  [action |-> ActionSent(fixture, rule), target |-> NoTarget, refinement |-> {}, duties |-> <<>>,
   constraints |-> BaseConstraints(fixture, rule) \cup d]

(* Any rule as it may be sent. *)
Sent(fixture) ==
  {CopyOf(fixture, fixture.rules[i], d) : i \in DOMAIN fixture.rules, d \in SUBSET Atoms}

LEMMA CopiesList ==
  ASSUME NEW fixture, NEW i \in DOMAIN fixture.rules, to_dnf \in Disjunction
  PROVE  LET rule == fixture.rules[i]
         IN  /\ Copies(fixture, rule) \in Seq(Sent(fixture))
             /\ \A x : Listed(x, Copies(fixture, rule)) <=>
                  /\ Survives(fixture, rule)
                  /\ \E d \in DisjunctsSent(rule) : x = CopyOf(fixture, rule, d)
<1> DEFINE rule == fixture.rules[i]
           D == DisjunctsSent(rule)
           s == SetToSeq(D)
           copies == [d \in DOMAIN s |-> CopyOf(fixture, rule, s[d])]
<1>1. D \in Disjunction
  BY EmptyAndSingle DEF DisjunctsSent
<1>2. s \in Seq(D) /\ \A d \in D : \E j \in DOMAIN s : s[j] = d
  BY <1>1, SetToSeqIs DEF Disjunction
<1>3. Copies(fixture, rule) = IF ~Survives(fixture, rule) THEN <<>> ELSE copies
  BY DEF Copies, CopyOf, DisjunctsSent, ActionSent
<1> HIDE DEF s
<1>4. /\ Len(s) \in Nat /\ DOMAIN s = 1..Len(s) /\ \A j \in DOMAIN s : s[j] \in D
      /\ D \subseteq SUBSET Atoms
  BY <1>1, <1>2 DEF Disjunction
<1> HIDE DEF D, rule
<1>5. \A d \in SUBSET Atoms : CopyOf(fixture, rule, d) \in Sent(fixture)
  BY DEF Sent, rule
<1>6. copies \in Seq(Sent(fixture)) /\ DOMAIN copies = DOMAIN s
  BY <1>4, <1>5
<1>7. ASSUME NEW x
      PROVE  Listed(x, copies) <=> \E d \in D : x = CopyOf(fixture, rule, d)
  BY <1>2, <1>4 DEF Listed
<1>8. \A x : ~Listed(x, <<>>)
  BY DEF Listed
<1> HIDE DEF copies
<1>9. CASE Survives(fixture, rule)
  BY <1>3, <1>6, <1>7, <1>9 DEF rule, D
<1>10. CASE ~Survives(fixture, rule)
  BY <1>3, <1>8, <1>10 DEF rule, D
<1> QED
  BY <1>9, <1>10

IsCopy(fixture, kind, x) ==
  \E i \in DOMAIN fixture.rules :
    /\ fixture.rules[i].kind = kind /\ Survives(fixture, fixture.rules[i])
    /\ \E d \in DisjunctsSent(fixture.rules[i]) : x = CopyOf(fixture, fixture.rules[i], d)

LEMMA CopiesOfList ==
  ASSUME NEW fixture, fixture.rules \in Seq(RuleInfo), to_dnf \in Disjunction, NEW kind
  PROVE  /\ CopiesOf(fixture, kind) \in Seq(Sent(fixture))
         /\ \A x : Listed(x, CopiesOf(fixture, kind)) <=> IsCopy(fixture, kind, x)
<1> DEFINE rules == fixture.rules
           g == [i \in DOMAIN rules |->
                   IF rules[i].kind = kind THEN Copies(fixture, rules[i]) ELSE <<>>]
<1>1. Len(rules) \in Nat /\ DOMAIN rules = 1..Len(rules)
  OBVIOUS
<1>2. ASSUME NEW i \in DOMAIN rules
      PROVE  /\ Copies(fixture, rules[i]) \in Seq(Sent(fixture))
             /\ \A x : Listed(x, Copies(fixture, rules[i])) <=>
                  /\ Survives(fixture, rules[i])
                  /\ \E d \in DisjunctsSent(rules[i]) : x = CopyOf(fixture, rules[i], d)
  BY CopiesList, Zenon
<1>3. DOMAIN g = DOMAIN rules
  OBVIOUS
<1>4. CopiesOf(fixture, kind) = FlattenSeq(g)
  BY DEF CopiesOf
<1>5. \A i \in DOMAIN rules :
        g[i] = IF rules[i].kind = kind THEN Copies(fixture, rules[i]) ELSE <<>>
  OBVIOUS
<1>6. g = [i \in DOMAIN rules |-> g[i]]
  OBVIOUS
<1> HIDE DEF g, rules
<1>7. \A i \in DOMAIN rules : g[i] \in Seq(Sent(fixture))
  <2>1. <<>> \in Seq(Sent(fixture))
    OBVIOUS
  <2>2. \A i \in DOMAIN rules : Copies(fixture, rules[i]) \in Seq(Sent(fixture))
    BY <1>2, Zenon
  <2> QED
    BY <1>5, <2>1, <2>2, Zenon
<1>8. g \in Seq(Seq(Sent(fixture)))
  BY <1>1, <1>6, <1>7
<1>9. ASSUME NEW i \in DOMAIN rules, NEW x
      PROVE  Listed(x, g[i]) <=> rules[i].kind = kind /\ Listed(x, Copies(fixture, rules[i]))
  <2>1. CASE rules[i].kind = kind
    BY <1>5, <2>1
  <2>2. CASE rules[i].kind # kind
    BY <1>5, <2>2 DEF Listed
  <2> QED
    BY <2>1, <2>2
<1>10. /\ FlattenSeq(g) \in Seq(Sent(fixture))
       /\ \A x : Listed(x, FlattenSeq(g)) <=> \E i \in DOMAIN g : Listed(x, g[i])
  BY <1>8, FlattenLists
<1>11. ASSUME NEW x
       PROVE  Listed(x, CopiesOf(fixture, kind)) <=>
                \E i \in DOMAIN rules : rules[i].kind = kind /\ Listed(x, Copies(fixture, rules[i]))
  BY <1>3, <1>4, <1>9, <1>10
<1>12. ASSUME NEW x
       PROVE  Listed(x, CopiesOf(fixture, kind)) <=> IsCopy(fixture, kind, x)
  <2>1. IsCopy(fixture, kind, x) <=>
          \E i \in DOMAIN rules :
            /\ rules[i].kind = kind /\ Survives(fixture, rules[i])
            /\ \E d \in DisjunctsSent(rules[i]) : x = CopyOf(fixture, rules[i], d)
    BY DEF IsCopy, rules
  <2>2. \A i \in DOMAIN rules :
          Listed(x, Copies(fixture, rules[i])) <=>
            /\ Survives(fixture, rules[i])
            /\ \E d \in DisjunctsSent(rules[i]) : x = CopyOf(fixture, rules[i], d)
    BY <1>2, Zenon
  <2> QED
    BY <1>11, <2>1, <2>2, Zenon
<1> QED
  BY <1>4, <1>10, <1>12

(* Who asks is no claim of the world's, so the atoms hold as they did.     *)
LEMMA AtomsKeepTheirTruth ==
  ASSUME NEW fixture, NEW c \in Atoms
  PROVE  evaluate(c, TranslatedAsk(fixture).claims) <=> evaluate(c, claims)
<1> DEFINE sent == TranslatedAsk(fixture).claims
<1>1. c.leftOperand # Sub
  BY SubAssumption, TreeAssumption DEF Constraint
<1>2. sent = [k \in DOMAIN claims \cup {Sub} |->
                 IF k = Sub THEN {fixture.request.assignee} ELSE claims[k]]
  BY DEF TranslatedAsk
<1> HIDE DEF sent
<1>3. c.leftOperand \in DOMAIN sent <=> c.leftOperand \in DOMAIN claims
  BY <1>1, <1>2
<1>4. c.leftOperand \in DOMAIN claims => sent[c.leftOperand] = claims[c.leftOperand]
  BY <1>1, <1>2
<1>5. evaluate(c, sent) <=> evaluate(c, claims)
  BY <1>3, <1>4 DEF evaluate
<1> QED
  BY <1>5 DEF sent

LEMMA BaseHolds ==
  ASSUME NEW fixture, NEW rule, NEW c \in BaseConstraints(fixture, rule)
  PROVE  evaluate(c, TranslatedAsk(fixture).claims)
<1> DEFINE who == fixture.request.assignee
           sent == TranslatedAsk(fixture).claims
<1>1. c = [leftOperand |-> Sub, operator |-> "eq", rightOperand |-> {who}]
  BY DEF BaseConstraints
<1>2. Sub \in DOMAIN sent /\ sent[Sub] = {who}
  BY DEF TranslatedAsk
<1> HIDE DEF sent
<1>3. evaluate(c, sent)
  BY <1>1, <1>2 DEF evaluate
<1> QED
  BY <1>3 DEF sent

LEMMA CopyFires ==
  ASSUME NEW fixture \in Fixtures, NEW i \in DOMAIN fixture.rules, NEW d \in SUBSET Atoms
  PROVE  LET rule == fixture.rules[i]
         IN  fires(CopyOf(fixture, rule, d), TranslatedAsk(fixture)) <=>
               /\ rule.action = NoAction
                    \/ covers(fixture.actions, rule.action, fixture.request.action)
               /\ \A c \in d : evaluate(c, claims)
<1> DEFINE rule == fixture.rules[i]
           copy == CopyOf(fixture, rule, d)
           ask == TranslatedAsk(fixture)
           asked == fixture.request.action
<1>1. /\ rule.action \in Action \cup {NoAction} /\ asked \in Action
      /\ fixture.actions \in Vocabularies
  <2>1. fixture \in Fixture
    BY FixturesAssumption
  <2>2. fixture.rules \in Seq(RuleInfo) /\ fixture.request \in RequestInfo
    BY <2>1 DEF Fixture
  <2>3. rule \in RuleInfo
    BY <2>2
  <2> QED
    BY <2>1, <2>2, <2>3 DEF Fixture, RuleInfo, RequestInfo
<1>2. /\ copy.action = ActionSent(fixture, rule) /\ copy.target = NoTarget
      /\ copy.refinement = {} /\ copy.constraints = BaseConstraints(fixture, rule) \cup d
  BY DEF CopyOf
<1>3. ask.config.actions = fixture.actions /\ ask.action = asked
  BY DEF TranslatedAsk
<1> HIDE DEF copy, ask, rule
<1>4. ActionSent(fixture, rule) \in Action
  BY <1>1 DEF ActionSent
<1>5. <<copy.action, ask.action>> \in coverage[fixture.actions]
        <=> covers(fixture.actions, copy.action, asked)
  <2>1. coverage[fixture.actions]
          = {pair \in Action \X Action : covers(fixture.actions, pair[1], pair[2])}
    BY <1>1 DEF coverage
  <2> QED
    BY <1>1, <1>2, <1>3, <1>4, <2>1
<1>6. covers(fixture.actions, asked, asked)
  BY DEF covers
<1>7. covers(fixture.actions, copy.action, asked)
        <=> rule.action = NoAction \/ covers(fixture.actions, rule.action, asked)
  BY <1>2, <1>6 DEF ActionSent
<1>8. applies(copy, ask) <=> rule.action = NoAction \/ covers(fixture.actions, rule.action, asked)
  BY <1>2, <1>3, <1>5, <1>7
     DEF applies, target_applies, action_applies, covers_action, refinement_satisfied
<1>9. matches(copy, ask.claims) <=> \A c \in d : evaluate(c, claims)
  <2>1. \A c \in BaseConstraints(fixture, rule) : evaluate(c, ask.claims)
    BY BaseHolds DEF ask
  <2>2. \A c \in d : evaluate(c, ask.claims) <=> evaluate(c, claims)
    BY AtomsKeepTheirTruth DEF ask
  <2> QED
    BY <1>2, <2>1, <2>2 DEF matches
<1>10. fires(copy, ask) <=>
         /\ rule.action = NoAction \/ covers(fixture.actions, rule.action, asked)
         /\ \A c \in d : evaluate(c, claims)
  BY <1>8, <1>9 DEF fires
<1> QED
  BY <1>10 DEF copy, ask, rule
ActiveOf(fixture, kind) ==
  \E i \in DOMAIN fixture.rules : fixture.rules[i].kind = kind /\ Active(fixture, fixture.rules[i])

(* Some copy of a rule fires if and only if the rule is active. *)
LEMMA SomeCopyFires ==
  ASSUME TreeInv, Translatable, NEW fixture \in Fixtures, NEW kind
  PROVE  (\E j \in DOMAIN CopiesOf(fixture, kind) :
            fires(CopiesOf(fixture, kind)[j], TranslatedAsk(fixture))) <=> ActiveOf(fixture, kind)
<1> DEFINE rules == fixture.rules
           ask == TranslatedAsk(fixture)
           copies == CopiesOf(fixture, kind)
           About(i) == rules[i].action = NoAction
                         \/ covers(fixture.actions, rules[i].action, fixture.request.action)
<1>1. rules \in Seq(RuleInfo)
  BY FixturesAssumption DEF Fixture
<1>2. to_dnf \in Disjunction /\ (Holds(to_dnf, claims) <=> evaluate_bounded(claims, MaxNodes))
  BY DnfHolds
<1>3. ASSUME NEW i \in DOMAIN rules
      PROVE  /\ DisjunctsSent(rules[i]) \subseteq SUBSET Atoms
             /\ Holds(DisjunctsSent(rules[i]), claims)
                  <=> (rules[i].constrained => evaluate_bounded(claims, MaxNodes))
  <2>1. Holds({{}}, claims) /\ {{}} \subseteq SUBSET Atoms
    BY DEF Holds
  <2>2. to_dnf \subseteq SUBSET Atoms
    BY <1>2 DEF Disjunction
  <2>3. CASE rules[i].constrained
    BY <1>2, <2>2, <2>3 DEF DisjunctsSent
  <2>4. CASE ~rules[i].constrained
    BY <2>1, <2>4 DEF DisjunctsSent
  <2> QED
    BY <2>3, <2>4
<1>4. \A x : Listed(x, copies) <=> IsCopy(fixture, kind, x)
  BY <1>1, <1>2, CopiesOfList
<1>5. ASSUME NEW i \in DOMAIN rules, NEW d \in DisjunctsSent(rules[i])
      PROVE  fires(CopyOf(fixture, rules[i], d), ask)
               <=> About(i) /\ \A c \in d : evaluate(c, claims)
  <2>1. d \in SUBSET Atoms
    BY <1>3
  <2> QED
    BY <2>1, CopyFires
<1>6. \A i \in DOMAIN rules :
        Active(fixture, rules[i]) <=>
          Survives(fixture, rules[i]) /\ About(i) /\ Holds(DisjunctsSent(rules[i]), claims)
  BY <1>3 DEF Active
<1> HIDE DEF rules, ask, copies, About
<1>7. ASSUME NEW j \in DOMAIN copies, fires(copies[j], ask)
      PROVE  \E i \in DOMAIN rules : rules[i].kind = kind /\ Active(fixture, rules[i])
  <2>1. Listed(copies[j], copies)
    BY DEF Listed
  <2>2. PICK i \in DOMAIN rules :
          /\ rules[i].kind = kind /\ Survives(fixture, rules[i])
          /\ \E d \in DisjunctsSent(rules[i]) : copies[j] = CopyOf(fixture, rules[i], d)
    BY <1>4, <2>1 DEF IsCopy, rules
  <2>3. PICK d \in DisjunctsSent(rules[i]) : copies[j] = CopyOf(fixture, rules[i], d)
    BY <2>2
  <2>4. About(i) /\ \A c \in d : evaluate(c, claims)
    BY <1>5, <1>7, <2>3
  <2>5. Holds(DisjunctsSent(rules[i]), claims)
    BY <2>4 DEF Holds
  <2> QED
    BY <1>6, <2>2, <2>4, <2>5
<1>8. ASSUME NEW i \in DOMAIN rules, rules[i].kind = kind, Active(fixture, rules[i])
      PROVE  \E j \in DOMAIN copies : fires(copies[j], ask)
  <2>1. Survives(fixture, rules[i]) /\ About(i) /\ Holds(DisjunctsSent(rules[i]), claims)
    BY <1>6, <1>8
  <2>2. PICK d \in DisjunctsSent(rules[i]) : \A c \in d : evaluate(c, claims)
    BY <2>1 DEF Holds
  <2>3. fires(CopyOf(fixture, rules[i], d), ask)
    BY <1>5, <2>1, <2>2
  <2>4. Listed(CopyOf(fixture, rules[i], d), copies)
    <3>1. IsCopy(fixture, kind, CopyOf(fixture, rules[i], d))
      BY <1>8, <2>1 DEF IsCopy, rules
    <3> QED
      BY <1>4, <3>1
  <2>5. PICK j \in DOMAIN copies : copies[j] = CopyOf(fixture, rules[i], d)
    BY <2>4 DEF Listed
  <2> QED
    BY <2>3, <2>5
<1>9. (\E j \in DOMAIN copies : fires(copies[j], ask))
        <=> \E i \in DOMAIN rules : rules[i].kind = kind /\ Active(fixture, rules[i])
  BY <1>7, <1>8
<1> QED
  BY <1>9 DEF copies, ask, rules, ActiveOf

(* No copy names an action the request's vocabulary leaves out. *)
LEMMA CopiesRecognized ==
  ASSUME NEW fixture \in Fixtures, to_dnf \in Disjunction, NEW kind,
         NEW j \in DOMAIN CopiesOf(fixture, kind)
  PROVE  /\ ~RuleUnrecognized(CopiesOf(fixture, kind)[j], TranslatedAsk(fixture).config)
         /\ CopiesOf(fixture, kind)[j].duties = <<>>
<1> DEFINE copies == CopiesOf(fixture, kind)
           rules == fixture.rules
<1>1. rules \in Seq(RuleInfo) /\ fixture.request.action \in Action
  BY FixturesAssumption DEF Fixture, RequestInfo
<1>2. Listed(copies[j], copies)
  BY DEF Listed
<1>3. PICK i \in DOMAIN rules :
        \E d \in DisjunctsSent(rules[i]) : copies[j] = CopyOf(fixture, rules[i], d)
  <2>1. IsCopy(fixture, kind, copies[j])
    BY <1>1, <1>2, CopiesOfList
  <2> QED
    BY <2>1 DEF IsCopy
<1>4. copies[j].action = ActionSent(fixture, rules[i]) /\ copies[j].duties = <<>>
  BY <1>3 DEF CopyOf
<1>5. {fixture.request.action} \cup {rules[k].action : k \in DOMAIN rules}
        \subseteq declared_actions(fixture.actions) \cup {NoAction}
  BY FixturesAssumption
<1>6. ActionSent(fixture, rules[i]) \in declared_actions(fixture.actions)
  BY <1>1, <1>5, NoActionAssumption DEF ActionSent
<1>7. recognizes(fixture.actions, ActionSent(fixture, rules[i]))
  BY <1>6 DEF declared_actions, recognizes, Declarations
<1>8. TranslatedAsk(fixture).config.actions = fixture.actions
  BY DEF TranslatedAsk
<1> HIDE DEF copies
<1>9. ~RuleUnrecognized(copies[j], TranslatedAsk(fixture).config)
  BY <1>4, <1>7, <1>8 DEF RuleUnrecognized
<1> QED
  BY <1>4, <1>9 DEF copies

LEMMA AnswerIsExpected ==
  ASSUME TreeInv, Translatable, NEW fixture \in Fixtures
  PROVE  AnswerToFixture(fixture) = expected_decision(fixture)
<1> DEFINE sent == translate(fixture)
           ask == TranslatedAsk(fixture)
<1>1. to_dnf \in Disjunction
  BY DnfHolds
<1>2. /\ sent.permissions = CopiesOf(fixture, "permission")
      /\ sent.prohibitions = CopiesOf(fixture, "prohibition")
      /\ sent.obligations = <<>> /\ sent.conflict = "invalid"
  BY DEF translate
<1>3. ask.config.behaviour = "closed" /\ ask.config.dutyMode = "advise"
  BY DEF TranslatedAsk
<1>4. \A i \in DOMAIN sent.permissions : ~RuleUnrecognized(sent.permissions[i], ask.config)
  BY <1>1, <1>2, CopiesRecognized
<1>5. \A i \in DOMAIN sent.prohibitions : ~RuleUnrecognized(sent.prohibitions[i], ask.config)
  BY <1>1, <1>2, CopiesRecognized
<1>6. (\E i \in DOMAIN sent.permissions : fires(sent.permissions[i], ask))
        <=> ActiveOf(fixture, "permission")
  BY <1>2, SomeCopyFires
<1>7. (\E i \in DOMAIN sent.prohibitions : fires(sent.prohibitions[i], ask))
        <=> ActiveOf(fixture, "prohibition")
  BY <1>2, SomeCopyFires
<1>8. expected_decision(fixture) =
        IF ActiveOf(fixture, "prohibition") THEN "deny"
        ELSE IF ActiveOf(fixture, "permission") THEN "allow" ELSE "deny"
  BY DEF expected_decision, ActiveOf
<1>9. AnswerToFixture(fixture) =
        IF sent.permissions = <<>> /\ sent.prohibitions = <<>> THEN "deny" ELSE decide(sent, ask)
  BY DEF AnswerToFixture
<1> HIDE DEF sent, ask
<1>10. ~unrecognized_action(sent, ask.config)
  BY <1>2, <1>4, <1>5 DEF unrecognized_action
<1>11. Fired(sent, ask) # {} <=> ActiveOf(fixture, "prohibition")
  BY <1>7 DEF Fired
<1>12. Granting(sent, ask) # {} <=> ActiveOf(fixture, "permission")
  BY <1>3, <1>6 DEF Granting, grants
<1>13. ~permission_wins(sent, ask) /\ ~obligation_forces_deny(sent, ask)
  BY <1>2, <1>3 DEF permission_wins, obligation_forces_deny
<1>14. permission_requirement_met(sent, ask) <=> Granting(sent, ask) # {}
  BY <1>3 DEF permission_requirement_met
<1>15. decide(sent, ask) = expected_decision(fixture)
  BY <1>8, <1>10, <1>11, <1>12, <1>13, <1>14 DEF decide
<1>16. ASSUME sent.permissions = <<>>, sent.prohibitions = <<>>
       PROVE  expected_decision(fixture) = "deny"
  <2>1. ~ \E i \in DOMAIN sent.permissions : TRUE
    BY <1>16
  <2>2. ~ActiveOf(fixture, "permission")
    BY <1>6, <2>1
  <2> QED
    BY <1>8, <2>2
<1> QED
  BY <1>9, <1>15, <1>16

(* What the engine decides of the plain rules a fixture is translated to   *)
(* is what the suite's own reading of the fixture expects, for every tree  *)
(* of ands and ors, every fixture and every state of the world             *)
(* (translate, to_dnf and resolve_operator of the compliance runner,       *)
(* decide of the engine).                                                  *)
THEOREM TranslationAgreesCorrect ==
  TreeSpec => []TranslationAgrees
<1>1. TreeInv => TranslationAgrees
  BY AnswerIsExpected DEF TranslationAgrees
<1> QED
  BY <1>1, TreeInvCorrect, PTL
===============================================================================
