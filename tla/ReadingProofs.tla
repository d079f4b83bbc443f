------------------------------ MODULE ReadingProofs ----------------------------
(***************************************************************************)
(* What the engine reads before it decides anything.  The vocabulary: the  *)
(* includedIn walk answers coverage for every list of declarations, what-  *)
(* ever cycles, duplicates and undeclared parents it holds, and profiles   *)
(* that do not contradict each other load in any order.  And the times:    *)
(* instants and durations are read alike, in every zone and on every day.  *)
(***************************************************************************)
EXTENDS Vocabulary, Clocks, WellFoundedInduction, FiniteSetTheorems, TLAPS

(* Every non-empty set of naturals has a least element: what a search for  *)
(* the first entry of a list with some property relies on.                 *)
LEMMA LeastNat ==
  ASSUME NEW S \in SUBSET Nat, S # {}
  PROVE  \E i \in S : \A j \in S : i <= j
<1> DEFINE R == OpToRel(<, Nat)
<1>1. IsWellFoundedOn(R, Nat)
  BY NatLessThanWellFounded
<1> HIDE DEF R
<1>2. PICK i \in S : \A j \in S : ~ (<<j, i>> \in R)
  BY <1>1, WFMin
<1>3. \A j \in S : <<j, i>> \in R <=> j < i
  BY DEF R, OpToRel
<1>4. \A j \in S : ~ (j < i)
  BY <1>2, <1>3, Zenon
<1>5. \A j \in S : i <= j
  BY <1>4, SMT
<1> QED
  BY <1>5

(* A declared parent is an action: the sentinel is the only other value. *)
LEMMA ParentType ==
  ASSUME NEW decls \in Seq(ActionDecl), NEW a
  PROVE  IncludedIn(decls, a) \in Action \cup {NoAction}
<1>1. CASE recognizes(decls, a)
  <2> DEFINE D == Declarations(decls, a)
  <2>1. D \in SUBSET Nat /\ D # {}
    BY <1>1 DEF recognizes, Declarations
  <2>2. \E i \in D : \A j \in D : i <= j
    BY <2>1, LeastNat
  <2>3. FirstDeclaration(decls, a) \in D
    BY <2>2 DEF FirstDeclaration
  <2>4. FirstDeclaration(decls, a) \in DOMAIN decls
    BY <2>3 DEF Declarations
  <2> DEFINE d == FirstDeclaration(decls, a)
  <2> HIDE DEF d, D
  <2>5. decls[d] \in ActionDecl
    BY <2>4 DEF d
  <2>6. decls[d].includedIn \in Action \cup {NoAction}
    BY <2>5 DEF ActionDecl
  <2> QED
    BY <1>1, <2>6 DEF IncludedIn, d
<1>2. CASE ~recognizes(decls, a)
  BY <1>2 DEF IncludedIn
<1> QED
  BY <1>1, <1>2

(* Coverage starts at the requested action and follows every parent edge. *)
LEMMA CoversSelf ==
  ASSUME NEW decls, NEW a
  PROVE  covers(decls, a, a)
BY DEF covers

LEMMA CoversParent ==
  ASSUME NEW decls, NEW a, NEW b, covers(decls, a, b), IncludedIn(decls, a) # NoAction
  PROVE  covers(decls, IncludedIn(decls, a), b)
BY DEF covers, UpwardClosed

-------------------------------------------------------------------------------
(* What holds of a walk at every step: it stands on actions, what it has   *)
(* reached are ancestors, and a positive answer is an ancestor's.          *)
WalkIsSound ==
  /\ actions \in Seq(ActionDecl) /\ ruleAction \in Action /\ requested \in Action
  /\ current \in Action /\ visited \subseteq Action
  /\ answer \in {"walking", "covers", "misses"}
  /\ WalkInv
  /\ answer = "covers" => covers(actions, ruleAction, requested)

LEMMA WalkStep ==
  ASSUME WalkIsSound, [Next]_vars
  PROVE  WalkIsSound'
<1> USE DEF WalkIsSound, WalkInv, input
<1>1. CASE Revisit
  BY <1>1 DEF Revisit, UpwardClosed
<1>2. CASE RunOut
  BY <1>2 DEF RunOut, UpwardClosed
<1>3. CASE Found
  <2>1. ruleAction # NoAction
    BY NoActionAssumption
  <2>2. covers(actions, ruleAction, requested)
    BY <1>3, <2>1, CoversParent DEF Found
  <2> QED
    BY <1>3, <2>2 DEF Found, UpwardClosed
<1>4. CASE Climb
  <2>1. covers(actions, IncludedIn(actions, current), requested)
    BY <1>4, CoversParent DEF Climb
  <2>2. IncludedIn(actions, current) \in Action
    BY <1>4, ParentType DEF Climb
  <2> QED
    BY <1>4, <2>1, <2>2 DEF Climb, UpwardClosed
<1>5. CASE UNCHANGED vars
  BY <1>5 DEF vars
<1> QED
  BY <1>1, <1>2, <1>3, <1>4, <1>5 DEF Next

(* After a negative answer the visited actions are an upward-closed set    *)
(* that holds the requested action and not the rule's.                     *)
LEMMA SoundDecides ==
  WalkIsSound => WalkDecidesCoverage
<1> SUFFICES ASSUME WalkIsSound, answer = "misses"
             PROVE  ~covers(actions, ruleAction, requested)
  BY DEF WalkIsSound, WalkDecidesCoverage
<1>1. visited \in SUBSET Action /\ requested \in visited /\ UpwardClosed(actions, visited)
  BY DEF WalkIsSound, WalkInv
<1>2. ruleAction \notin visited
  BY DEF WalkIsSound, WalkInv
<1> QED
  BY <1>1, <1>2 DEF covers

(* covers, called on any configuration, returns true exactly for the       *)
(* requested action and its declared ancestors (ResolvedConfig::covers).   *)
THEOREM WalkCorrect == Spec => [](TypeOK /\ WalkDecidesCoverage)
<1> DEFINE Inv == actions \in Vocabularies /\ WalkIsSound
<1>1. Init => Inv
  BY VocabulariesAssumption, CoversSelf DEF Init, WalkIsSound, WalkInv, UpwardClosed
<1>2. Inv /\ [Next]_vars => Inv'
  <2> SUFFICES ASSUME Inv, [Next]_vars
               PROVE  Inv'
    OBVIOUS
  <2>1. actions' = actions
    BY DEF Next, Revisit, RunOut, Found, Climb, input, vars
  <2> QED
    BY <2>1, WalkStep
<1>3. Inv => TypeOK /\ WalkDecidesCoverage
  BY SoundDecides DEF WalkIsSound, TypeOK
<1> QED
  BY <1>1, <1>2, <1>3, PTL DEF Spec

-------------------------------------------------------------------------------
(* Counting up to N, and the function a recursive definition over 0..N     *)
(* defines, for a step given as a function.                                *)
LEMMA InductTo ==
  ASSUME NEW N \in Nat, NEW Good, 0 \in Good, \A n \in 1..N : n - 1 \in Good => n \in Good
  PROVE  \A n \in 0..N : n \in Good
<1> SUFFICES ASSUME (0..N) \ Good # {}
             PROVE  FALSE
  OBVIOUS
<1> DEFINE S == (0..N) \ Good
<1>0. S \in SUBSET Nat /\ S # {}
  OBVIOUS
<1>1. PICK n \in S : \A k \in S : n <= k
  BY <1>0, LeastNat
<1>2. n \in 1..N /\ n - 1 \in 0..N /\ ~ (n <= n - 1)
  BY <1>1
<1>3. n - 1 \in Good
  BY <1>1, <1>2
<1> QED
  BY <1>1, <1>2, <1>3

Steps(N, D) == [1..N -> [D -> D]]

IsRun(f, N, D, base, step) ==
  /\ f \in [0..N -> D]
  /\ f[0] = base /\ \A n \in 1..N : f[n] = step[n][f[n - 1]]

LEMMA Iterates ==
  ASSUME NEW N \in Nat, NEW D, NEW base \in D, NEW step \in Steps(N, D)
  PROVE  \E f : IsRun(f, N, D, base, step)
<1> USE DEF Steps, IsRun
<1> DEFINE Upto(n) == \E f \in [0..n -> D] :
                         f[0] = base /\ \A k \in 1..n : f[k] = step[k][f[k - 1]]
           Good == {n \in 0..N : Upto(n)}
<1>1. 0 \in Good
  <2> DEFINE f == [k \in 0..0 |-> base]
  <2>1. f \in [0..0 -> D] /\ f[0] = base /\ 1..0 = {}
    OBVIOUS
  <2> HIDE DEF f
  <2>2. \A k \in 1..0 : f[k] = step[k][f[k - 1]]
    BY <2>1
  <2>3. Upto(0)
    BY <2>1, <2>2
  <2> QED
    BY <2>3
<1>2. ASSUME NEW n \in 1..N, n - 1 \in Good
      PROVE  n \in Good
  <2>1. PICK f \in [0..(n - 1) -> D] :
               f[0] = base /\ \A k \in 1..(n - 1) : f[k] = step[k][f[k - 1]]
    BY <1>2
  <2> DEFINE g == [k \in 0..n |-> IF k = n THEN step[n][f[n - 1]] ELSE f[k]]
  <2>2. f[n - 1] \in D /\ step[n] \in [D -> D]
    BY <2>1
  <2>3. g \in [0..n -> D]
    BY <2>1, <2>2
  <2>4. g[0] = base
    BY <2>1
  <2>5. ASSUME NEW k \in 1..n
        PROVE  g[k] = step[k][g[k - 1]]
    <3>1. k - 1 \in 0..n /\ k - 1 # n
      OBVIOUS
    <3>2. g[k - 1] = f[k - 1]
      BY <3>1
    <3>3. CASE k = n
      <4>1. g[n] = step[n][f[n - 1]] /\ g[n - 1] = f[n - 1]
        BY <3>2, <3>3
      <4> HIDE DEF g
      <4> QED
        BY <3>3, <4>1
    <3>4. CASE k # n
      <4>1. k \in 1..(n - 1) /\ g[k] = f[k]
        BY <3>4
      <4> QED
        BY <2>1, <3>2, <4>1
    <3> QED
      BY <3>3, <3>4
  <2>6. Upto(n)
    BY <2>3, <2>4, <2>5
  <2> QED
    BY <2>6
<1> HIDE DEF Good
<1>3. \A n \in 0..N : n \in Good
  BY <1>1, <1>2, InductTo
<1> QED
  BY <1>3 DEF Good

-------------------------------------------------------------------------------
(* A list of declarations keeps its type, and says of an action what its   *)
(* first declaration does.                                                 *)
LEMMA FirstIs ==
  ASSUME NEW decls \in Seq(ActionDecl), NEW a, recognizes(decls, a)
  PROVE  /\ FirstDeclaration(decls, a) \in DOMAIN decls
         /\ decls[FirstDeclaration(decls, a)].id = a
         /\ \A k \in DOMAIN decls : decls[k].id = a => FirstDeclaration(decls, a) <= k
<1> DEFINE S == Declarations(decls, a)
<1>1. S \in SUBSET Nat /\ S # {}
  BY DEF Declarations, recognizes
<1>2. \E i \in S : \A j \in S : i <= j
  BY <1>1, LeastNat
<1>3. FirstDeclaration(decls, a) \in S /\ \A j \in S : FirstDeclaration(decls, a) <= j
  BY <1>2 DEF FirstDeclaration
<1> QED
  BY <1>3 DEF Declarations

LEMMA FirstSays ==
  ASSUME NEW decls \in Seq(ActionDecl), NEW i \in DOMAIN decls,
         \A k \in 1..(i - 1) : decls[k].id # decls[i].id
  PROVE  recognizes(decls, decls[i].id) /\ IncludedIn(decls, decls[i].id) = decls[i].includedIn
<1> DEFINE a == decls[i].id
           first == FirstDeclaration(decls, a)
<1>1. recognizes(decls, a)
  BY DEF recognizes, Declarations
<1>2. first \in DOMAIN decls /\ decls[first].id = a /\ first <= i
  BY <1>1, FirstIs
<1>3. first = i
  BY <1>2
<1> QED
  BY <1>1, <1>3 DEF IncludedIn

LEMMA Recognized ==
  ASSUME NEW decls, NEW a
  PROVE  recognizes(decls, a) <=> \E i \in DOMAIN decls : decls[i].id = a
BY DEF recognizes, Declarations

LEMMA Declared ==
  ASSUME NEW decls \in Seq(ActionDecl), NEW decl \in ActionDecl
  PROVE  /\ Declare(decls, decl) \in Seq(ActionDecl)
         /\ \A a : recognizes(Declare(decls, decl), a) <=> recognizes(decls, a) \/ a = decl.id
         /\ \A a : recognizes(decls, a) => IncludedIn(Declare(decls, decl), a) = IncludedIn(decls, a)
         /\ ~recognizes(decls, decl.id) =>
              IncludedIn(Declare(decls, decl), decl.id) = decl.includedIn
<1>1. CASE recognizes(decls, decl.id)
  BY <1>1 DEF Declare
<1>2. CASE ~recognizes(decls, decl.id)
  <2> DEFINE more == Append(decls, decl)
             n == Len(decls) + 1
  <2>1. Declare(decls, decl) = more
    BY <1>2 DEF Declare
  <2>2. /\ more \in Seq(ActionDecl) /\ n \in DOMAIN more /\ more[n] = decl
        /\ DOMAIN decls = 1..Len(decls) /\ DOMAIN more = 1..n /\ Len(decls) \in Nat
        /\ \A k \in DOMAIN decls : k \in DOMAIN more /\ more[k] = decls[k]
    OBVIOUS
  <2> HIDE DEF more
  <2>3. \A k \in DOMAIN more : k = n \/ k \in DOMAIN decls
    BY <2>2
  <2>4. \A a : recognizes(more, a) <=> recognizes(decls, a) \/ a = decl.id
    BY <2>2, <2>3, Recognized
  <2>5. ASSUME NEW a, recognizes(decls, a)
        PROVE  IncludedIn(more, a) = IncludedIn(decls, a)
    <3> DEFINE first == FirstDeclaration(decls, a)
    <3>1. /\ first \in DOMAIN decls /\ decls[first].id = a
          /\ \A k \in DOMAIN decls : decls[k].id = a => first <= k
      BY <2>5, FirstIs
    <3> HIDE DEF first
    <3>2. first \in DOMAIN more /\ more[first] = decls[first]
      BY <2>2, <3>1
    <3>3. \A k \in 1..(first - 1) : more[k].id # more[first].id
      BY <2>2, <3>1, <3>2
    <3>4. IncludedIn(more, a) = more[first].includedIn
      BY <2>2, <3>1, <3>2, <3>3, FirstSays
    <3> QED
      BY <2>5, <3>2, <3>4 DEF IncludedIn, first
  <2>6. IncludedIn(more, decl.id) = decl.includedIn
    <3>1. \A k \in 1..(n - 1) : more[k].id # more[n].id
      BY <1>2, <2>2, Recognized
    <3> QED
      BY <2>2, <3>1, FirstSays
  <2> QED
    BY <2>1, <2>2, <2>4, <2>5, <2>6
<1> QED
  BY <1>1, <1>2

-------------------------------------------------------------------------------
(* Merging the declarations of another document: what was known stays, the *)
(* rest is taken over.                                                     *)
LEMMA UnionRuns ==
  ASSUME NEW decls \in Seq(ActionDecl), NEW more \in Seq(ActionDecl)
  PROVE  \E f \in [0..Len(more) -> Seq(ActionDecl)] :
           /\ f[0] = decls
           /\ \A n \in 1..Len(more) : f[n] = Declare(f[n - 1], more[n])
           /\ Union(decls, more) = f[Len(more)]
<1> DEFINE N == Len(more)
           D == Seq(ActionDecl)
           step == [n \in 1..N |-> [d \in D |-> Declare(d, more[n])]]
<1>1. N \in Nat /\ \A n \in 1..N : more[n] \in ActionDecl
  OBVIOUS
<1>2. ASSUME NEW n \in 1..N, NEW d \in D
      PROVE  Declare(d, more[n]) \in D
  BY <1>1, Declared
<1>3. step \in Steps(N, D)
  BY <1>2 DEF Steps
<1>4. decls \in D /\ \A n \in 1..N : \A d \in D : step[n][d] = Declare(d, more[n])
  OBVIOUS
<1> HIDE DEF step, D, N
<1>5. PICK f \in [0..N -> D] : f[0] = decls /\ \A n \in 1..N : f[n] = step[n][f[n - 1]]
  <2>1. N \in Nat /\ decls \in D /\ step \in Steps(N, D)
    BY <1>1, <1>3, <1>4
  <2>2. \E f : IsRun(f, N, D, decls, step)
    BY <2>1, Iterates
  <2> QED
    BY <2>2 DEF IsRun
<1> DEFINE Runs(g) == g = [n \in 0..N |-> IF n = 0 THEN decls ELSE Declare(g[n - 1], more[n])]
<1>6. ASSUME NEW n \in 1..N
      PROVE  f[n] = Declare(f[n - 1], more[n])
  <2>1. n - 1 \in 0..N
    BY <1>1
  <2>2. f[n - 1] \in D
    BY <1>5, <2>1
  <2> QED
    BY <1>4, <1>5, <2>2
<1>7. Runs(f)
  BY <1>1, <1>5, <1>6
<1> DEFINE g == CHOOSE h : Runs(h)
<1>8. Runs(g)
  BY <1>7
<1>9. Union(decls, more) = g[N]
  BY DEF Union, N
<1> HIDE DEF g
<1>10. g[0] = decls /\ \A n \in 1..N : g[n] = Declare(g[n - 1], more[n])
  BY <1>1, <1>8
<1>11. \A n \in 0..N : g[n] = f[n]
  <2> DEFINE Good == {n \in 0..N : g[n] = f[n]}
  <2>1. 0 \in Good
    BY <1>1, <1>5, <1>10
  <2>2. ASSUME NEW n \in 1..N, n - 1 \in Good
        PROVE  n \in Good
    BY <1>6, <1>10, <2>2
  <2> HIDE DEF Good
  <2>3. \A n \in 0..N : n \in Good
    BY <1>1, <2>1, <2>2, InductTo
  <2> QED
    BY <2>3 DEF Good
<1> QED
  BY <1>1, <1>5, <1>6, <1>9, <1>11 DEF D, N

LEMMA Merged ==
  ASSUME NEW decls \in Seq(ActionDecl), NEW more \in Seq(ActionDecl)
  PROVE  /\ Union(decls, more) \in Seq(ActionDecl)
         /\ \A a : recognizes(Union(decls, more), a) <=> recognizes(decls, a) \/ recognizes(more, a)
         /\ \A a : recognizes(decls, a) => IncludedIn(Union(decls, more), a) = IncludedIn(decls, a)
         /\ \A a : ~recognizes(decls, a) /\ recognizes(more, a) =>
                     IncludedIn(Union(decls, more), a) = IncludedIn(more, a)
<1> DEFINE N == Len(more)
<1>1. PICK f \in [0..N -> Seq(ActionDecl)] :
             /\ f[0] = decls
             /\ \A n \in 1..N : f[n] = Declare(f[n - 1], more[n])
             /\ Union(decls, more) = f[N]
  BY UnionRuns
<1>2. N \in Nat /\ DOMAIN more = 1..N /\ \A n \in 1..N : more[n] \in ActionDecl
  OBVIOUS
<1>3. ASSUME NEW n \in 1..N
      PROVE  /\ n - 1 \in 0..N
             /\ \A a : recognizes(f[n], a) <=> recognizes(f[n - 1], a) \/ a = more[n].id
             /\ \A a : recognizes(f[n - 1], a) => IncludedIn(f[n], a) = IncludedIn(f[n - 1], a)
             /\ ~recognizes(f[n - 1], more[n].id) =>
                  IncludedIn(f[n], more[n].id) = more[n].includedIn
  <2>1. n - 1 \in 0..N
    BY <1>2
  <2> DEFINE before == f[n - 1]
             decl == more[n]
  <2>2. before \in Seq(ActionDecl) /\ decl \in ActionDecl /\ f[n] = Declare(before, decl)
    BY <1>1, <1>2, <2>1
  <2> HIDE DEF before, decl
  <2>3. /\ \A a : recognizes(Declare(before, decl), a) <=> recognizes(before, a) \/ a = decl.id
        /\ \A a : recognizes(before, a) =>
                    IncludedIn(Declare(before, decl), a) = IncludedIn(before, a)
        /\ ~recognizes(before, decl.id) =>
             IncludedIn(Declare(before, decl), decl.id) = decl.includedIn
    BY <2>2, Declared, Zenon
  <2> QED
    BY <2>1, <2>2, <2>3 DEF before, decl
<1>4. ASSUME NEW a
      PROVE  /\ recognizes(f[N], a) <=> recognizes(decls, a) \/ recognizes(more, a)
             /\ recognizes(decls, a) => IncludedIn(f[N], a) = IncludedIn(decls, a)
             /\ ~recognizes(decls, a) /\ recognizes(more, a) =>
                  IncludedIn(f[N], a) = IncludedIn(more, a)
  <2> DEFINE Names(n) == \E k \in 1..n : more[k].id = a
             Fine(n) ==
               /\ recognizes(f[n], a) <=> recognizes(decls, a) \/ Names(n)
               /\ recognizes(decls, a) => IncludedIn(f[n], a) = IncludedIn(decls, a)
               /\ \A k \in 1..n :
                    ~recognizes(decls, a) /\ more[k].id = a /\ (\A j \in 1..(k - 1) : more[j].id # a)
                      => IncludedIn(f[n], a) = more[k].includedIn
             Good == {n \in 0..N : Fine(n)}
  <2>1. 0 \in Good
    BY <1>1, <1>2
  <2>2. ASSUME NEW n \in 1..N, n - 1 \in Good
        PROVE  n \in Good
    <3>1. Fine(n - 1)
      BY <2>2
    <3>2. Names(n) <=> Names(n - 1) \/ more[n].id = a
      BY <1>2
    <3>3. recognizes(f[n], a) <=> recognizes(f[n - 1], a) \/ a = more[n].id
      BY <1>3
    <3>4. recognizes(f[n], a) <=> recognizes(decls, a) \/ Names(n)
      BY <3>1, <3>2, <3>3
    <3>5. recognizes(f[n - 1], a) => IncludedIn(f[n], a) = IncludedIn(f[n - 1], a)
      BY <1>3
    <3>6. recognizes(decls, a) => IncludedIn(f[n], a) = IncludedIn(decls, a)
      BY <3>1, <3>5
    <3>7. ASSUME NEW k \in 1..n, ~recognizes(decls, a), more[k].id = a,
                 \A j \in 1..(k - 1) : more[j].id # a
          PROVE  IncludedIn(f[n], a) = more[k].includedIn
      <4>1. CASE k = n
        <5>1. ~Names(n - 1)
          BY <3>7, <4>1
        <5>2. ~recognizes(f[n - 1], a)
          BY <3>1, <3>7, <5>1
        <5> QED
          BY <1>3, <3>7, <4>1, <5>2
      <4>2. CASE k # n
        <5>1. k \in 1..(n - 1) /\ Names(n - 1)
          BY <3>7, <4>2
        <5> QED
          BY <3>1, <3>5, <3>7, <5>1
      <4> QED
        BY <4>1, <4>2
    <3> HIDE DEF Names
    <3>8. Fine(n)
      BY <3>4, <3>6, <3>7
    <3> QED
      BY <3>8
  <2> HIDE DEF Good
  <2>3. \A n \in 0..N : n \in Good
    BY <1>2, <2>1, <2>2, InductTo
  <2>4. Fine(N)
    BY <1>2, <2>3 DEF Good
  <2>5. recognizes(more, a) <=> Names(N)
    BY <1>2, Recognized
  <2>6. ASSUME ~recognizes(decls, a), recognizes(more, a)
        PROVE  IncludedIn(f[N], a) = IncludedIn(more, a)
    <3> DEFINE first == FirstDeclaration(more, a)
    <3>1. /\ first \in 1..N /\ more[first].id = a
          /\ \A k \in 1..N : more[k].id = a => first <= k
      BY <1>2, <2>6, FirstIs
    <3> HIDE DEF first
    <3>2. \A j \in 1..(first - 1) : more[j].id # a
      BY <1>2, <3>1
    <3>3. IncludedIn(f[N], a) = more[first].includedIn
      BY <2>4, <2>6, <3>1, <3>2
    <3> QED
      BY <2>6, <3>3 DEF IncludedIn, first
  <2> HIDE DEF Names
  <2> QED
    BY <2>4, <2>5, <2>6
<1> QED
  BY <1>1, <1>2, <1>4

-------------------------------------------------------------------------------
(* What a document is read as.                                             *)
LEMMA ObjectNodeType ==
  ASSUME NEW document \in Seq(Triple), NEW subject
  PROVE  object_node(document, subject) \in Action \cup {NoAction}
<1> DEFINE stated == {i \in DOMAIN document :
                        document[i].predicate = "includedIn" /\ document[i].subject = subject}
           first == document[CHOOSE i \in stated : \A j \in stated : i <= j]
<1>1. object_node(document, subject) =
        IF stated = {} \/ first.object = Literal THEN NoAction ELSE LocalName[first.object]
  BY DEF object_node
<1>2. CASE stated # {} /\ first.object # Literal
  <2>1. stated \in SUBSET Nat
    OBVIOUS
  <2>2. \E i \in stated : \A j \in stated : i <= j
    BY <1>2, <2>1, LeastNat
  <2>3. (CHOOSE i \in stated : \A j \in stated : i <= j) \in DOMAIN document
    BY <2>2
  <2>4. first \in Triple
    BY <2>3
  <2> HIDE DEF first, stated
  <2>5. first.object \in IRI
    BY <1>2, <2>4 DEF Triple
  <2> QED
    BY <1>1, <1>2, <2>5, LocalNameAssumption
<1> QED
  BY <1>1, <1>2

LEMMA InterpretType ==
  ASSUME NEW document \in Seq(Triple)
  PROVE  interpret(document) \in Seq(ActionDecl)
<1> DEFINE N == Len(document)
           D == Seq(ActionDecl)
           Decl(n) == [id |-> LocalName[document[n].subject],
                       includedIn |-> object_node(document, document[n].subject)]
           Next1(n, d) == IF n \notin subjects_with_type(document) THEN d ELSE Declare(d, Decl(n))
           step == [n \in 1..N |-> [d \in D |-> Next1(n, d)]]
<1>1. N \in Nat /\ <<>> \in D /\ \A n \in 1..N : document[n] \in Triple
  OBVIOUS
<1>2. ASSUME NEW n \in 1..N, NEW d \in D
      PROVE  Next1(n, d) \in D
  <2>1. document[n].subject \in IRI
    BY <1>1 DEF Triple
  <2>2. LocalName[document[n].subject] \in Action
    BY <2>1, LocalNameAssumption
  <2>3. object_node(document, document[n].subject) \in Action \cup {NoAction}
    BY ObjectNodeType
  <2>4. Decl(n) \in ActionDecl
    BY <2>2, <2>3 DEF ActionDecl
  <2>5. Declare(d, Decl(n)) \in D
    BY <2>4, Declared
  <2> QED
    BY <2>5
<1>3. step \in Steps(N, D)
  BY <1>2 DEF Steps
<1>4. \A n \in 1..N : \A d \in D : step[n][d] = Next1(n, d)
  OBVIOUS
<1> HIDE DEF step, D, N, Next1
<1>5. PICK f : IsRun(f, N, D, <<>>, step)
  BY <1>1, <1>3, Iterates
<1>6. f \in [0..N -> D] /\ f[0] = <<>>
  BY <1>5 DEF IsRun
<1>7. ASSUME NEW n \in 1..N
      PROVE  f[n] = Next1(n, f[n - 1])
  <2>1. n - 1 \in 0..N /\ f[n] = step[n][f[n - 1]]
    BY <1>1, <1>5 DEF IsRun
  <2> QED
    BY <1>4, <1>6, <2>1
<1> DEFINE Runs(g) == g = [n \in 0..N |-> IF n = 0 THEN <<>> ELSE Next1(n, g[n - 1])]
<1>8. Runs(f)
  BY <1>1, <1>6, <1>7
<1> DEFINE g == CHOOSE h : Runs(h)
<1>9. Runs(g)
  BY <1>8
<1>10. interpret(document) = g[N]
  BY DEF interpret, Next1, N
<1> HIDE DEF g
<1> DEFINE Good == {n \in 0..N : g[n] \in D}
<1>11. 0 \in Good
  BY <1>1, <1>9
<1>12. ASSUME NEW n \in 1..N, n - 1 \in Good
       PROVE  n \in Good
  <2>1. g[n] = Next1(n, g[n - 1])
    BY <1>1, <1>9
  <2> QED
    BY <1>2, <1>12, <2>1
<1> HIDE DEF Good
<1>13. \A n \in 0..N : n \in Good
  BY <1>1, <1>11, <1>12, InductTo
<1> QED
  BY <1>1, <1>10, <1>13 DEF Good, D

-------------------------------------------------------------------------------
(* The configuration a list of profiles is resolved into.                  *)
Configs ==
  [actions : Seq(ActionDecl), dutyMode : {"advise", "deny"}, behaviour : {"open", "closed"}]

Read(source) == interpret(source.document)

LEMMA MergeType ==
  ASSUME NEW config \in Configs, NEW source \in Source
  PROVE  Merge(config, source) \in Configs
<1>1. source.document \in Seq(Triple) /\ config.actions \in Seq(ActionDecl)
  BY DEF Source, Configs
<1>2. Union(config.actions, interpret(source.document)) \in Seq(ActionDecl)
  BY <1>1, InterpretType, Merged
<1> QED
  BY <1>2 DEF Merge, Configs, Source, Strictest

(* f[n] is what the first n profiles are resolved into.                    *)
ResolvesBy(f, sources) ==
  /\ f \in [0..Len(sources) -> Configs]
  /\ f[0] = NoProfile
  /\ \A n \in 1..Len(sources) : f[n] = Merge(f[n - 1], sources[n])
  /\ resolve(sources) = f[Len(sources)]

LEMMA ResolveRuns ==
  ASSUME NEW sources \in Seq(Source)
  PROVE  \E f : ResolvesBy(f, sources)
<1> DEFINE N == Len(sources)
           step == [n \in 1..N |-> [c \in Configs |-> Merge(c, sources[n])]]
<1>1. N \in Nat /\ NoProfile \in Configs /\ \A n \in 1..N : sources[n] \in Source
  BY DEF NoProfile, Configs
<1>2. step \in Steps(N, Configs)
  BY <1>1, MergeType DEF Steps
<1>3. \A n \in 1..N : \A c \in Configs : step[n][c] = Merge(c, sources[n])
  OBVIOUS
<1> HIDE DEF step, N
<1>4. PICK f : IsRun(f, N, Configs, NoProfile, step)
  BY <1>1, <1>2, Iterates
<1>5. f \in [0..N -> Configs] /\ f[0] = NoProfile
  BY <1>4 DEF IsRun
<1>6. ASSUME NEW n \in 1..N
      PROVE  f[n] = Merge(f[n - 1], sources[n])
  <2>1. n - 1 \in 0..N /\ f[n] = step[n][f[n - 1]]
    BY <1>1, <1>4 DEF IsRun
  <2> QED
    BY <1>3, <1>5, <2>1
<1> DEFINE Runs(g) == g = [n \in 0..N |-> IF n = 0 THEN NoProfile ELSE Merge(g[n - 1], sources[n])]
<1>7. Runs(f)
  BY <1>1, <1>5, <1>6
<1> DEFINE g == CHOOSE h : Runs(h)
<1>8. Runs(g)
  BY <1>7
<1>9. resolve(sources) = g[N]
  BY DEF resolve, N
<1> HIDE DEF g
<1>10. g[0] = NoProfile /\ \A n \in 1..N : g[n] = Merge(g[n - 1], sources[n])
  BY <1>1, <1>8
<1> DEFINE Good == {n \in 0..N : g[n] = f[n]}
<1>11. 0 \in Good
  BY <1>1, <1>5, <1>10
<1>12. ASSUME NEW n \in 1..N, n - 1 \in Good
       PROVE  n \in Good
  BY <1>6, <1>10, <1>12
<1> HIDE DEF Good
<1>13. \A n \in 0..N : n \in Good
  BY <1>1, <1>11, <1>12, InductTo
<1>14. resolve(sources) = f[N]
  BY <1>1, <1>9, <1>13 DEF Good
<1> QED
  BY <1>5, <1>6, <1>14 DEF ResolvesBy, N

(* What the first n profiles make of an action: the declarations of one of *)
(* them, and the strictest modes.                                          *)
Resolved(config, sources, n) ==
  /\ \A a : recognizes(config.actions, a) <=> \E i \in 1..n : recognizes(Read(sources[i]), a)
  /\ \A a : recognizes(config.actions, a) =>
              \E i \in 1..n : /\ recognizes(Read(sources[i]), a)
                              /\ IncludedIn(config.actions, a) = IncludedIn(Read(sources[i]), a)
  /\ config.dutyMode = IF \E i \in 1..n : sources[i].dutyMode = "deny" THEN "deny" ELSE "advise"
  /\ config.behaviour =
       IF \E i \in 1..n : sources[i].behaviour = "closed" THEN "closed" ELSE "open"

LEMMA ResolvedNext ==
  ASSUME NEW sources \in Seq(Source), NEW n \in 1..Len(sources), NEW config \in Configs,
         Resolved(config, sources, n - 1)
  PROVE  Resolved(Merge(config, sources[n]), sources, n)
<1> DEFINE source == sources[n]
           merged == Merge(config, source)
           more == Read(source)
<1>1. source \in Source /\ n \in Nat /\ n \in 1..n /\ 1..n = 1..(n - 1) \cup {n}
  OBVIOUS
<1>2. source.document \in Seq(Triple)
  BY <1>1 DEF Source
<1>3. config.actions \in Seq(ActionDecl) /\ more \in Seq(ActionDecl)
  BY <1>2, InterpretType DEF Configs, Read
<1>4. merged.actions = Union(config.actions, more)
  BY DEF Merge, Read
<1>5. /\ \A a : recognizes(merged.actions, a)
                  <=> recognizes(config.actions, a) \/ recognizes(more, a)
      /\ \A a : recognizes(config.actions, a) =>
                  IncludedIn(merged.actions, a) = IncludedIn(config.actions, a)
      /\ \A a : ~recognizes(config.actions, a) /\ recognizes(more, a) =>
                  IncludedIn(merged.actions, a) = IncludedIn(more, a)
  BY <1>3, <1>4, Merged
<1>6. /\ merged.dutyMode = Strictest("deny", config.dutyMode, source.dutyMode)
      /\ merged.behaviour = Strictest("closed", config.behaviour, source.behaviour)
  BY DEF Merge
<1>7. more = Read(sources[n])
  OBVIOUS
<1> HIDE DEF merged, more
<1>8. ASSUME NEW a
      PROVE  recognizes(merged.actions, a) <=> \E i \in 1..n : recognizes(Read(sources[i]), a)
  BY <1>1, <1>5, <1>7 DEF Resolved
<1>9. ASSUME NEW a, recognizes(merged.actions, a)
      PROVE  \E i \in 1..n : /\ recognizes(Read(sources[i]), a)
                             /\ IncludedIn(merged.actions, a) = IncludedIn(Read(sources[i]), a)
  <2>1. CASE recognizes(config.actions, a)
    <3>1. PICK i \in 1..(n - 1) :
                 /\ recognizes(Read(sources[i]), a)
                 /\ IncludedIn(config.actions, a) = IncludedIn(Read(sources[i]), a)
      BY <2>1 DEF Resolved
    <3>2. i \in 1..n /\ IncludedIn(merged.actions, a) = IncludedIn(config.actions, a)
      BY <1>1, <1>5, <2>1
    <3> QED
      BY <3>1, <3>2
  <2>2. CASE ~recognizes(config.actions, a)
    BY <1>1, <1>5, <1>7, <1>9, <2>2
  <2> QED
    BY <2>1, <2>2
<1>10. merged.dutyMode = IF \E i \in 1..n : sources[i].dutyMode = "deny" THEN "deny" ELSE "advise"
  BY <1>1, <1>6 DEF Resolved, Strictest
<1>11. merged.behaviour =
         IF \E i \in 1..n : sources[i].behaviour = "closed" THEN "closed" ELSE "open"
  BY <1>1, <1>6 DEF Resolved, Strictest
<1>12. Resolved(merged, sources, n)
  BY <1>8, <1>9, <1>10, <1>11 DEF Resolved
<1> QED
  BY <1>12 DEF merged

LEMMA ResolvedIs ==
  ASSUME NEW sources \in Seq(Source)
  PROVE  resolve(sources) \in Configs /\ Resolved(resolve(sources), sources, Len(sources))
<1> DEFINE N == Len(sources)
<1>1. PICK f : ResolvesBy(f, sources)
  BY ResolveRuns
<1>2. N \in Nat /\ f \in [0..N -> Configs]
  BY <1>1 DEF ResolvesBy
<1> DEFINE Good == {n \in 0..N : Resolved(f[n], sources, n)}
<1>3. 0 \in Good
  <2>1. f[0] = NoProfile /\ 0 \in 0..N
    BY <1>1, <1>2 DEF ResolvesBy
  <2>2. \A a : ~recognizes(NoProfile.actions, a)
    BY DEF NoProfile, recognizes, Declarations
  <2>3. Resolved(NoProfile, sources, 0)
    BY <2>2 DEF Resolved, NoProfile
  <2> QED
    BY <2>1, <2>3
<1>4. ASSUME NEW n \in 1..N, n - 1 \in Good
      PROVE  n \in Good
  <2> DEFINE config == f[n - 1]
  <2>1. n \in 0..N /\ config \in Configs /\ f[n] = Merge(config, sources[n])
    BY <1>1, <1>2, <1>4 DEF ResolvesBy
  <2>2. Resolved(config, sources, n - 1)
    BY <1>4
  <2> HIDE DEF config
  <2>3. Resolved(f[n], sources, n)
    BY <2>1, <2>2, ResolvedNext
  <2> QED
    BY <2>1, <2>3
<1> HIDE DEF Good
<1>5. \A n \in 0..N : n \in Good
  BY <1>2, <1>3, <1>4, InductTo
<1>6. N \in Good /\ f[N] \in Configs /\ resolve(sources) = f[N]
  BY <1>1, <1>2, <1>5 DEF ResolvesBy
<1> QED
  BY <1>6 DEF Good

(* One profile more is one turn of the loop more.                          *)
LEMMA ResolveAppend ==
  ASSUME NEW sources \in Seq(Source), NEW source \in Source
  PROVE  resolve(Append(sources, source)) = Merge(resolve(sources), source)
<1> DEFINE N == Len(sources)
           more == Append(sources, source)
<1>1. /\ more \in Seq(Source) /\ N \in Nat /\ Len(more) = N + 1 /\ more[N + 1] = source
      /\ \A n \in 1..N : more[n] = sources[n]
  OBVIOUS
<1> HIDE DEF more
<1>2. PICK f : ResolvesBy(f, sources)
  BY ResolveRuns
<1>3. PICK g : ResolvesBy(g, more)
  BY <1>1, ResolveRuns
<1>4. /\ f[0] = NoProfile /\ \A n \in 1..N : f[n] = Merge(f[n - 1], sources[n])
      /\ resolve(sources) = f[N]
  BY <1>2 DEF ResolvesBy
<1>5. /\ g[0] = NoProfile /\ \A n \in 1..(N + 1) : g[n] = Merge(g[n - 1], more[n])
      /\ resolve(more) = g[N + 1]
  BY <1>1, <1>3 DEF ResolvesBy
<1> DEFINE Good == {n \in 0..N : g[n] = f[n]}
<1>6. 0 \in Good
  BY <1>1, <1>4, <1>5
<1>7. ASSUME NEW n \in 1..N, n - 1 \in Good
      PROVE  n \in Good
  <2>1. n \in 1..(N + 1) /\ n \in 0..N
    BY <1>1
  <2> QED
    BY <1>1, <1>4, <1>5, <1>7, <2>1
<1> HIDE DEF Good
<1>8. \A n \in 0..N : n \in Good
  BY <1>1, <1>6, <1>7, InductTo
<1>9. g[N] = f[N]
  BY <1>1, <1>8 DEF Good
<1>10. g[N + 1] = Merge(g[(N + 1) - 1], more[N + 1]) /\ (N + 1) - 1 = N
  BY <1>1, <1>5
<1> QED
  BY <1>1, <1>4, <1>5, <1>9, <1>10 DEF more

-------------------------------------------------------------------------------
(* Profiles resolved in two orders.                                        *)
LEMMA SameParentsSameCoverage ==
  ASSUME NEW decls, NEW others, NEW a, NEW b,
         \A x \in Action : IncludedIn(decls, x) = IncludedIn(others, x)
  PROVE  covers(decls, a, b) <=> covers(others, a, b)
BY DEF covers, UpwardClosed

LEMMA OrderImmaterial ==
  ASSUME NEW sources \in Seq(Source), NEW others \in Seq(Source),
         \A i \in 1..Len(sources) : \E j \in 1..Len(others) : others[j] = sources[i],
         \A j \in 1..Len(others) : \E i \in 1..Len(sources) : sources[i] = others[j]
  PROVE  /\ declared_actions(resolve(others).actions) = declared_actions(resolve(sources).actions)
         /\ resolve(others).dutyMode = resolve(sources).dutyMode
         /\ resolve(others).behaviour = resolve(sources).behaviour
         /\ \/ \E i, j \in DOMAIN sources : Contradict(Read(sources[i]), Read(sources[j]))
            \/ \A a, b \in Action :
                 covers(resolve(others).actions, a, b) <=> covers(resolve(sources).actions, a, b)
<1> DEFINE N == Len(sources)
           M == Len(others)
           one == resolve(sources)
           two == resolve(others)
<1>1. Resolved(one, sources, N) /\ Resolved(two, others, M)
  BY ResolvedIs
<1>2. DOMAIN sources = 1..N
  OBVIOUS
<1> HIDE DEF one, two, N, M
<1>3. (\A i \in 1..N : \E j \in 1..M : others[j] = sources[i])
       /\ (\A j \in 1..M : \E i \in 1..N : sources[i] = others[j])
  BY DEF N, M
<1>4. \A a : recognizes(one.actions, a) <=> recognizes(two.actions, a)
  BY <1>1, <1>3 DEF Resolved
<1>5. declared_actions(two.actions) = declared_actions(one.actions)
  <2>1. \A decls, a : a \in declared_actions(decls) <=> recognizes(decls, a)
    BY DEF declared_actions, recognizes, Declarations
  <2>2. \A a : a \in declared_actions(one.actions) <=> a \in declared_actions(two.actions)
    BY <1>4, <2>1
  <2>3. declared_actions(one.actions) \subseteq declared_actions(two.actions)
        /\ declared_actions(two.actions) \subseteq declared_actions(one.actions)
    BY <2>2
  <2> QED
    BY <2>3
<1>6. two.dutyMode = one.dutyMode /\ two.behaviour = one.behaviour
  <2>1. (\E i \in 1..N : sources[i].dutyMode = "deny") <=> (\E j \in 1..M : others[j].dutyMode = "deny")
    <3>1. ASSUME NEW i \in 1..N, sources[i].dutyMode = "deny"
          PROVE  \E j \in 1..M : others[j].dutyMode = "deny"
      <4>1. PICK j \in 1..M : others[j] = sources[i]
        BY <1>3
      <4> QED
        BY <3>1, <4>1
    <3>2. ASSUME NEW j \in 1..M, others[j].dutyMode = "deny"
          PROVE  \E i \in 1..N : sources[i].dutyMode = "deny"
      <4>1. PICK i \in 1..N : sources[i] = others[j]
        BY <1>3
      <4> QED
        BY <3>2, <4>1
    <3> QED
      BY <3>1, <3>2
  <2>2. (\E i \in 1..N : sources[i].behaviour = "closed")
          <=> (\E j \in 1..M : others[j].behaviour = "closed")
    <3>1. ASSUME NEW i \in 1..N, sources[i].behaviour = "closed"
          PROVE  \E j \in 1..M : others[j].behaviour = "closed"
      <4>1. PICK j \in 1..M : others[j] = sources[i]
        BY <1>3
      <4> QED
        BY <3>1, <4>1
    <3>2. ASSUME NEW j \in 1..M, others[j].behaviour = "closed"
          PROVE  \E i \in 1..N : sources[i].behaviour = "closed"
      <4>1. PICK i \in 1..N : sources[i] = others[j]
        BY <1>3
      <4> QED
        BY <3>2, <4>1
    <3> QED
      BY <3>1, <3>2
  <2> QED
    BY <1>1, <2>1, <2>2 DEF Resolved
<1>7. ASSUME ~ \E i, j \in DOMAIN sources : Contradict(Read(sources[i]), Read(sources[j])),
             NEW a \in Action
      PROVE  IncludedIn(two.actions, a) = IncludedIn(one.actions, a)
  <2>1. CASE recognizes(one.actions, a)
    <3>1. PICK i \in 1..N : /\ recognizes(Read(sources[i]), a)
                            /\ IncludedIn(one.actions, a) = IncludedIn(Read(sources[i]), a)
      BY <1>1, <2>1 DEF Resolved
    <3>2. PICK k \in 1..M : /\ recognizes(Read(others[k]), a)
                            /\ IncludedIn(two.actions, a) = IncludedIn(Read(others[k]), a)
      BY <1>1, <1>4, <2>1 DEF Resolved
    <3>3. PICK j \in 1..N : sources[j] = others[k]
      BY <1>3
    <3>4. ~Contradict(Read(sources[i]), Read(sources[j]))
      BY <1>2, <1>7
    <3> QED
      BY <1>7, <3>1, <3>2, <3>3, <3>4 DEF Contradict
  <2>2. CASE ~recognizes(one.actions, a)
    BY <1>4, <2>2 DEF IncludedIn
  <2> QED
    BY <2>1, <2>2
<1>8. \/ \E i, j \in DOMAIN sources : Contradict(Read(sources[i]), Read(sources[j]))
      \/ \A a, b \in Action : covers(two.actions, a, b) <=> covers(one.actions, a, b)
  BY <1>7, SameParentsSameCoverage
<1> QED
  BY <1>5, <1>6, <1>8 DEF one, two

-------------------------------------------------------------------------------
(* The configuration is what the profiles loaded so far resolve into, or   *)
(* the one the request wrote; before the last profile is in, the call has  *)
(* not begun; a walk still under way has left declared actions only.       *)
VocabularyInv ==
  /\ WalkIsSound
  /\ loaded \in Seq(Source) /\ pending \in Seq(Source)
  /\ \/ loaded = <<>> /\ pending = <<>>
     \/ Config = resolve(loaded)
  /\ answer = "walking" => visited \subseteq {a \in Action : recognizes(actions, a)}
  /\ pending # <<>> =>
       /\ current = requested /\ visited = {}
       /\ answer = IF ruleAction = requested THEN "covers" ELSE "walking"

LEMMA VocabularyStarts ==
  ASSUME VocabularyInit
  PROVE  VocabularyInv
<1>1. /\ actions \in Seq(ActionDecl) /\ pending \in Seq(Source) /\ loaded = <<>>
      /\ visited = {}
  <2>1. CASE pending = <<>> /\ actions \in Vocabularies
    BY <2>1, VocabulariesAssumption DEF VocabularyInit
  <2>2. CASE pending \in Startups /\ actions = NoProfile.actions
    <3>1. pending \in Seq(Source)
      BY <2>2, StartupsAssumption
    <3>2. actions = <<>> /\ <<>> \in Seq(ActionDecl)
      BY <2>2 DEF NoProfile
    <3> QED
      BY <3>1, <3>2 DEF VocabularyInit
  <2> QED
    BY <2>1, <2>2 DEF VocabularyInit
<1>2. WalkIsSound
  BY <1>1, CoversSelf DEF VocabularyInit, WalkIsSound, WalkInv, UpwardClosed
<1>3. \/ loaded = <<>> /\ pending = <<>>
      \/ Config = resolve(loaded)
  <2>1. CASE pending = <<>>
    BY <1>1, <2>1
  <2>2. CASE actions = NoProfile.actions
    <3>1. Config = NoProfile
      BY <2>2 DEF VocabularyInit, Config, NoProfile
    <3>2. <<>> \in Seq(Source) /\ Len(<<>>) = 0
      OBVIOUS
    <3>3. resolve(<<>>) = NoProfile
      BY <3>2, ResolveRuns DEF ResolvesBy
    <3> QED
      BY <1>1, <3>1, <3>3
  <2> QED
    BY <2>1, <2>2 DEF VocabularyInit
<1> QED
  BY <1>1, <1>2, <1>3 DEF VocabularyInv, VocabularyInit

LEMMA LoadKeeps ==
  ASSUME VocabularyInv, Load
  PROVE  VocabularyInv'
<1> DEFINE source == Head(pending)
<1>1. /\ pending # <<>> /\ pending' = Tail(pending) /\ loaded' = Append(loaded, source)
      /\ actions' = Merge(Config, source).actions
      /\ dutyMode' = Merge(Config, source).dutyMode
      /\ behaviour' = Merge(Config, source).behaviour
      /\ UNCHANGED <<ruleAction, requested, current, visited, answer>>
  BY DEF Load
<1>2. loaded \in Seq(Source) /\ pending \in Seq(Source) /\ Config = resolve(loaded)
  BY <1>1 DEF VocabularyInv
<1>3. source \in Source /\ pending' \in Seq(Source) /\ loaded' \in Seq(Source)
  BY <1>1, <1>2
<1> HIDE DEF source
<1>4. Config \in Configs
  BY <1>2, ResolvedIs
<1>5. Merge(Config, source) \in Configs
  BY <1>3, <1>4, MergeType
<1>6. Config' = Merge(Config, source)
  BY <1>1 DEF Config, Merge
<1>7. Config' = resolve(loaded')
  BY <1>1, <1>2, <1>3, <1>6, ResolveAppend
<1>8. actions' \in Seq(ActionDecl)
  BY <1>1, <1>5 DEF Configs
<1>9. /\ current = requested /\ visited = {}
      /\ answer = IF ruleAction = requested THEN "covers" ELSE "walking"
      /\ ruleAction \in Action /\ requested \in Action
  BY <1>1 DEF VocabularyInv, WalkIsSound
<1>10. WalkIsSound'
  BY <1>1, <1>8, <1>9, CoversSelf DEF WalkIsSound, WalkInv, UpwardClosed
<1> QED
  BY <1>1, <1>3, <1>7, <1>9, <1>10 DEF VocabularyInv

(* The only step that leaves the call walking visits one more declared     *)
(* action.                                                                 *)
LEMMA StepVisits ==
  ASSUME WalkIsSound, Next, answer' = "walking"
  PROVE  /\ answer = "walking" /\ actions' = actions
         /\ current \in Action \ visited /\ recognizes(actions, current)
         /\ visited' = visited \cup {current}
BY DEF WalkIsSound, Next, Revisit, RunOut, Found, Climb, input, IncludedIn

LEMMA WalkKeeps ==
  ASSUME VocabularyInv, Walk \/ UNCHANGED vocabularyVars
  PROVE  VocabularyInv'
<1>1. [Next]_vars /\ UNCHANGED hostVars
  BY DEF Walk, vocabularyVars
<1>2. actions' = actions
  BY <1>1 DEF Next, Revisit, RunOut, Found, Climb, input, vars
<1>3. Config' = Config
  BY <1>1, <1>2 DEF Config, hostVars
<1>4. pending # <<>> => UNCHANGED vars
  BY DEF Walk, vocabularyVars
<1>5. WalkIsSound'
  BY <1>1, WalkStep DEF VocabularyInv
<1>6. (answer = "walking" => visited \subseteq {a \in Action : recognizes(actions, a)})'
  <2>1. CASE Next
    BY <1>2, <2>1, StepVisits DEF VocabularyInv
  <2>2. CASE UNCHANGED vars
    BY <2>2 DEF VocabularyInv, vars
  <2> QED
    BY <1>1, <2>1, <2>2
<1> QED
  BY <1>1, <1>2, <1>3, <1>4, <1>5, <1>6 DEF VocabularyInv, hostVars, vars

(* The host never calls the engine on a configuration half merged, and     *)
(* what it has merged is what resolve makes of the profiles loaded.        *)
THEOREM VocabularyInvCorrect ==
  VocabularySpec => []VocabularyInv
<1>1. VocabularyInit => VocabularyInv
  BY VocabularyStarts
<1>2. VocabularyInv /\ [VocabularyNext]_vocabularyVars => VocabularyInv'
  BY LoadKeeps, WalkKeeps DEF VocabularyNext
<1> QED
  BY <1>1, <1>2, PTL DEF VocabularySpec

(* A covers call after any startup, or on any configuration a request      *)
(* writes, is answered by the declared ancestors alone.                    *)
THEOREM WalkDecidesCoverageCorrect ==
  VocabularySpec => []WalkDecidesCoverage
<1>1. VocabularyInv => WalkDecidesCoverage
  BY SoundDecides DEF VocabularyInv
<1> QED
  BY <1>1, VocabularyInvCorrect, PTL

(* Profiles may be loaded in any order, unless they contradict each other  *)
(* (resolve): for any number of profiles and any documents.                *)
THEOREM LoadOrderImmaterialCorrect ==
  VocabularySpec => []LoadOrderImmaterial
<1>1. ASSUME VocabularyInv
      PROVE  LoadOrderImmaterial
  <2> DEFINE other == Reverse(loaded)
  <2>1. loaded \in Seq(Source)
    BY <1>1 DEF VocabularyInv
  <2>2. /\ other \in Seq(Source) /\ Len(other) = Len(loaded) /\ Len(loaded) \in Nat
        /\ \A i \in 1..Len(loaded) : other[i] = loaded[Len(loaded) - i + 1]
    BY <2>1 DEF Reverse
  <2>3. ASSUME NEW i \in 1..Len(loaded)
        PROVE  /\ Len(loaded) - i + 1 \in 1..Len(loaded)
               /\ other[Len(loaded) - i + 1] = loaded[i]
               /\ other[i] = loaded[Len(loaded) - i + 1]
    <3> DEFINE j == Len(loaded) - i + 1
    <3>1. j \in 1..Len(loaded) /\ Len(loaded) - j + 1 = i
      BY <2>2
    <3> HIDE DEF j
    <3>2. other[j] = loaded[i]
      BY <2>2, <3>1
    <3> QED
      BY <2>2, <3>1, <3>2 DEF j
  <2> HIDE DEF other
  <2>4. /\ \A i \in 1..Len(loaded) : \E j \in 1..Len(other) : other[j] = loaded[i]
        /\ \A j \in 1..Len(other) : \E i \in 1..Len(loaded) : loaded[i] = other[j]
    BY <2>2, <2>3
  <2> QED
    BY <2>1, <2>2, <2>4, OrderImmaterial DEF LoadOrderImmaterial, Read, other
<1>2. VocabularyInv => LoadOrderImmaterial
  BY <1>1
<1> QED
  BY <1>2, VocabularyInvCorrect, PTL

(* Why the call returns on every vocabulary, cyclic or not (the argument   *)
(* behind WalkEnds): a step loads one of the profiles left, or returns, or *)
(* adds to the declared actions visited one that was not among them; and   *)
(* they are never more than there are declarations.                        *)
THEOREM WalkVariant ==
  VocabularySpec =>
    /\ [](answer = "walking" =>
            IsFiniteSet(visited) /\ Cardinality(visited) <= Len(actions))
    /\ [][\/ pending # <<>> /\ pending' = Tail(pending)
          \/ answer' # "walking"
          \/ \E a \in Action \ visited :
               recognizes(actions, a) /\ visited' = visited \cup {a}]_vocabularyVars
<1>1. ASSUME VocabularyInv, answer = "walking"
      PROVE  IsFiniteSet(visited) /\ Cardinality(visited) <= Len(actions)
  <2> DEFINE Position == 1..Len(actions)
             name == [i \in Position |-> actions[i].id]
             Named == {name[i] : i \in Position}
  <2>1. actions \in Seq(ActionDecl) /\ Len(actions) \in Nat
    BY <1>1 DEF VocabularyInv, WalkIsSound
  <2>2. visited \subseteq Named
    BY <1>1, <2>1 DEF VocabularyInv, recognizes, Declarations
  <2>3. IsFiniteSet(Position) /\ Cardinality(Position) = Len(actions)
    BY <2>1, FS_Interval
  <2>4. name \in Surjection(Position, Named)
    BY DEF Surjection
  <2> HIDE DEF Position, name, Named
  <2>5. IsFiniteSet(Named) /\ Cardinality(Named) <= Cardinality(Position)
    BY <2>3, <2>4, FS_Surjection
  <2>6. IsFiniteSet(visited) /\ Cardinality(visited) <= Cardinality(Named)
    BY <2>2, <2>5, FS_Subset
  <2> QED
    BY <2>1, <2>3, <2>5, <2>6, FS_CardinalityType
<1>2. ASSUME VocabularyInv, [VocabularyNext]_vocabularyVars
      PROVE  [\/ pending # <<>> /\ pending' = Tail(pending)
              \/ answer' # "walking"
              \/ \E a \in Action \ visited :
                   recognizes(actions, a) /\ visited' = visited \cup {a}]_vocabularyVars
  BY <1>2, StepVisits DEF VocabularyInv, VocabularyNext, Load, Walk
<1> QED
  BY <1>1, <1>2, VocabularyInvCorrect, PTL DEF VocabularySpec

-------------------------------------------------------------------------------
(* The minutes from 1970 to what a clock shows. *)
Reads(c) == days_from_civil(c.year, c.month, c.day) * 1440 + c.minute

(* The clocks show real days, the second is ahead by its offset and the    *)
(* first by what the stopwatch counted.                                    *)
ClocksInv ==
  /\ start \in Starts
  /\ utc \in Clock /\ local \in Clock
  /\ stopwatch \in [days : Nat, minute : Nat, milli : Nat] /\ stopwatch.minute < 1440
  /\ local.milli = utc.milli /\ stopwatch.milli = utc.milli
  /\ Reads(local) = Reads(utc) + start.offset
  /\ Reads(utc) = Reads(start.utc) + stopwatch.days * 1440 + stopwatch.minute

(* Two ways to tell a leap year give the same months. *)
LEMMA MonthsAgree ==
  ASSUME NEW y \in Nat, NEW m \in 1..12
  PROVE  MonthLength(y, m) = days_in_month(y, m) /\ days_in_month(y, m) \in 28..31
<1>1. CASE m # 2
  BY <1>1 DEF MonthLength, days_in_month
<1>2. CASE m = 2
  <2>1. y % 400 \in {4 * k : k \in 0..99} \ {100, 200, 300}
          <=> (y % 4 = 0 /\ y % 100 # 0) \/ y % 400 = 0
    <3>1. PICK r \in 0..399, e \in Nat : y = 400 * e + r /\ y % 400 = r
      OBVIOUS
    <3>2. y % 4 = r % 4 /\ y % 100 = r % 100
      BY <3>1
    <3>3. r \in {4 * k : k \in 0..99} <=> r % 4 = 0
      OBVIOUS
    <3>4. r % 100 = 0 <=> r \in {0, 100, 200, 300}
      OBVIOUS
    <3> QED
      BY <3>1, <3>2, <3>3, <3>4
  <2> QED
    BY <1>2, <2>1 DEF MonthLength, days_in_month
<1> QED
  BY <1>1, <1>2

(* Counted from March, the next day of a month, of the next month and of   *)
(* the next year has the next number.                                      *)
LEMMA NextDay ==
  ASSUME NEW y \in Nat, NEW m \in 1..12, NEW d \in Nat
  PROVE  days_from_civil(y, m, d + 1) = days_from_civil(y, m, d) + 1
BY DEF days_from_civil

LEMMA NextMonth ==
  ASSUME NEW y \in Nat, NEW m \in 1..11
  PROVE  days_from_civil(y, m + 1, 1) = days_from_civil(y, m, days_in_month(y, m)) + 1
<1>1. CASE m # 2
  BY <1>1 DEF days_from_civil, days_in_month
<1>2. CASE m = 2
  <2> DEFINE Years(n) == (n \div 400) * 146097 + (n - (n \div 400) * 400) * 365
                         + (n - (n \div 400) * 400) \div 4 - (n - (n \div 400) * 400) \div 100
  <2>1. Years(y) = Years(y - 1) + IF (y % 4 = 0 /\ y % 100 # 0) \/ y % 400 = 0 THEN 366 ELSE 365
    OBVIOUS
  <2>2. Years(y) \in Int /\ Years(y - 1) \in Int
    OBVIOUS
  <2>3. days_from_civil(y, 3, 1) = Years(y) - 719468
    BY DEF days_from_civil
  <2>4. \A d \in {28, 29} : days_from_civil(y, 2, d) = Years(y - 1) + 336 + d - 719468
    BY DEF days_from_civil
  <2>5. days_in_month(y, 2) = IF (y % 4 = 0 /\ y % 100 # 0) \/ y % 400 = 0 THEN 29 ELSE 28
    BY DEF days_in_month
  <2> HIDE DEF Years
  <2> QED
    BY <1>2, <2>1, <2>2, <2>3, <2>4, <2>5
<1> QED
  BY <1>1, <1>2

LEMMA NextYear ==
  ASSUME NEW y \in Nat
  PROVE  days_from_civil(y + 1, 1, 1) = days_from_civil(y, 12, 31) + 1
BY DEF days_from_civil

(* The count of days is a number. *)
LEMMA CountsDays ==
  ASSUME NEW y \in Nat, NEW m \in 1..12, NEW d \in Nat
  PROVE  days_from_civil(y, m, d) \in Int
BY DEF days_from_civil

-------------------------------------------------------------------------------
(* What a clock shows, and that its reading is a number. *)
LEMMA ClockFields ==
  ASSUME NEW c \in Clock
  PROVE  /\ c = Shows(c.year, c.month, c.day, c.minute, c.milli)
         /\ c.year \in Nat /\ c.month \in 1..12 /\ c.day \in Nat
         /\ c.minute \in Nat /\ c.minute < 1440 /\ c.milli \in Nat /\ c.milli < 60000
         /\ 1 <= c.day /\ c.day <= days_in_month(c.year, c.month)
         /\ days_in_month(c.year, c.month) = MonthLength(c.year, c.month)
         /\ days_in_month(c.year, c.month) \in Nat
         /\ days_from_civil(c.year, c.month, c.day) \in Int
         /\ Reads(c) \in Int
<1>1. /\ c \in Faces
      /\ c.day \in 1..MonthLength(c.year, c.month) /\ c.minute < 1440 /\ c.milli < 60000
  BY DEF Clock
<1>2. /\ c = Shows(c.year, c.month, c.day, c.minute, c.milli)
      /\ c.year \in Nat /\ c.month \in 1..12 /\ c.day \in Nat
      /\ c.minute \in Nat /\ c.milli \in Nat
  BY <1>1 DEF Faces, Shows
<1>3. days_from_civil(c.year, c.month, c.day) \in Int
  BY <1>2, CountsDays
<1>4. MonthLength(c.year, c.month) = days_in_month(c.year, c.month)
      /\ days_in_month(c.year, c.month) \in Nat
  BY <1>2, MonthsAgree
<1>5. Reads(c) \in Int
  BY <1>2, <1>3 DEF Reads, Shows
<1> QED
  BY <1>1, <1>2, <1>3, <1>4, <1>5

(* A real day, minute and millisecond make a clock. *)
LEMMA ClockOf ==
  ASSUME NEW y \in Nat, NEW m \in 1..12, NEW d \in Nat, NEW n \in Nat, NEW l \in Nat,
         1 <= d, d <= days_in_month(y, m), n < 1440, l < 60000
  PROVE  Shows(y, m, d, n, l) \in Clock
BY MonthsAgree DEF Clock, Faces, Shows

(* The next day's face: a clock that reads a day more. *)
NextFace(c, t) ==
  t \in Clock /\ Reads(t) = Reads(c) + 1440 /\ t.milli = c.milli

LEMMA NextFaceOf ==
  ASSUME NEW c \in Clock,
         NEW a \in Nat, NEW b \in 1..12, NEW e \in Nat, 1 <= e, e <= days_in_month(a, b),
         days_from_civil(a, b, e) = days_from_civil(c.year, c.month, c.day) + 1
  PROVE  NextFace(c, Shows(a, b, e, c.minute, c.milli))
<1>1. /\ c.minute \in Nat /\ c.minute < 1440 /\ c.milli \in Nat /\ c.milli < 60000
      /\ days_from_civil(c.year, c.month, c.day) \in Int
  BY ClockFields
<1>2. Reads(c) = days_from_civil(c.year, c.month, c.day) * 1440 + c.minute
  BY DEF Reads
<1>3. days_in_month(a, b) \in Nat
  BY MonthsAgree
<1>4. Shows(a, b, e, c.minute, c.milli) \in Clock
  BY <1>1, <1>3, MonthsAgree DEF Clock, Faces, Shows
<1>5. Shows(a, b, e, c.minute, c.milli) =
        [year |-> a, month |-> b, day |-> e, minute |-> c.minute, milli |-> c.milli]
  BY DEF Shows
<1>6. Reads(Shows(a, b, e, c.minute, c.milli)) = days_from_civil(a, b, e) * 1440 + c.minute
      /\ Shows(a, b, e, c.minute, c.milli).milli = c.milli
  BY <1>5 DEF Reads
<1> QED
  BY <1>1, <1>2, <1>4, <1>6 DEF NextFace

(* The day after a real day is one, and counts one more. *)
LEMMA TomorrowIsNext ==
  ASSUME NEW c \in Clock
  PROVE  NextFace(c, Tomorrow(c))
<1>1. /\ c.year \in Nat /\ c.month \in 1..12 /\ c.day \in Nat
      /\ 1 <= c.day /\ c.day <= days_in_month(c.year, c.month)
      /\ days_in_month(c.year, c.month) = MonthLength(c.year, c.month)
      /\ days_in_month(c.year, c.month) \in Nat
  BY ClockFields
<1>2. CASE c.day < days_in_month(c.year, c.month)
  <2>1. Tomorrow(c) = Shows(c.year, c.month, c.day + 1, c.minute, c.milli)
    BY <1>1, <1>2 DEF Tomorrow
  <2>2. days_from_civil(c.year, c.month, c.day + 1) = days_from_civil(c.year, c.month, c.day) + 1
    BY <1>1, NextDay
  <2>3. c.day + 1 \in Nat /\ 1 <= c.day + 1 /\ c.day + 1 <= days_in_month(c.year, c.month)
    BY <1>1, <1>2
  <2> QED
    BY <1>1, <2>1, <2>2, <2>3, NextFaceOf
<1>3. CASE c.day = days_in_month(c.year, c.month) /\ c.month < 12
  <2>1. Tomorrow(c) = Shows(c.year, c.month + 1, 1, c.minute, c.milli)
    BY <1>1, <1>3 DEF Tomorrow
  <2>2. c.month \in 1..11 /\ c.month + 1 \in 1..12
    BY <1>1, <1>3
  <2>3. days_from_civil(c.year, c.month + 1, 1) = days_from_civil(c.year, c.month, c.day) + 1
    BY <1>1, <1>3, <2>2, NextMonth
  <2>4. 1 <= days_in_month(c.year, c.month + 1)
    BY <1>1, <2>2, MonthsAgree
  <2> QED
    BY <1>1, <2>1, <2>2, <2>3, <2>4, NextFaceOf
<1>4. CASE c.day = days_in_month(c.year, c.month) /\ c.month = 12
  <2>1. Tomorrow(c) = Shows(c.year + 1, 1, 1, c.minute, c.milli)
    BY <1>1, <1>4 DEF Tomorrow
  <2>2. c.day = 31 /\ c.year + 1 \in Nat /\ 1 <= days_in_month(c.year + 1, 1)
    BY <1>1, <1>4 DEF days_in_month
  <2>3. days_from_civil(c.year + 1, 1, 1) = days_from_civil(c.year, c.month, c.day) + 1
    BY <1>1, <1>4, <2>2, NextYear
  <2> QED
    BY <1>1, <2>1, <2>2, <2>3, NextFaceOf
<1> QED
  BY <1>1, <1>2, <1>3, <1>4

(* A whole minute more or less is the same whether it is added to the      *)
(* milliseconds or to the minutes.                                         *)
IsStep(step) ==
  step \in [minute : Nat, milli : Nat] /\ step.minute * 60000 + step.milli <= 1440 * 60000

Carried(milli, step) == step.minute + (milli + step.milli) \div 60000

(* A clock a step later is a clock, and reads the step's minutes more. *)
LEMMA AdvanceCounts ==
  ASSUME NEW c \in Clock, NEW step, IsStep(step)
  PROVE  /\ Advance(c, step) \in Clock
         /\ Reads(Advance(c, step)) = Reads(c) + Carried(c.milli, step)
         /\ Advance(c, step).milli = (c.milli + step.milli) % 60000
<1> DEFINE n == c.minute + step.minute + (c.milli + step.milli) \div 60000
           l == (c.milli + step.milli) % 60000
           o == n % 1440
           on == Shows(c.year, c.month, c.day, o, l)
<1>1. step.minute \in Nat /\ step.milli \in Nat /\ step.minute * 60000 + step.milli <= 1440 * 60000
  BY DEF IsStep
<1>2. /\ c.year \in Nat /\ c.month \in 1..12 /\ c.day \in Nat
      /\ c.minute \in Nat /\ c.minute < 1440 /\ c.milli \in Nat /\ c.milli < 60000
      /\ 1 <= c.day /\ c.day <= days_in_month(c.year, c.month)
  BY ClockFields
<1>3. n \in Nat /\ n < 2880 /\ n = c.minute + Carried(c.milli, step) /\ l \in Nat /\ l < 60000
      /\ Carried(c.milli, step) \in Nat
  BY <1>1, <1>2 DEF Carried
<1>4. Advance(c, step) = IF n >= 1440 THEN Tomorrow(on) ELSE on
  BY DEF Advance
<1> HIDE DEF n, l
<1>5. o \in Nat /\ o < 1440 /\ o = IF n >= 1440 THEN n - 1440 ELSE n
  BY <1>3
<1>6. l = (c.milli + step.milli) % 60000
  BY DEF l
<1> HIDE DEF o, on
<1>7. on = Shows(c.year, c.month, c.day, o, l)
  BY DEF on
<1>8. on \in Clock
  <2>1. on \in Faces /\ on.year = c.year /\ on.month = c.month /\ on.day = c.day
        /\ on.minute = o /\ on.milli = l
    BY <1>2, <1>3, <1>5, <1>7 DEF Shows, Faces
  <2>2. MonthLength(c.year, c.month) = days_in_month(c.year, c.month)
        /\ days_in_month(c.year, c.month) \in Nat
    BY ClockFields
  <2>3. on.day \in 1..MonthLength(on.year, on.month)
    BY <1>2, <2>1, <2>2
  <2> QED
    BY <1>3, <1>5, <2>1, <2>3 DEF Clock
<1>9. Tomorrow(on) \in Clock /\ Reads(Tomorrow(on)) = Reads(on) + 1440
      /\ Tomorrow(on).milli = on.milli
  BY <1>8, TomorrowIsNext DEF NextFace
<1>10. days_from_civil(c.year, c.month, c.day) \in Int
  BY ClockFields
<1>11. Reads(c) = days_from_civil(c.year, c.month, c.day) * 1440 + c.minute
       /\ Reads(on) = days_from_civil(c.year, c.month, c.day) * 1440 + o
       /\ on.milli = l
  BY <1>7 DEF Reads, Shows
<1> QED
  BY <1>2, <1>3, <1>4, <1>5, <1>6, <1>8, <1>9, <1>10, <1>11

(* A count of minutes is its days and what is left of the last. *)
LEMMA DayOf ==
  ASSUME NEW n \in Nat, NEW days \in Nat
  PROVE  /\ n \div 1440 \in Nat /\ n % 1440 \in Nat /\ n % 1440 < 1440
         /\ (days + (n \div 1440)) * 1440 + (n % 1440) = days * 1440 + n
OBVIOUS

(* The stopwatch counts the same minutes, with their days. *)
LEMMA RunCounts ==
  ASSUME NEW w \in [days : Nat, minute : Nat, milli : Nat], w.minute < 1440,
         NEW step, IsStep(step)
  PROVE  /\ Run(w, step) \in [days : Nat, minute : Nat, milli : Nat]
         /\ Run(w, step).minute < 1440
         /\ Run(w, step).days * 1440 + Run(w, step).minute
              = w.days * 1440 + w.minute + Carried(w.milli, step)
         /\ Run(w, step).milli = (w.milli + step.milli) % 60000
<1> DEFINE n == w.minute + step.minute + (w.milli + step.milli) \div 60000
           l == (w.milli + step.milli) % 60000
<1>1. /\ step.minute \in Nat /\ step.milli \in Nat
      /\ w.days \in Nat /\ w.minute \in Nat /\ w.milli \in Nat
  BY DEF IsStep
<1>2. /\ n \in Nat /\ n = w.minute + Carried(w.milli, step)
      /\ l \in Nat /\ Carried(w.milli, step) \in Nat
  BY <1>1 DEF Carried
<1>3. Run(w, step) = [days |-> w.days + n \div 1440, minute |-> n % 1440, milli |-> l]
  BY DEF Run
<1>4. l = (w.milli + step.milli) % 60000
  OBVIOUS
<1> HIDE DEF n, l
<1>5. /\ n \div 1440 \in Nat /\ n % 1440 \in Nat /\ n % 1440 < 1440
      /\ (w.days + (n \div 1440)) * 1440 + (n % 1440) = w.days * 1440 + n
  BY <1>1, <1>2, DayOf
<1>6. w.days + (n \div 1440) \in Nat
  BY <1>1, <1>5
<1>7. w.days * 1440 + n = w.days * 1440 + w.minute + Carried(w.milli, step)
  BY <1>1, <1>2
<1> QED
  BY <1>2, <1>3, <1>4, <1>5, <1>6, <1>7

(* What the assumption on the starts says of one of them. *)
LEMMA StartIsReal ==
  ASSUME NEW s \in Starts
  PROVE  /\ s.utc \in Clock /\ s.offset \in Int /\ IsStep(s.step)
         /\ s.utc.milli = 0
         /\ s.offset >= -840 /\ s.offset <= 840
         /\ s.utc.minute + s.offset >= 0 /\ s.utc.minute + s.offset < 1440
BY StartsAssumption DEF IsStep

(* The invariant holds at the start, and every tick keeps it. *)
LEMMA InitClocksInv == ClocksInit => ClocksInv
<1> SUFFICES ASSUME ClocksInit
             PROVE  ClocksInv
  OBVIOUS
<1> DEFINE c == start.utc
<1>1. start \in Starts /\ utc = c /\ local = [c EXCEPT !.minute = @ + start.offset]
      /\ stopwatch = [days |-> 0, minute |-> 0, milli |-> 0]
  BY DEF ClocksInit
<1>2. /\ c \in Clock /\ start.offset \in Int /\ c.milli = 0
      /\ c.minute + start.offset >= 0 /\ c.minute + start.offset < 1440
  BY <1>1, StartIsReal
<1> HIDE DEF c
<1>3. /\ c = Shows(c.year, c.month, c.day, c.minute, c.milli)
      /\ c.year \in Nat /\ c.month \in 1..12 /\ c.day \in Nat
      /\ c.minute \in Nat /\ c.milli \in Nat
      /\ days_from_civil(c.year, c.month, c.day) \in Int
  BY <1>2, ClockFields
<1>4. local = Shows(c.year, c.month, c.day, c.minute + start.offset, c.milli)
  BY <1>1, <1>3 DEF Shows
<1>5. local \in Clock
  <2>1. local \in Faces
    BY <1>2, <1>3, <1>4 DEF Faces, Shows
  <2>2. local.year = c.year /\ local.month = c.month /\ local.day = c.day
        /\ local.minute = c.minute + start.offset /\ local.milli = c.milli
    BY <1>4 DEF Shows
  <2> QED
    BY <1>2, <2>1, <2>2 DEF Clock
<1>6. Reads(local) = Reads(c) + start.offset /\ Reads(c) \in Int /\ local.milli = 0
  BY <1>2, <1>3, <1>4 DEF Reads, Shows
<1>7. Reads(utc) = Reads(start.utc) + stopwatch.days * 1440 + stopwatch.minute
  BY <1>1, <1>6 DEF c
<1> QED
  BY <1>1, <1>2, <1>5, <1>6, <1>7 DEF ClocksInv

LEMMA NextClocksInv == ClocksInv /\ [Tick]_clockVars => ClocksInv'
<1> SUFFICES ASSUME ClocksInv, [Tick]_clockVars
             PROVE  ClocksInv'
  OBVIOUS
<1>1. CASE Tick
  <2> DEFINE step == start.step
  <2>1. /\ utc' = Advance(utc, step) /\ local' = Advance(local, step)
        /\ stopwatch' = Run(stopwatch, step) /\ start' = start
    BY <1>1 DEF Tick
  <2>2. /\ start \in Starts /\ utc \in Clock /\ local \in Clock
        /\ stopwatch \in [days : Nat, minute : Nat, milli : Nat] /\ stopwatch.minute < 1440
        /\ local.milli = utc.milli /\ stopwatch.milli = utc.milli
        /\ Reads(local) = Reads(utc) + start.offset
        /\ Reads(utc) = Reads(start.utc) + stopwatch.days * 1440 + stopwatch.minute
    BY DEF ClocksInv
  <2>3. IsStep(step) /\ start.utc \in Clock /\ start.offset \in Int
    BY <2>2, StartIsReal
  <2> HIDE DEF step
  <2>4. /\ utc' \in Clock /\ Reads(utc') = Reads(utc) + Carried(utc.milli, step)
        /\ utc'.milli = (utc.milli + step.milli) % 60000
    BY <2>1, <2>2, <2>3, AdvanceCounts
  <2>5. /\ local' \in Clock /\ Reads(local') = Reads(local) + Carried(utc.milli, step)
        /\ local'.milli = (utc.milli + step.milli) % 60000
    <3>1. Advance(local, step) \in Clock
          /\ Reads(Advance(local, step)) = Reads(local) + Carried(local.milli, step)
          /\ Advance(local, step).milli = (local.milli + step.milli) % 60000
      BY <2>2, <2>3, AdvanceCounts
    <3> QED
      BY <2>1, <2>2, <3>1
  <2>6. /\ stopwatch' \in [days : Nat, minute : Nat, milli : Nat] /\ stopwatch'.minute < 1440
        /\ stopwatch'.days * 1440 + stopwatch'.minute
             = stopwatch.days * 1440 + stopwatch.minute + Carried(utc.milli, step)
        /\ stopwatch'.milli = (utc.milli + step.milli) % 60000
    BY <2>1, <2>2, <2>3, RunCounts
  <2>7. Reads(start.utc) \in Int /\ utc.milli \in Nat
    BY <2>2, <2>3, ClockFields
  <2>8. Carried(utc.milli, step) \in Nat
    BY <2>3, <2>7 DEF Carried, IsStep
  <2>9. /\ Reads(local') = Reads(utc') + start'.offset
        /\ Reads(utc') = Reads(start'.utc) + stopwatch'.days * 1440 + stopwatch'.minute
    BY <2>1, <2>2, <2>3, <2>4, <2>5, <2>6, <2>7, <2>8
  <2> QED
    BY <2>1, <2>2, <2>4, <2>5, <2>6, <2>9 DEF ClocksInv
<1>2. CASE UNCHANGED clockVars
  BY <1>2 DEF ClocksInv, clockVars, Reads
<1> QED
  BY <1>1, <1>2

-------------------------------------------------------------------------------
(* What is read of a clock: a real day and time are always read, as the    *)
(* minutes, the second and its fraction.                                   *)
LEMMA UtcReads ==
  ASSUME NEW c \in Clock, NEW form, NEW offset
  PROVE  parse_utc_datetime(Written(c, form, offset))
           = <<Reads(c), c.milli \div 1000, Fraction(Digits(c.milli % 1000))>>
<1> DEFINE v == Written(c, form, offset)
<1>1. /\ c.year \in Nat /\ c.month \in 1..12 /\ c.day \in Nat
      /\ c.minute \in Nat /\ c.minute < 1440 /\ c.milli \in Nat /\ c.milli < 60000
      /\ 1 <= c.day /\ c.day <= days_in_month(c.year, c.month)
      /\ days_in_month(c.year, c.month) \in Nat
      /\ days_from_civil(c.year, c.month, c.day) \in Int
  BY ClockFields
<1>2. /\ v.year = c.year /\ v.month = c.month /\ v.day = c.day
      /\ v.hour = c.minute \div 60 /\ v.minute = c.minute % 60
      /\ v.second = c.milli \div 1000 /\ v.fraction = Digits(c.milli % 1000)
  BY DEF Written
<1> HIDE DEF v
<1>3. RealDay(v)
  BY <1>1, <1>2 DEF RealDay
<1>4. /\ c.minute \div 60 \in Nat /\ c.minute \div 60 <= 23
      /\ c.minute % 60 \in Nat /\ c.minute % 60 <= 59
      /\ c.milli \div 1000 \in Nat /\ c.milli \div 1000 <= 59
      /\ (c.minute \div 60) * 60 + (c.minute % 60) = c.minute
  BY <1>1
<1>5. RealTime(v)
  <2>1. PICK h \in Nat, m \in Nat, s \in Nat : h = v.hour /\ m = v.minute /\ s = v.second
    <3>1. v.hour \in Nat /\ v.minute \in Nat /\ v.second \in Nat
      BY <1>2, <1>4, SMT
    <3> QED
      BY <3>1, Zenon
  <2>2. h <= 23 /\ m <= 59 /\ s <= 59
    BY <1>2, <1>4, <2>1
  <2>3. h \in 0..23
    BY <2>2
  <2>4. m \in 0..59
    BY <2>2
  <2>5. s \in 0..59
    BY <2>2
  <2> QED
    BY <2>1, <2>3, <2>4, <2>5, Zenon DEF RealTime
<1>6. days_from_civil(c.year, c.month, c.day) * 1440 + c.minute
        = days_from_civil(c.year, c.month, c.day) * 1440 + (c.minute \div 60) * 60 + (c.minute % 60)
  BY <1>1, <1>4
<1>7. parse_utc_datetime(v) =
        <<days_from_civil(c.year, c.month, c.day) * 1440 + (c.minute \div 60) * 60 + (c.minute % 60),
          c.milli \div 1000, Fraction(Digits(c.milli % 1000))>>
  BY <1>2, <1>3, <1>5 DEF parse_utc_datetime
<1> QED
  BY <1>6, <1>7 DEF Reads, v

(* An offset as it is written stands for its minutes. *)
LEMMA OffsetCounts ==
  ASSUME NEW minutes \in Int, minutes >= -840, minutes <= 840
  PROVE  /\ Offset(minutes).sign * (Offset(minutes).hour * 60 + Offset(minutes).minute) = minutes
         /\ Offset(minutes).hour \in 0..14 /\ Offset(minutes).minute \in 0..59
         /\ Offset(minutes).hour = 14 => Offset(minutes).minute = 0
<1>1. CASE minutes < 0
  <2>1. /\ Offset(minutes).sign = -1 /\ Offset(minutes).hour = (-minutes) \div 60
        /\ Offset(minutes).minute = (-minutes) % 60
    BY <1>1 DEF Offset
  <2> QED
    BY <1>1, <2>1
<1>2. CASE minutes >= 0
  <2>1. /\ Offset(minutes).sign = 1 /\ Offset(minutes).hour = minutes \div 60
        /\ Offset(minutes).minute = minutes % 60
    BY <1>2 DEF Offset
  <2> QED
    BY <1>2, <2>1
<1> QED
  BY <1>1, <1>2

(* What is read of a clock with its offset is the time in UTC. *)
LEMMA OffsetReads ==
  ASSUME NEW c \in Clock, NEW offset \in Int, offset >= -840, offset <= 840
  PROVE  parse_offset_datetime(Written(c, "offset", offset))
           = <<Reads(c) - offset, c.milli \div 1000, Fraction(Digits(c.milli % 1000))>>
<1> DEFINE v == Written(c, "offset", offset)
           second == c.milli \div 1000
           fraction == Fraction(Digits(c.milli % 1000))
<1>1. parse_utc_datetime(v) = <<Reads(c), second, fraction>>
  BY UtcReads
<1>2. v.offset = Offset(offset)
  BY DEF Written
<1> HIDE DEF v, second, fraction
<1>3. RealOffset(v)
  BY <1>2, OffsetCounts DEF RealOffset
<1>4. <<Reads(c), second, fraction>> # Unreadable
  BY DEF Unreadable
<1>5. parse_offset_datetime(v) =
        [<<Reads(c), second, fraction>> EXCEPT
           ![1] = Reads(c) - Offset(offset).sign * (Offset(offset).hour * 60 + Offset(offset).minute)]
  BY <1>1, <1>2, <1>3, <1>4 DEF parse_offset_datetime
<1>6. parse_offset_datetime(v) = [<<Reads(c), second, fraction>> EXCEPT ![1] = Reads(c) - offset]
  BY <1>5, OffsetCounts
<1> QED
  BY <1>6 DEF v, second, fraction

(* The two clocks are read as one instant. *)
LEMMA InvZonesAgree == ClocksInv => ZonesAgree
<1> SUFFICES ASSUME ClocksInv
             PROVE  ZonesAgree
  OBVIOUS
<1> DEFINE second == utc.milli \div 1000
           fraction == Fraction(Digits(utc.milli % 1000))
<1>1. /\ start \in Starts /\ utc \in Clock /\ local \in Clock /\ local.milli = utc.milli
      /\ Reads(local) = Reads(utc) + start.offset
  BY DEF ClocksInv
<1>2. start.offset \in Int /\ start.offset >= -840 /\ start.offset <= 840
  BY <1>1, StartIsReal
<1>3. Now = <<Reads(utc), second, fraction>>
  <2>1. Written(utc, "utc", 0).form = "utc"
    BY DEF Written
  <2>2. Now = parse_utc_datetime(Written(utc, "utc", 0))
    BY <2>1 DEF Now, parse_xsd_temporal
  <2> QED
    BY <1>1, <2>2, UtcReads
<1>4. There = <<Reads(local) - start.offset, second, fraction>>
  <2>1. Written(local, "offset", start.offset).form = "offset"
    BY DEF Written
  <2>2. There = parse_offset_datetime(Written(local, "offset", start.offset))
    BY <2>1 DEF There, parse_xsd_temporal
  <2> QED
    BY <1>1, <1>2, <2>2, OffsetReads
<1>5. Reads(local) - start.offset = Reads(utc)
  BY <1>1, <1>2, ClockFields
<1>6. <<Reads(utc), second, fraction>> # Unreadable
  BY DEF Unreadable
<1> QED
  BY <1>3, <1>4, <1>5, <1>6 DEF ZonesAgree

-------------------------------------------------------------------------------
Part == [unit : {"D", "H", "Mi", "S"}, count : Nat, fraction : Seq(Nat)]

Worth(p) == p.count * MinutesPer[p.unit]

(* What a component counts in minutes, by its unit. *)
LEMMA WorthOf ==
  ASSUME NEW p \in Part
  PROVE  /\ Worth(p) \in Nat
         /\ p.unit = "D" => Worth(p) = p.count * 1440
         /\ p.unit = "H" => Worth(p) = p.count * 60
         /\ p.unit = "Mi" => Worth(p) = p.count
         /\ p.unit = "S" => Worth(p) = 0
<1>1. p.count \in Nat /\ p.unit \in {"D", "H", "Mi", "S"}
  BY DEF Part
<1>2. MinutesPer["D"] = 1440 /\ MinutesPer["H"] = 60 /\ MinutesPer["Mi"] = 1 /\ MinutesPer["S"] = 0
  BY DEF MinutesPer
<1>3. CASE p.unit = "D"
  BY <1>1, <1>2, <1>3 DEF Worth
<1>4. CASE p.unit = "H"
  BY <1>1, <1>2, <1>4 DEF Worth
<1>5. CASE p.unit = "Mi"
  BY <1>1, <1>2, <1>5 DEF Worth
<1>6. CASE p.unit = "S"
  BY <1>1, <1>2, <1>6 DEF Worth
<1> QED
  BY <1>1, <1>3, <1>4, <1>5, <1>6

(* The sum over the components of a duration is the one its recursion      *)
(* describes.                                                              *)
LEMMA MinutesRun ==
  ASSUME NEW parts \in Seq(Part)
  PROVE  \E sum \in [0..Len(parts) -> Nat] :
           /\ sum[0] = 0 /\ \A n \in 1..Len(parts) : sum[n] = sum[n - 1] + Worth(parts[n])
           /\ Minutes(parts) = sum[Len(parts)]
<1> DEFINE N == Len(parts)
           step == [n \in 1..N |-> [d \in Nat |-> d + Worth(parts[n])]]
           Sums(f) == f = [n \in 0..N |-> IF n = 0 THEN 0
                                          ELSE f[n - 1] + parts[n].count * MinutesPer[parts[n].unit]]
           sum == CHOOSE f : Sums(f)
<1>1. N \in Nat /\ \A n \in 1..N : parts[n] \in Part
  OBVIOUS
<1>2. \A n \in 1..N : Worth(parts[n]) \in Nat
  BY <1>1, WorthOf
<1>3. step \in Steps(N, Nat)
  BY <1>2 DEF Steps
<1>4. \A n \in 1..N : \A d \in Nat : step[n][d] = d + Worth(parts[n])
  OBVIOUS
<1>5. Minutes(parts) = sum[N]
  BY DEF Minutes
<1> HIDE DEF step, N
<1>6. PICK f \in [0..N -> Nat] : f[0] = 0 /\ \A n \in 1..N : f[n] = step[n][f[n - 1]]
  <2>1. \E f : IsRun(f, N, Nat, 0, step)
    BY <1>1, <1>3, Iterates
  <2> QED
    BY <2>1 DEF IsRun
<1>7. ASSUME NEW n \in 1..N
      PROVE  f[n] = f[n - 1] + Worth(parts[n])
  <2>1. f[n - 1] \in Nat
    BY <1>1, <1>6
  <2> QED
    BY <1>4, <1>6, <2>1
<1>8. Sums(f)
  BY <1>1, <1>6, <1>7 DEF Worth
<1>9. Sums(sum)
  BY <1>8
<1> HIDE DEF sum
<1>10. sum[0] = 0 /\ \A n \in 1..N : sum[n] = sum[n - 1] + Worth(parts[n])
  BY <1>1, <1>9 DEF Worth
<1> DEFINE Good == {n \in 0..N : sum[n] \in Nat}
<1>11. 0 \in Good
  BY <1>1, <1>10
<1>12. ASSUME NEW n \in 1..N, n - 1 \in Good
       PROVE  n \in Good
  BY <1>1, <1>2, <1>10, <1>12
<1> HIDE DEF Good
<1>13. \A n \in 0..N : n \in Good
  BY <1>1, <1>11, <1>12, InductTo
<1>14. DOMAIN sum = 0..N /\ sum = [n \in 0..N |-> sum[n]]
  BY <1>9
<1>15. sum \in [0..N -> Nat]
  BY <1>13, <1>14 DEF Good
<1> QED
  BY <1>5, <1>10, <1>15 DEF N

(* The minutes of one, two, three and four components. *)
LEMMA MinutesOfOne ==
  ASSUME NEW a \in Part
  PROVE  Minutes(<<a>>) = Worth(a)
<1> DEFINE p == <<a>>
<1>1. Worth(a) \in Nat
  BY WorthOf
<1>2. p \in Seq(Part) /\ Len(p) = 1 /\ p[1] = a
  OBVIOUS
<1> HIDE DEF p
<1>3. PICK sum \in [0..1 -> Nat] :
         sum[0] = 0 /\ (\A n \in 1..1 : sum[n] = sum[n - 1] + Worth(p[n])) /\ Minutes(p) = sum[1]
  BY <1>2, MinutesRun
<1> QED
  BY <1>1, <1>2, <1>3 DEF p

LEMMA MinutesOfTwo ==
  ASSUME NEW a \in Part, NEW b \in Part
  PROVE  Minutes(<<a, b>>) = Worth(a) + Worth(b)
<1> DEFINE p == <<a, b>>
<1>1. Worth(a) \in Nat /\ Worth(b) \in Nat
  BY WorthOf
<1>2. p \in Seq(Part) /\ Len(p) = 2 /\ p[1] = a /\ p[2] = b
  OBVIOUS
<1> HIDE DEF p
<1>3. PICK sum \in [0..2 -> Nat] :
         sum[0] = 0 /\ (\A n \in 1..2 : sum[n] = sum[n - 1] + Worth(p[n])) /\ Minutes(p) = sum[2]
  BY <1>2, MinutesRun
<1> QED
  BY <1>1, <1>2, <1>3 DEF p

LEMMA MinutesOfThree ==
  ASSUME NEW a \in Part, NEW b \in Part, NEW c \in Part
  PROVE  Minutes(<<a, b, c>>) = Worth(a) + Worth(b) + Worth(c)
<1> DEFINE p == <<a, b, c>>
<1>1. Worth(a) \in Nat /\ Worth(b) \in Nat /\ Worth(c) \in Nat
  BY WorthOf
<1>2. p \in Seq(Part) /\ Len(p) = 3 /\ p[1] = a /\ p[2] = b /\ p[3] = c
  OBVIOUS
<1> HIDE DEF p
<1>3. PICK sum \in [0..3 -> Nat] :
         sum[0] = 0 /\ (\A n \in 1..3 : sum[n] = sum[n - 1] + Worth(p[n])) /\ Minutes(p) = sum[3]
  BY <1>2, MinutesRun
<1> QED
  BY <1>1, <1>2, <1>3 DEF p

LEMMA MinutesOfFour ==
  ASSUME NEW a \in Part, NEW b \in Part, NEW c \in Part, NEW d \in Part
  PROVE  Minutes(<<a, b, c, d>>) = Worth(a) + Worth(b) + Worth(c) + Worth(d)
<1> DEFINE p == <<a, b, c, d>>
<1>1. Worth(a) \in Nat /\ Worth(b) \in Nat /\ Worth(c) \in Nat /\ Worth(d) \in Nat
  BY WorthOf
<1>2. p \in Seq(Part) /\ Len(p) = 4 /\ p[1] = a /\ p[2] = b /\ p[3] = c /\ p[4] = d
  OBVIOUS
<1> HIDE DEF p
<1>3. PICK sum \in [0..4 -> Nat] :
         sum[0] = 0 /\ (\A n \in 1..4 : sum[n] = sum[n - 1] + Worth(p[n])) /\ Minutes(p) = sum[4]
  BY <1>2, MinutesRun
<1> QED
  BY <1>1, <1>2, <1>3 DEF p

(* A fraction of digits is read as a number. *)
LEMMA FractionType ==
  ASSUME NEW digits \in Seq(Nat)
  PROVE  Fraction(digits) \in Nat
<1> DEFINE N == Precision
           digit(i) == IF i <= Len(digits) THEN digits[i] ELSE 0
           step == [n \in 1..N |-> [d \in Nat |-> d * 10 + digit(n)]]
           Reading(f) == f = [n \in 0..N |-> IF n = 0 THEN 0 ELSE f[n - 1] * 10 + digit(n)]
           value == CHOOSE f : Reading(f)
<1>1. N \in Nat /\ \A n \in 1..N : digit(n) \in Nat
  BY PrecisionAssumption
<1>2. Fraction(digits) = value[N]
  BY DEF Fraction
<1> HIDE DEF digit
<1>3. step \in Steps(N, Nat)
  BY <1>1 DEF Steps
<1>4. \A n \in 1..N : \A d \in Nat : step[n][d] = d * 10 + digit(n)
  OBVIOUS
<1> HIDE DEF step, N
<1>6. PICK f \in [0..N -> Nat] : f[0] = 0 /\ \A n \in 1..N : f[n] = step[n][f[n - 1]]
  <2>1. \E f : IsRun(f, N, Nat, 0, step)
    BY <1>1, <1>3, Iterates
  <2> QED
    BY <2>1 DEF IsRun
<1>7. ASSUME NEW n \in 1..N
      PROVE  f[n] = f[n - 1] * 10 + digit(n)
  <2>1. f[n - 1] \in Nat
    BY <1>1, <1>6
  <2> QED
    BY <1>4, <1>6, <2>1
<1>8. Reading(f)
  BY <1>1, <1>6, <1>7
<1>9. Reading(value)
  BY <1>8
<1> HIDE DEF value
<1>10. value[0] = 0 /\ \A n \in 1..N : value[n] = value[n - 1] * 10 + digit(n)
  BY <1>1, <1>9
<1> DEFINE Good == {n \in 0..N : value[n] \in Nat}
<1>11. 0 \in Good
  BY <1>1, <1>10
<1>12. ASSUME NEW n \in 1..N, n - 1 \in Good
       PROVE  n \in Good
  BY <1>1, <1>10, <1>12
<1> HIDE DEF Good
<1>13. \A n \in 0..N : n \in Good
  BY <1>1, <1>11, <1>12, InductTo
<1> QED
  BY <1>1, <1>2, <1>13 DEF Good

(* The digits of a fraction are a sequence of numbers. *)
LEMMA DigitsType ==
  ASSUME NEW milli \in Nat
  PROVE  Digits(milli) \in Seq(Nat)
<1> DEFINE all  == <<milli \div 100, (milli \div 10) % 10, milli % 10>>
           kept == {n \in 0..3 : \A i \in n + 1..3 : all[i] = 0}
           n == CHOOSE n \in kept : \A k \in kept : n <= k
<1>1. all \in Seq(Nat) /\ Len(all) = 3
  BY SMT
<1>2. 3 \in kept /\ kept \in SUBSET Nat
  BY SMT
<1>3. Digits(milli) = SubSeq(all, 1, n)
  BY DEF Digits
<1>4. n \in 0..3
  <2> HIDE DEF all
  <2>1. \E m \in kept : \A k \in kept : m <= k
    BY <1>2, LeastNat
  <2> QED
    BY <2>1
<1> HIDE DEF all, n
<1> QED
  BY <1>1, <1>3, <1>4

-------------------------------------------------------------------------------
(* The days alone, or none, are in order; so are the times with any of *)
(* their hours and minutes left out.                                      *)
LEMMA DatesInOrder ==
  ASSUME NEW d, d.unit = "D", d.fraction = <<>>
  PROVE  InOrder(<<>>, DateUnits) /\ InOrder(<<d>>, DateUnits)
<1>1. InOrder(<<>>, DateUnits)
  BY DEF InOrder
<1>2. InOrder(<<d>>, DateUnits)
  <2> DEFINE part == <<d>>
  <2>1. DOMAIN part = 1..1 /\ part[1] = d
        /\ DateUnits[3] = "D" /\ DOMAIN DateUnits = 1..3
    BY DEF DateUnits
  <2> HIDE DEF part
  <2> QED
    BY <2>1 DEF InOrder
<1> QED
  BY <1>1, <1>2

LEMMA TimesInOrder ==
  ASSUME NEW h, h.unit = "H", h.fraction = <<>>, NEW m, m.unit = "Mi", m.fraction = <<>>,
         NEW s, s.unit = "S"
  PROVE  /\ InOrder(<<s>>, TimeUnits) /\ InOrder(<<m, s>>, TimeUnits)
         /\ InOrder(<<h, s>>, TimeUnits) /\ InOrder(<<h, m, s>>, TimeUnits)
<1>0. TimeUnits[1] = "H" /\ TimeUnits[2] = "Mi" /\ TimeUnits[3] = "S" /\ DOMAIN TimeUnits = 1..3
  BY DEF TimeUnits
<1>1. InOrder(<<s>>, TimeUnits)
  <2> DEFINE part == <<s>>
  <2>1. DOMAIN part = 1..1 /\ part[1] = s
    OBVIOUS
  <2> HIDE DEF part
  <2> QED
    BY <1>0, <2>1 DEF InOrder
<1>2. InOrder(<<m, s>>, TimeUnits)
  <2> DEFINE part == <<m, s>>
  <2>1. DOMAIN part = 1..2 /\ part[1] = m /\ part[2] = s
    OBVIOUS
  <2> HIDE DEF part
  <2> QED
    BY <1>0, <2>1 DEF InOrder
<1>3. InOrder(<<h, s>>, TimeUnits)
  <2> DEFINE part == <<h, s>>
  <2>1. DOMAIN part = 1..2 /\ part[1] = h /\ part[2] = s
    OBVIOUS
  <2> HIDE DEF part
  <2> QED
    BY <1>0, <2>1 DEF InOrder
<1>4. InOrder(<<h, m, s>>, TimeUnits)
  <2> DEFINE part == <<h, m, s>>
  <2>1. Len(part) = 3 /\ DOMAIN part = 1..Len(part)
        /\ part[1] = h /\ part[2] = m /\ part[3] = s
    OBVIOUS
  <2> HIDE DEF part
  <2> QED
    BY <1>0, <2>1 DEF InOrder
<1> QED
  BY <1>1, <1>2, <1>3, <1>4

(* A duration in order whose only component of seconds is its last is the  *)
(* worth of its components and those seconds.                              *)
InTurn(v) ==
  /\ v.form = "duration" /\ v.sign = 1 /\ v.marked = TRUE /\ v.timeParts # <<>>
  /\ InOrder(v.dateParts, DateUnits) /\ InOrder(v.timeParts, TimeUnits)

Joins(v, parts) == parts = v.dateParts \o v.timeParts

EndsWith(parts, s) ==
  /\ Len(parts) > 0 /\ parts[Len(parts)] = s /\ s.count < 60
  /\ \A i \in 1..Len(parts) : parts[i].unit = "S" <=> i = Len(parts)

(* The length of a sequence, and its indices. *)
LEMMA SeqFacts ==
  ASSUME NEW S, NEW s \in Seq(S)
  PROVE  Len(s) \in Nat /\ DOMAIN s = 1..Len(s)
OBVIOUS

LEMMA DurationReads ==
  ASSUME NEW v, NEW parts \in Seq(Part), NEW s \in Part,
         InTurn(v), Joins(v, parts), EndsWith(parts, s)
  PROVE  parse_xsd_duration(v) = <<Minutes(parts), s.count, Fraction(s.fraction)>>
<1> DEFINE seconds == {i \in DOMAIN parts : parts[i].unit = "S"}
           chosen == CHOOSE i \in seconds : TRUE
<1>0. Len(parts) \in Nat /\ DOMAIN parts = 1..Len(parts)
  BY Zenon, SeqFacts
<1>1. Len(parts) \in seconds /\ \A i \in seconds : i = Len(parts)
  <2>1. \A i \in DOMAIN parts : parts[i].unit = "S" <=> i = Len(parts)
    BY <1>0, Zenon DEF EndsWith
  <2>2. Len(parts) \in DOMAIN parts
    <3>1. Len(parts) > 0
      BY DEF EndsWith
    <3>2. Len(parts) \in 1..Len(parts)
      BY <1>0, <3>1
    <3> QED
      BY <1>0, <3>2, Zenon
  <2> QED
    BY <2>1, <2>2, Zenon
<1>2. chosen \in seconds
  <2> HIDE DEF seconds
  <2> QED
    BY <1>1, Zenon
<1>3. parts[chosen] = s /\ seconds # {} /\ parts # <<>>
  <2>1. chosen = Len(parts)
    BY <1>1, <1>2
  <2>2. parts[chosen] = s
    BY <2>1 DEF EndsWith
  <2>3. parts # <<>>
    BY DEF EndsWith
  <2> QED
    BY <1>1, <2>2, <2>3
<1>4. s.count \in Nat /\ Fraction(s.fraction) \in Nat /\ s.count < 60
  BY FractionType DEF Part, EndsWith
<1>5. Minutes(parts) \in Nat
  <2>1. PICK sum \in [0..Len(parts) -> Nat] : Minutes(parts) = sum[Len(parts)]
    BY MinutesRun
  <2>2. Len(parts) \in 0..Len(parts)
    BY <1>0
  <2> QED
    BY <2>1, <2>2
<1>6. parse_xsd_duration(v) =
        <<v.sign * (Minutes(parts) + s.count \div 60), v.sign * (s.count % 60),
          v.sign * Fraction(s.fraction)>>
  BY <1>3, Zenon DEF parse_xsd_duration, InTurn, Joins
<1>7. s.count \div 60 = 0 /\ s.count % 60 = s.count
  BY <1>4
<1>8. /\ v.sign * (Minutes(parts) + s.count \div 60) = Minutes(parts)
      /\ v.sign * (s.count % 60) = s.count
      /\ v.sign * Fraction(s.fraction) = Fraction(s.fraction)
  <2>1. v.sign = 1
    BY DEF InTurn
  <2> QED
    BY <1>4, <1>5, <1>7, <2>1
<1> QED
  BY <1>6, <1>8

(* The components that are not zero, joined in every way. *)
AllJoined(d, h, m, s) ==
  /\ <<>> \o <<>> = <<>>
  /\ <<h>> \o <<>> = <<h>>
  /\ <<>> \o <<m>> = <<m>>
  /\ <<h>> \o <<m>> = <<h, m>>
  /\ <<>> \o <<s>> = <<s>>
  /\ <<h>> \o <<s>> = <<h, s>>
  /\ <<m>> \o <<s>> = <<m, s>>
  /\ <<h, m>> \o <<s>> = <<h, m, s>>
  /\ <<>> \o <<h, s>> = <<h, s>>
  /\ <<>> \o <<m, s>> = <<m, s>>
  /\ <<>> \o <<h, m, s>> = <<h, m, s>>
  /\ <<d>> \o <<s>> = <<d, s>>
  /\ <<d>> \o <<h, s>> = <<d, h, s>>
  /\ <<d>> \o <<m, s>> = <<d, m, s>>
  /\ <<d>> \o <<h, m, s>> = <<d, h, m, s>>

LEMMA Joined ==
  ASSUME NEW S, NEW d \in S, NEW h \in S, NEW m \in S, NEW s \in S
  PROVE  AllJoined(d, h, m, s)
<1>1. <<>> \o <<>> = <<>>
  BY SMT
<1>2. <<h>> \o <<>> = <<h>>
  BY SMT
<1>3. <<>> \o <<m>> = <<m>>
  BY SMT
<1>4. <<h>> \o <<m>> = <<h, m>>
  <2> DEFINE p == <<h>> \o <<m>>
  <2>1. p \in Seq(S) /\ Len(p) = 2 /\ p[1] = h /\ p[2] = m
    BY SMT
  <2> HIDE DEF p
  <2>2. p = <<h, m>>
    BY <2>1
  <2> QED
    BY <2>2 DEF p
<1>5. <<>> \o <<s>> = <<s>>
  BY SMT
<1>6. <<h>> \o <<s>> = <<h, s>>
  <2> DEFINE p == <<h>> \o <<s>>
  <2>1. p \in Seq(S) /\ Len(p) = 2 /\ p[1] = h /\ p[2] = s
    BY SMT
  <2> HIDE DEF p
  <2>2. p = <<h, s>>
    BY <2>1
  <2> QED
    BY <2>2 DEF p
<1>7. <<m>> \o <<s>> = <<m, s>>
  <2> DEFINE p == <<m>> \o <<s>>
  <2>1. p \in Seq(S) /\ Len(p) = 2 /\ p[1] = m /\ p[2] = s
    BY SMT
  <2> HIDE DEF p
  <2>2. p = <<m, s>>
    BY <2>1
  <2> QED
    BY <2>2 DEF p
<1>8. <<h, m>> \o <<s>> = <<h, m, s>>
  <2> DEFINE p == <<h, m>> \o <<s>>
  <2>1. p \in Seq(S) /\ Len(p) = 3 /\ p[1] = h /\ p[2] = m /\ p[3] = s
    BY SMT
  <2> HIDE DEF p
  <2>2. p = <<h, m, s>>
    BY <2>1
  <2> QED
    BY <2>2 DEF p
<1>9. <<>> \o <<h, s>> = <<h, s>>
  BY SMT
<1>10. <<>> \o <<m, s>> = <<m, s>>
  BY SMT
<1>11. <<>> \o <<h, m, s>> = <<h, m, s>>
  BY SMT
<1>12. <<d>> \o <<s>> = <<d, s>>
  <2> DEFINE p == <<d>> \o <<s>>
  <2>1. p \in Seq(S) /\ Len(p) = 2 /\ p[1] = d /\ p[2] = s
    BY SMT
  <2> HIDE DEF p
  <2>2. p = <<d, s>>
    BY <2>1
  <2> QED
    BY <2>2 DEF p
<1>13. <<d>> \o <<h, s>> = <<d, h, s>>
  <2> DEFINE p == <<d>> \o <<h, s>>
  <2>1. p \in Seq(S) /\ Len(p) = 3 /\ p[1] = d /\ p[2] = h /\ p[3] = s
    BY SMT
  <2> HIDE DEF p
  <2>2. p = <<d, h, s>>
    BY <2>1
  <2> QED
    BY <2>2 DEF p
<1>14. <<d>> \o <<m, s>> = <<d, m, s>>
  <2> DEFINE p == <<d>> \o <<m, s>>
  <2>1. p \in Seq(S) /\ Len(p) = 3 /\ p[1] = d /\ p[2] = m /\ p[3] = s
    BY SMT
  <2> HIDE DEF p
  <2>2. p = <<d, m, s>>
    BY <2>1
  <2> QED
    BY <2>2 DEF p
<1>15. <<d>> \o <<h, m, s>> = <<d, h, m, s>>
  <2> DEFINE p == <<d>> \o <<h, m, s>>
  <2>1. p \in Seq(S) /\ Len(p) = 4 /\ p[1] = d /\ p[2] = h /\ p[3] = m /\ p[4] = s
    BY SMT
  <2> HIDE DEF p
  <2>2. p = <<d, h, m, s>>
    BY <2>1
  <2> QED
    BY <2>2 DEF p
<1> QED
  BY <1>1, <1>2, <1>3, <1>4, <1>5, <1>6, <1>7, <1>8, <1>9, <1>10, <1>11, <1>12,
     <1>13, <1>14, <1>15, Zenon DEF AllJoined

(* A duration of days, hours, minutes and seconds, without those of its    *)
(* components that are zero but for the seconds.                           *)
Shown(p) == IF p.count = 0 THEN <<>> ELSE <<p>>

IsOf(v, d, h, m, s) ==
  /\ v.form = "duration" /\ v.sign = 1 /\ v.marked = TRUE
  /\ v.dateParts = Shown(d)
  /\ v.timeParts = (Shown(h) \o Shown(m)) \o <<s>>

AreUnits(d, h, m, s) ==
  /\ d.unit = "D" /\ h.unit = "H" /\ m.unit = "Mi" /\ s.unit = "S"
  /\ d.fraction = <<>> /\ h.fraction = <<>> /\ m.fraction = <<>>
  /\ s.count < 60

(* Such a duration is read as the worth of all its components. *)
LEMMA PartsRead ==
  ASSUME NEW v, NEW d \in Part, NEW h \in Part, NEW m \in Part, NEW s \in Part,
         IsOf(v, d, h, m, s), AreUnits(d, h, m, s)
  PROVE  parse_xsd_duration(v) = <<Worth(d) + Worth(h) + Worth(m), s.count, Fraction(s.fraction)>>
<1> DEFINE total == Worth(d) + Worth(h) + Worth(m)
<1>1. AllJoined(d, h, m, s)
  BY Joined, Zenon
<1>2. \/ d.count = 0 /\ v.dateParts = <<>>
      \/ d.count # 0 /\ v.dateParts = <<d>>
  BY Zenon DEF IsOf, Shown
<1>3. \/ h.count = 0 /\ m.count = 0 /\ v.timeParts = <<s>>
      \/ h.count # 0 /\ m.count = 0 /\ v.timeParts = <<h, s>>
      \/ h.count = 0 /\ m.count # 0 /\ v.timeParts = <<m, s>>
      \/ h.count # 0 /\ m.count # 0 /\ v.timeParts = <<h, m, s>>
  <2>1. v.timeParts = (Shown(h) \o Shown(m)) \o <<s>>
    BY DEF IsOf
  <2>2. CASE h.count = 0 /\ m.count = 0
    <3>1. Shown(h) = <<>> /\ Shown(m) = <<>>
      BY <2>2, Zenon DEF Shown
    <3>2. v.timeParts = <<s>>
      BY <1>1, <2>1, <3>1, Zenon DEF AllJoined
    <3> QED
      BY <2>2, <3>2, Zenon
  <2>3. CASE h.count = 0 /\ m.count # 0
    <3>1. Shown(h) = <<>> /\ Shown(m) = <<m>>
      BY <2>3, Zenon DEF Shown
    <3>2. v.timeParts = <<m, s>>
      BY <1>1, <2>1, <3>1, Zenon DEF AllJoined
    <3> QED
      BY <2>3, <3>2, Zenon
  <2>4. CASE h.count # 0 /\ m.count = 0
    <3>1. Shown(h) = <<h>> /\ Shown(m) = <<>>
      BY <2>4, Zenon DEF Shown
    <3>2. v.timeParts = <<h, s>>
      BY <1>1, <2>1, <3>1, Zenon DEF AllJoined
    <3> QED
      BY <2>4, <3>2, Zenon
  <2>5. CASE h.count # 0 /\ m.count # 0
    <3>1. Shown(h) = <<h>> /\ Shown(m) = <<m>>
      BY <2>5, Zenon DEF Shown
    <3>2. v.timeParts = <<h, m, s>>
      BY <1>1, <2>1, <3>1, Zenon DEF AllJoined
    <3> QED
      BY <2>5, <3>2, Zenon
  <2> QED
    BY <2>2, <2>3, <2>4, <2>5, Zenon
<1>4. InTurn(v)
  <2>1. <<s>> # <<>> /\ <<h, s>> # <<>> /\ <<m, s>> # <<>> /\ <<h, m, s>> # <<>>
    OBVIOUS
  <2>2. InOrder(v.dateParts, DateUnits)
    <3>1. InOrder(<<>>, DateUnits) /\ InOrder(<<d>>, DateUnits)
      BY DatesInOrder DEF AreUnits
    <3> QED
      BY <1>2, <3>1, Zenon
  <2>3. InOrder(v.timeParts, TimeUnits)
    <3>1. /\ InOrder(<<s>>, TimeUnits) /\ InOrder(<<m, s>>, TimeUnits)
          /\ InOrder(<<h, s>>, TimeUnits) /\ InOrder(<<h, m, s>>, TimeUnits)
      BY TimesInOrder, Zenon DEF AreUnits
    <3> QED
      BY <1>3, <3>1, Zenon
  <2> QED
    BY <1>3, <2>1, <2>2, <2>3, Zenon DEF InTurn, IsOf
<1>5. /\ Worth(d) \in Nat /\ Worth(h) \in Nat /\ Worth(m) \in Nat /\ Worth(s) = 0
      /\ d.count = 0 => Worth(d) = 0
      /\ h.count = 0 => Worth(h) = 0
      /\ m.count = 0 => Worth(m) = 0
  BY WorthOf DEF AreUnits
<1> HIDE DEF total
<1>6. ASSUME NEW parts \in Seq(Part), Joins(v, parts), EndsWith(parts, s), Minutes(parts) = total
      PROVE  parse_xsd_duration(v) = <<total, s.count, Fraction(s.fraction)>>
  BY <1>4, <1>6, DurationReads, Zenon
<1>7. CASE d.count = 0 /\ h.count = 0 /\ m.count = 0 /\ v.dateParts = <<>> /\ v.timeParts = <<s>>
  <2>1. <<s>> \in Seq(Part)
    OBVIOUS
  <2>2. Joins(v, <<s>>)
    BY <1>1, <1>7, Zenon DEF Joins, AllJoined
  <2>3. EndsWith(<<s>>, s)
    BY DEF EndsWith, AreUnits
  <2>4. Minutes(<<s>>) = Worth(s)
    BY MinutesOfOne, Zenon
  <2>5. Minutes(<<s>>) = total
    BY <1>5, <1>7, <2>4 DEF total
  <2> QED
    BY <1>6, <2>1, <2>2, <2>3, <2>5, Zenon DEF total
<1>8. CASE d.count = 0 /\ h.count # 0 /\ m.count = 0 /\ v.dateParts = <<>> /\ v.timeParts = <<h, s>>
  <2>1. <<h, s>> \in Seq(Part)
    OBVIOUS
  <2>2. Joins(v, <<h, s>>)
    BY <1>1, <1>8, Zenon DEF Joins, AllJoined
  <2>3. EndsWith(<<h, s>>, s)
    BY DEF EndsWith, AreUnits
  <2>4. Minutes(<<h, s>>) = Worth(h) + Worth(s)
    BY MinutesOfTwo, Zenon
  <2>5. Minutes(<<h, s>>) = total
    BY <1>5, <1>8, <2>4 DEF total
  <2> QED
    BY <1>6, <2>1, <2>2, <2>3, <2>5, Zenon DEF total
<1>9. CASE d.count = 0 /\ h.count = 0 /\ m.count # 0 /\ v.dateParts = <<>> /\ v.timeParts = <<m, s>>
  <2>1. <<m, s>> \in Seq(Part)
    OBVIOUS
  <2>2. Joins(v, <<m, s>>)
    BY <1>1, <1>9, Zenon DEF Joins, AllJoined
  <2>3. EndsWith(<<m, s>>, s)
    BY DEF EndsWith, AreUnits
  <2>4. Minutes(<<m, s>>) = Worth(m) + Worth(s)
    BY MinutesOfTwo, Zenon
  <2>5. Minutes(<<m, s>>) = total
    BY <1>5, <1>9, <2>4 DEF total
  <2> QED
    BY <1>6, <2>1, <2>2, <2>3, <2>5, Zenon DEF total
<1>10. CASE d.count = 0 /\ h.count # 0 /\ m.count # 0 /\ v.dateParts = <<>> /\ v.timeParts = <<h, m, s>>
  <2>1. <<h, m, s>> \in Seq(Part)
    OBVIOUS
  <2>2. Joins(v, <<h, m, s>>)
    BY <1>1, <1>10, Zenon DEF Joins, AllJoined
  <2>3. EndsWith(<<h, m, s>>, s)
    BY DEF EndsWith, AreUnits
  <2>4. Minutes(<<h, m, s>>) = Worth(h) + Worth(m) + Worth(s)
    BY MinutesOfThree, Zenon
  <2>5. Minutes(<<h, m, s>>) = total
    BY <1>5, <1>10, <2>4 DEF total
  <2> QED
    BY <1>6, <2>1, <2>2, <2>3, <2>5, Zenon DEF total
<1>11. CASE d.count # 0 /\ h.count = 0 /\ m.count = 0 /\ v.dateParts = <<d>> /\ v.timeParts = <<s>>
  <2>1. <<d, s>> \in Seq(Part)
    OBVIOUS
  <2>2. Joins(v, <<d, s>>)
    BY <1>1, <1>11, Zenon DEF Joins, AllJoined
  <2>3. EndsWith(<<d, s>>, s)
    BY DEF EndsWith, AreUnits
  <2>4. Minutes(<<d, s>>) = Worth(d) + Worth(s)
    BY MinutesOfTwo, Zenon
  <2>5. Minutes(<<d, s>>) = total
    BY <1>5, <1>11, <2>4 DEF total
  <2> QED
    BY <1>6, <2>1, <2>2, <2>3, <2>5, Zenon DEF total
<1>12. CASE d.count # 0 /\ h.count # 0 /\ m.count = 0 /\ v.dateParts = <<d>> /\ v.timeParts = <<h, s>>
  <2>1. <<d, h, s>> \in Seq(Part)
    OBVIOUS
  <2>2. Joins(v, <<d, h, s>>)
    BY <1>1, <1>12, Zenon DEF Joins, AllJoined
  <2>3. EndsWith(<<d, h, s>>, s)
    BY DEF EndsWith, AreUnits
  <2>4. Minutes(<<d, h, s>>) = Worth(d) + Worth(h) + Worth(s)
    BY MinutesOfThree, Zenon
  <2>5. Minutes(<<d, h, s>>) = total
    BY <1>5, <1>12, <2>4 DEF total
  <2> QED
    BY <1>6, <2>1, <2>2, <2>3, <2>5, Zenon DEF total
<1>13. CASE d.count # 0 /\ h.count = 0 /\ m.count # 0 /\ v.dateParts = <<d>> /\ v.timeParts = <<m, s>>
  <2>1. <<d, m, s>> \in Seq(Part)
    OBVIOUS
  <2>2. Joins(v, <<d, m, s>>)
    BY <1>1, <1>13, Zenon DEF Joins, AllJoined
  <2>3. EndsWith(<<d, m, s>>, s)
    BY DEF EndsWith, AreUnits
  <2>4. Minutes(<<d, m, s>>) = Worth(d) + Worth(m) + Worth(s)
    BY MinutesOfThree, Zenon
  <2>5. Minutes(<<d, m, s>>) = total
    BY <1>5, <1>13, <2>4 DEF total
  <2> QED
    BY <1>6, <2>1, <2>2, <2>3, <2>5, Zenon DEF total
<1>14. CASE d.count # 0 /\ h.count # 0 /\ m.count # 0 /\ v.dateParts = <<d>> /\ v.timeParts = <<h, m, s>>
  <2>1. <<d, h, m, s>> \in Seq(Part)
    OBVIOUS
  <2>2. Joins(v, <<d, h, m, s>>)
    BY <1>1, <1>14, Zenon DEF Joins, AllJoined
  <2>3. EndsWith(<<d, h, m, s>>, s)
    BY DEF EndsWith, AreUnits
  <2>4. Minutes(<<d, h, m, s>>) = Worth(d) + Worth(h) + Worth(m) + Worth(s)
    BY MinutesOfFour
  <2>5. Minutes(<<d, h, m, s>>) = total
    BY <1>5, <1>14, <2>4 DEF total
  <2> QED
    BY <1>6, <2>1, <2>2, <2>3, <2>5, Zenon DEF total
<1> QED
  BY <1>2, <1>3, <1>7, <1>8, <1>9, <1>10, <1>11, <1>12, <1>13, <1>14, Zenon DEF total

Of(unit, count, fraction) == [unit |-> unit, count |-> count, fraction |-> fraction]

(* A component by its fields. *)
LEMMA OfIsPart ==
  ASSUME NEW unit \in {"D", "H", "Mi", "S"}, NEW count \in Nat, NEW fraction \in Seq(Nat)
  PROVE  /\ Of(unit, count, fraction) \in Part
         /\ Of(unit, count, fraction).unit = unit
         /\ Of(unit, count, fraction).count = count
         /\ Of(unit, count, fraction).fraction = fraction
BY DEF Of, Part

(* A component without a fraction, which is left out when it is zero. *)
LEMMA ComponentShows ==
  ASSUME NEW unit \in {"D", "H", "Mi"}, NEW count \in Nat
  PROVE  /\ Of(unit, count, <<>>) \in Part
         /\ Of(unit, count, <<>>).unit = unit
         /\ Of(unit, count, <<>>).count = count
         /\ Of(unit, count, <<>>).fraction = <<>>
         /\ Shown(Of(unit, count, <<>>)) = Component(count, unit)
<1>1. <<>> \in Seq(Nat)
  OBVIOUS
<1>2. Shown(Of(unit, count, <<>>)) = Component(count, unit)
  BY DEF Component, Shown, Of
<1>3. /\ Of(unit, count, <<>>).unit = unit /\ Of(unit, count, <<>>).count = count
      /\ Of(unit, count, <<>>).fraction = <<>>
  BY DEF Of
<1>4. Of(unit, count, <<>>) \in Part
  BY <1>1 DEF Of, Part
<1> QED
  BY <1>2, <1>3, <1>4

(* What the stopwatch shows is read as the minutes, the second and the     *)
(* fraction it counted, whichever of its components are zero.              *)
LEMMA StopwatchReads ==
  ASSUME NEW w \in [days : Nat, minute : Nat, milli : Nat], w.minute < 1440, w.milli < 60000
  PROVE  parse_xsd_duration(Elapsed(w))
           = <<w.days * 1440 + w.minute, w.milli \div 1000, Fraction(Digits(w.milli % 1000))>>
<1> DEFINE hour == w.minute \div 60
           minute == w.minute % 60
           second == w.milli \div 1000
           digits == Digits(w.milli % 1000)
           d == Of("D", w.days, <<>>)
           h == Of("H", hour, <<>>)
           m == Of("Mi", minute, <<>>)
           s == Of("S", second, digits)
<1>1. /\ w.days \in Nat /\ w.minute \in Nat
      /\ hour \in Nat /\ minute \in Nat /\ second \in Nat /\ second < 60
      /\ w.minute = hour * 60 + minute
  OBVIOUS
<1>2. digits \in Seq(Nat)
  <2>1. w.milli % 1000 \in Nat
    OBVIOUS
  <2> QED
    BY <2>1, DigitsType
<1>3. /\ Elapsed(w).form = "duration" /\ Elapsed(w).sign = 1 /\ Elapsed(w).marked = TRUE
      /\ Elapsed(w).dateParts = Component(w.days, "D")
      /\ Elapsed(w).timeParts = (Component(hour, "H") \o Component(minute, "Mi")) \o <<s>>
  BY DEF Elapsed, Of
<1> HIDE DEF hour, minute, second, digits, d, h, m, s
<1>4. d \in Part /\ d.unit = "D" /\ d.count = w.days /\ d.fraction = <<>>
      /\ Shown(d) = Component(w.days, "D")
  BY <1>1, ComponentShows DEF d
<1>5. h \in Part /\ h.unit = "H" /\ h.count = hour /\ h.fraction = <<>>
      /\ Shown(h) = Component(hour, "H")
  BY <1>1, ComponentShows DEF h
<1>6. m \in Part /\ m.unit = "Mi" /\ m.count = minute /\ m.fraction = <<>>
      /\ Shown(m) = Component(minute, "Mi")
  BY <1>1, ComponentShows DEF m
<1>7. s \in Part /\ s.unit = "S" /\ s.count = second /\ s.fraction = digits
  BY <1>1, <1>2, OfIsPart DEF s
<1>8. IsOf(Elapsed(w), d, h, m, s)
  BY <1>3, <1>4, <1>5, <1>6 DEF IsOf
<1>9. AreUnits(d, h, m, s)
  BY <1>1, <1>4, <1>5, <1>6, <1>7 DEF AreUnits
<1>10. parse_xsd_duration(Elapsed(w))
        = <<Worth(d) + Worth(h) + Worth(m), s.count, Fraction(s.fraction)>>
  BY <1>4, <1>5, <1>6, <1>7, <1>8, <1>9, PartsRead
<1>11. Worth(d) = w.days * 1440 /\ Worth(h) = hour * 60 /\ Worth(m) = minute
  BY <1>4, <1>5, <1>6, WorthOf
<1>12. Worth(d) + Worth(h) + Worth(m) = w.days * 1440 + w.minute
  BY <1>1, <1>11
<1>13. parse_xsd_duration(Elapsed(w)) = <<w.days * 1440 + w.minute, second, Fraction(digits)>>
  BY <1>7, <1>10, <1>12
<1> QED
  BY <1>13 DEF second, digits

(* Two instants differ by the duration between them. *)
LEMMA InvStopwatchAgrees == ClocksInv => StopwatchAgrees
<1> SUFFICES ASSUME ClocksInv
             PROVE  StopwatchAgrees
  OBVIOUS
<1> DEFINE began == parse_xsd_temporal(Written(start.utc, "utc", 0))
           elapsed == parse_xsd_duration(Elapsed(stopwatch))
           second == utc.milli \div 1000
           fraction == Fraction(Digits(utc.milli % 1000))
           minutes == stopwatch.days * 1440 + stopwatch.minute
<1>1. /\ start \in Starts /\ utc \in Clock
      /\ stopwatch \in [days : Nat, minute : Nat, milli : Nat] /\ stopwatch.minute < 1440
      /\ stopwatch.milli = utc.milli
      /\ Reads(utc) = Reads(start.utc) + stopwatch.days * 1440 + stopwatch.minute
  BY DEF ClocksInv
<1>2. start.utc \in Clock
  BY <1>1, StartIsReal
<1>3. utc.milli < 60000 /\ Reads(start.utc) \in Int
  BY <1>1, <1>2, ClockFields
<1>4. \A c \in Clock :
         parse_xsd_temporal(Written(c, "utc", 0))
           = <<Reads(c), c.milli \div 1000, Fraction(Digits(c.milli % 1000))>>
  <2> TAKE c \in Clock
  <2>1. Written(c, "utc", 0).form = "utc"
    BY DEF Written
  <2>2. parse_xsd_temporal(Written(c, "utc", 0)) = parse_utc_datetime(Written(c, "utc", 0))
    BY <2>1 DEF parse_xsd_temporal
  <2> QED
    BY <2>2, UtcReads
<1>5. Now = <<Reads(utc), second, fraction>>
  BY <1>1, <1>4 DEF Now
<1>6. began[1] = Reads(start.utc)
  BY <1>2, <1>4
<1>7. elapsed = <<minutes, second, fraction>>
  BY <1>1, <1>3, StopwatchReads
<1>8. Reads(utc) = Reads(start.utc) + minutes
  BY <1>1, <1>3
<1> HIDE DEF began, elapsed, second, fraction, minutes
<1>9. Now = <<began[1] + elapsed[1], elapsed[2], elapsed[3]>>
  BY <1>5, <1>6, <1>7, <1>8
<1> QED
  BY <1>9 DEF StopwatchAgrees, began, elapsed

(* Whenever the clocks start and wherever the second is, whatever the step *)
(* and however long they run: what parse_xsd_temporal reads from the       *)
(* second is the instant it reads from the first, a value it can read.     *)
THEOREM ZonesAgreeCorrect == ClocksSpec => []ZonesAgree
<1>1. ClocksInit => ClocksInv
  BY InitClocksInv
<1>2. ClocksInv /\ [Tick]_clockVars => ClocksInv'
  BY NextClocksInv
<1>3. ClocksInv => ZonesAgree
  BY InvZonesAgree
<1> QED
  BY <1>1, <1>2, <1>3, PTL DEF ClocksSpec

(* And as long as they run, what it reads from the first is the instant    *)
(* read at the start and, added to it, what parse_xsd_duration reads from  *)
(* the stopwatch.                                                          *)
THEOREM StopwatchAgreesCorrect == ClocksSpec => []StopwatchAgrees
<1>1. ClocksInit => ClocksInv
  BY InitClocksInv
<1>2. ClocksInv /\ [Tick]_clockVars => ClocksInv'
  BY NextClocksInv
<1>3. ClocksInv => StopwatchAgrees
  BY InvStopwatchAgrees
<1> QED
  BY <1>1, <1>2, <1>3, PTL DEF ClocksSpec
===============================================================================
