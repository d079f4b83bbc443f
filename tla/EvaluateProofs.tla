---------------------------- MODULE EvaluateProofs ----------------------------
(***************************************************************************)
(* A request gets the answer its policies call for, for any number of      *)
(* policies, any inheritance among them and any caller; and what that      *)
(* answer promises.  First the memoised walk over inheritFrom: it rejects  *)
(* exactly the circular and the dangling policy sets, and lists each       *)
(* ancestor once, in the order of the paths upward.                        *)
(***************************************************************************)
EXTENDS Evaluate, Shadow, DecisionProofs

(* Every non-empty set of naturals has a least element. *)
LEMMA LeastNat ==
  ASSUME NEW S \in SUBSET Nat, S # {}
  PROVE  \E i \in S : \A j \in S : i <= j
<1> DEFINE R == OpToRel(<, Nat)
<1>1. IsWellFoundedOn(R, Nat)
  BY NatLessThanWellFounded
<1> HIDE DEF R
<1>2. PICK i \in S : \A j \in S : ~ (<<j, i>> \in R)
  BY <1>1, WFMin
<1>3. \A j \in S : <<j, i>> \in R <=> j < i
  BY DEF R, OpToRel
<1>4. \A j \in S : ~ (j < i)
  BY <1>2, <1>3, Zenon
<1>5. \A j \in S : i <= j
  BY <1>4, SMT
<1> QED
  BY <1>5

(* The last of some positions. *)
LEMMA LastOf ==
  ASSUME NEW n \in Nat, NEW S \in SUBSET (1..n), S # {}
  PROVE  \E i \in S : \A j \in S : j <= i
<1> DEFINE T == {n - i : i \in S}
<1>1. T \in SUBSET Nat /\ T # {}
  <2>1. \A i \in S : i \in 1..n /\ n - i \in Nat
    OBVIOUS
  <2> QED
    BY <2>1, Zenon
<1>2. PICK t \in T : \A u \in T : t <= u
  BY <1>1, LeastNat, Zenon
<1>3. PICK i \in S : t = n - i
  OBVIOUS
<1>4. \A j \in S : n - j \in T
  OBVIOUS
<1>5. \A j \in S : j <= i
  BY <1>2, <1>3, <1>4
<1> QED
  BY <1>5

-------------------------------------------------------------------------------
(* TakeOver folds over a sequence: what the fold computes on the first n   *)
(* entries, as a function of subsets of positions.                         *)
Unseen(acc, a) == IF \E i \in DOMAIN acc : acc[i] = a THEN acc ELSE Append(acc, a)

TakenOver(base, s, S, iter) ==
  iter = [t \in SUBSET S |->
            IF t = {} THEN base ELSE Unseen(iter[t \ {Max(t)}], s[Max(t)])]

(* The fold consumes the last position first.                              *)
LEMMA MaxUpTo ==
  ASSUME NEW n \in Nat, NEW S \in SUBSET (1..n), S # {}
  PROVE  /\ Max(S) \in S
         /\ \A j \in S : j <= Max(S)
<1>1. \E i \in S : \A j \in S : i >= j
  BY LastOf
<1> QED
  BY <1>1 DEF Max

(* The recursive function exists: no least n is without one.               *)
LEMMA FoldExists ==
  ASSUME NEW base, NEW s, NEW n \in Nat
  PROVE  \E iter : TakenOver(base, s, 1..n, iter)
<1> DEFINE P(k) == \E iter : TakenOver(base, s, 1..k, iter)
           Bad == {k \in Nat : ~P(k)}
<1>1. P(0)
  <2> DEFINE it == [t \in SUBSET (1..0) |-> base]
  <2>1. \A t \in SUBSET (1..0) : t = {}
    OBVIOUS
  <2>2. TakenOver(base, s, 1..0, it)
    BY <2>1 DEF TakenOver
  <2> QED
    BY <2>2
<1>2. ASSUME NEW k \in Nat, P(k)
      PROVE  P(k+1)
  <2>1. PICK it : TakenOver(base, s, 1..k, it)
    BY <1>2
  <2> DEFINE nx == [t \in SUBSET (1..(k+1)) |->
                      IF k + 1 \in t THEN Unseen(it[t \ {k+1}], s[k+1]) ELSE it[t]]
  <2>2. ASSUME NEW t \in SUBSET (1..(k+1))
        PROVE  nx[t] = IF t = {} THEN base ELSE Unseen(nx[t \ {Max(t)}], s[Max(t)])
    <3>1. CASE k + 1 \in t
      <4>1. Max(t) = k + 1
        <5>0. k + 1 \in Nat /\ t # {}
          BY <3>1
        <5>1. Max(t) \in t /\ \A j \in t : j <= Max(t)
          BY <5>0, MaxUpTo, Zenon
        <5>2. Max(t) \in 1..(k+1)
          BY <5>1
        <5>3. Max(t) <= k + 1 /\ k + 1 <= Max(t)
          BY <5>1, <5>2, <3>1
        <5> QED
          BY <5>2, <5>3
      <4>2. t \ {k+1} \in SUBSET (1..(k+1)) /\ k + 1 \notin t \ {k+1}
        OBVIOUS
      <4>3. nx[t \ {k+1}] = it[t \ {k+1}]
        BY <4>2
      <4>4. nx[t] = Unseen(it[t \ {k+1}], s[k+1])
        BY <3>1
      <4> QED
        BY <3>1, <4>1, <4>3, <4>4
    <3>2. CASE k + 1 \notin t
      <4>1. t \in SUBSET (1..k)
        BY <3>2
      <4>2. nx[t] = it[t]
        BY <3>2
      <4>3. it[t] = IF t = {} THEN base ELSE Unseen(it[t \ {Max(t)}], s[Max(t)])
        BY <2>1, <4>1 DEF TakenOver
      <4>4. t # {} => t \ {Max(t)} \in SUBSET (1..(k+1)) /\ k + 1 \notin t \ {Max(t)}
        BY <3>2
      <4>5. t # {} => nx[t \ {Max(t)}] = it[t \ {Max(t)}]
        BY <4>4
      <4> QED
        BY <4>2, <4>3, <4>5
    <3> QED
      BY <3>1, <3>2
  <2>3. nx = [t \in SUBSET (1..(k+1)) |-> nx[t]]
    OBVIOUS
  <2> HIDE DEF nx
  <2>4. TakenOver(base, s, 1..(k+1), nx)
    BY <2>2, <2>3 DEF TakenOver
  <2> QED
    BY <2>4
<1> HIDE DEF P
<1>3. CASE Bad # {}
  <2>1. Bad \in SUBSET Nat
    OBVIOUS
  <2>2. PICK k \in Bad : \A j \in Bad : k <= j
    BY <1>3, <2>1, LeastNat
  <2>3. k # 0
    BY <1>1
  <2>4. k - 1 \in Nat /\ k - 1 \notin Bad
    BY <2>2, <2>3
  <2>5. P((k - 1) + 1)
    BY <1>2, <2>4
  <2>6. (k - 1) + 1 = k
    BY <2>2
  <2> QED
    BY <2>5, <2>6
<1> QED
  BY <1>3 DEF P

LEMMA TakeOverIs ==
  ASSUME NEW order, NEW ancestors, NEW n \in Nat, DOMAIN ancestors = 1..n
  PROVE  \E iter : /\ TakenOver(order, ancestors, 1..n, iter)
                   /\ TakeOver(order, ancestors) = iter[1..n]
<1> DEFINE it == CHOOSE iter : TakenOver(order, ancestors, 1..n, iter)
<1>1. TakenOver(order, ancestors, 1..n, it)
  BY FoldExists
<1>2. TakeOver(order, ancestors) = it[1..n]
  BY DEF TakeOver, FoldLeft, MapThenFoldSet, TakenOver, Unseen
<1> QED
  BY <1>1, <1>2
(* Taking over a list of ancestors adds those that are new, once each. *)
LEMMA TakeOverLists ==
  ASSUME NEW order \in Seq(PolicyId), NEW ancestors \in Seq(PolicyId),
         NEW S, ListsOnce(order, S)
  PROVE  /\ TakeOver(order, ancestors) \in Seq(PolicyId)
         /\ ListsOnce(TakeOver(order, ancestors),
                      S \cup {ancestors[k] : k \in DOMAIN ancestors})
<1> DEFINE n == Len(ancestors)
<1>1. n \in Nat /\ DOMAIN ancestors = 1..n
  OBVIOUS
<1>2. PICK it : TakenOver(order, ancestors, 1..n, it) /\ TakeOver(order, ancestors) = it[1..n]
  BY <1>1, TakeOverIs
<1> DEFINE Good(k) == /\ it[1..k] \in Seq(PolicyId)
                      /\ ListsOnce(it[1..k], S \cup {ancestors[j] : j \in 1..k})
           Bad == {k \in 0..n : ~Good(k)}
<1>3. Good(0)
  <2>1. it[{}] = order
    BY <1>2 DEF TakenOver
  <2>2. 1..0 = {} /\ S \cup {ancestors[j] : j \in 1..0} = S
    OBVIOUS
  <2> QED
    BY <2>1, <2>2
<1>4. ASSUME NEW k \in 1..n, Good(k - 1)
      PROVE  Good(k)
  <2>1. 1..k \in SUBSET (1..n) /\ 1..k # {} /\ (1..k) \ {k} = 1..(k - 1)
    <3> HIDE DEF n
    <3> QED
      BY <1>1
  <2>2. Max(1..k) = k
    <3>1. Max(1..k) \in 1..k /\ \A j \in 1..k : j <= Max(1..k)
      <4>1. k \in Nat /\ 1..k \in SUBSET (1..k)
        OBVIOUS
      <4> QED
        BY <2>1, <4>1, MaxUpTo, Zenon
    <3> QED
      BY <3>1
  <2>3. it[1..k] = Unseen(it[1..(k - 1)], ancestors[k])
    BY <1>2, <2>1, <2>2 DEF TakenOver
  <2> DEFINE acc == it[1..(k - 1)]
             T == S \cup {ancestors[j] : j \in 1..(k - 1)}
  <2>4. acc \in Seq(PolicyId) /\ ListsOnce(acc, T)
    BY <1>4
  <2>5. S \cup {ancestors[j] : j \in 1..k} = T \cup {ancestors[k]}
    OBVIOUS
  <2>6. ancestors[k] \in PolicyId
    OBVIOUS
  <2> HIDE DEF acc, T
  <2>7. Unseen(acc, ancestors[k]) \in Seq(PolicyId)
    BY <2>4, <2>6 DEF Unseen
  <2>8. ListsOnce(Unseen(acc, ancestors[k]), T \cup {ancestors[k]})
    <3>1. CASE \E i \in DOMAIN acc : acc[i] = ancestors[k]
      BY <2>4, <3>1 DEF Unseen, ListsOnce
    <3>2. CASE ~ \E i \in DOMAIN acc : acc[i] = ancestors[k]
      <4>1. Unseen(acc, ancestors[k]) = Append(acc, ancestors[k])
        BY <3>2 DEF Unseen
      <4> DEFINE more == Append(acc, ancestors[k])
      <4>2. /\ DOMAIN more = DOMAIN acc \cup {Len(acc) + 1}
            /\ \A i \in DOMAIN acc : more[i] = acc[i]
            /\ more[Len(acc) + 1] = ancestors[k]
        BY <2>4, <2>6
      <4> HIDE DEF more
      <4>3. {more[i] : i \in DOMAIN more} = T \cup {ancestors[k]}
        BY <4>2, <2>4 DEF ListsOnce
      <4>4. \A i, j \in DOMAIN more : more[i] = more[j] => i = j
        BY <4>2, <2>4, <3>2 DEF ListsOnce
      <4> QED
        BY <4>1, <4>3, <4>4 DEF ListsOnce, more
    <3> QED
      BY <3>1, <3>2
  <2> QED
    BY <2>3, <2>5, <2>7, <2>8 DEF acc
<1> HIDE DEF Good
<1>5. CASE Bad # {}
  <2>1. Bad \in SUBSET Nat
    BY <1>1
  <2>2. PICK k \in Bad : \A j \in Bad : k <= j
    BY <1>5, <2>1, LeastNat, Zenon
  <2>3. k \in 0..n /\ ~Good(k)
    BY <2>2
  <2>4. k \in 1..n
    BY <1>3, <2>3
  <2>5. k - 1 \in 0..n /\ ~ (k <= k - 1)
    BY <2>4
  <2>6. Good(k - 1)
    BY <2>2, <2>5
  <2> QED
    BY <1>4, <2>3, <2>4, <2>6
<1>6. CASE Bad = {}
  <2>1. Good(n)
    BY <1>1, <1>6
  <2> QED
    BY <1>1, <1>2, <2>1 DEF Good
<1> QED
  BY <1>5, <1>6

-------------------------------------------------------------------------------
(* The graph of a request.                                                 *)
LEMMA ParentsType ==
  ASSUME NEW list \in Requests, NEW id
  PROVE  ParentsOf(list, id) \in Seq(PolicyId)
<1>1. CASE id \in Ids(list)
  <2> DEFINE own == {i \in DOMAIN list : list[i].id = id}
  <2>1. list \in Seq({list[i] : i \in DOMAIN list})
    BY RequestsAssumption
  <2>2. Len(list) \in Nat /\ DOMAIN list = 1..Len(list)
    BY <2>1
  <2>3. own \in SUBSET (1..Len(list)) /\ own # {}
    BY <1>1, <2>2 DEF Ids
  <2>4. \E i \in own : \A j \in own : j <= i
    BY <2>2, <2>3, LastOf, Zenon
  <2>5. \E i \in DOMAIN list :
          list[i].id = id /\ \A j \in DOMAIN list : list[j].id = id => j <= i
    BY <2>4
  <2>6. \E i \in DOMAIN list : ById(list, id) = list[i]
    BY <2>5 DEF ById
  <2>7. ById(list, id).inheritFrom \in Seq(PolicyId)
    BY <2>6, RequestsAssumption
  <2> QED
    BY <1>1, <2>7 DEF ParentsOf
<1>2. CASE id \notin Ids(list)
  BY <1>2 DEF ParentsOf
<1> QED
  BY <1>1, <1>2

LEMMA IdsType ==
  ASSUME NEW list \in Requests
  PROVE  Ids(list) \subseteq PolicyId
BY RequestsAssumption DEF Ids

(* A parent is an ancestor, and so is a parent of an ancestor. *)
LEMMA ParentIsAncestor ==
  ASSUME NEW list \in Requests, NEW id, NEW p \in DOMAIN ParentsOf(list, id)
  PROVE  ParentsOf(list, id)[p] \in Ancestors(list, id)
<1>1. ParentsOf(list, id)[p] \in PolicyId
  BY ParentsType
<1> QED
  BY <1>1 DEF Ancestors

LEMMA AncestorsAreClosed ==
  ASSUME NEW list \in Requests, NEW id
  PROVE  ClosedUnderParents(list, Ancestors(list, id))
<1> SUFFICES ASSUME NEW x \in Ancestors(list, id), NEW p \in DOMAIN ParentsOf(list, x)
             PROVE  ParentsOf(list, x)[p] \in Ancestors(list, id)
  BY DEF ClosedUnderParents
<1>1. ParentsOf(list, x)[p] \in PolicyId
  BY ParentsType
<1>2. ASSUME NEW S \in SUBSET PolicyId, ClosedUnderParents(list, S),
             \A q \in DOMAIN ParentsOf(list, id) : ParentsOf(list, id)[q] \in S
      PROVE  ParentsOf(list, x)[p] \in S
  <2>1. x \in S
    BY <1>2 DEF Ancestors
  <2> QED
    BY <1>2, <2>1 DEF ClosedUnderParents
<1> QED
  BY <1>1, <1>2 DEF Ancestors

(* A closed set with the parents of an id has all its ancestors. *)
LEMMA AncestorsWithin ==
  ASSUME NEW list, NEW id, NEW S \in SUBSET PolicyId, ClosedUnderParents(list, S),
         \A p \in DOMAIN ParentsOf(list, id) : ParentsOf(list, id)[p] \in S
  PROVE  Ancestors(list, id) \subseteq S
BY DEF Ancestors

(* The ancestors of an id are its parents and theirs. *)
LEMMA AncestorsByParents ==
  ASSUME NEW list \in Requests, NEW id
  PROVE  Ancestors(list, id) =
           UNION {{ParentsOf(list, id)[p]} \cup Ancestors(list, ParentsOf(list, id)[p]) :
                    p \in DOMAIN ParentsOf(list, id)}
<1> DEFINE parents == ParentsOf(list, id)
           A == Ancestors(list, id)
           B == UNION {{parents[p]} \cup Ancestors(list, parents[p]) : p \in DOMAIN parents}
<1>1. \A p \in DOMAIN parents : parents[p] \in PolicyId /\ parents[p] \in A
  BY ParentsType, ParentIsAncestor
<1>2. ClosedUnderParents(list, A) /\ A \in SUBSET PolicyId
  BY AncestorsAreClosed DEF Ancestors
<1>3. ASSUME NEW p \in DOMAIN parents
      PROVE  Ancestors(list, parents[p]) \subseteq A
  <2>1. \A q \in DOMAIN ParentsOf(list, parents[p]) : ParentsOf(list, parents[p])[q] \in A
    BY <1>1, <1>2 DEF ClosedUnderParents
  <2> HIDE DEF A
  <2> QED
    BY <1>2, <2>1, AncestorsWithin
<1>4. B \subseteq A
  BY <1>1, <1>3
<1>5. \A p \in DOMAIN parents : parents[p] \in B
  OBVIOUS
<1>6. ClosedUnderParents(list, B)
  <2> SUFFICES ASSUME NEW x \in B, NEW q \in DOMAIN ParentsOf(list, x)
               PROVE  ParentsOf(list, x)[q] \in B
    BY DEF ClosedUnderParents
  <2>1. PICK p \in DOMAIN parents : x \in {parents[p]} \cup Ancestors(list, parents[p])
    OBVIOUS
  <2>2. ParentsOf(list, x)[q] \in Ancestors(list, parents[p])
    <3>1. CASE x = parents[p]
      BY <3>1, ParentIsAncestor
    <3>2. CASE x \in Ancestors(list, parents[p])
      BY <3>2, AncestorsAreClosed DEF ClosedUnderParents
    <3> QED
      BY <2>1, <3>1, <3>2
  <2> QED
    BY <2>2
<1>7. B \in SUBSET PolicyId
  BY <1>2, <1>4
<1> HIDE DEF B
<1>8. A \subseteq B
  BY <1>5, <1>6, <1>7, AncestorsWithin
<1>9. A = B
  BY <1>4, <1>8
<1> QED
  BY <1>9 DEF B

-------------------------------------------------------------------------------
(* The call about to be made is for a policy of the loop, or for a parent  *)
(* of the call on top of the stack and so for an ancestor of every call.   *)
LEMMA CallFromLoop ==
  ASSUME WalkIsSound, Calling, stack = <<>>
  PROVE  /\ Len(orders) + 1 \in DOMAIN policies /\ Len(orders) < Len(policies)
         /\ Callee = policies[Len(orders) + 1].id
         /\ Callee \in Ids(policies)
<1>1. policies \in Requests /\ orders \in Seq(Seq(PolicyId))
  BY DEF WalkIsSound, InheritTypeOK
<1>2. policies \in Seq({policies[i] : i \in DOMAIN policies})
  BY <1>1, RequestsAssumption
<1>3. Len(orders) + 1 \in DOMAIN policies /\ Len(orders) < Len(policies)
  BY <1>1, <1>2 DEF Calling
<1> QED
  BY <1>3 DEF Callee, Ids

LEMMA TopOfStack ==
  ASSUME WalkIsSound, stack # <<>>
  PROVE  /\ Len(stack) \in DOMAIN stack /\ Top \in Frame
         /\ DOMAIN stack = 1..Len(stack) /\ Len(stack) \in Nat
         /\ ParentsOf(policies, Top.id) \in Seq(PolicyId)
         /\ Top.id \in Ids(policies) \ DOMAIN memo
<1>1. stack \in Seq(Frame) /\ policies \in Requests
  BY DEF WalkIsSound, InheritTypeOK
<1>2. Len(stack) \in DOMAIN stack /\ DOMAIN stack = 1..Len(stack) /\ Len(stack) \in Nat
  BY <1>1
<1>3. Top \in Frame
  BY <1>1, <1>2 DEF Top
<1>4. Top.id \in Ids(policies) \ DOMAIN memo
  BY <1>2 DEF WalkIsSound, IsPath, Top
<1> QED
  BY <1>1, <1>2, <1>3, <1>4, ParentsType

LEMMA CallFromTop ==
  ASSUME WalkIsSound, Calling, stack # <<>>
  PROVE  /\ Top.next \in DOMAIN ParentsOf(policies, Top.id)
         /\ Callee = ParentsOf(policies, Top.id)[Top.next]
         /\ Callee \in PolicyId
         /\ \A f \in DOMAIN stack : Callee \in Ancestors(policies, stack[f].id)
<1>1. policies \in Requests
  BY DEF WalkIsSound, InheritTypeOK
<1>2. Top.next >= 1 /\ Top.next <= Len(ParentsOf(policies, Top.id)) /\ Top.next \in Nat
  <2>1. Top.next \in 1..(Len(ParentsOf(policies, Top.id)) + 1)
    BY TopOfStack DEF WalkIsSound, IsPath, Top
  <2>2. Top.next <= Len(ParentsOf(policies, Top.id))
    BY DEF Calling
  <2> QED
    BY <2>1, <2>2, TopOfStack
<1>3. Top.next \in DOMAIN ParentsOf(policies, Top.id)
  BY <1>2, TopOfStack
<1>4. Callee = ParentsOf(policies, Top.id)[Top.next]
  BY DEF Callee
<1>5. Callee \in PolicyId
  BY <1>3, <1>4, TopOfStack
<1>6. Callee \in Ancestors(policies, Top.id)
  BY <1>1, <1>3, <1>4, ParentIsAncestor
<1>7. ASSUME NEW f \in DOMAIN stack
      PROVE  Callee \in Ancestors(policies, stack[f].id)
  <2>1. CASE f = Len(stack)
    BY <1>6, <2>1 DEF Top
  <2>2. CASE f # Len(stack)
    <3>1. f < Len(stack) /\ Len(stack) \in DOMAIN stack
      BY <2>2, TopOfStack
    <3>2. Top.id \in Ancestors(policies, stack[f].id)
      BY <3>1 DEF WalkIsSound, IsPath, Top
    <3> QED
      BY <1>1, <1>3, <1>4, <3>2, AncestorsAreClosed DEF ClosedUnderParents
  <2> QED
    BY <2>1, <2>2
<1> QED
  BY <1>3, <1>4, <1>5, <1>7

(* What is resolved stays closed: everything known above a known id.       *)
LEMMA KnownAncestors ==
  ASSUME policies \in Requests, MemoIsSound, NEW id,
         \A p \in DOMAIN ParentsOf(policies, id) : ParentsOf(policies, id)[p] \in DOMAIN memo
  PROVE  Ancestors(policies, id) \subseteq DOMAIN memo
<1>1. ClosedUnderParents(policies, DOMAIN memo)
  BY DEF MemoIsSound, ClosedUnderParents
<1>2. DOMAIN memo \in SUBSET PolicyId
  BY IdsType DEF MemoIsSound
<1> QED
  BY <1>1, <1>2, AncestorsWithin

-------------------------------------------------------------------------------
LEMMA Prepend ==
  ASSUME NEW id \in PolicyId, NEW s \in Seq(PolicyId)
  PROVE  /\ <<id>> \o s \in Seq(PolicyId)
         /\ {(<<id>> \o s)[k] : k \in DOMAIN (<<id>> \o s)} = {id} \cup {s[k] : k \in DOMAIN s}
<1> DEFINE list == <<id>> \o s
<1>1. <<id>> \in Seq(PolicyId) /\ Len(<<id>>) = 1 /\ <<id>>[1] = id
  OBVIOUS
<1>2. list \in Seq(PolicyId) /\ Len(list) = Len(s) + 1
  BY <1>1
<1>3. \A k \in 1..(Len(s) + 1) : list[k] = IF k <= 1 THEN <<id>>[k] ELSE s[k - 1]
  BY <1>1
<1> HIDE DEF list
<1>4. DOMAIN list = 1..(Len(s) + 1) /\ DOMAIN s = 1..Len(s) /\ Len(s) \in Nat
  BY <1>2
<1>5. ASSUME NEW k \in DOMAIN list
      PROVE  list[k] \in {id} \cup {s[j] : j \in DOMAIN s}
  <2>1. CASE k = 1
    BY <1>1, <1>3, <1>4, <2>1
  <2>2. CASE k # 1
    <3>1. k - 1 \in DOMAIN s /\ list[k] = s[k - 1]
      BY <1>3, <1>4, <2>2
    <3> QED
      BY <3>1
  <2> QED
    BY <2>1, <2>2
<1>6. id \in {list[k] : k \in DOMAIN list}
  <2>1. 1 \in DOMAIN list /\ list[1] = id
    BY <1>1, <1>3, <1>4
  <2> QED
    BY <2>1
<1>7. ASSUME NEW j \in DOMAIN s
      PROVE  s[j] \in {list[k] : k \in DOMAIN list}
  <2>1. j + 1 \in DOMAIN list /\ list[j + 1] = s[j]
    BY <1>3, <1>4
  <2> QED
    BY <2>1
<1>8. {list[k] : k \in DOMAIN list} = {id} \cup {s[j] : j \in DOMAIN s}
  BY <1>5, <1>6, <1>7
<1> QED
  BY <1>2, <1>8 DEF list

(* What a path asks of each call on it.                                    *)
FitsItsPlace(calls, known, f) ==
  /\ calls[f].id \in Ids(policies) \ known
  /\ calls[f].next \in 1..(Len(ParentsOf(policies, calls[f].id)) + 1)
  /\ \A p \in 1..(calls[f].next - 1) : ParentsOf(policies, calls[f].id)[p] \in known
  /\ ListsOnce(calls[f].order, BroughtIn(calls[f].id, calls[f].next - 1))
  /\ \A g \in DOMAIN calls : f < g =>
       /\ calls[g].id # calls[f].id
       /\ calls[g].id \in Ancestors(policies, calls[f].id)
       /\ calls[f].next \in DOMAIN ParentsOf(policies, calls[f].id)
       /\ g = f + 1 => calls[g].id = ParentsOf(policies, calls[f].id)[calls[f].next]

LEMMA PathOfFitting ==
  ASSUME policies' = policies, \A i, k : BroughtIn(i, k)' = BroughtIn(i, k),
         \A f \in DOMAIN stack' : FitsItsPlace(stack', DOMAIN memo', f)
  PROVE  IsPath(stack, DOMAIN memo)'
BY DEF IsPath, FitsItsPlace

(* A return hands the caller the ancestors of what it asked for.           *)
LEMMA DeliverKeeps ==
  ASSUME policies \in Requests, policies' = policies, orders \in Seq(Seq(PolicyId)),
         NEW id \in DOMAIN memo', NEW ancestors \in Seq(PolicyId), memo'[id] = ancestors,
         MemoIsSound',
         Len(orders) < Len(policies),
         \A i \in DOMAIN orders :
           policies[i].id \in DOMAIN memo' /\ orders[i] = memo'[policies[i].id],
         NEW calls \in Seq(Frame), IsPath(calls, DOMAIN memo'),
         calls = <<>> => id = policies[Len(orders) + 1].id,
         calls # <<>> => /\ calls[1].id = policies[Len(orders) + 1].id
                         /\ calls[Len(calls)].next \in DOMAIN ParentsOf(policies, calls[Len(calls)].id)
                         /\ id = ParentsOf(policies, calls[Len(calls)].id)[calls[Len(calls)].next],
         Deliver(id, ancestors, calls)
  PROVE  /\ stack' \in Seq(Frame) /\ orders' \in Seq(Seq(PolicyId))
         /\ IsPath(stack, DOMAIN memo)'
         /\ LoopIsInOrder'
<1>1. policies \in Seq({policies[i] : i \in DOMAIN policies}) /\ Len(policies) \in Nat
  BY RequestsAssumption
<1>2. CASE calls = <<>>
  <2>1. stack' = <<>> /\ orders' = Append(orders, ancestors)
    BY <1>2 DEF Deliver
  <2>2. /\ orders' \in Seq(Seq(PolicyId)) /\ Len(orders') = Len(orders) + 1
        /\ DOMAIN orders' = DOMAIN orders \cup {Len(orders) + 1}
        /\ \A i \in DOMAIN orders : orders'[i] = orders[i]
        /\ orders'[Len(orders) + 1] = ancestors
    BY <2>1
  <2>3. Len(orders') <= Len(policies')
    BY <1>1, <2>2
  <2>4. \A i \in DOMAIN orders' :
          policies'[i].id \in DOMAIN memo' /\ orders'[i] = memo'[policies'[i].id]
    BY <1>2, <2>2
  <2>5. LoopIsInOrder'
    BY <2>1, <2>3, <2>4 DEF LoopIsInOrder
  <2>6. stack' \in Seq(Frame)
    BY <2>1
  <2>7. IsPath(stack, DOMAIN memo)'
    BY <2>1 DEF IsPath
  <2> QED
    BY <2>2, <2>5, <2>6, <2>7
<1>3. CASE calls # <<>>
  <2> DEFINE n == Len(calls)
             top == calls[n]
             parents == ParentsOf(policies, top.id)
             list == <<id>> \o ancestors
             new == Advance(top, id, ancestors)
  <2>1. n \in DOMAIN calls /\ DOMAIN calls = 1..n /\ n \in Nat /\ top \in Frame
    BY <1>3
  <2>2. top.id \in PolicyId /\ top.next \in Nat /\ top.order \in Seq(PolicyId)
    BY <2>1 DEF Frame
  <2>3. parents \in Seq(PolicyId)
    BY ParentsType
  <2>4. id \in PolicyId /\ top.next \in 1..Len(parents) /\ id = parents[top.next]
    BY <1>3, <2>3
  <2>5. list \in Seq(PolicyId)
    BY <2>4, Prepend
  <2>6. {list[k] : k \in DOMAIN list} = {id} \cup {ancestors[k] : k \in DOMAIN ancestors}
    BY <2>4, Prepend
  <2>7. {ancestors[k] : k \in DOMAIN ancestors} = Ancestors(policies, id)
    BY DEF MemoIsSound, ListsOnce
  <2>8. ListsOnce(top.order, BroughtIn(top.id, top.next - 1))
    BY <2>1 DEF IsPath
  <2>9. BroughtIn(top.id, top.next - 1) \cup ({id} \cup Ancestors(policies, id))
          = BroughtIn(top.id, top.next)
    <3>1. 1..top.next = 1..(top.next - 1) \cup {top.next}
      BY <2>4
    <3> QED
      BY <2>4, <3>1 DEF BroughtIn
  <2>10. /\ TakeOver(top.order, list) \in Seq(PolicyId)
         /\ ListsOnce(TakeOver(top.order, list), BroughtIn(top.id, top.next))
    <3> HIDE DEF list, top
    <3>1. /\ TakeOver(top.order, list) \in Seq(PolicyId)
          /\ ListsOnce(TakeOver(top.order, list),
                       BroughtIn(top.id, top.next - 1) \cup {list[k] : k \in DOMAIN list})
      BY <2>2, <2>5, <2>8, TakeOverLists
    <3> QED
      BY <2>6, <2>7, <2>9, <3>1
  <2>11. /\ stack' = [calls EXCEPT ![n] = new] /\ orders' = orders
    BY <1>3 DEF Deliver
  <2>12. /\ new.id = top.id /\ new.next = top.next + 1
         /\ new.order = TakeOver(top.order, list) /\ new \in Frame
    <3> HIDE DEF top
    <3> QED
      BY <2>2, <2>10 DEF Frame, Advance
  <2> HIDE DEF new, list
  <2>13. /\ stack' \in Seq(Frame) /\ stack' # <<>> /\ DOMAIN stack' = 1..n
         /\ stack'[n] = new
         /\ \A f \in 1..n : f # n => stack'[f] = calls[f]
         /\ \A f \in 1..n : stack'[f].id = calls[f].id
    BY <2>1, <2>11, <2>12
  <2>14. \A p \in 1..(new.next - 1) : parents[p] \in DOMAIN memo'
    <3>1. \A p \in 1..(top.next - 1) : parents[p] \in DOMAIN memo'
      BY <2>1 DEF IsPath
    <3>2. ASSUME NEW p \in 1..(new.next - 1)
          PROVE  p \in 1..(top.next - 1) \/ p = top.next
      BY <2>2, <2>12
    <3> QED
      BY <2>4, <3>1, <3>2
  <2>15. new.next \in 1..(Len(parents) + 1) /\ new.next - 1 = top.next
    <3>1. Len(parents) \in Nat
      BY <2>3
    <3> HIDE DEF parents, top
    <3> QED
      BY <2>4, <2>12, <3>1
  <2>16. ASSUME NEW f \in 1..n
         PROVE  /\ stack'[f].id \in Ids(policies) \ DOMAIN memo'
                /\ stack'[f].next \in 1..(Len(ParentsOf(policies, stack'[f].id)) + 1)
                /\ \A p \in 1..(stack'[f].next - 1) :
                     ParentsOf(policies, stack'[f].id)[p] \in DOMAIN memo'
                /\ ListsOnce(stack'[f].order, BroughtIn(stack'[f].id, stack'[f].next - 1))
                /\ \A g \in 1..n : f < g =>
                     /\ stack'[g].id # stack'[f].id
                     /\ stack'[g].id \in Ancestors(policies, stack'[f].id)
                     /\ stack'[f].next \in DOMAIN ParentsOf(policies, stack'[f].id)
                     /\ g = f + 1 =>
                          stack'[g].id = ParentsOf(policies, stack'[f].id)[stack'[f].next]
    <3>1. CASE f = n
      <4>1. top.id \in Ids(policies) \ DOMAIN memo'
        BY <2>1 DEF IsPath
      <4>2. \A g \in 1..n : ~ (f < g)
        BY <2>1, <3>1
      <4> QED
        <5>1. stack'[f] = new /\ new.id = top.id
          BY <2>12, <2>13, <3>1
        <5>2. ListsOnce(new.order, BroughtIn(top.id, new.next - 1))
          BY <2>10, <2>12, <2>15
        <5> HIDE DEF top, n
        <5>3. /\ new.id \in Ids(policies) \ DOMAIN memo'
              /\ new.next \in 1..(Len(ParentsOf(policies, new.id)) + 1)
              /\ \A p \in 1..(new.next - 1) : ParentsOf(policies, new.id)[p] \in DOMAIN memo'
              /\ ListsOnce(new.order, BroughtIn(new.id, new.next - 1))
          BY <2>14, <2>15, <4>1, <5>1, <5>2
        <5>4. \A g \in 1..n : f < g => FALSE
          BY <4>2
        <5> HIDE DEF new
        <5> QED
          BY <5>1, <5>3, <5>4
    <3>2. CASE f # n
      <4>1. stack'[f] = calls[f] /\ \A g \in 1..n : stack'[g].id = calls[g].id
        BY <2>13, <3>2
      <4> DEFINE above == ParentsOf(policies, calls[f].id)
      <4>2. f \in DOMAIN calls /\ DOMAIN calls = 1..n
        BY <2>1
      <4> HIDE DEF n
      <4>3. /\ calls[f].id \in Ids(policies) \ DOMAIN memo'
            /\ calls[f].next \in 1..(Len(above) + 1)
            /\ \A p \in 1..(calls[f].next - 1) : above[p] \in DOMAIN memo'
            /\ ListsOnce(calls[f].order, BroughtIn(calls[f].id, calls[f].next - 1))
            /\ \A g \in 1..n : f < g =>
                 /\ calls[g].id # calls[f].id
                 /\ calls[g].id \in Ancestors(policies, calls[f].id)
                 /\ calls[f].next \in DOMAIN above
                 /\ g = f + 1 => calls[g].id = above[calls[f].next]
        BY <4>2, Zenon DEF IsPath
      <4> QED
        BY <4>1, <4>3, Zenon
    <3> QED
      BY <3>1, <3>2
  <2>17. IsPath(stack, DOMAIN memo)'
    <3> HIDE DEF n
    <3>1. \A i, k : BroughtIn(i, k)' = BroughtIn(i, k)
      BY DEF BroughtIn
    <3>2. DOMAIN stack' = 1..n
      BY <2>13
    <3>3. ASSUME NEW f \in DOMAIN stack'
          PROVE  FitsItsPlace(stack', DOMAIN memo', f)
      BY <2>16, <3>2, Zenon DEF FitsItsPlace
    <3> QED
      BY <3>1, <3>3, PathOfFitting
  <2>18. LoopIsInOrder'
    <3>1. stack'[1].id = policies[Len(orders) + 1].id
      <4>1. 1 \in 1..n
        BY <2>1
      <4> QED
        BY <1>3, <2>13, <4>1
    <3>2. Len(orders) <= Len(policies)
      BY <1>1
    <3> QED
      BY <2>11, <3>1, <3>2 DEF LoopIsInOrder
  <2> QED
    BY <2>11, <2>13, <2>17, <2>18
<1> QED
  BY <1>2, <1>3

(* An id whose parents are all resolved, and that is not, is on no cycle.  *)
LEMMA MemoiseKeeps ==
  ASSUME WalkIsSound, policies' = policies,
         NEW id \in Ids(policies) \ DOMAIN memo, NEW ancestors \in Seq(PolicyId),
         \A p \in DOMAIN ParentsOf(policies, id) : ParentsOf(policies, id)[p] \in DOMAIN memo,
         ListsOnce(ancestors, Ancestors(policies, id)),
         Memoise(id, ancestors)
  PROVE  /\ MemoIsSound'
         /\ \E known \in SUBSET PolicyId : memo' \in [known -> Seq(PolicyId)]
         /\ DOMAIN memo' = DOMAIN memo \cup {id}
         /\ memo'[id] = ancestors
         /\ \A i \in DOMAIN memo : memo'[i] = memo[i]
<1>1. policies \in Requests /\ MemoIsSound
  BY DEF WalkIsSound, InheritTypeOK
<1>2. PICK known \in SUBSET PolicyId : memo \in [known -> Seq(PolicyId)]
  BY DEF WalkIsSound, InheritTypeOK
<1>3. /\ DOMAIN memo' = DOMAIN memo \cup {id}
      /\ memo'[id] = ancestors
      /\ \A i \in DOMAIN memo : memo'[i] = memo[i]
  BY DEF Memoise
<1>4. id \in PolicyId
  BY <1>1, IdsType
<1>5. memo' \in [known \cup {id} -> Seq(PolicyId)] /\ known \cup {id} \in SUBSET PolicyId
  BY <1>2, <1>4 DEF Memoise
<1>6. id \notin Ancestors(policies, id)
  BY <1>1, KnownAncestors
<1>7. ASSUME NEW i \in DOMAIN memo'
      PROVE  /\ i \in Ids(policies')
             /\ \A p \in DOMAIN ParentsOf(policies', i) : ParentsOf(policies', i)[p] \in DOMAIN memo'
             /\ i \notin Ancestors(policies', i)
             /\ ListsOnce(memo'[i], Ancestors(policies', i))
  <2>1. CASE i = id
    BY <1>3, <1>6, <2>1
  <2>2. CASE i # id
    <3>1. i \in DOMAIN memo /\ memo'[i] = memo[i]
      BY <1>3, <2>2
    <3> QED
      BY <1>1, <1>3, <3>1 DEF MemoIsSound
  <2> QED
    BY <2>1, <2>2
<1>8. MemoIsSound'
  BY <1>7 DEF MemoIsSound
<1> QED
  BY <1>3, <1>5, <1>8

(* The path does not change for the ids that become known off it.          *)
LEMMA PathApart ==
  ASSUME NEW calls, NEW known, IsPath(calls, known), NEW id,
         \A f \in DOMAIN calls : calls[f].id # id
  PROVE  IsPath(calls, known \cup {id})
BY DEF IsPath

(* The policies do not change: a path later is a path of what is later.    *)
LEMMA PathLater ==
  ASSUME policies' = policies
  PROVE  IsPath(stack, DOMAIN memo)' <=> IsPath(stack', DOMAIN memo')
<1>1. \A i, k : BroughtIn(i, k)' = BroughtIn(i, k)
  BY DEF BroughtIn
<1> QED
  BY <1>1 DEF IsPath

(* What a call hands back keeps the books, if what is known stays sound.   *)
LEMMA RecallKeeps ==
  ASSUME WalkIsSound, Recall
  PROVE  WalkIsSound'
<1>1. /\ policies \in Requests /\ orders \in Seq(Seq(PolicyId)) /\ stack \in Seq(Frame)
      /\ MemoIsSound /\ IsPath(stack, DOMAIN memo) /\ LoopIsInOrder
  BY DEF WalkIsSound, InheritTypeOK
<1>2. PICK known \in SUBSET PolicyId : memo \in [known -> Seq(PolicyId)]
  BY DEF WalkIsSound, InheritTypeOK
<1>3. /\ policies' = policies /\ memo' = memo /\ status' = status /\ status = "resolving"
      /\ Callee \in DOMAIN memo /\ Deliver(Callee, memo[Callee], stack) /\ Calling
  BY DEF Recall, Calling
<1>4. MemoIsSound'
  BY <1>1, <1>3 DEF MemoIsSound
<1>5. memo[Callee] \in Seq(PolicyId)
  BY <1>2, <1>3
<1>6. Len(orders) < Len(policies)
  BY <1>1, <1>3, CallFromLoop DEF LoopIsInOrder
<1>7. /\ stack' \in Seq(Frame) /\ orders' \in Seq(Seq(PolicyId))
      /\ IsPath(stack, DOMAIN memo)' /\ LoopIsInOrder'
  <2> DEFINE id == Callee
             ancestors == memo[Callee]
  <2>1. id \in DOMAIN memo' /\ memo'[id] = ancestors /\ ancestors \in Seq(PolicyId)
    BY <1>3, <1>5
  <2>2. IsPath(stack, DOMAIN memo')
    BY <1>1, <1>3
  <2>3. \A i \in DOMAIN orders :
          policies[i].id \in DOMAIN memo' /\ orders[i] = memo'[policies[i].id]
    BY <1>1, <1>3 DEF LoopIsInOrder
  <2>4. stack = <<>> => id = policies[Len(orders) + 1].id
    BY <1>3, CallFromLoop
  <2>5. stack # <<>> =>
          /\ stack[1].id = policies[Len(orders) + 1].id
          /\ stack[Len(stack)].next \in DOMAIN ParentsOf(policies, stack[Len(stack)].id)
          /\ id = ParentsOf(policies, stack[Len(stack)].id)[stack[Len(stack)].next]
    BY <1>1, <1>3, CallFromTop DEF LoopIsInOrder, Top
  <2>6. Deliver(id, ancestors, stack)
    BY <1>3
  <2> HIDE DEF id, ancestors
  <2> QED
    BY <1>1, <1>3, <1>4, <1>6, <2>1, <2>2, <2>3, <2>4, <2>5, <2>6, DeliverKeeps
<1>8. InheritTypeOK'
  BY <1>1, <1>2, <1>3, <1>7 DEF InheritTypeOK
<1> QED
  BY <1>3, <1>4, <1>7, <1>8 DEF WalkIsSound

LEMMA RootKeeps ==
  ASSUME WalkIsSound, Root
  PROVE  WalkIsSound'
<1>1. /\ policies \in Requests /\ orders \in Seq(Seq(PolicyId)) /\ stack \in Seq(Frame)
      /\ IsPath(stack, DOMAIN memo) /\ LoopIsInOrder
  BY DEF WalkIsSound, InheritTypeOK
<1>2. /\ policies' = policies /\ status' = status /\ status = "resolving"
      /\ Callee \in Ids(policies) \ DOMAIN memo /\ ~OnStack(Callee)
      /\ ParentsOf(policies, Callee) = <<>> /\ Memoise(Callee, <<>>)
      /\ Deliver(Callee, <<>>, stack) /\ Calling
  BY DEF Root, Calling
<1>3. Ancestors(policies, Callee) = {}
  <2>1. ClosedUnderParents(policies, {}) /\ {} \in SUBSET PolicyId
    BY DEF ClosedUnderParents
  <2>2. \A p \in DOMAIN ParentsOf(policies, Callee) : ParentsOf(policies, Callee)[p] \in {}
    BY <1>2
  <2>3. Ancestors(policies, Callee) \subseteq {}
    BY <2>1, <2>2, AncestorsWithin
  <2> QED
    BY <2>3
<1>4. ListsOnce(<<>>, Ancestors(policies, Callee)) /\ <<>> \in Seq(PolicyId)
  BY <1>3 DEF ListsOnce
<1>5. /\ MemoIsSound'
      /\ \E known \in SUBSET PolicyId : memo' \in [known -> Seq(PolicyId)]
      /\ DOMAIN memo' = DOMAIN memo \cup {Callee}
      /\ memo'[Callee] = <<>>
      /\ \A i \in DOMAIN memo : memo'[i] = memo[i]
  <2>1. \A p \in DOMAIN ParentsOf(policies, Callee) : ParentsOf(policies, Callee)[p] \in DOMAIN memo
    BY <1>2
  <2> QED
    BY <1>2, <1>4, <2>1, MemoiseKeeps
<1>6. Len(orders) < Len(policies)
  BY <1>1, <1>2, CallFromLoop DEF LoopIsInOrder
<1>7. /\ stack' \in Seq(Frame) /\ orders' \in Seq(Seq(PolicyId))
      /\ IsPath(stack, DOMAIN memo)' /\ LoopIsInOrder'
  <2> DEFINE id == Callee
  <2>1. id \in DOMAIN memo' /\ memo'[id] = <<>>
    BY <1>5
  <2>2. IsPath(stack, DOMAIN memo')
    <3>1. \A f \in DOMAIN stack : stack[f].id # id
      BY <1>2 DEF OnStack
    <3> HIDE DEF id
    <3>2. IsPath(stack, DOMAIN memo \cup {id})
      BY <1>1, <3>1, PathApart
    <3> QED
      BY <1>5, <3>2 DEF id
  <2>3. \A i \in DOMAIN orders :
          policies[i].id \in DOMAIN memo' /\ orders[i] = memo'[policies[i].id]
    BY <1>1, <1>5 DEF LoopIsInOrder
  <2>4. stack = <<>> => id = policies[Len(orders) + 1].id
    BY <1>2, CallFromLoop
  <2>5. stack # <<>> =>
          /\ stack[1].id = policies[Len(orders) + 1].id
          /\ stack[Len(stack)].next \in DOMAIN ParentsOf(policies, stack[Len(stack)].id)
          /\ id = ParentsOf(policies, stack[Len(stack)].id)[stack[Len(stack)].next]
    BY <1>1, <1>2, CallFromTop DEF LoopIsInOrder, Top
  <2>6. Deliver(id, <<>>, stack)
    BY <1>2
  <2> HIDE DEF id
  <2> QED
    BY <1>1, <1>2, <1>4, <1>5, <1>6, <2>1, <2>2, <2>3, <2>4, <2>5, <2>6, DeliverKeeps
<1>8. InheritTypeOK'
  BY <1>1, <1>2, <1>5, <1>7 DEF InheritTypeOK
<1> QED
  BY <1>2, <1>5, <1>7, <1>8 DEF WalkIsSound

(* A step that only moves the status has the status alone to account for.  *)
LEMMA OnlyTheStatus ==
  ASSUME WalkIsSound, UNCHANGED <<policies, memo, stack, orders>>,
         \/ status' = status
         \/ status' = "resolved" /\ stack = <<>> /\ Len(orders) = Len(policies)
         \/ status' = "circular" /\ Circular(policies)
         \/ status' = "missing" /\ Dangling(policies)
  PROVE  WalkIsSound'
<1>1. policies' = policies /\ memo' = memo /\ stack' = stack /\ orders' = orders
  OBVIOUS
<1>2. MemoIsSound' /\ LoopIsInOrder'
  BY <1>1 DEF WalkIsSound, MemoIsSound, LoopIsInOrder
<1>3. IsPath(stack, DOMAIN memo)'
  <2>1. IsPath(stack, DOMAIN memo)
    BY DEF WalkIsSound
  <2>2. \A i, k : BroughtIn(i, k)' = BroughtIn(i, k)
    BY <1>1 DEF BroughtIn
  <2> QED
    BY <1>1, <2>1, <2>2 DEF IsPath
<1>4. status' \in {"resolving", "resolved", "circular", "missing"}
  BY DEF WalkIsSound, InheritTypeOK
<1>5. InheritTypeOK'
  BY <1>1, <1>4 DEF WalkIsSound, InheritTypeOK
<1>6. /\ status' = "resolved" => stack = <<>> /\ Len(orders) = Len(policies)
      /\ status' = "circular" => Circular(policies)
      /\ status' = "missing" => Dangling(policies)
  BY DEF WalkIsSound
<1> QED
  BY <1>1, <1>2, <1>3, <1>5, <1>6 DEF WalkIsSound

(* A cycle through the callee: it is above itself.                         *)
LEMMA CircleKeeps ==
  ASSUME WalkIsSound, Circle
  PROVE  WalkIsSound'
<1>1. UNCHANGED <<policies, memo, stack, orders>> /\ status' = "circular"
      /\ Calling /\ OnStack(Callee)
  BY DEF Circle
<1>2. PICK f \in DOMAIN stack : stack[f].id = Callee
  BY <1>1 DEF OnStack
<1>3. stack # <<>>
  BY <1>2
<1>4. Callee \in Ancestors(policies, Callee)
  BY <1>1, <1>2, <1>3, CallFromTop
<1>5. Callee \in Ids(policies)
  BY <1>2 DEF WalkIsSound, IsPath
<1>6. Circular(policies)
  BY <1>4, <1>5 DEF Circular
<1> QED
  BY <1>1, <1>6, OnlyTheStatus

(* A callee nobody is called is above a policy that is there.              *)
LEMMA MissingKeeps ==
  ASSUME WalkIsSound, Missing
  PROVE  WalkIsSound'
<1>1. UNCHANGED <<policies, memo, stack, orders>> /\ status' = "missing"
      /\ Calling /\ Callee \notin Ids(policies)
  BY DEF Missing
<1>2. stack # <<>>
  BY <1>1, CallFromLoop
<1>3. Top.id \in Ids(policies) /\ Callee \in Ancestors(policies, Top.id)
  BY <1>1, <1>2, TopOfStack, CallFromTop DEF Top
<1>4. Dangling(policies)
  BY <1>1, <1>3 DEF Dangling
<1> QED
  BY <1>1, <1>4, OnlyTheStatus

LEMMA FinishKeeps ==
  ASSUME WalkIsSound, Finish
  PROVE  WalkIsSound'
BY OnlyTheStatus DEF Finish

(* A call is pushed for a parent of the top, or for a policy of the loop.  *)
LEMMA DescendKeeps ==
  ASSUME WalkIsSound, Descend
  PROVE  WalkIsSound'
<1> DEFINE call == [id |-> Callee, next |-> 1, order |-> <<>>]
           n == Len(stack)
<1>1. /\ policies \in Requests /\ orders \in Seq(Seq(PolicyId)) /\ stack \in Seq(Frame)
      /\ IsPath(stack, DOMAIN memo) /\ LoopIsInOrder /\ MemoIsSound
  BY DEF WalkIsSound, InheritTypeOK
<1>2. /\ UNCHANGED <<policies, memo, orders, status>> /\ status = "resolving"
      /\ Callee \in Ids(policies) \ DOMAIN memo /\ ~OnStack(Callee)
      /\ stack' = Append(stack, call) /\ Calling
  BY DEF Descend, Calling
<1>3. call \in Frame
  BY <1>1, <1>2, IdsType DEF Frame
<1>4. call.id = Callee /\ call.next = 1 /\ call.order = <<>>
  OBVIOUS
<1> HIDE DEF call
<1>5. /\ stack' \in Seq(Frame) /\ stack' # <<>> /\ n \in Nat
      /\ DOMAIN stack = 1..n /\ DOMAIN stack' = 1..(n + 1)
      /\ \A f \in 1..n : stack'[f] = stack[f]
      /\ stack'[n + 1] = call
  BY <1>1, <1>2, <1>3
<1> HIDE DEF n
<1>6. ASSUME NEW f \in 1..(n + 1)
      PROVE  /\ stack'[f].id \in Ids(policies) \ DOMAIN memo
             /\ stack'[f].next \in 1..(Len(ParentsOf(policies, stack'[f].id)) + 1)
             /\ \A p \in 1..(stack'[f].next - 1) :
                  ParentsOf(policies, stack'[f].id)[p] \in DOMAIN memo
             /\ ListsOnce(stack'[f].order, BroughtIn(stack'[f].id, stack'[f].next - 1))
             /\ \A g \in 1..(n + 1) : f < g =>
                  /\ stack'[g].id # stack'[f].id
                  /\ stack'[g].id \in Ancestors(policies, stack'[f].id)
                  /\ stack'[f].next \in DOMAIN ParentsOf(policies, stack'[f].id)
                  /\ g = f + 1 =>
                       stack'[g].id = ParentsOf(policies, stack'[f].id)[stack'[f].next]
  <2>1. CASE f = n + 1
    <3> DEFINE parents == ParentsOf(policies, Callee)
    <3>1. parents \in Seq(PolicyId)
      BY <1>1, ParentsType
    <3>2. 1 \in 1..(Len(parents) + 1) /\ 1..(1 - 1) = {}
      BY <3>1
    <3>3. BroughtIn(Callee, 1 - 1) = {}
      BY <3>2 DEF BroughtIn
    <3>4. ListsOnce(<<>>, BroughtIn(Callee, 1 - 1))
      BY <3>3 DEF ListsOnce
    <3>5. \A g \in 1..(n + 1) : f < g => FALSE
      BY <1>5, <2>1
    <3>6. stack'[f] = call
      BY <1>5, <2>1
    <3> QED
      BY <1>2, <1>4, <3>2, <3>4, <3>5, <3>6
  <2>2. CASE f # n + 1
    <3> DEFINE parents == ParentsOf(policies, stack[f].id)
    <3>1. f \in 1..n /\ f \in DOMAIN stack /\ stack # <<>>
      BY <1>5, <2>2
    <3>2. /\ stack[f].id \in Ids(policies) \ DOMAIN memo
          /\ stack[f].next \in 1..(Len(parents) + 1)
          /\ \A p \in 1..(stack[f].next - 1) : parents[p] \in DOMAIN memo
          /\ ListsOnce(stack[f].order, BroughtIn(stack[f].id, stack[f].next - 1))
          /\ \A g \in 1..n : f < g =>
               /\ stack[g].id # stack[f].id
               /\ stack[g].id \in Ancestors(policies, stack[f].id)
               /\ stack[f].next \in DOMAIN parents
               /\ g = f + 1 => stack[g].id = parents[stack[f].next]
      BY <1>1, <1>5, <3>1, Zenon DEF IsPath
    <3>3. /\ Callee # stack[f].id
          /\ Callee \in Ancestors(policies, stack[f].id)
      BY <1>2, <3>1, CallFromTop DEF OnStack
    <3>4. stack[f].next \in DOMAIN parents
      <4>1. CASE f = n
        BY <1>2, <3>1, <4>1, CallFromTop DEF Top, n
      <4>2. CASE f # n
        BY <1>5, <3>1, <3>2, <4>2
      <4> QED
        BY <4>1, <4>2
    <3>5. f = n => Callee = parents[stack[f].next]
      BY <1>2, <3>1, CallFromTop DEF Top, n
    <3>6. stack'[f] = stack[f]
      BY <1>5, <3>1
    <3>7. ASSUME NEW g \in 1..(n + 1), f < g
          PROVE  /\ stack'[g].id # stack[f].id
                 /\ stack'[g].id \in Ancestors(policies, stack[f].id)
                 /\ stack[f].next \in DOMAIN parents
                 /\ g = f + 1 => stack'[g].id = parents[stack[f].next]
      <4>1. CASE g = n + 1
        <5>1. stack'[g].id = Callee
          BY <1>4, <1>5, <4>1
        <5>2. g = f + 1 => f = n
          BY <1>5, <3>1, <4>1
        <5> QED
          BY <3>3, <3>4, <3>5, <5>1, <5>2
      <4>2. CASE g # n + 1
        <5>1. g \in 1..n /\ stack'[g] = stack[g]
          BY <1>5, <4>2
        <5> QED
          BY <3>2, <3>4, <3>7, <5>1
      <4> QED
        BY <4>1, <4>2
    <3> QED
      BY <3>2, <3>6, <3>7, Zenon
  <2> QED
    BY <2>1, <2>2
<1>7. IsPath(stack, DOMAIN memo)'
  <2>1. IsPath(stack', DOMAIN memo)
    BY <1>5, <1>6, Zenon DEF IsPath
  <2> QED
    BY <1>2, <2>1, PathLater
<1>8. MemoIsSound'
  BY <1>1, <1>2 DEF MemoIsSound
<1>9. InheritTypeOK'
  BY <1>2, <1>5 DEF WalkIsSound, InheritTypeOK
<1>10. LoopIsInOrder'
  <2>1. Len(orders) < Len(policies) /\ stack'[1].id = policies[Len(orders) + 1].id
    <3>1. CASE stack = <<>>
      <4>1. n = 0
        BY <3>1 DEF n
      <4>2. stack'[1] = call
        BY <1>5, <4>1
      <4> QED
        BY <1>2, <1>4, <3>1, <4>2, CallFromLoop
    <3>2. CASE stack # <<>>
      <4>1. 1 \in 1..n
        BY <1>1, <3>2 DEF n
      <4> QED
        BY <1>1, <1>5, <3>2, <4>1 DEF LoopIsInOrder
    <3> QED
      BY <3>1, <3>2
  <2> QED
    BY <1>1, <1>2, <2>1 DEF LoopIsInOrder
<1> QED
  BY <1>2, <1>7, <1>8, <1>9, <1>10 DEF WalkIsSound

(* The top call returns to the one below: its ancestors are those its      *)
(* parents brought in.                                                     *)
LEMMA ReturnKeeps ==
  ASSUME WalkIsSound, Return
  PROVE  WalkIsSound'
<1> DEFINE id == Top.id
           ancestors == Top.order
           n == Len(stack)
           calls == SubSeq(stack, 1, n - 1)
           parents == ParentsOf(policies, id)
<1>1. /\ policies \in Requests /\ orders \in Seq(Seq(PolicyId)) /\ stack \in Seq(Frame)
      /\ IsPath(stack, DOMAIN memo) /\ LoopIsInOrder /\ MemoIsSound
  BY DEF WalkIsSound, InheritTypeOK
<1>2. /\ policies' = policies /\ status' = status /\ status = "resolving" /\ stack # <<>>
      /\ Top.next > Len(parents)
      /\ Memoise(id, ancestors) /\ Deliver(id, ancestors, calls)
  BY DEF Return
<1>3. /\ n \in DOMAIN stack /\ Top \in Frame /\ DOMAIN stack = 1..n /\ n \in Nat
      /\ parents \in Seq(PolicyId) /\ id \in Ids(policies) \ DOMAIN memo
      /\ Top = stack[n]
  BY <1>2, TopOfStack DEF Top
<1>4. ancestors \in Seq(PolicyId)
  BY <1>3 DEF Frame
<1> HIDE DEF id, ancestors, n, calls
<1>5. Top.next = Len(parents) + 1
  <2>1. Top.next \in 1..(Len(parents) + 1)
    BY <1>1, <1>3 DEF IsPath, id
  <2> QED
    BY <1>2, <1>3, <2>1
<1>6. /\ \A p \in 1..Len(parents) : parents[p] \in DOMAIN memo
      /\ ListsOnce(ancestors, BroughtIn(id, Len(parents)))
  <2>1. /\ \A p \in 1..(Top.next - 1) : parents[p] \in DOMAIN memo
        /\ ListsOnce(ancestors, BroughtIn(id, Top.next - 1))
    BY <1>1, <1>3, Zenon DEF IsPath, id, ancestors
  <2>2. Top.next - 1 = Len(parents)
    BY <1>3, <1>5
  <2> QED
    BY <2>1, <2>2
<1>7. BroughtIn(id, Len(parents)) = Ancestors(policies, id)
  <2>1. 1..Len(parents) = DOMAIN parents
    BY <1>3
  <2> QED
    BY <1>1, <2>1, AncestorsByParents, Zenon DEF BroughtIn
<1>8. /\ MemoIsSound'
      /\ \E known \in SUBSET PolicyId : memo' \in [known -> Seq(PolicyId)]
      /\ DOMAIN memo' = DOMAIN memo \cup {id}
      /\ memo'[id] = ancestors
      /\ \A i \in DOMAIN memo : memo'[i] = memo[i]
  <2>1. \A p \in DOMAIN parents : parents[p] \in DOMAIN memo
    BY <1>3, <1>6
  <2> QED
    BY <1>2, <1>3, <1>4, <1>6, <1>7, <2>1, MemoiseKeeps
<1>9. Len(orders) < Len(policies)
  BY <1>1, <1>2 DEF LoopIsInOrder
<1>10. /\ calls \in Seq(Frame) /\ Len(calls) = n - 1 /\ DOMAIN calls = 1..(n - 1)
       /\ \A f \in 1..(n - 1) : calls[f] = stack[f]
  BY <1>1, <1>3 DEF calls
<1>11. \A f \in 1..(n - 1) :
         /\ calls[f].id # id
         /\ calls[f].next \in DOMAIN ParentsOf(policies, calls[f].id)
         /\ f = n - 1 => id = ParentsOf(policies, calls[f].id)[calls[f].next]
  <2> SUFFICES ASSUME NEW f \in 1..(n - 1)
               PROVE  /\ calls[f].id # id
                      /\ calls[f].next \in DOMAIN ParentsOf(policies, calls[f].id)
                      /\ f = n - 1 => id = ParentsOf(policies, calls[f].id)[calls[f].next]
    OBVIOUS
  <2>1. f \in DOMAIN stack /\ n \in DOMAIN stack /\ f < n /\ (f = n - 1 => n = f + 1)
    BY <1>3
  <2>2. /\ stack[n].id # stack[f].id
        /\ stack[f].next \in DOMAIN ParentsOf(policies, stack[f].id)
        /\ n = f + 1 => stack[n].id = ParentsOf(policies, stack[f].id)[stack[f].next]
    BY <1>1, <2>1, Zenon DEF IsPath
  <2> QED
    BY <1>3, <1>10, <2>1, <2>2 DEF id
<1>12. IsPath(calls, DOMAIN memo')
  <2>1. IsPath(calls, DOMAIN memo)
    <3>1. 1..(n - 1) \subseteq DOMAIN stack
      BY <1>3
    <3> QED
      BY <1>1, <1>10, <3>1 DEF IsPath
  <2>2. \A f \in DOMAIN calls : calls[f].id # id
    BY <1>10, <1>11
  <2>3. IsPath(calls, DOMAIN memo \cup {id})
    BY <2>1, <2>2, PathApart
  <2> QED
    BY <1>8, <2>3
<1>13. /\ stack' \in Seq(Frame) /\ orders' \in Seq(Seq(PolicyId))
       /\ IsPath(stack, DOMAIN memo)' /\ LoopIsInOrder'
  <2>1. \A i \in DOMAIN orders :
          policies[i].id \in DOMAIN memo' /\ orders[i] = memo'[policies[i].id]
    BY <1>1, <1>8 DEF LoopIsInOrder
  <2>2. calls = <<>> => id = policies[Len(orders) + 1].id
    <3>1. ASSUME calls = <<>>
          PROVE  n = 1
      BY <1>3, <1>10, <3>1
    <3> QED
      BY <1>1, <1>2, <1>3, <3>1 DEF LoopIsInOrder, id
  <2>3. calls # <<>> =>
          /\ calls[1].id = policies[Len(orders) + 1].id
          /\ calls[Len(calls)].next \in DOMAIN ParentsOf(policies, calls[Len(calls)].id)
          /\ id = ParentsOf(policies, calls[Len(calls)].id)[calls[Len(calls)].next]
    <3> SUFFICES ASSUME calls # <<>>
                 PROVE  /\ calls[1].id = policies[Len(orders) + 1].id
                        /\ calls[Len(calls)].next \in DOMAIN ParentsOf(policies, calls[Len(calls)].id)
                        /\ id = ParentsOf(policies, calls[Len(calls)].id)[calls[Len(calls)].next]
      OBVIOUS
    <3>1. 1 \in 1..(n - 1) /\ n - 1 \in 1..(n - 1)
      BY <1>3, <1>10
    <3>2. calls[1].id = policies[Len(orders) + 1].id
      BY <1>1, <1>2, <1>10, <3>1 DEF LoopIsInOrder
    <3> QED
      BY <1>10, <1>11, <3>1, <3>2
  <2>4. id \in DOMAIN memo'
    BY <1>8
  <2> QED
    BY <1>1, <1>2, <1>4, <1>8, <1>9, <1>10, <1>12, <2>1, <2>2, <2>3, <2>4, DeliverKeeps
<1>14. InheritTypeOK'
  BY <1>1, <1>2, <1>8, <1>13 DEF InheritTypeOK
<1> QED
  BY <1>2, <1>8, <1>13, <1>14 DEF WalkIsSound

-------------------------------------------------------------------------------
LEMMA WalkInit == InheritInit => WalkIsSound
<1> SUFFICES ASSUME InheritInit
             PROVE  WalkIsSound
  OBVIOUS
<1>1. policies \in Requests /\ memo = <<>> /\ stack = <<>> /\ orders = <<>> /\ status = "resolving"
  BY DEF InheritInit
<1>2. memo \in [{} -> Seq(PolicyId)] /\ DOMAIN memo = {}
  BY <1>1
<1>3. InheritTypeOK
  <2>1. {} \in SUBSET PolicyId
    OBVIOUS
  <2>2. \E known \in SUBSET PolicyId : memo \in [known -> Seq(PolicyId)]
    BY <1>2, <2>1, Zenon
  <2>3. stack \in Seq(Frame) /\ orders \in Seq(Seq(PolicyId))
    BY <1>1
  <2> QED
    BY <1>1, <2>2, <2>3 DEF InheritTypeOK
<1>4. MemoIsSound /\ IsPath(stack, DOMAIN memo)
  BY <1>1, <1>2 DEF MemoIsSound, IsPath
<1>5. policies \in Seq({policies[i] : i \in DOMAIN policies})
  BY <1>1, RequestsAssumption
<1>6. LoopIsInOrder
  BY <1>1, <1>5 DEF LoopIsInOrder
<1> QED
  BY <1>1, <1>3, <1>4, <1>6 DEF WalkIsSound

LEMMA WalkStep == WalkIsSound /\ [InheritNext]_inheritVars => WalkIsSound'
<1> SUFFICES ASSUME WalkIsSound, [InheritNext]_inheritVars
             PROVE  WalkIsSound'
  OBVIOUS
<1>1. CASE UNCHANGED inheritVars
  BY <1>1, OnlyTheStatus DEF inheritVars
<1> QED
  BY <1>1, RecallKeeps, CircleKeeps, MissingKeeps, RootKeeps, DescendKeeps, ReturnKeeps,
     FinishKeeps DEF InheritNext

(* The walk keeps its books, from the first state on.                      *)
THEOREM WalkIsSoundCorrect == InheritSpec => []WalkIsSound
BY WalkInit, WalkStep, PTL DEF InheritSpec

(* Sound books reject exactly what has a cycle or a parent outside: with   *)
(* the walk resolved, the ids of the request are all known, and what is    *)
(* known is closed and acyclic.                                            *)
LEMMA SoundRejectsExactly == WalkIsSound => RejectsExactly /\ InheritsEachOnce
<1> SUFFICES ASSUME WalkIsSound
             PROVE  RejectsExactly /\ InheritsEachOnce
  OBVIOUS
<1>1. policies \in Requests /\ MemoIsSound /\ LoopIsInOrder /\ orders \in Seq(Seq(PolicyId))
  BY DEF WalkIsSound, InheritTypeOK
<1>2. policies \in Seq({policies[i] : i \in DOMAIN policies})
  BY <1>1, RequestsAssumption
<1>3. ASSUME status = "resolved"
      PROVE  /\ ~Circular(policies) /\ ~Dangling(policies)
             /\ \A i \in DOMAIN policies : ListsOnce(orders[i], Ancestors(policies, policies[i].id))
  <2>1. Len(orders) = Len(policies)
    BY <1>3 DEF WalkIsSound
  <2>2. DOMAIN orders = DOMAIN policies
    BY <1>1, <1>2, <2>1
  <2>3. \A i \in DOMAIN policies :
          policies[i].id \in DOMAIN memo /\ orders[i] = memo[policies[i].id]
    BY <1>1, <2>2 DEF LoopIsInOrder
  <2>4. \A id \in Ids(policies) : id \in DOMAIN memo
    BY <2>3 DEF Ids
  <2>5. ~Circular(policies)
    BY <1>1, <2>4 DEF Circular, MemoIsSound
  <2>6. \A id \in Ids(policies) : Ancestors(policies, id) \subseteq DOMAIN memo
    BY <1>1, <2>4, KnownAncestors DEF MemoIsSound
  <2>7. DOMAIN memo \subseteq Ids(policies)
    BY <1>1 DEF MemoIsSound
  <2>8. ~Dangling(policies)
    BY <2>6, <2>7 DEF Dangling
  <2>9. \A i \in DOMAIN policies : ListsOnce(orders[i], Ancestors(policies, policies[i].id))
    BY <1>1, <2>3 DEF MemoIsSound
  <2> QED
    BY <2>5, <2>8, <2>9
<1> QED
  BY <1>3 DEF RejectsExactly, InheritsEachOnce, WalkIsSound

(* A policy set is rejected exactly when its inheritance has a cycle or    *)
(* names a policy that is not there, and for the one it has.               *)
THEOREM RejectsExactlyCorrect == InheritSpec => []RejectsExactly
BY WalkIsSoundCorrect, SoundRejectsExactly, PTL

(* An accepted policy inherits from each of its ancestors once, whatever   *)
(* diamonds lead to it, and from nothing else.                             *)
THEOREM InheritsEachOnceCorrect == InheritSpec => []InheritsEachOnce
BY WalkIsSoundCorrect, SoundRejectsExactly, PTL

(* Calls on a path have ids of their own, each that of a policy: there are *)
(* no more calls than policies.                                            *)
LEMMA PathIsShort == WalkIsSound => NoCallWithinItself
<1> SUFFICES ASSUME WalkIsSound
             PROVE  NoCallWithinItself
  OBVIOUS
<1>1. /\ policies \in Seq({policies[i] : i \in DOMAIN policies})
      /\ stack \in Seq(Frame) /\ IsPath(stack, DOMAIN memo)
  BY RequestsAssumption DEF WalkIsSound, InheritTypeOK
<1>2. Len(stack) \in Nat /\ Len(policies) \in Nat
      /\ DOMAIN stack = 1..Len(stack) /\ DOMAIN policies = 1..Len(policies)
  BY <1>1
<1>3. \A f, g \in DOMAIN stack : stack[f].id = stack[g].id => f = g
  <2>1. \A f, g \in DOMAIN stack : f < g => stack[g].id # stack[f].id
    BY <1>1 DEF IsPath
  <2>2. \A f, g \in DOMAIN stack : f < g \/ g < f \/ f = g
    BY <1>2
  <2> QED
    BY <2>1, <2>2
<1>4. \A f \in DOMAIN stack : \E i \in DOMAIN policies : policies[i].id = stack[f].id
  <2>1. \A f \in DOMAIN stack : stack[f].id \in Ids(policies)
    BY <1>1 DEF IsPath
  <2> QED
    BY <2>1 DEF Ids
<1> DEFINE policyOf == [f \in 1..Len(stack) |->
                          CHOOSE i \in 1..Len(policies) : policies[i].id = stack[f].id]
<1>5. \A f \in 1..Len(stack) :
        policyOf[f] \in 1..Len(policies) /\ policies[policyOf[f]].id = stack[f].id
  BY <1>2, <1>4
<1>6. policyOf \in Injection(1..Len(stack), 1..Len(policies))
  <2>1. policyOf \in [1..Len(stack) -> 1..Len(policies)]
    BY <1>5
  <2>2. \A f, g \in 1..Len(stack) : policyOf[f] = policyOf[g] => f = g
    BY <1>2, <1>3, <1>5
  <2> HIDE DEF policyOf
  <2> QED
    BY <2>1, <2>2 DEF Injection, IsInjective
<1> HIDE DEF policyOf
<1>7. /\ IsFiniteSet(1..Len(policies))
      /\ Cardinality(1..Len(policies)) = Len(policies)
      /\ Cardinality(1..Len(stack)) = Len(stack)
  <2>1. ASSUME NEW n \in Nat
        PROVE  IsFiniteSet(1..n) /\ Cardinality(1..n) = n
    <3>1. n \in Int /\ 1 \in Int /\ (1 > n => n = 0) /\ n - 1 + 1 = n
      OBVIOUS
    <3>2. IsFiniteSet(1..n) /\ Cardinality(1..n) = IF 1 > n THEN 0 ELSE n - 1 + 1
      BY ONLY <3>1, FS_Interval, Zenon
    <3> QED
      BY <3>1, <3>2
  <2> QED
    BY <1>2, <2>1
<1>8. Len(stack) <= Len(policies)
  BY <1>6, <1>7, FS_Injection
<1> QED
  BY <1>3, <1>8 DEF NoCallWithinItself

(* No policy is resolved inside its own resolution, and the recursion is   *)
(* no deeper than the request has policies: circular inheritance ends it.  *)
THEOREM NoCallWithinItselfCorrect == InheritSpec => []NoCallWithinItself
BY WalkIsSoundCorrect, PathIsShort, PTL

-------------------------------------------------------------------------------
(* The order of the ancestors, position by position.                       *)

(* Induction over the numbers up to n, of a set. *)
LEMMA CountUp ==
  ASSUME NEW n \in Nat, NEW Good, 0 \in Good,
         \A k \in 0..(n - 1) : k \in Good => k + 1 \in Good
  PROVE  0..n \subseteq Good
<1> DEFINE Bad == {k \in 0..n : k \notin Good}
<1> SUFFICES ASSUME Bad # {}
             PROVE  FALSE
  OBVIOUS
<1>1. Bad \in SUBSET Nat
  OBVIOUS
<1>2. PICK k \in Bad : \A j \in Bad : k <= j
  BY <1>1, LeastNat, Zenon
<1>3. k \in 0..n /\ k # 0 /\ k \notin Good
  BY <1>2
<1>4. k - 1 \in 0..(n - 1) /\ k - 1 \in 0..n /\ ~(k <= k - 1) /\ (k - 1) + 1 = k
  BY <1>3
<1>5. k - 1 \in Good
  BY <1>2, <1>4
<1> QED
  BY <1>3, <1>4, <1>5

(* The n-th of some positions. *)
Below(T, k) == {j \in T : j <= k}
NthOf(T, n) == CHOOSE k \in T : Cardinality(Below(T, k)) = n

(* A position after all the others is the last of them.                    *)
LEMMA NthStep ==
  ASSUME NEW m \in Nat, NEW T \in SUBSET (1..m)
  PROVE  /\ Cardinality(T) \in Nat
         /\ Cardinality(T \cup {m + 1}) = Cardinality(T) + 1
         /\ \A n \in 1..Cardinality(T) : NthOf(T \cup {m + 1}, n) = NthOf(T, n)
         /\ NthOf(T \cup {m + 1}, Cardinality(T) + 1) = m + 1
<1> DEFINE U == T \cup {m + 1}
           c == Cardinality(T)
<1>1. IsFiniteSet(1..m)
  BY FS_Interval
<1>2. IsFiniteSet(T) /\ c \in Nat
  BY <1>1, FS_Subset, FS_CardinalityType
<1>3. m + 1 \notin T
  OBVIOUS
<1>4. Cardinality(U) = c + 1
  BY <1>2, <1>3, FS_AddElement
<1>5. \A k \in T : Below(U, k) = Below(T, k)
  BY DEF Below
<1>6. Below(U, m + 1) = U
  <2>1. \A j \in U : j <= m + 1
    OBVIOUS
  <2> HIDE DEF U
  <2> QED
    BY <2>1 DEF Below
<1>7. \A k \in T : Cardinality(Below(T, k)) \in Nat /\ Cardinality(Below(T, k)) <= c
  <2> TAKE k \in T
  <2>1. Below(T, k) \subseteq T
    BY DEF Below
  <2> QED
    BY <1>2, <2>1, FS_Subset, FS_CardinalityType
<1>8. ASSUME NEW n \in 1..c
      PROVE  NthOf(U, n) = NthOf(T, n)
  <2>1. n # c + 1
    BY <1>2
  <2>2. \A k : (k \in U /\ Cardinality(Below(U, k)) = n) <=> (k \in T /\ Cardinality(Below(T, k)) = n)
    BY <1>4, <1>5, <1>6, <2>1, Zenon
  <2> HIDE DEF U
  <2> QED
    BY <2>2, Zenon DEF NthOf
<1>9. NthOf(U, c + 1) = m + 1
  <2>1. \A k \in U : Cardinality(Below(U, k)) = c + 1 => k = m + 1
    BY <1>2, <1>5, <1>7
  <2>2. m + 1 \in U /\ Cardinality(Below(U, m + 1)) = c + 1
    BY <1>4, <1>6
  <2> HIDE DEF U, c
  <2> QED
    BY <2>1, <2>2 DEF NthOf
<1> QED
  BY <1>2, <1>4, <1>8, <1>9

(* There is an n-th of as many as there are. *)
LEMMA NthIsOne ==
  ASSUME NEW m \in Nat, NEW T \in SUBSET (1..m)
  PROVE  \A n \in 1..Cardinality(T) : NthOf(T, n) \in T
<1> DEFINE Fine(S) == \A n \in 1..Cardinality(S) : NthOf(S, n) \in S
           Good == {k \in 0..m : \A S \in SUBSET (1..k) : Fine(S)}
<1>1. 0 \in Good
  <2>1. ASSUME NEW S \in SUBSET (1..0)
        PROVE  Fine(S)
    <3>1. S = {}
      OBVIOUS
    <3>2. Cardinality(S) = 0
      BY <3>1, FS_EmptySet
    <3> QED
      BY <3>2
  <2> QED
    BY <2>1
<1>2. ASSUME NEW k \in 0..(m - 1), k \in Good
      PROVE  k + 1 \in Good
  <2>1. ASSUME NEW S \in SUBSET (1..(k + 1))
        PROVE  Fine(S)
    <3>1. CASE k + 1 \notin S
      <4>1. S \in SUBSET (1..k)
        BY <3>1
      <4> QED
        BY <1>2, <4>1
    <3>2. CASE k + 1 \in S
      <4> DEFINE R == S \ {k + 1}
      <4>1. R \in SUBSET (1..k) /\ S = R \cup {k + 1} /\ k \in Nat
        BY <3>2
      <4>2. Fine(R)
        BY <1>2, <4>1
      <4> HIDE DEF R
      <4>3. /\ Cardinality(R) \in Nat /\ Cardinality(S) = Cardinality(R) + 1
            /\ \A n \in 1..Cardinality(R) : NthOf(S, n) = NthOf(R, n)
            /\ NthOf(S, Cardinality(R) + 1) = k + 1
        BY <4>1, NthStep
      <4> QED
        BY <4>1, <4>2, <4>3
    <3> QED
      BY <3>1, <3>2
  <2> HIDE DEF Fine
  <2> QED
    BY <2>1
<1> HIDE DEF Fine
<1>3. 0..m \subseteq Good
  <2> HIDE DEF Good
  <2> QED
    BY <1>1, <1>2, CountUp
<1>4. m \in 0..m
  OBVIOUS
<1>5. Fine(T)
  BY <1>3, <1>4
<1> QED
  BY <1>5 DEF Fine

-------------------------------------------------------------------------------
(* FirstOccurrences, one entry at a time. *)
Firsts(s) == {k \in DOMAIN s : \A j \in 1..(k - 1) : s[j] # s[k]}

LEMMA FirstsInOrder ==
  ASSUME NEW s
  PROVE  FirstOccurrences(s) = [n \in 1..Cardinality(Firsts(s)) |-> s[NthOf(Firsts(s), n)]]
BY DEF FirstOccurrences, Firsts, NthOf, Below

LEMMA FirstOccurrencesType ==
  ASSUME NEW S, NEW s \in Seq(S)
  PROVE  FirstOccurrences(s) \in Seq(S)
<1> DEFINE T == Firsts(s)
<1>1. Len(s) \in Nat /\ T \in SUBSET (1..Len(s))
  BY DEF Firsts
<1>2. Cardinality(T) \in Nat /\ \A n \in 1..Cardinality(T) : NthOf(T, n) \in T
  BY <1>1, NthStep, NthIsOne
<1>3. \A n \in 1..Cardinality(T) : s[NthOf(T, n)] \in S
  BY <1>1, <1>2
<1> HIDE DEF T
<1> QED
  BY <1>2, <1>3, FirstsInOrder DEF T

LEMMA OneMore ==
  ASSUME NEW S, NEW s \in Seq(S), NEW x \in S
  PROVE  /\ x \in Range(s) => FirstOccurrences(Append(s, x)) = FirstOccurrences(s)
         /\ x \notin Range(s) =>
              FirstOccurrences(Append(s, x)) = Append(FirstOccurrences(s), x)
<1> DEFINE m == Len(s)
           more == Append(s, x)
           T == Firsts(s)
           U == Firsts(more)
<1>1. /\ m \in Nat /\ DOMAIN s = 1..m /\ DOMAIN more = 1..(m + 1)
      /\ more[m + 1] = x /\ \A k \in 1..m : more[k] = s[k]
  OBVIOUS
<1>2. T \in SUBSET (1..m)
  BY DEF Firsts
<1> HIDE DEF m, more
<1>3. \A k \in 1..m : k \in U <=> k \in T
  BY <1>1 DEF Firsts
<1>4. m + 1 \in U <=> x \notin Range(s)
  BY <1>1 DEF Firsts, Range
<1>5. \A k \in U : k \in 1..m \/ k = m + 1
  BY <1>1 DEF Firsts
<1>6. \A n \in 1..Cardinality(T) : NthOf(T, n) \in 1..m
  BY <1>1, <1>2, NthIsOne
<1>7. /\ FirstOccurrences(s) = [n \in 1..Cardinality(T) |-> s[NthOf(T, n)]]
      /\ FirstOccurrences(more) = [n \in 1..Cardinality(U) |-> more[NthOf(U, n)]]
  BY FirstsInOrder
<1> HIDE DEF T, U
<1>8. ASSUME x \in Range(s)
      PROVE  FirstOccurrences(more) = FirstOccurrences(s)
  <2>1. U = T
    BY <1>2, <1>3, <1>4, <1>5, <1>8, Zenon
  <2> QED
    BY <1>1, <1>6, <1>7, <2>1
<1>9. ASSUME x \notin Range(s)
      PROVE  FirstOccurrences(more) = Append(FirstOccurrences(s), x)
  <2>1. U = T \cup {m + 1}
    BY <1>2, <1>3, <1>4, <1>5, <1>9, Zenon
  <2>2. /\ Cardinality(T) \in Nat /\ Cardinality(U) = Cardinality(T) + 1
        /\ \A n \in 1..Cardinality(T) : NthOf(U, n) = NthOf(T, n)
        /\ NthOf(U, Cardinality(T) + 1) = m + 1
    BY <1>1, <1>2, <2>1, NthStep
  <2>3. \A n \in 1..Cardinality(T) : more[NthOf(U, n)] = s[NthOf(T, n)]
    BY <1>1, <1>6, <2>2
  <2> QED
    BY <1>1, <1>7, <2>2, <2>3
<1> QED
  BY <1>8, <1>9 DEF more

(* The first n entries. *)
Prefix(s, n) == [k \in 1..n |-> s[k]]

LEMMA PrefixStep ==
  ASSUME NEW S, NEW s \in Seq(S)
  PROVE  /\ Prefix(s, 0) = <<>>
         /\ Prefix(s, Len(s)) = s
         /\ \A n \in 0..Len(s) : Prefix(s, n) \in Seq(S)
         /\ \A n \in 0..(Len(s) - 1) :
              s[n + 1] \in S /\ Prefix(s, n + 1) = Append(Prefix(s, n), s[n + 1])
<1>1. Prefix(s, 0) = <<>>
  BY DEF Prefix
<1>2. Prefix(s, Len(s)) = s
  BY DEF Prefix
<1>3. \A n \in 0..Len(s) : Prefix(s, n) \in Seq(S)
  BY DEF Prefix
<1>4. ASSUME NEW n \in 0..(Len(s) - 1)
      PROVE  s[n + 1] \in S /\ Prefix(s, n + 1) = Append(Prefix(s, n), s[n + 1])
  BY DEF Prefix
<1> QED
  BY <1>1, <1>2, <1>3, <1>4

LEMMA NothingFirst == FirstOccurrences(<<>>) = <<>>
<1>1. Firsts(<<>>) = {}
  BY DEF Firsts
<1>2. Cardinality({}) = 0
  BY FS_EmptySet
<1> QED
  BY <1>1, <1>2, FirstsInOrder

LEMMA RangeOfAppend ==
  ASSUME NEW S, NEW s \in Seq(S), NEW x \in S
  PROVE  Range(Append(s, x)) = Range(s) \cup {x}
<1> DEFINE more == Append(s, x)
<1>1. /\ Len(s) \in Nat /\ DOMAIN s = 1..Len(s) /\ DOMAIN more = 1..(Len(s) + 1)
      /\ more[Len(s) + 1] = x /\ \A k \in 1..Len(s) : more[k] = s[k]
  OBVIOUS
<1> HIDE DEF more
<1>2. Range(more) = Range(s) \cup {x}
  BY <1>1 DEF Range
<1> QED
  BY <1>2 DEF more

LEMMA SameEntries ==
  ASSUME NEW S, NEW s \in Seq(S)
  PROVE  Range(FirstOccurrences(s)) = Range(s)
<1> DEFINE Good == {n \in 0..Len(s) : Range(FirstOccurrences(Prefix(s, n))) = Range(Prefix(s, n))}
<1>1. 0 \in Good
  BY PrefixStep, NothingFirst
<1>2. ASSUME NEW n \in 0..(Len(s) - 1), n \in Good
      PROVE  n + 1 \in Good
  <2> DEFINE p == Prefix(s, n)
             x == s[n + 1]
  <2>1. p \in Seq(S) /\ x \in S /\ Prefix(s, n + 1) = Append(p, x) /\ n + 1 \in 0..Len(s)
    BY PrefixStep
  <2>2. Range(FirstOccurrences(p)) = Range(p)
    BY <1>2
  <2> HIDE DEF p, x
  <2>3. Range(FirstOccurrences(Append(p, x))) = Range(Append(p, x))
    <3>1. Range(Append(p, x)) = Range(p) \cup {x}
      BY <2>1, RangeOfAppend
    <3>2. Range(Append(FirstOccurrences(p), x)) = Range(FirstOccurrences(p)) \cup {x}
      BY <2>1, FirstOccurrencesType, RangeOfAppend
    <3>3. x \in Range(p) => FirstOccurrences(Append(p, x)) = FirstOccurrences(p)
      BY <2>1, OneMore
    <3>4. x \notin Range(p) => FirstOccurrences(Append(p, x)) = Append(FirstOccurrences(p), x)
      BY <2>1, OneMore
    <3> QED
      BY <2>2, <3>1, <3>2, <3>3, <3>4
  <2> QED
    BY <2>1, <2>3
<1> HIDE DEF Good
<1>3. 0..Len(s) \subseteq Good
  BY <1>1, <1>2, CountUp
<1>4. Len(s) \in 0..Len(s)
  OBVIOUS
<1> QED
  BY <1>3, <1>4, PrefixStep DEF Good

(* One more entry comes in if it is new. *)
LEMMA FirstOccurrencesStep ==
  ASSUME NEW S, NEW s \in Seq(S), NEW x \in S
  PROVE  FirstOccurrences(Append(s, x)) = Unseen(FirstOccurrences(s), x)
<1>1. Range(FirstOccurrences(s)) = Range(s)
  BY SameEntries
<1>2. (\E i \in DOMAIN FirstOccurrences(s) : FirstOccurrences(s)[i] = x) <=> x \in Range(s)
  BY <1>1 DEF Range
<1> QED
  BY <1>2, OneMore DEF Unseen

-------------------------------------------------------------------------------
(* Taking over one by one what comes after a is listing a and it at once.  *)
LEMMA TakeOverJoins ==
  ASSUME NEW S, NEW a \in Seq(S), NEW b \in Seq(S)
  PROVE  TakeOver(FirstOccurrences(a), b) = FirstOccurrences(a \o b)
<1> DEFINE n == Len(b)
<1>1. n \in Nat /\ DOMAIN b = 1..n
  OBVIOUS
<1>2. PICK it : /\ TakenOver(FirstOccurrences(a), b, 1..n, it)
                /\ TakeOver(FirstOccurrences(a), b) = it[1..n]
  BY <1>1, TakeOverIs
<1> DEFINE Good == {k \in 0..n : it[1..k] = FirstOccurrences(a \o Prefix(b, k))}
<1>3. 0 \in Good
  <2>1. it[{}] = FirstOccurrences(a)
    BY <1>2 DEF TakenOver
  <2>2. 1..0 = {} /\ a \o <<>> = a /\ 0 \in 0..n
    BY <1>1
  <2>3. Prefix(b, 0) = <<>>
    BY PrefixStep
  <2> QED
    BY <2>1, <2>2, <2>3
<1>4. ASSUME NEW k \in 0..(n - 1), k \in Good
      PROVE  k + 1 \in Good
  <2> DEFINE p == Prefix(b, k)
             x == b[k + 1]
  <2>1. p \in Seq(S) /\ x \in S /\ Prefix(b, k + 1) = Append(p, x)
    BY PrefixStep
  <2> HIDE DEF n
  <2>2. /\ 1..(k + 1) \in SUBSET (1..n)
        /\ 1..(k + 1) # {}
        /\ (1..(k + 1)) \ {k + 1} = 1..k
        /\ k + 1 \in 0..n
    <3>1. k \in Nat /\ k + 1 <= n /\ k + 1 \in 0..n
      BY <1>1
    <3>2. 1..(k + 1) \in SUBSET (1..n)
      BY <1>1, <3>1
    <3>3. k + 1 \in 1..(k + 1)
      BY <3>1
    <3>4. (1..(k + 1)) \ {k + 1} = 1..k
      BY <3>1
    <3> QED
      BY <3>1, <3>2, <3>3, <3>4
  <2>3. Max(1..(k + 1)) = k + 1
    <3>1. Max(1..(k + 1)) \in 1..(k + 1) /\ \A j \in 1..(k + 1) : j <= Max(1..(k + 1))
      <4>1. k + 1 \in Nat /\ 1..(k + 1) \in SUBSET (1..(k + 1))
        OBVIOUS
      <4> QED
        BY <2>2, <4>1, MaxUpTo, Zenon
    <3> QED
      BY <3>1
  <2>4. it[1..(k + 1)] = Unseen(it[1..k], x)
    BY <1>2, <2>2, <2>3 DEF TakenOver
  <2>5. it[1..k] = FirstOccurrences(a \o p)
    BY <1>4
  <2> HIDE DEF p, x
  <2>6. a \o p \in Seq(S) /\ a \o Append(p, x) = Append(a \o p, x)
    BY <2>1
  <2>7. FirstOccurrences(Append(a \o p, x)) = Unseen(FirstOccurrences(a \o p), x)
    BY <2>1, <2>6, FirstOccurrencesStep
  <2> QED
    BY <2>1, <2>2, <2>4, <2>5, <2>6, <2>7
<1> HIDE DEF Good
<1>5. n \in Good
  <2>1. 0..n \subseteq Good
    BY <1>1, <1>3, <1>4, CountUp
  <2> QED
    BY <1>1, <2>1
<1> QED
  BY <1>2, <1>5, PrefixStep DEF Good

(* The entries of two sequences joined. *)
LEMMA RangeOfJoined ==
  ASSUME NEW S, NEW a \in Seq(S), NEW b \in Seq(S)
  PROVE  Range(a \o b) = Range(a) \cup Range(b)
<1> DEFINE c == a \o b
<1>1. /\ Len(a) \in Nat /\ Len(b) \in Nat /\ DOMAIN a = 1..Len(a) /\ DOMAIN b = 1..Len(b)
      /\ DOMAIN c = 1..(Len(a) + Len(b))
      /\ \A k \in 1..Len(a) : c[k] = a[k]
      /\ \A k \in 1..Len(b) : c[Len(a) + k] = b[k]
  OBVIOUS
<1>2. \A k \in DOMAIN c : k \in 1..Len(a) \/ (k - Len(a) \in 1..Len(b) /\ Len(a) + (k - Len(a)) = k)
  BY <1>1
<1>3. \A k \in 1..Len(a) : k \in DOMAIN c
  BY <1>1
<1>4. \A k \in 1..Len(b) : Len(a) + k \in DOMAIN c
  BY <1>1
<1> HIDE DEF c
<1>5. Range(c) \subseteq Range(a) \cup Range(b)
  <2> SUFFICES ASSUME NEW k \in DOMAIN c
               PROVE  c[k] \in Range(a) \cup Range(b)
    BY DEF Range
  <2> QED
    BY <1>1, <1>2 DEF Range
<1>6. Range(a) \subseteq Range(c) /\ Range(b) \subseteq Range(c)
  BY <1>1, <1>3, <1>4 DEF Range
<1>7. Range(c) = Range(a) \cup Range(b)
  BY <1>5, <1>6
<1> QED
  BY <1>7 DEF c

(* What is listed first and what comes later need not be told apart. *)
LEMMA JoinFirsts ==
  ASSUME NEW S, NEW a \in Seq(S), NEW b \in Seq(S)
  PROVE  FirstOccurrences(a \o FirstOccurrences(b)) = FirstOccurrences(a \o b)
<1> DEFINE Good == {k \in 0..Len(b) : FirstOccurrences(a \o FirstOccurrences(Prefix(b, k)))
                                        = FirstOccurrences(a \o Prefix(b, k))}
<1>1. 0 \in Good
  BY PrefixStep, NothingFirst
<1>2. ASSUME NEW k \in 0..(Len(b) - 1), k \in Good
      PROVE  k + 1 \in Good
  <2> DEFINE p == Prefix(b, k)
             x == b[k + 1]
             q == FirstOccurrences(p)
  <2>1. p \in Seq(S) /\ x \in S /\ Prefix(b, k + 1) = Append(p, x) /\ k + 1 \in 0..Len(b)
    BY PrefixStep
  <2>2. FirstOccurrences(a \o q) = FirstOccurrences(a \o p)
    BY <1>2
  <2> HIDE DEF p, x
  <2>3. q \in Seq(S)
    BY <2>1, FirstOccurrencesType
  <2>4. a \o p \in Seq(S) /\ a \o Append(p, x) = Append(a \o p, x)
    BY <2>1
  <2>5. FirstOccurrences(a \o Append(p, x)) = Unseen(FirstOccurrences(a \o p), x)
    BY <2>1, <2>4, FirstOccurrencesStep
  <2>6. CASE x \in Range(p)
    <3>1. FirstOccurrences(Append(p, x)) = q
      BY <2>1, <2>6, OneMore
    <3>2. x \in Range(a \o p)
      BY <2>1, <2>6, RangeOfJoined
    <3>3. FirstOccurrences(a \o Append(p, x)) = FirstOccurrences(a \o p)
      BY <2>1, <2>4, <3>2, OneMore
    <3> QED
      BY <2>1, <2>2, <3>1, <3>3
  <2>7. CASE x \notin Range(p)
    <3>1. FirstOccurrences(Append(p, x)) = Append(q, x)
      BY <2>1, <2>7, OneMore
    <3> HIDE DEF q
    <3>2. a \o q \in Seq(S) /\ a \o Append(q, x) = Append(a \o q, x)
      BY <2>1, <2>3
    <3>3. FirstOccurrences(a \o Append(q, x)) = Unseen(FirstOccurrences(a \o q), x)
      BY <2>1, <3>2, FirstOccurrencesStep
    <3> QED
      BY <2>1, <2>2, <2>5, <3>1, <3>3
  <2> QED
    BY <2>6, <2>7
<1> HIDE DEF Good
<1>3. Len(b) \in Nat
  OBVIOUS
<1>4. Len(b) \in Good
  <2>1. 0..Len(b) \subseteq Good
    BY <1>1, <1>2, <1>3, CountUp
  <2> QED
    BY <1>3, <2>1
<1> QED
  BY <1>4, PrefixStep DEF Good

-------------------------------------------------------------------------------
(* FlattenSeq joins one sequence after the other. *)
Joined(g, n, f) == f = [i \in 1..n |-> IF i = 1 THEN g[i] ELSE f[i - 1] \o g[i]]

LEMMA JoinExists ==
  ASSUME NEW g, NEW n \in Nat
  PROVE  \E f : Joined(g, n, f)
<1> DEFINE Good == {k \in 0..n : \E f : Joined(g, k, f)}
<1>1. 0 \in Good
  <2>1. Joined(g, 0, [i \in 1..0 |-> g])
    BY DEF Joined
  <2> QED
    BY <2>1
<1>2. ASSUME NEW k \in 0..(n - 1), k \in Good
      PROVE  k + 1 \in Good
  <2>1. PICK f : Joined(g, k, f)
    BY <1>2
  <2> DEFINE h == [i \in 1..(k + 1) |-> IF i = k + 1 THEN (IF i = 1 THEN g[i] ELSE f[k] \o g[i]) ELSE f[i]]
  <2>2. ASSUME NEW i \in 1..(k + 1)
        PROVE  h[i] = IF i = 1 THEN g[i] ELSE h[i - 1] \o g[i]
    <3>1. CASE i = k + 1
      <4>1. i # 1 => i - 1 \in 1..(k + 1) /\ i - 1 # k + 1 /\ i - 1 = k
        BY <3>1
      <4> QED
        BY <3>1, <4>1
    <3>2. CASE i # k + 1
      <4>1. i \in 1..k
        BY <3>2
      <4>2. f[i] = IF i = 1 THEN g[i] ELSE f[i - 1] \o g[i]
        BY <2>1, <4>1 DEF Joined
      <4>3. i # 1 => i - 1 \in 1..(k + 1) /\ i - 1 # k + 1
        BY <4>1
      <4> QED
        BY <3>2, <4>2, <4>3
    <3> QED
      BY <3>1, <3>2
  <2>3. h = [i \in 1..(k + 1) |-> h[i]]
    OBVIOUS
  <2> HIDE DEF h
  <2>4. Joined(g, k + 1, h)
    BY <2>2, <2>3 DEF Joined
  <2>5. k + 1 \in 0..n
    OBVIOUS
  <2> QED
    BY <2>4, <2>5
<1> HIDE DEF Good
<1>3. 0..n \subseteq Good
  BY <1>1, <1>2, CountUp
<1>4. n \in Good
  BY <1>3
<1> QED
  BY <1>4 DEF Good

LEMMA FlattenIs ==
  ASSUME NEW g, NEW n \in Nat \ {0}, Len(g) = n, NEW f,
         f[1] = g[1], \A i \in 1..(n - 1) : f[i + 1] = f[i] \o g[i + 1]
  PROVE  FlattenSeq(g) = f[n]
<1> DEFINE h == CHOOSE h : Joined(g, n, h)
<1>1. Joined(g, n, h)
  BY JoinExists
<1>2. FlattenSeq(g) = h[n]
  BY DEF FlattenSeq, Joined
<1> HIDE DEF h
<1>3. \A i \in 1..n : h[i] = IF i = 1 THEN g[i] ELSE h[i - 1] \o g[i]
  BY <1>1 DEF Joined
<1> DEFINE Good == {k \in 0..n : k # 0 => h[k] = f[k]}
<1>4. 0 \in Good
  OBVIOUS
<1>5. ASSUME NEW k \in 0..(n - 1), k \in Good
      PROVE  k + 1 \in Good
  <2>1. k + 1 \in 1..n /\ k + 1 \in 0..n /\ (k + 1) - 1 = k
    OBVIOUS
  <2>2. CASE k = 0
    BY <1>3, <2>1, <2>2
  <2>3. CASE k # 0
    <3>1. k \in 1..(n - 1) /\ k + 1 # 1
      BY <2>3
    <3>2. h[k] = f[k]
      BY <1>5, <2>3
    <3>3. h[k + 1] = h[k] \o g[k + 1]
      BY <1>3, <2>1, <3>1
    <3>4. f[k + 1] = f[k] \o g[k + 1]
      BY <3>1
    <3>5. h[k + 1] = f[k + 1]
      BY <3>2, <3>3, <3>4
    <3> QED
      BY <2>1, <3>5
  <2> QED
    BY <2>2, <2>3
<1> HIDE DEF Good
<1>6. n \in Good
  <2>1. 0..n \subseteq Good
    BY <1>4, <1>5, CountUp
  <2> QED
    BY <2>1
<1> QED
  BY <1>2, <1>6 DEF Good

LEMMA FlattenPrefixes ==
  ASSUME NEW S, NEW g \in Seq(Seq(S))
  PROVE  /\ FlattenSeq(Prefix(g, 0)) = <<>>
         /\ \A n \in 0..(Len(g) - 1) :
              FlattenSeq(Prefix(g, n + 1)) = FlattenSeq(Prefix(g, n)) \o g[n + 1]
         /\ \A n \in 0..Len(g) : FlattenSeq(Prefix(g, n)) \in Seq(S)
<1> DEFINE N == Len(g)
<1>1. N \in Nat /\ \A i \in 1..N : g[i] \in Seq(S)
  OBVIOUS
<1>2. PICK f : Joined(g, N, f)
  BY <1>1, JoinExists
<1>3. \A i \in 1..N : f[i] = IF i = 1 THEN g[i] ELSE f[i - 1] \o g[i]
  BY <1>2 DEF Joined
<1>4. FlattenSeq(Prefix(g, 0)) = <<>>
  <2>1. Len(<<>>) = 0
    OBVIOUS
  <2> QED
    BY <2>1, PrefixStep DEF FlattenSeq
<1> HIDE DEF N
<1>5. ASSUME NEW n \in 1..N
      PROVE  FlattenSeq(Prefix(g, n)) = f[n]
  <2> DEFINE q == Prefix(g, n)
  <2>1. n \in Nat \ {0} /\ Len(q) = n /\ \A i \in 1..n : q[i] = g[i]
    BY DEF Prefix
  <2>2. f[1] = q[1]
    BY <1>1, <1>3, <2>1
  <2>3. ASSUME NEW i \in 1..(n - 1)
        PROVE  f[i + 1] = f[i] \o q[i + 1]
    <3>1. i + 1 \in 1..N /\ i + 1 \in 1..n /\ i + 1 # 1 /\ (i + 1) - 1 = i
      BY <1>1
    <3> QED
      BY <1>3, <2>1, <3>1
  <2> HIDE DEF q
  <2> QED
    BY <2>1, <2>2, <2>3, FlattenIs DEF q
<1>6. ASSUME NEW n \in 0..(N - 1)
      PROVE  FlattenSeq(Prefix(g, n + 1)) = FlattenSeq(Prefix(g, n)) \o g[n + 1]
  <2>1. n + 1 \in 1..N /\ (n + 1) - 1 = n
    BY <1>1
  <2>2. FlattenSeq(Prefix(g, n + 1)) = f[n + 1]
    BY <1>5, <2>1
  <2>3. CASE n = 0
    <3>1. f[1] = g[1] /\ g[1] \in Seq(S) /\ <<>> \o g[1] = g[1]
      BY <1>1, <1>3, <2>1, <2>3
    <3> QED
      BY <1>4, <2>2, <2>3, <3>1
  <2>4. CASE n # 0
    <3>1. n \in 1..N /\ n + 1 # 1
      BY <1>1, <2>4
    <3>2. f[n + 1] = f[n] \o g[n + 1]
      BY <1>3, <2>1, <3>1
    <3> QED
      BY <1>5, <2>2, <3>1, <3>2
  <2> QED
    BY <2>3, <2>4
<1> DEFINE Good == {k \in 0..N : FlattenSeq(Prefix(g, k)) \in Seq(S)}
<1>7. 0 \in Good
  <2>1. <<>> \in Seq(S) /\ 0 \in 0..N
    BY <1>1
  <2> QED
    BY <1>4, <2>1
<1>8. ASSUME NEW k \in 0..(N - 1), k \in Good
      PROVE  k + 1 \in Good
  <2>1. k + 1 \in 0..N /\ k + 1 \in 1..N
    BY <1>1
  <2>2. FlattenSeq(Prefix(g, k)) \in Seq(S) /\ g[k + 1] \in Seq(S)
    BY <1>1, <1>8, <2>1
  <2>3. FlattenSeq(Prefix(g, k + 1)) \in Seq(S)
    <3>1. FlattenSeq(Prefix(g, k + 1)) = FlattenSeq(Prefix(g, k)) \o g[k + 1]
      BY <1>6
    <3>2. \A u, v \in Seq(S) : u \o v \in Seq(S)
      OBVIOUS
    <3>3. FlattenSeq(Prefix(g, k)) \o g[k + 1] \in Seq(S)
      BY <2>2, <3>2
    <3> QED
      BY <3>1, <3>3
  <2> QED
    BY <2>1, <2>3
<1> HIDE DEF Good
<1>9. 0..N \subseteq Good
  BY <1>1, <1>7, <1>8, CountUp
<1> QED
  BY <1>4, <1>6, <1>9 DEF Good, N

-------------------------------------------------------------------------------
(* The paths upward, written out: what each parent, with the paths above   *)
(* it, brings in.                                                          *)
Above(list, id, paths) ==
  [p \in DOMAIN ParentsOf(list, id) |-> <<ParentsOf(list, id)[p]>> \o paths[ParentsOf(list, id)[p]]]

WalksUp(list, N, walk) ==
  walk = [n \in 0..N |->
            [id \in PolicyId |->
               IF n = 0 THEN <<>> ELSE FlattenSeq(Above(list, id, walk[n - 1]))]]

Level(list, paths) == [id \in PolicyId |-> FlattenSeq(Above(list, id, paths))]

LEMMA WalkExists ==
  ASSUME NEW list, NEW N \in Nat
  PROVE  \E walk : WalksUp(list, N, walk)
<1> DEFINE Good == {k \in 0..N : \E walk : WalksUp(list, k, walk)}
           Nowhere == [id \in PolicyId |-> <<>>]
<1>2. 0 \in Good
  <2> DEFINE walk == [n \in 0..0 |-> Nowhere]
  <2>1. WalksUp(list, 0, walk)
    BY DEF WalksUp
  <2> QED
    BY <2>1
<1>3. ASSUME NEW k \in 0..(N - 1), k \in Good
      PROVE  k + 1 \in Good
  <2>1. PICK walk : WalksUp(list, k, walk)
    BY <1>3
  <2>2. \A n \in 0..k : walk[n] = IF n = 0 THEN Nowhere ELSE Level(list, walk[n - 1])
    BY <2>1 DEF WalksUp, Level
  <2> DEFINE more == [n \in 0..(k + 1) |-> IF n = k + 1 THEN Level(list, walk[k]) ELSE walk[n]]
  <2>3. \A n \in 0..(k + 1) : more[n] = IF n = k + 1 THEN Level(list, walk[k]) ELSE walk[n]
    OBVIOUS
  <2>4. more = [n \in 0..(k + 1) |-> more[n]]
    OBVIOUS
  <2> HIDE DEF more, Nowhere
  <2>5. ASSUME NEW n \in 0..(k + 1)
        PROVE  more[n] = IF n = 0 THEN Nowhere ELSE Level(list, more[n - 1])
    <3>1. n # 0 => n - 1 \in 0..(k + 1) /\ n - 1 # k + 1
      OBVIOUS
    <3>2. n # k + 1 => n \in 0..k
      OBVIOUS
    <3>3. n = k + 1 => n # 0 /\ n - 1 = k
      OBVIOUS
    <3> QED
      BY <2>2, <2>3, <3>1, <3>2, <3>3
  <2>6. WalksUp(list, k + 1, more)
    BY <2>4, <2>5 DEF WalksUp, Level, Nowhere
  <2>7. k + 1 \in 0..N
    OBVIOUS
  <2> QED
    BY <2>6, <2>7
<1> HIDE DEF Good
<1>4. 0..N \subseteq Good
  BY <1>2, <1>3, CountUp
<1>5. N \in Good
  BY <1>4
<1> QED
  BY <1>5 DEF Good

LEMMA PathsUpAre ==
  ASSUME NEW list, NEW N \in Nat, N = Len(list)
  PROVE  \E walk :
           /\ PathsUp(list) = walk[N]
           /\ walk[0] = [id \in PolicyId |-> <<>>]
           /\ \A n \in 1..N : walk[n] = Level(list, walk[n - 1])
<1> DEFINE walk == CHOOSE walk : WalksUp(list, N, walk)
<1>1. WalksUp(list, N, walk)
  BY WalkExists
<1>2. PathsUp(list) = walk[N]
  BY DEF PathsUp, WalksUp, Above
<1> HIDE DEF walk
<1>3. walk[0] = [id \in PolicyId |-> <<>>]
  BY <1>1 DEF WalksUp
<1>4. ASSUME NEW n \in 1..N
      PROVE  walk[n] = Level(list, walk[n - 1])
  <2>1. n \in 0..N /\ n # 0
    OBVIOUS
  <2>2. walk[n] = [id \in PolicyId |-> IF n = 0 THEN <<>> ELSE FlattenSeq(Above(list, id, walk[n - 1]))]
    BY <1>1, <2>1 DEF WalksUp
  <2> QED
    BY <2>1, <2>2 DEF Level
<1> QED
  BY <1>2, <1>3, <1>4

-------------------------------------------------------------------------------
(* Ids of the request, closed under parents, none among its own ancestors. *)
Settled(list, K) ==
  /\ K \subseteq Ids(list)
  /\ ClosedUnderParents(list, K)
  /\ \A id \in K : id \notin Ancestors(list, id)

LEMMA FewIds ==
  ASSUME NEW list \in Requests
  PROVE  /\ Len(list) \in Nat
         /\ IsFiniteSet(Ids(list))
         /\ Cardinality(Ids(list)) <= Len(list)
<1> DEFINE N == Len(list)
           f == [i \in 1..N |-> list[i].id]
<1>1. N \in Nat /\ DOMAIN list = 1..N
  BY RequestsAssumption
<1>2. f \in Surjection(1..N, Ids(list))
  <2>1. f \in [1..N -> Ids(list)] /\ \A x \in Ids(list) : \E i \in 1..N : f[i] = x
    BY <1>1 DEF Ids
  <2> HIDE DEF f
  <2> QED
    BY <2>1 DEF Surjection
<1>3. IsFiniteSet(1..N) /\ Cardinality(1..N) = N
  <2> HIDE DEF N
  <2>1. 1 \in Int /\ N \in Int
    BY <1>1
  <2>2. IsFiniteSet(1..N) /\ Cardinality(1..N) = IF 1 > N THEN 0 ELSE N - 1 + 1
    BY <2>1, FS_Interval
  <2> QED
    BY <1>1, <2>2
<1> HIDE DEF f, N
<1>4. IsFiniteSet(Ids(list)) /\ Cardinality(Ids(list)) <= Cardinality(1..N)
  BY <1>2, <1>3, FS_Surjection
<1> QED
  BY <1>1, <1>3, <1>4 DEF N

(* A parent has fewer ancestors. *)
LEMMA FewerAbove ==
  ASSUME NEW list \in Requests, NEW K, Settled(list, K), NEW id \in K
  PROVE  /\ Cardinality(Ancestors(list, id)) \in 0..(Len(list) - 1)
         /\ \A p \in DOMAIN ParentsOf(list, id) :
              /\ ParentsOf(list, id)[p] \in K
              /\ Cardinality(Ancestors(list, ParentsOf(list, id)[p]))
                   < Cardinality(Ancestors(list, id))
<1> DEFINE A(i) == Ancestors(list, i)
           N == Len(list)
<1>1. N \in Nat /\ IsFiniteSet(Ids(list)) /\ Cardinality(Ids(list)) <= N
  BY FewIds
<1>2. K \in SUBSET PolicyId /\ K \subseteq Ids(list) /\ ClosedUnderParents(list, K)
  BY IdsType DEF Settled
<1>3. ASSUME NEW i \in K
      PROVE  A(i) \subseteq K /\ i \notin A(i) /\ IsFiniteSet(A(i)) /\ Cardinality(A(i)) \in Nat
  <2>1. \A p \in DOMAIN ParentsOf(list, i) : ParentsOf(list, i)[p] \in K
    BY <1>2 DEF ClosedUnderParents
  <2>2. A(i) \subseteq K
    BY <1>2, <2>1, AncestorsWithin
  <2>3. IsFiniteSet(A(i))
    BY <1>1, <1>2, <2>2, FS_Subset
  <2> QED
    BY <2>2, <2>3, FS_CardinalityType DEF Settled
<1>4. ASSUME NEW S, IsFiniteSet(S), NEW T \in SUBSET S, NEW x \in S, x \notin T
      PROVE  Cardinality(S) \in Nat /\ Cardinality(T) \in Nat /\ Cardinality(T) < Cardinality(S)
  <2>1. IsFiniteSet(T) /\ Cardinality(T) <= Cardinality(S) /\ (Cardinality(S) = Cardinality(T) => S = T)
    BY <1>4, FS_Subset
  <2>2. Cardinality(S) \in Nat /\ Cardinality(T) \in Nat
    BY <1>4, <2>1, FS_CardinalityType
  <2> QED
    BY <1>4, <2>1, <2>2
<1>5. Cardinality(A(id)) < Cardinality(Ids(list))
  <2>1. A(id) \in SUBSET Ids(list) /\ id \in Ids(list) /\ id \notin A(id)
    BY <1>2, <1>3
  <2> QED
    BY <1>1, <1>4, <2>1
<1>6. Cardinality(Ids(list)) \in Nat
  BY <1>1, FS_CardinalityType
<1>7. Cardinality(A(id)) \in 0..(N - 1)
  BY <1>1, <1>3, <1>5, <1>6
<1>8. ASSUME NEW p \in DOMAIN ParentsOf(list, id)
      PROVE  /\ ParentsOf(list, id)[p] \in K
             /\ Cardinality(A(ParentsOf(list, id)[p])) < Cardinality(A(id))
  <2> DEFINE q == ParentsOf(list, id)[p]
  <2>1. q \in K
    BY <1>2 DEF ClosedUnderParents
  <2>2. q \in A(id)
    BY ParentIsAncestor
  <2>3. A(q) \in SUBSET A(id)
    BY AncestorsByParents
  <2>4. q \notin A(q) /\ IsFiniteSet(A(id))
    BY <1>3, <2>1
  <2> HIDE DEF q, A
  <2>5. Cardinality(A(q)) < Cardinality(A(id))
    BY <1>4, <2>2, <2>3, <2>4
  <2> QED
    BY <2>1, <2>5 DEF q
<1> QED
  BY <1>7, <1>8

LEMMA AboveType ==
  ASSUME NEW list \in Requests, NEW id, NEW paths \in [PolicyId -> Seq(PolicyId)]
  PROVE  /\ Above(list, id, paths) \in Seq(Seq(PolicyId))
         /\ Len(Above(list, id, paths)) = Len(ParentsOf(list, id))
         /\ FlattenSeq(Above(list, id, paths)) \in Seq(PolicyId)
<1> DEFINE parents == ParentsOf(list, id)
           g == Above(list, id, paths)
<1>1. parents \in Seq(PolicyId)
  BY ParentsType
<1>2. Len(parents) \in Nat /\ DOMAIN parents = 1..Len(parents)
  BY <1>1
<1>3. \A p \in 1..Len(parents) : <<parents[p]>> \o paths[parents[p]] \in Seq(PolicyId)
  <2> TAKE p \in 1..Len(parents)
  <2>1. parents[p] \in PolicyId
    BY <1>1
  <2>2. paths[parents[p]] \in Seq(PolicyId)
    BY <2>1
  <2> QED
    BY <2>1, <2>2, Prepend
<1>4. g = [p \in 1..Len(parents) |-> <<parents[p]>> \o paths[parents[p]]]
  BY <1>2 DEF Above
<1>5. g \in Seq(Seq(PolicyId)) /\ Len(g) = Len(parents)
  <2>1. \A p \in 1..Len(parents) : g[p] \in Seq(PolicyId)
    BY <1>3, <1>4
  <2>2. g = [p \in 1..Len(parents) |-> g[p]]
    BY <1>4
  <2> HIDE DEF g, parents
  <2> QED
    BY <1>2, <2>1, <2>2
<1> HIDE DEF g
<1>6. Prefix(g, Len(g)) = g
  BY <1>5, PrefixStep
<1>7. FlattenSeq(Prefix(g, Len(g))) \in Seq(PolicyId)
  <2>1. Len(g) \in 0..Len(g)
    BY <1>5
  <2> QED
    BY <1>5, <2>1, FlattenPrefixes
<1> QED
  BY <1>5, <1>6, <1>7 DEF g

(* Written out, the paths above a settled id are what its parents bring    *)
(* in: they are no longer than the list.                                   *)
LEMMA PathsOfSettled ==
  ASSUME NEW list \in Requests
  PROVE  /\ PathsUp(list) \in [PolicyId -> Seq(PolicyId)]
         /\ \A K : Settled(list, K) =>
              \A id \in K : PathsUp(list)[id] = FlattenSeq(Above(list, id, PathsUp(list)))
<1> DEFINE N == Len(list)
<1>1. N \in Nat
  BY FewIds
<1>0. N = Len(list)
  OBVIOUS
<1> HIDE DEF N
<1>2. PICK walk : /\ PathsUp(list) = walk[N]
                  /\ walk[0] = [id \in PolicyId |-> <<>>]
                  /\ \A n \in 1..N : walk[n] = Level(list, walk[n - 1])
  BY <1>0, <1>1, PathsUpAre
<1> DEFINE Typed == {n \in 0..N : walk[n] \in [PolicyId -> Seq(PolicyId)]}
<1>3. 0..N \subseteq Typed
  <2>1. 0 \in Typed
    <3>1. <<>> \in Seq(PolicyId) /\ 0 \in 0..N
      BY <1>1
    <3> QED
      BY <1>2, <3>1
  <2>2. ASSUME NEW n \in 0..(N - 1), n \in Typed
        PROVE  n + 1 \in Typed
    <3>1. n + 1 \in 1..N /\ n + 1 \in 0..N /\ (n + 1) - 1 = n
      BY <1>1
    <3>2. walk[n + 1] = Level(list, walk[n])
      BY <1>2, <3>1
    <3>3. \A id \in PolicyId : FlattenSeq(Above(list, id, walk[n])) \in Seq(PolicyId)
      BY <2>2, AboveType
    <3> QED
      BY <3>1, <3>2, <3>3 DEF Level
  <2> HIDE DEF Typed
  <2> QED
    BY <1>1, <2>1, <2>2, CountUp
<1> HIDE DEF Typed
<1>4. \A n \in 0..N : walk[n] \in [PolicyId -> Seq(PolicyId)]
  BY <1>3 DEF Typed
<1>5. PathsUp(list) \in [PolicyId -> Seq(PolicyId)]
  BY <1>1, <1>2, <1>4
<1>6. ASSUME NEW K, Settled(list, K)
      PROVE  \A id \in K : PathsUp(list)[id] = FlattenSeq(Above(list, id, PathsUp(list)))
  <2> DEFINE c(id) == Cardinality(Ancestors(list, id))
             Good == {n \in 0..(N - 1) : \A id \in K : c(id) <= n => walk[n + 1][id] = walk[n][id]}
  <2>0. K \subseteq PolicyId
    BY <1>6, IdsType DEF Settled
  <2>1. \A id \in K : c(id) \in 0..(N - 1)
    BY <1>6, FewerAbove DEF N
  <2>2. \A id \in K : \A p \in DOMAIN ParentsOf(list, id) :
          ParentsOf(list, id)[p] \in K /\ c(ParentsOf(list, id)[p]) < c(id)
    BY <1>6, FewerAbove
  <2> HIDE DEF c
  <2>3. ASSUME NEW n \in 0..(N - 1), NEW id \in K, c(id) <= n, n # 0 => n - 1 \in Good
        PROVE  walk[n + 1][id] = walk[n][id]
    <3>1. n + 1 \in 1..N /\ (n + 1) - 1 = n
      BY <1>1
    <3>2. walk[n + 1][id] = FlattenSeq(Above(list, id, walk[n]))
      <4>1. walk[n + 1] = Level(list, walk[n])
        BY <1>2, <3>1
      <4> QED
        BY <2>0, <4>1 DEF Level
    <3>3. CASE n = 0
      <4>1. ParentsOf(list, id) \in Seq(PolicyId)
        BY ParentsType
      <4>2. DOMAIN ParentsOf(list, id) = {}
        <5> SUFFICES ASSUME NEW p \in DOMAIN ParentsOf(list, id)
                     PROVE  FALSE
          OBVIOUS
        <5>1. ParentsOf(list, id)[p] \in K /\ c(ParentsOf(list, id)[p]) < c(id)
          BY <2>2
        <5>2. c(ParentsOf(list, id)[p]) \in Nat /\ c(id) \in Nat /\ c(id) <= 0
          BY <2>1, <2>3, <3>3, <5>1
        <5> QED
          BY <5>1, <5>2
      <4>3. Len(ParentsOf(list, id)) = 0
        BY <4>1, <4>2
      <4>4. Above(list, id, walk[n]) \in Seq(Seq(PolicyId)) /\ Len(Above(list, id, walk[n])) = 0
        <5>1. walk[n] \in [PolicyId -> Seq(PolicyId)]
          BY <1>1, <1>4
        <5> QED
          BY <4>3, <5>1, AboveType
      <4>5. Above(list, id, walk[n]) = <<>>
        BY <4>4
      <4>6. FlattenSeq(Above(list, id, walk[n])) = <<>>
        BY <4>4, <4>5 DEF FlattenSeq
      <4> QED
        BY <1>2, <2>0, <3>2, <3>3, <4>6
    <3>4. CASE n # 0
      <4>1. n \in 1..N /\ n - 1 \in 0..(N - 1) /\ (n - 1) + 1 = n
        BY <1>1, <3>4
      <4>2. walk[n][id] = FlattenSeq(Above(list, id, walk[n - 1]))
        <5>1. walk[n] = Level(list, walk[n - 1])
          BY <1>2, <4>1
        <5> QED
          BY <2>0, <5>1 DEF Level
      <4>3. ASSUME NEW p \in DOMAIN ParentsOf(list, id)
            PROVE  walk[n][ParentsOf(list, id)[p]] = walk[n - 1][ParentsOf(list, id)[p]]
        <5> DEFINE q == ParentsOf(list, id)[p]
        <5>1. q \in K /\ c(q) < c(id)
          BY <2>2
        <5>2. c(q) <= n - 1
          BY <2>1, <2>3, <5>1, <4>1
        <5>3. n - 1 \in Good
          BY <2>3, <3>4
        <5> HIDE DEF q
        <5>4. walk[(n - 1) + 1][q] = walk[n - 1][q]
          BY <5>1, <5>2, <5>3
        <5> QED
          BY <4>1, <5>4 DEF q
      <4>4. Above(list, id, walk[n]) = Above(list, id, walk[n - 1])
        BY <4>3 DEF Above
      <4> QED
        BY <3>2, <4>2, <4>4
    <3> QED
      BY <3>3, <3>4
  <2>4. ASSUME NEW id \in K
        PROVE  PathsUp(list)[id] = FlattenSeq(Above(list, id, PathsUp(list)))
    <3>1. N - 1 \in Nat /\ N \in 1..N /\ (N - 1) + 1 = N /\ N - 1 \in 0..(N - 1)
      BY <1>1, <2>1
    <3>2. 0 \in Good
      BY <2>3, <3>1
    <3>3. ASSUME NEW n \in 0..((N - 1) - 1), n \in Good
          PROVE  n + 1 \in Good
      <4>1. n + 1 \in 0..(N - 1) /\ (n + 1) - 1 = n
        BY <3>1
      <4>2. \A i \in K : c(i) <= n + 1 => walk[(n + 1) + 1][i] = walk[n + 1][i]
        BY <2>3, <3>3, <4>1
      <4> QED
        BY <4>1, <4>2
    <3> HIDE DEF Good
    <3>4. 0..(N - 1) \subseteq Good
      BY <3>1, <3>2, <3>3, CountUp
    <3>5. \A i \in K : walk[N][i] = walk[N - 1][i]
      BY <2>1, <3>1, <3>4 DEF Good
    <3>6. walk[N][id] = FlattenSeq(Above(list, id, walk[N - 1]))
      BY <1>2, <2>0, <3>1 DEF Level
    <3>7. Above(list, id, walk[N - 1]) = Above(list, id, walk[N])
      BY <2>2, <3>5 DEF Above
    <3> QED
      BY <1>2, <3>6, <3>7
  <2> QED
    BY <2>4
<1> QED
  BY <1>5, <1>6

-------------------------------------------------------------------------------
(* What the first n parents of an id bring in, in order. *)
Gathered(list, id, n) == FirstOccurrences(FlattenSeq(Prefix(Above(list, id, PathsUp(list)), n)))

LEMMA GatheredGrows ==
  ASSUME NEW list \in Requests, NEW id
  PROVE  /\ Gathered(list, id, 0) = <<>>
         /\ \A n \in 1..Len(ParentsOf(list, id)) :
              TakeOver(Gathered(list, id, n - 1),
                       <<ParentsOf(list, id)[n]>> \o Preorder(list, ParentsOf(list, id)[n]))
                = Gathered(list, id, n)
<1> DEFINE paths == PathsUp(list)
           g == Above(list, id, paths)
           parents == ParentsOf(list, id)
           Joint(n) == FlattenSeq(Prefix(g, n))
<1>1. paths \in [PolicyId -> Seq(PolicyId)] /\ parents \in Seq(PolicyId)
  BY PathsOfSettled, ParentsType
<1>2. g \in Seq(Seq(PolicyId)) /\ Len(g) = Len(parents) /\ Len(g) \in Nat
  BY <1>1, AboveType
<1>3. \A n \in DOMAIN parents : g[n] = <<parents[n]>> \o paths[parents[n]]
  BY DEF Above
<1> HIDE DEF paths, g, parents
<1>4. /\ Joint(0) = <<>>
      /\ \A n \in 0..(Len(g) - 1) : Joint(n + 1) = Joint(n) \o g[n + 1]
      /\ \A n \in 0..Len(g) : Joint(n) \in Seq(PolicyId)
  BY <1>2, FlattenPrefixes
<1>5. ASSUME NEW n \in 1..Len(parents)
      PROVE  TakeOver(Gathered(list, id, n - 1), <<parents[n]>> \o Preorder(list, parents[n]))
               = Gathered(list, id, n)
  <2> DEFINE q == parents[n]
             a == Joint(n - 1)
             w == paths[q]
  <2>1. n - 1 \in 0..(Len(g) - 1) /\ n - 1 \in 0..Len(g) /\ (n - 1) + 1 = n /\ n \in DOMAIN parents
    BY <1>1, <1>2
  <2>2. a \in Seq(PolicyId) /\ q \in PolicyId /\ w \in Seq(PolicyId)
    BY <1>1, <1>4, <2>1
  <2>3. Joint(n) = a \o (<<q>> \o w)
    BY <1>3, <1>4, <2>1
  <2>4. Preorder(list, q) = FirstOccurrences(w)
    BY DEF Preorder, paths
  <2>5. Gathered(list, id, n) = FirstOccurrences(Joint(n)) /\ Gathered(list, id, n - 1) = FirstOccurrences(a)
    BY DEF Gathered, g, paths
  <2> HIDE DEF q, a, w, Joint
  <2>6. FirstOccurrences(w) \in Seq(PolicyId)
    BY <2>2, FirstOccurrencesType
  <2>7. <<q>> \o FirstOccurrences(w) \in Seq(PolicyId) /\ a \o <<q>> \in Seq(PolicyId)
    BY <2>2, <2>6
  <2>8. TakeOver(FirstOccurrences(a), <<q>> \o FirstOccurrences(w))
          = FirstOccurrences(a \o (<<q>> \o FirstOccurrences(w)))
    BY <2>2, <2>7, TakeOverJoins
  <2>9. \A u, v, x \in Seq(PolicyId) : u \o (v \o x) = (u \o v) \o x
    OBVIOUS
  <2>10. <<q>> \in Seq(PolicyId)
    BY <2>2
  <2>11. /\ a \o (<<q>> \o FirstOccurrences(w)) = (a \o <<q>>) \o FirstOccurrences(w)
         /\ a \o (<<q>> \o w) = (a \o <<q>>) \o w
    BY <2>2, <2>6, <2>9, <2>10
  <2>12. FirstOccurrences((a \o <<q>>) \o FirstOccurrences(w)) = FirstOccurrences((a \o <<q>>) \o w)
    BY <2>2, <2>7, JoinFirsts
  <2>13. TakeOver(FirstOccurrences(a), <<q>> \o FirstOccurrences(w)) = FirstOccurrences(Joint(n))
    BY <2>3, <2>8, <2>11, <2>12
  <2> QED
    BY <2>4, <2>5, <2>13 DEF q
<1>6. Gathered(list, id, 0) = <<>>
  BY <1>4, NothingFirst DEF Gathered, g, paths
<1> QED
  BY <1>5, <1>6 DEF parents

LEMMA GatheredAll ==
  ASSUME NEW list \in Requests, NEW K, Settled(list, K), NEW id \in K
  PROVE  Gathered(list, id, Len(ParentsOf(list, id))) = Preorder(list, id)
<1> DEFINE g == Above(list, id, PathsUp(list))
<1>1. PathsUp(list) \in [PolicyId -> Seq(PolicyId)] /\ PathsUp(list)[id] = FlattenSeq(g)
  BY PathsOfSettled
<1>2. g \in Seq(Seq(PolicyId)) /\ Len(g) = Len(ParentsOf(list, id))
  BY <1>1, AboveType
<1> HIDE DEF g
<1>3. Prefix(g, Len(g)) = g
  BY <1>2, PrefixStep
<1> QED
  BY <1>1, <1>2, <1>3 DEF Gathered, Preorder, g

-------------------------------------------------------------------------------
(* Of what is known the order is the preorder of its ancestors; a call on  *)
(* the stack has gathered what the parents before its current one bring in. *)
OrdersAreRight ==
  /\ \A id \in DOMAIN memo : memo[id] = Preorder(policies, id)
  /\ \A f \in DOMAIN stack : stack[f].order = Gathered(policies, stack[f].id, stack[f].next - 1)

LEMMA DeliversInOrder ==
  ASSUME policies \in Requests, NEW calls \in Seq(Frame),
         \A f \in DOMAIN calls : calls[f].order = Gathered(policies, calls[f].id, calls[f].next - 1),
         NEW id, NEW ancestors, ancestors = Preorder(policies, id),
         calls # <<>> =>
           /\ calls[Len(calls)].next \in DOMAIN ParentsOf(policies, calls[Len(calls)].id)
           /\ id = ParentsOf(policies, calls[Len(calls)].id)[calls[Len(calls)].next],
         Deliver(id, ancestors, calls)
  PROVE  \A f \in DOMAIN stack' :
           stack'[f].order = Gathered(policies, stack'[f].id, stack'[f].next - 1)
<1>1. CASE calls = <<>>
  BY <1>1 DEF Deliver
<1>2. CASE calls # <<>>
  <2> DEFINE n == Len(calls)
             top == calls[n]
  <2>1. n \in DOMAIN calls /\ top \in Frame
    BY <1>2
  <2>2. stack' = [calls EXCEPT ![n] = Advance(top, id, ancestors)]
    BY <1>2 DEF Deliver
  <2>3. top.next \in DOMAIN ParentsOf(policies, top.id) /\ id = ParentsOf(policies, top.id)[top.next]
    BY <1>2
  <2>4. top.order = Gathered(policies, top.id, top.next - 1)
    BY <2>1
  <2> HIDE DEF n, top
  <2>5. top.next \in 1..Len(ParentsOf(policies, top.id)) /\ (top.next + 1) - 1 = top.next
    BY <2>3, ParentsType
  <2>6. TakeOver(top.order, <<id>> \o ancestors) = Gathered(policies, top.id, top.next)
    BY <2>3, <2>4, <2>5, GatheredGrows
  <2>7. /\ Advance(top, id, ancestors).id = top.id
        /\ Advance(top, id, ancestors).next = top.next + 1
        /\ Advance(top, id, ancestors).order = Gathered(policies, top.id, top.next)
    BY <2>6 DEF Advance
  <2>8. ASSUME NEW f \in DOMAIN stack'
        PROVE  stack'[f].order = Gathered(policies, stack'[f].id, stack'[f].next - 1)
    <3>1. f \in DOMAIN calls
      BY <2>2
    <3>2. CASE f = n
      <4>1. stack'[f] = Advance(top, id, ancestors)
        BY <2>2, <3>1, <3>2
      <4> QED
        BY <2>5, <2>7, <4>1
    <3>3. CASE f # n
      <4>1. stack'[f] = calls[f]
        BY <2>2, <3>1, <3>3
      <4> QED
        BY <3>1, <4>1
    <3> QED
      BY <3>2, <3>3
  <2> QED
    BY <2>8
<1> QED
  BY <1>1, <1>2

LEMMA OrdersStep == WalkIsSound /\ OrdersAreRight /\ WalkIsSound' /\ [InheritNext]_inheritVars => OrdersAreRight'
<1> SUFFICES ASSUME WalkIsSound, OrdersAreRight, WalkIsSound', [InheritNext]_inheritVars
             PROVE  OrdersAreRight'
  OBVIOUS
<1>1. /\ policies \in Requests /\ stack \in Seq(Frame) /\ MemoIsSound /\ IsPath(stack, DOMAIN memo)
      /\ MemoIsSound' /\ stack' \in Seq(Frame)
  BY DEF WalkIsSound, InheritTypeOK
<1>2. CASE UNCHANGED <<policies, memo, stack>>
  BY <1>2 DEF OrdersAreRight
<1>3. ASSUME policies' = policies, Calling, NEW ancestors, ancestors = Preorder(policies, Callee),
             Deliver(Callee, ancestors, stack)
      PROVE  \A f \in DOMAIN stack' :
               stack'[f].order = Gathered(policies, stack'[f].id, stack'[f].next - 1)
  <2>1. stack # <<>> =>
          /\ stack[Len(stack)].next \in DOMAIN ParentsOf(policies, stack[Len(stack)].id)
          /\ Callee = ParentsOf(policies, stack[Len(stack)].id)[stack[Len(stack)].next]
    BY <1>3, CallFromTop DEF Top
  <2>2. \A f \in DOMAIN stack : stack[f].order = Gathered(policies, stack[f].id, stack[f].next - 1)
    BY DEF OrdersAreRight
  <2> DEFINE id == Callee
  <2>3. Deliver(id, ancestors, stack) /\ ancestors = Preorder(policies, id)
    BY <1>3
  <2> HIDE DEF id
  <2> QED
    BY <1>1, <2>1, <2>2, <2>3, DeliversInOrder DEF id
<1>4. CASE Recall
  <2>1. policies' = policies /\ memo' = memo /\ Callee \in DOMAIN memo /\ Calling
        /\ Deliver(Callee, memo[Callee], stack)
    BY <1>4 DEF Recall
  <2>2. memo[Callee] = Preorder(policies, Callee)
    BY <2>1 DEF OrdersAreRight
  <2> QED
    BY <1>3, <2>1, <2>2 DEF OrdersAreRight
<1>5. CASE Root
  <2>1. /\ policies' = policies /\ Memoise(Callee, <<>>) /\ Calling
        /\ ParentsOf(policies, Callee) = <<>> /\ Deliver(Callee, <<>>, stack)
    BY <1>5 DEF Root
  <2>2. /\ DOMAIN memo' = DOMAIN memo \cup {Callee} /\ memo'[Callee] = <<>>
        /\ \A i \in DOMAIN memo : i # Callee => memo'[i] = memo[i]
    BY <2>1 DEF Memoise
  <2>3. Settled(policies, DOMAIN memo')
    BY <1>1, <2>1 DEF MemoIsSound, Settled, ClosedUnderParents
  <2>4. <<>> = Preorder(policies, Callee)
    <3>1. Len(ParentsOf(policies, Callee)) = 0
      BY <2>1
    <3>2. Callee \in DOMAIN memo'
      BY <2>2
    <3>3. Gathered(policies, Callee, 0) = Preorder(policies, Callee)
      BY <1>1, <2>3, <3>1, <3>2, GatheredAll
    <3> QED
      BY <1>1, <3>3, GatheredGrows
  <2> QED
    BY <1>3, <2>1, <2>2, <2>4 DEF OrdersAreRight
<1>6. CASE Descend
  <2> DEFINE call == [id |-> Callee, next |-> 1, order |-> <<>>]
  <2>1. policies' = policies /\ memo' = memo /\ stack' = Append(stack, call)
    BY <1>6 DEF Descend
  <2>2. call.order = Gathered(policies, call.id, call.next - 1)
    BY <1>1, GatheredGrows
  <2> HIDE DEF call
  <2>3. \A f \in DOMAIN stack' : IF f = Len(stack) + 1 THEN stack'[f] = call
                                 ELSE f \in DOMAIN stack /\ stack'[f] = stack[f]
    BY <1>1, <2>1
  <2> QED
    BY <2>1, <2>2, <2>3 DEF OrdersAreRight
<1>7. CASE Return
  <2> DEFINE id == Top.id
             n == Len(stack)
             calls == SubSeq(stack, 1, n - 1)
             parents == ParentsOf(policies, id)
  <2>1. /\ policies' = policies /\ stack # <<>> /\ Top.next > Len(parents)
        /\ Memoise(id, Top.order) /\ Deliver(id, Top.order, calls)
    BY <1>7 DEF Return
  <2>2. /\ n \in DOMAIN stack /\ Top \in Frame /\ DOMAIN stack = 1..n /\ n \in Nat
        /\ parents \in Seq(PolicyId) /\ Top = stack[n]
    BY <2>1, TopOfStack DEF Top
  <2> HIDE DEF n
  <2>3. Top.next - 1 = Len(parents)
    <3>1. Top.next \in 1..(Len(parents) + 1)
      BY <1>1, <2>2 DEF IsPath
    <3> QED
      BY <2>1, <2>2, <3>1
  <2>4. /\ DOMAIN memo' = DOMAIN memo \cup {id} /\ memo'[id] = Top.order
        /\ \A i \in DOMAIN memo : i # id => memo'[i] = memo[i]
    BY <2>1 DEF Memoise
  <2>5. Settled(policies, DOMAIN memo')
    BY <1>1, <2>1 DEF MemoIsSound, Settled, ClosedUnderParents
  <2>6. Top.order = Preorder(policies, id)
    <3>1. Top.order = Gathered(policies, id, Len(parents))
      BY <2>2, <2>3 DEF OrdersAreRight
    <3>2. id \in DOMAIN memo'
      BY <2>4
    <3> QED
      BY <1>1, <2>5, <3>1, <3>2, GatheredAll
  <2>7. calls \in Seq(Frame) /\ Len(calls) = n - 1 /\ \A f \in DOMAIN calls : f \in 1..(n - 1) /\ calls[f] = stack[f]
    BY <1>1, <2>2
  <2> HIDE DEF calls
  <2>8. calls # <<>> =>
          /\ calls[Len(calls)].next \in DOMAIN ParentsOf(policies, calls[Len(calls)].id)
          /\ id = ParentsOf(policies, calls[Len(calls)].id)[calls[Len(calls)].next]
    <3> SUFFICES ASSUME calls # <<>>
                 PROVE  /\ calls[Len(calls)].next \in DOMAIN ParentsOf(policies, calls[Len(calls)].id)
                        /\ id = ParentsOf(policies, calls[Len(calls)].id)[calls[Len(calls)].next]
      OBVIOUS
    <3>1. n - 1 \in DOMAIN calls /\ n - 1 \in DOMAIN stack /\ n - 1 < n /\ n = (n - 1) + 1
      BY <2>2, <2>7
    <3>2. calls[n - 1] = stack[n - 1]
      BY <2>7, <3>1
    <3>3. /\ stack[n - 1].next \in DOMAIN ParentsOf(policies, stack[n - 1].id)
          /\ stack[n].id = ParentsOf(policies, stack[n - 1].id)[stack[n - 1].next]
      BY <1>1, <2>2, <3>1 DEF IsPath
    <3> QED
      BY <2>2, <2>7, <3>2, <3>3
  <2>9. \A f \in DOMAIN calls : calls[f].order = Gathered(policies, calls[f].id, calls[f].next - 1)
    BY <2>2, <2>7 DEF OrdersAreRight
  <2>10. Deliver(id, Top.order, calls)
    BY <2>1
  <2> HIDE DEF id, parents
  <2>11. \A f \in DOMAIN stack' :
           stack'[f].order = Gathered(policies, stack'[f].id, stack'[f].next - 1)
    BY <1>1, <2>6, <2>7, <2>8, <2>9, <2>10, DeliversInOrder
  <2> QED
    BY <2>1, <2>4, <2>6, <2>11 DEF OrdersAreRight
<1>8. CASE Circle \/ Missing \/ Finish
  BY <1>2, <1>8 DEF Circle, Missing, Finish
<1> QED
  BY <1>2, <1>4, <1>5, <1>6, <1>7, <1>8 DEF InheritNext, inheritVars

LEMMA OrdersInit == InheritInit => OrdersAreRight
BY DEF InheritInit, OrdersAreRight

LEMMA RightOrders ==
  ASSUME WalkIsSound, OrdersAreRight
  PROVE  InheritsInOrder
<1>1. \A i \in DOMAIN orders : policies[i].id \in DOMAIN memo /\ orders[i] = memo[policies[i].id]
  BY DEF WalkIsSound, LoopIsInOrder
<1> QED
  BY <1>1 DEF OrdersAreRight, InheritsInOrder

(* Memo, stack and early returns do not show in the result: for any list   *)
(* of policies the ancestors of each come in the order of the paths        *)
(* upward, written out, each at its first place.                           *)
THEOREM InheritsInOrderCorrect == InheritSpec => []InheritsInOrder
BY WalkInit, WalkStep, OrdersInit, OrdersStep, RightOrders, PTL DEF InheritSpec

-------------------------------------------------------------------------------
(* The runner's own merge order.                                           *)

(* What the runner finds for id, given what it finds above.                *)
Look(all, under, id, above) ==
  IF id \in under \/ id \notin Ids(all) THEN Unresolved
  ELSE LET parents == ParentsOf(all, id)
           below == [p \in DOMAIN parents |-> above[parents[p]]]
       IN  IF \E p \in DOMAIN parents : ~below[p].found THEN Unresolved
           ELSE [found |-> TRUE, order |-> JoinParents(parents, below)]

(* How far the recursion can still go. *)
Unwalked(all, under) == Cardinality(Ids(all) \ under)

LEMMA LeftShrinks ==
  ASSUME NEW all \in Requests, NEW under
  PROVE  /\ Cardinality(Ids(all)) \in Nat
         /\ Unwalked(all, under) \in 0..Cardinality(Ids(all))
         /\ \A id \in Ids(all) \ under : Unwalked(all, under \cup {id}) < Unwalked(all, under)
         /\ Unwalked(all, under) = 0 => Ids(all) \subseteq under
<1>1. IsFiniteSet(Ids(all)) /\ Cardinality(Ids(all)) \in Nat
  BY FewIds, FS_CardinalityType
<1>2. /\ IsFiniteSet(Ids(all) \ under) /\ Unwalked(all, under) \in Nat
      /\ Unwalked(all, under) <= Cardinality(Ids(all))
  <2>1. Ids(all) \ under \in SUBSET Ids(all)
    OBVIOUS
  <2> QED
    BY <1>1, <2>1, FS_Subset, FS_CardinalityType DEF Unwalked
<1>3. ASSUME NEW id \in Ids(all) \ under
      PROVE  Unwalked(all, under \cup {id}) < Unwalked(all, under)
  <2>1. Ids(all) \ (under \cup {id}) = (Ids(all) \ under) \ {id}
    OBVIOUS
  <2>2. Cardinality((Ids(all) \ under) \ {id}) = Cardinality(Ids(all) \ under) - 1
    BY <1>2, <1>3, FS_RemoveElement
  <2> QED
    BY <1>2, <2>1, <2>2 DEF Unwalked
<1>4. Unwalked(all, under) = 0 => Ids(all) \ under = {}
  BY <1>2, FS_EmptySet DEF Unwalked
<1> QED
  BY <1>1, <1>2, <1>3, <1>4

(* The recursion is sound up to the sets with at most n ids left. *)
LooksUp(all, n, table) ==
  /\ table = [under \in SUBSET PolicyId |-> table[under]]
  /\ \A under \in SUBSET PolicyId :
       Unwalked(all, under) <= n =>
         table[under] = [id \in PolicyId |-> Look(all, under, id, table[under \cup {id}])]

LEMMA TableExists ==
  ASSUME NEW all \in Requests, NEW N, N = Cardinality(Ids(all))
  PROVE  \E table : LooksUp(all, N, table)
<1> DEFINE Good == {n \in 0..N : \E table : LooksUp(all, n, table)}
<1>1. N \in Nat
  BY LeftShrinks
<1>2. \A under \in SUBSET PolicyId : Unwalked(all, under) \in 0..N
  BY LeftShrinks
<1>3. 0 \in Good
  <2> DEFINE table == [under \in SUBSET PolicyId |-> [id \in PolicyId |-> Unresolved]]
  <2>1. ASSUME NEW under \in SUBSET PolicyId, Unwalked(all, under) <= 0
        PROVE  table[under] = [id \in PolicyId |-> Look(all, under, id, table[under \cup {id}])]
    <3>1. Unwalked(all, under) = 0
      BY <1>2, <2>1
    <3>2. Ids(all) \subseteq under
      BY <3>1, LeftShrinks
    <3>3. \A id \in PolicyId : Look(all, under, id, table[under \cup {id}]) = Unresolved
      BY <3>2 DEF Look
    <3> QED
      BY <3>3
  <2>2. table = [under \in SUBSET PolicyId |-> table[under]]
    OBVIOUS
  <2> HIDE DEF table
  <2>3. LooksUp(all, 0, table)
    BY <2>1, <2>2 DEF LooksUp
  <2> QED
    BY <1>1, <2>3
<1>4. ASSUME NEW n \in 0..(N - 1), n \in Good
      PROVE  n + 1 \in Good
  <2>1. PICK table : LooksUp(all, n, table)
    BY <1>4
  <2> DEFINE row(under) == [id \in PolicyId |-> Look(all, under, id, table[under \cup {id}])]
             more == [under \in SUBSET PolicyId |->
                        IF Unwalked(all, under) = n + 1 THEN row(under) ELSE table[under]]
  <2>2. ASSUME NEW under \in SUBSET PolicyId, Unwalked(all, under) <= n + 1
        PROVE  more[under] = [id \in PolicyId |-> Look(all, under, id, more[under \cup {id}])]
    <3>1. Unwalked(all, under) = n + 1 \/ Unwalked(all, under) <= n
      BY <1>2, <2>2
    <3>2. more[under] = row(under)
      BY <2>1, <3>1 DEF LooksUp
    <3>3. ASSUME NEW id \in PolicyId
          PROVE  Look(all, under, id, table[under \cup {id}]) = Look(all, under, id, more[under \cup {id}])
      <4>1. CASE id \in under \/ id \notin Ids(all)
        BY <4>1 DEF Look
      <4>2. CASE id \in Ids(all) \ under
        <5>1. under \cup {id} \in SUBSET PolicyId
          OBVIOUS
        <5>2. Unwalked(all, under \cup {id}) < Unwalked(all, under)
          BY <4>2, LeftShrinks
        <5>3. Unwalked(all, under \cup {id}) # n + 1
          BY <1>2, <2>2, <5>1, <5>2
        <5>4. more[under \cup {id}] = table[under \cup {id}]
          BY <5>1, <5>3
        <5> QED
          BY <5>4
      <4> QED
        BY <4>1, <4>2
    <3> HIDE DEF more
    <3> QED
      BY <3>2, <3>3
  <2>3. more = [under \in SUBSET PolicyId |-> more[under]]
    OBVIOUS
  <2> HIDE DEF more
  <2>4. LooksUp(all, n + 1, more)
    BY <2>2, <2>3 DEF LooksUp
  <2>5. n + 1 \in 0..N
    BY <1>1
  <2> QED
    BY <2>4, <2>5
<1> HIDE DEF Good
<1>5. 0..N \subseteq Good
  BY <1>1, <1>3, <1>4, CountUp
<1>6. N \in Good
  BY <1>1, <1>5
<1> QED
  BY <1>6 DEF Good

(* The runner finds what looking up finds. *)
LEMMA AncestorOrderIs ==
  ASSUME NEW all \in Requests, NEW under \in SUBSET PolicyId, NEW id \in PolicyId
  PROVE  ancestor_order(all)[under][id] =
           Look(all, under, id, ancestor_order(all)[under \cup {id}])
<1> DEFINE Sound(table) ==
             table = [u \in SUBSET PolicyId |->
                        [i \in PolicyId |-> Look(all, u, i, table[u \cup {i}])]]
           found == CHOOSE table : Sound(table)
<1>1. \E table : Sound(table)
  <2>1. PICK table : LooksUp(all, Cardinality(Ids(all)), table)
    BY TableExists
  <2>2. \A u \in SUBSET PolicyId : Unwalked(all, u) <= Cardinality(Ids(all))
    BY LeftShrinks
  <2>3. \A u \in SUBSET PolicyId :
          table[u] = [i \in PolicyId |-> Look(all, u, i, table[u \cup {i}])]
    BY <2>1, <2>2 DEF LooksUp
  <2>4. Sound(table)
    BY <2>1, <2>3 DEF LooksUp
  <2> QED
    BY <2>4
<1>2. Sound(found)
  BY <1>1
<1>3. ancestor_order(all) = found
  BY DEF ancestor_order, Look
<1>4. Sound(ancestor_order(all))
  BY <1>2, <1>3
<1> DEFINE table == ancestor_order(all)
<1>5. table = [u \in SUBSET PolicyId |-> [i \in PolicyId |-> Look(all, u, i, table[u \cup {i}])]]
  BY <1>4
<1> HIDE DEF table
<1>6. table[under] = [i \in PolicyId |-> Look(all, under, i, table[under \cup {i}])]
  BY <1>5
<1>7. table[under][id] = Look(all, under, id, table[under \cup {id}])
  BY <1>6
<1> QED
  BY <1>7 DEF table

(* An id the runner finds is of the request, with all its ancestors, and   *)
(* none of them is it, or below it on the way.                             *)
LEMMA FoundIsSound ==
  ASSUME NEW all \in Requests, NEW under \in SUBSET PolicyId, NEW id \in PolicyId,
         ancestor_order(all)[under][id].found
  PROVE  /\ id \in Ids(all) \ under
         /\ Ancestors(all, id) \subseteq Ids(all) \ (under \cup {id})
<1> DEFINE N == Cardinality(Ids(all))
           o == ancestor_order(all)
           Sound(u, i) == /\ i \in Ids(all) \ u
                          /\ Ancestors(all, i) \subseteq Ids(all) \ (u \cup {i})
           Good == {n \in 0..N : \A u \in SUBSET PolicyId : Unwalked(all, u) <= n =>
                                   \A i \in PolicyId : o[u][i].found => Sound(u, i)}
<1>1. N \in Nat /\ \A u \in SUBSET PolicyId : Unwalked(all, u) \in 0..N
  BY LeftShrinks
<1>2. ASSUME NEW u \in SUBSET PolicyId, NEW i \in PolicyId, o[u][i].found
      PROVE  /\ i \in Ids(all) \ u
             /\ \A p \in DOMAIN ParentsOf(all, i) : o[u \cup {i}][ParentsOf(all, i)[p]].found
  <2>1. o[u][i] = Look(all, u, i, o[u \cup {i}])
    BY AncestorOrderIs
  <2> HIDE DEF o
  <2>2. Look(all, u, i, o[u \cup {i}]) # Unresolved
    BY <1>2, <2>1 DEF Unresolved
  <2> QED
    BY <2>2 DEF Look
<1> HIDE DEF o, N
<1>3. 0 \in Good
  <2>1. ASSUME NEW u \in SUBSET PolicyId, Unwalked(all, u) <= 0, NEW i \in PolicyId, o[u][i].found
        PROVE  FALSE
    <3>1. Unwalked(all, u) = 0
      BY <1>1, <2>1
    <3>2. Ids(all) \subseteq u
      BY <3>1, LeftShrinks
    <3> QED
      BY <1>2, <2>1, <3>2
  <2>2. 0 \in 0..N
    BY <1>1
  <2> HIDE DEF Sound
  <2> QED
    BY <2>1, <2>2
<1>4. ASSUME NEW n \in 0..(N - 1), n \in Good
      PROVE  n + 1 \in Good
  <2>1. n + 1 \in 0..N
    BY <1>1
  <2>2. ASSUME NEW u \in SUBSET PolicyId, Unwalked(all, u) <= n + 1, NEW i \in PolicyId, o[u][i].found
        PROVE  Sound(u, i)
    <3> DEFINE parents == ParentsOf(all, i)
               up == u \cup {i}
    <3>1. i \in Ids(all) \ u /\ \A p \in DOMAIN parents : o[up][parents[p]].found
      BY <1>2, <2>2
    <3>2. up \in SUBSET PolicyId /\ Unwalked(all, up) < Unwalked(all, u)
      BY <3>1, LeftShrinks
    <3>3. Unwalked(all, up) <= n
      BY <1>1, <2>2, <3>2
    <3>4. \A p \in DOMAIN parents : parents[p] \in PolicyId
      BY ParentsType
    <3> HIDE DEF up, parents, Sound
    <3>5. \A p \in DOMAIN parents : Sound(up, parents[p])
      BY <1>4, <3>1, <3>2, <3>3, <3>4
    <3>6. \A p \in DOMAIN parents :
            {parents[p]} \cup Ancestors(all, parents[p]) \subseteq Ids(all) \ up
      BY <3>5 DEF Sound
    <3>7. Ancestors(all, i) \subseteq Ids(all) \ up
      BY <3>6, AncestorsByParents DEF parents
    <3> QED
      BY <3>1, <3>7 DEF Sound, up
  <2> HIDE DEF Sound
  <2> QED
    BY <2>1, <2>2
<1> HIDE DEF Good
<1>5. 0..N \subseteq Good
  BY <1>1, <1>3, <1>4, CountUp
<1>6. N \in Good /\ Unwalked(all, under) <= N
  BY <1>1, <1>5
<1>7. Sound(under, id)
  BY <1>6 DEF Good, o
<1> QED
  BY <1>7

(* Joining what each parent brings in, once in order, is joining the paths *)
(* above each.                                                             *)
LEMMA JoinIsGathered ==
  ASSUME NEW list \in Requests, NEW K, Settled(list, K), NEW id \in K,
         NEW below,
         \A p \in DOMAIN ParentsOf(list, id) : below[p].order = Preorder(list, ParentsOf(list, id)[p])
  PROVE  JoinParents(ParentsOf(list, id), below) = Preorder(list, id)
<1> DEFINE parents == ParentsOf(list, id)
           N == Len(parents)
           orders_ == [q \in PolicyId |-> Preorder(list, q)]
           h == Above(list, id, orders_)
<1>1. parents \in Seq(PolicyId) /\ N \in Nat /\ DOMAIN parents = 1..N
  BY ParentsType
<1>2. orders_ \in [PolicyId -> Seq(PolicyId)]
  <2>1. \A q \in PolicyId : PathsUp(list)[q] \in Seq(PolicyId)
    BY PathsOfSettled
  <2>2. \A q \in PolicyId : Preorder(list, q) \in Seq(PolicyId)
    BY <2>1, FirstOccurrencesType DEF Preorder
  <2> QED
    BY <2>2
<1> HIDE DEF orders_
<1>3. h \in Seq(Seq(PolicyId)) /\ Len(h) = N
  BY <1>2, AboveType
<1>4. \A p \in DOMAIN parents : h[p] = <<parents[p]>> \o Preorder(list, parents[p])
  BY <1>1 DEF Above, orders_
<1>5. JoinParents(parents, below) = FirstOccurrences(FlattenSeq(h))
  <2>1. [p \in DOMAIN parents |-> <<parents[p]>> \o below[p].order] = h
    BY <1>1 DEF Above, orders_
  <2> QED
    BY <2>1 DEF JoinParents
<1> HIDE DEF h, parents
<1>6. /\ FlattenSeq(Prefix(h, 0)) = <<>>
      /\ \A n \in 0..(Len(h) - 1) : FlattenSeq(Prefix(h, n + 1)) = FlattenSeq(Prefix(h, n)) \o h[n + 1]
      /\ \A n \in 0..Len(h) : FlattenSeq(Prefix(h, n)) \in Seq(PolicyId)
  BY <1>3, FlattenPrefixes
<1> DEFINE Joint(n) == FlattenSeq(Prefix(h, n))
           Good == {n \in 0..N : FirstOccurrences(Joint(n)) = Gathered(list, id, n)}
<1>7. 0 \in Good
  BY <1>1, <1>6, NothingFirst, GatheredGrows
<1>8. ASSUME NEW n \in 0..(N - 1), n \in Good
      PROVE  n + 1 \in Good
  <2>1. /\ n + 1 \in 1..N /\ n + 1 \in 0..N /\ (n + 1) - 1 = n /\ n \in 0..(Len(h) - 1)
        /\ n \in 0..Len(h) /\ n + 1 \in DOMAIN parents /\ n + 1 \in DOMAIN h
    <3>1. n + 1 \in 1..N /\ n + 1 \in 0..N /\ (n + 1) - 1 = n
      BY <1>1
    <3>2. n \in 0..(Len(h) - 1) /\ n \in 0..Len(h)
      BY <1>1, <1>3
    <3>3. DOMAIN h = 1..N
      BY <1>3
    <3> QED
      BY <1>1, <3>1, <3>2, <3>3
  <2>2. Joint(n) \in Seq(PolicyId) /\ h[n + 1] \in Seq(PolicyId) /\ Joint(n + 1) = Joint(n) \o h[n + 1]
    BY <1>3, <1>6, <2>1
  <2>3. FirstOccurrences(Joint(n)) = Gathered(list, id, n)
    BY <1>8
  <2> HIDE DEF Joint
  <2>4. FirstOccurrences(Joint(n + 1)) = TakeOver(Gathered(list, id, n), h[n + 1])
    BY <2>2, <2>3, TakeOverJoins
  <2>5. TakeOver(Gathered(list, id, n), h[n + 1]) = Gathered(list, id, n + 1)
    <3>1. TakeOver(Gathered(list, id, (n + 1) - 1), <<parents[n + 1]>> \o Preorder(list, parents[n + 1]))
            = Gathered(list, id, n + 1)
      BY <2>1, GatheredGrows DEF parents
    <3> QED
      BY <1>4, <2>1, <3>1
  <2> QED
    BY <2>1, <2>4, <2>5
<1> HIDE DEF Good
<1>9. N \in Good
  <2>1. 0..N \subseteq Good
    BY <1>1, <1>7, <1>8, CountUp
  <2> QED
    BY <1>1, <2>1
<1>10. Prefix(h, Len(h)) = h
  BY <1>3, PrefixStep
<1>11. FirstOccurrences(FlattenSeq(h)) = Gathered(list, id, N)
  BY <1>3, <1>9, <1>10 DEF Good
<1>12. Gathered(list, id, N) = Preorder(list, id)
  BY GatheredAll DEF parents
<1> QED
  BY <1>5, <1>11, <1>12 DEF parents

(* Of a settled id, not met on the way, the runner finds the order.        *)
LEMMA SettledIsFound ==
  ASSUME NEW all \in Requests, NEW K, Settled(all, K), NEW id \in K
  PROVE  ancestor_order(all)[{}][id] = [found |-> TRUE, order |-> Preorder(all, id)]
<1> DEFINE N == Len(all)
           o == ancestor_order(all)
           c(i) == Cardinality(Ancestors(all, i))
           Apart(u, i) == i \notin u /\ \A a \in Ancestors(all, i) : a \notin u
           Answer(i) == [found |-> TRUE, order |-> Preorder(all, i)]
           Good == {n \in 0..N : \A i \in K : c(i) <= n =>
                      \A u \in SUBSET PolicyId : Apart(u, i) => o[u][i] = Answer(i)}
<1>1. N \in Nat
  BY FewIds
<1>2. K \subseteq PolicyId /\ K \subseteq Ids(all) /\ \A i \in K : i \notin Ancestors(all, i)
  BY IdsType DEF Settled
<1>3. \A i \in K : c(i) \in 0..(N - 1)
  BY FewerAbove
<1>4. \A i \in K : \A p \in DOMAIN ParentsOf(all, i) :
        ParentsOf(all, i)[p] \in K /\ c(ParentsOf(all, i)[p]) < c(i)
  BY FewerAbove
<1>5. \A u \in SUBSET PolicyId, i \in PolicyId : o[u][i] = Look(all, u, i, o[u \cup {i}])
  BY AncestorOrderIs
<1> HIDE DEF o, c, N
<1>6. ASSUME NEW i \in K, NEW u \in SUBSET PolicyId, Apart(u, i),
             \A p \in DOMAIN ParentsOf(all, i) :
               o[u \cup {i}][ParentsOf(all, i)[p]] = Answer(ParentsOf(all, i)[p])
      PROVE  o[u][i] = Answer(i)
  <2> DEFINE parents == ParentsOf(all, i)
             below == [p \in DOMAIN parents |-> o[u \cup {i}][parents[p]]]
  <2>1. \A p \in DOMAIN parents : below[p].found /\ below[p].order = Preorder(all, parents[p])
    <3> TAKE p \in DOMAIN parents
    <3>1. below[p] = Answer(parents[p])
      BY <1>6
    <3> HIDE DEF below
    <3> QED
      BY <3>1
  <2> HIDE DEF below
  <2>2. JoinParents(parents, below) = Preorder(all, i)
    BY <2>1, JoinIsGathered
  <2>3. o[u][i] = IF \E p \in DOMAIN parents : ~below[p].found THEN Unresolved
                  ELSE [found |-> TRUE, order |-> JoinParents(parents, below)]
    BY <1>2, <1>5, <1>6 DEF Look, below
  <2> QED
    BY <2>1, <2>2, <2>3
<1>7. ASSUME NEW i \in K, NEW u \in SUBSET PolicyId, Apart(u, i), NEW p \in DOMAIN ParentsOf(all, i)
      PROVE  /\ u \cup {i} \in SUBSET PolicyId
             /\ Apart(u \cup {i}, ParentsOf(all, i)[p])
  <2> DEFINE q == ParentsOf(all, i)[p]
  <2>1. q \in Ancestors(all, i) /\ Ancestors(all, q) \subseteq Ancestors(all, i)
    BY ParentIsAncestor, AncestorsByParents
  <2> HIDE DEF q
  <2>2. Apart(u \cup {i}, q)
    BY <1>2, <1>7, <2>1
  <2> QED
    BY <1>2, <2>2 DEF q
<1> HIDE DEF Apart, Answer
<1>8. 0 \in Good
  <2>1. ASSUME NEW i \in K, c(i) <= 0, NEW u \in SUBSET PolicyId, Apart(u, i)
        PROVE  o[u][i] = Answer(i)
    <3>1. \A p \in DOMAIN ParentsOf(all, i) : FALSE
      <4> SUFFICES ASSUME NEW p \in DOMAIN ParentsOf(all, i)
                   PROVE  FALSE
        OBVIOUS
      <4>1. c(ParentsOf(all, i)[p]) \in Nat /\ c(i) \in Nat /\ c(ParentsOf(all, i)[p]) < c(i)
        BY <1>1, <1>3, <1>4
      <4> QED
        BY <2>1, <4>1
    <3> QED
      BY <1>6, <2>1, <3>1
  <2> QED
    BY <1>1, <2>1
<1>9. ASSUME NEW n \in 0..(N - 1), n \in Good
      PROVE  n + 1 \in Good
  <2>1. ASSUME NEW i \in K, c(i) <= n + 1, NEW u \in SUBSET PolicyId, Apart(u, i)
        PROVE  o[u][i] = Answer(i)
    <3>1. ASSUME NEW p \in DOMAIN ParentsOf(all, i)
          PROVE  o[u \cup {i}][ParentsOf(all, i)[p]] = Answer(ParentsOf(all, i)[p])
      <4> DEFINE q == ParentsOf(all, i)[p]
      <4>1. q \in K /\ c(q) < c(i) /\ c(q) \in Nat /\ c(i) \in Nat
        BY <1>1, <1>3, <1>4
      <4>2. c(q) <= n
        BY <2>1, <4>1
      <4>3. u \cup {i} \in SUBSET PolicyId /\ Apart(u \cup {i}, q)
        BY <1>7, <2>1
      <4> HIDE DEF q
      <4>4. o[u \cup {i}][q] = Answer(q)
        BY <1>9, <4>1, <4>2, <4>3
      <4> QED
        BY <4>4 DEF q
    <3> QED
      BY <1>6, <2>1, <3>1
  <2>2. n + 1 \in 0..N
    BY <1>1
  <2> QED
    BY <2>1, <2>2
<1> HIDE DEF Good
<1>10. N \in Good
  <2>1. 0..N \subseteq Good
    BY <1>1, <1>8, <1>9, CountUp
  <2> QED
    BY <1>1, <2>1
<1>11. Apart({}, id) /\ {} \in SUBSET PolicyId /\ c(id) <= N
  BY <1>1, <1>3 DEF Apart
<1>12. o[{}][id] = Answer(id)
  BY <1>10, <1>11 DEF Good
<1> QED
  BY <1>12 DEF o, Answer

(* What the walk has delivered the runner finds, in the same order; what   *)
(* it refuses the runner cannot find for some policy.                      *)
LEMMA ShadowFollows ==
  ASSUME WalkIsSound, OrdersAreRight
  PROVE  ShadowAgrees
<1>1. policies \in Requests /\ MemoIsSound
  BY DEF WalkIsSound, InheritTypeOK
<1>2. ASSUME NEW i \in DOMAIN orders
      PROVE  LET shadow == merged_policy_ids(policies, policies[i].id) IN
             shadow.found /\ shadow.order = <<policies[i].id>> \o orders[i]
  <2> DEFINE id == policies[i].id
  <2>1. id \in DOMAIN memo /\ orders[i] = memo[id]
    BY DEF WalkIsSound, LoopIsInOrder
  <2>2. Settled(policies, DOMAIN memo)
    BY <1>1 DEF MemoIsSound, Settled, ClosedUnderParents
  <2>3. memo[id] = Preorder(policies, id)
    BY <2>1 DEF OrdersAreRight
  <2> HIDE DEF id
  <2>4. ancestor_order(policies)[{}][id] = [found |-> TRUE, order |-> Preorder(policies, id)]
    BY <1>1, <2>1, <2>2, SettledIsFound
  <2>5. /\ merged_policy_ids(policies, id).found
        /\ merged_policy_ids(policies, id).order = <<id>> \o orders[i]
    BY <2>1, <2>3, <2>4 DEF merged_policy_ids
  <2> QED
    BY <2>5 DEF id
<1>3. ASSUME status \in {"circular", "missing"}
      PROVE  \E i \in DOMAIN policies : ~merged_policy_ids(policies, policies[i].id).found
  <2> SUFFICES ASSUME \A i \in DOMAIN policies : merged_policy_ids(policies, policies[i].id).found
               PROVE  FALSE
    OBVIOUS
  <2>1. \A id \in Ids(policies) : ancestor_order(policies)[{}][id].found
    BY DEF Ids, merged_policy_ids
  <2>2. \A id \in Ids(policies) : Ancestors(policies, id) \subseteq Ids(policies) \ {id}
    <3> TAKE id \in Ids(policies)
    <3>1. id \in PolicyId /\ {} \in SUBSET PolicyId /\ ancestor_order(policies)[{}][id].found
      BY <1>1, <2>1, IdsType
    <3>2. Ancestors(policies, id) \subseteq Ids(policies) \ ({} \cup {id})
      BY <1>1, <3>1, FoundIsSound
    <3> QED
      BY <3>2
  <2>3. ~Circular(policies) /\ ~Dangling(policies)
    BY <2>2 DEF Circular, Dangling
  <2> QED
    BY <1>3, <2>3 DEF WalkIsSound
<1> QED
  BY <1>2, <1>3 DEF ShadowAgrees

(* The runner's recursion, which remembers nothing, and the engine's walk, *)
(* which remembers everything, agree on every policy of every request.     *)
THEOREM ShadowAgreesCorrect == InheritSpec => []ShadowAgrees
BY WalkInit, WalkStep, OrdersInit, OrdersStep, ShadowFollows, PTL DEF InheritSpec

-------------------------------------------------------------------------------
(* The policies stay the request's; Bookkeeping holds of what was done     *)
(* with them.                                                              *)
IInv == policies \in Requests /\ Bookkeeping

LEMMA DecideType ==
  ASSUME NEW p, NEW q
  PROVE  decide(p, q) \in {"allow", "deny", "error"}
BY DEF decide

LEMMA TurnType ==
  ASSUME IInv
  PROVE  /\ Turn \in Nat /\ Turn >= 1
         /\ Len(evaluations) \in Nat /\ Cardinality(skipped) \in Nat
BY FS_CardinalityType DEF IInv, Bookkeeping, Turn

(* Nothing is decided or skipped while the walk of Inherit still runs.     *)
LEMMA QuietWhileResolving ==
  ASSUME IInv, status # "resolved"
  PROVE  merged = <<>> /\ evaluations = <<>> /\ skipped = {}
BY DEF IInv, Bookkeeping

LEMMA ResolveChangesUnresolved ==
  ASSUME InheritNext
  PROVE  status = "resolving" /\ policies' = policies
BY DEF InheritNext, Recall, Circle, Missing, Root, Descend, Return, Finish, Calling

LEMMA InitEstablishes == Init => IInv
<1> SUFFICES ASSUME Init
             PROVE  IInv
  OBVIOUS
<1>1. evaluations = <<>> /\ skipped = {} /\ merged = <<>> /\ response = NoResponse
      /\ policies \in Requests
  BY DEF Init, InheritInit
<1>2. IsFiniteSet(skipped) /\ Cardinality(skipped) = 0
  BY <1>1, FS_EmptySet
<1>3. Turn = 1
  BY <1>1, <1>2 DEF Turn
<1>4. response.decision # "allow"
  BY <1>1 DEF NoResponse
<1> QED
  BY <1>1, <1>2, <1>3, <1>4 DEF IInv, Bookkeeping

(* A step that leaves the loop alone only has an Allow to account for.     *)
LEMMA OnlyTheResponse ==
  ASSUME IInv, UNCHANGED <<inheritVars, caller, merged, evaluations, skipped>>,
         response'.decision = "allow" =>
           /\ merged # <<>> /\ Turn \notin DOMAIN merged
           /\ Decisions = {"allow"}
           /\ response'.duties = ListedDuties
  PROVE  IInv'
<1>1. UNCHANGED <<policies, orders, status>>
  BY DEF inheritVars
<1>2. Turn' = Turn /\ Decisions' = Decisions
  BY DEF Turn, Decisions
<1>3. AllMerged' = AllMerged /\ \A i : DecidedPolicy(i)' = DecidedPolicy(i)
  BY <1>1 DEF AllMerged, DecidedPolicy
<1>4. ListedDuties' = ListedDuties
  BY <1>3 DEF ListedDuties, DutiesLeftBy
<1> QED
  BY <1>1, <1>2, <1>3, <1>4 DEF IInv, Bookkeeping

(* While the inheritance walk runs there is nothing else to keep.          *)
LEMMA ResolveKeeps ==
  ASSUME IInv, ResolveStep
  PROVE  IInv'
<1>1. status = "resolving" /\ policies' = policies
  BY ResolveChangesUnresolved DEF ResolveStep
<1>2. merged = <<>> /\ evaluations = <<>> /\ skipped = {}
  BY <1>1, QuietWhileResolving
<1>3. merged' = <<>> /\ evaluations' = <<>> /\ skipped' = {} /\ response' = response
  BY <1>2 DEF ResolveStep, evaluateVars
<1>4. response'.decision # "allow"
  BY <1>2, <1>3 DEF IInv, Bookkeeping
<1>5. IsFiniteSet(skipped') /\ Cardinality(skipped') = 0
  BY <1>3, FS_EmptySet
<1>6. Turn' = 1
  BY <1>3, <1>5 DEF Turn
<1> QED
  BY <1>1, <1>3, <1>4, <1>5, <1>6 DEF IInv, Bookkeeping

LEMMA MergeKeeps ==
  ASSUME IInv, Merge
  PROVE  IInv'
<1>1. UNCHANGED <<policies, orders, status>> /\ status = "resolved"
  BY DEF Merge, inheritVars
<1>2. merged = <<>> /\ evaluations = <<>> /\ skipped = {}
  BY DEF Merge, IInv, Bookkeeping
<1>3. evaluations' = <<>> /\ skipped' = {} /\ merged' = AllMerged /\ response' = response
  BY <1>2 DEF Merge
<1>4. response'.decision # "allow"
  BY <1>2, <1>3 DEF IInv, Bookkeeping
<1>5. AllMerged' = AllMerged
  BY <1>1 DEF AllMerged
<1>6. IsFiniteSet(skipped') /\ Cardinality(skipped') = 0
  BY <1>3, FS_EmptySet
<1>7. Turn' = 1
  BY <1>3, <1>6 DEF Turn
<1> QED
  BY <1>1, <1>3, <1>4, <1>5, <1>6, <1>7 DEF IInv, Bookkeeping

(* A policy skipped is one more looked at, addressed to somebody else.     *)
LEMMA SkipKeeps ==
  ASSUME IInv, Skip
  PROVE  IInv'
<1>1. /\ UNCHANGED <<policies, orders, status, caller, merged, evaluations, response>>
      /\ skipped' = skipped \cup {Turn}
      /\ party_role_mismatch(merged[Turn], caller)
      /\ Turn \in DOMAIN merged
      /\ response = NoResponse
  BY DEF Skip, inheritVars, Deciding, Pending
<1>2. Turn \in Nat /\ Turn >= 1 /\ Len(evaluations) \in Nat /\ Cardinality(skipped) \in Nat
  BY TurnType
<1>3. /\ evaluations \in Seq(Evaluation)
      /\ IsFiniteSet(skipped) /\ skipped \subseteq 1..(Turn - 1)
      /\ merged # <<>> => status = "resolved" /\ merged = AllMerged
      /\ merged = <<>> => evaluations = <<>> /\ skipped = {}
      /\ \A i \in skipped : party_role_mismatch(merged[i], caller)
      /\ \A k \in DOMAIN evaluations :
           evaluations[k].decision = decide(DecidedPolicy(evaluations[k].index), caller.ask)
      /\ \A i \in 1..(Turn - 1) \ skipped : \E k \in DOMAIN evaluations : evaluations[k].index = i
      /\ policies \in Requests
  BY DEF IInv, Bookkeeping
<1>4. Turn \notin skipped
  BY <1>2, <1>3
<1>5. IsFiniteSet(skipped') /\ Cardinality(skipped') = Cardinality(skipped) + 1
  BY <1>1, <1>3, <1>4, FS_AddElement
<1>6. Turn' = Turn + 1
  BY <1>1, <1>2, <1>5 DEF Turn
<1>7. skipped' \subseteq 1..(Turn' - 1)
  <2>1. Turn' - 1 = Turn
    BY <1>2, <1>6
  <2>2. \A i \in skipped : i \in 1..Turn
    BY <1>2, <1>3
  <2>3. Turn \in 1..Turn
    BY <1>2
  <2> QED
    BY <1>1, <2>1, <2>2, <2>3
<1>8. merged # <<>>
  BY <1>1
<1>9. AllMerged' = AllMerged
  BY <1>1 DEF AllMerged
<1>10. \A i \in skipped' : party_role_mismatch(merged'[i], caller')
  BY <1>1, <1>3
<1>11. \A i \in 1..(Turn' - 1) \ skipped' : \E k \in DOMAIN evaluations' : evaluations'[k].index = i
  BY <1>1, <1>2, <1>3, <1>6
<1>12. response'.decision # "allow"
  BY <1>1 DEF NoResponse
<1>13. \A k \in DOMAIN evaluations' :
         evaluations'[k].decision
           = decide(DecisionPolicy(policies', evaluations'[k].index, orders'[evaluations'[k].index]),
                    caller'.ask)
  BY <1>1, <1>3 DEF DecidedPolicy
<1> QED
  BY <1>1, <1>3, <1>5, <1>7, <1>8, <1>9, <1>10, <1>11, <1>12, <1>13 DEF IInv, Bookkeeping, DecidedPolicy

(* A policy decided is one more looked at, and decided for what it is.     *)
LEMMA DecidePolicyKeeps ==
  ASSUME IInv, DecidePolicy
  PROVE  IInv'
<1> DEFINE entry == [index |-> Turn, decision |-> decide(DecidedPolicy(Turn), caller.ask)]
<1>1. /\ UNCHANGED <<policies, orders, status, caller, merged, skipped, response>>
      /\ evaluations' = Append(evaluations, entry)
      /\ Turn \in DOMAIN merged
      /\ response = NoResponse
  BY DEF DecidePolicy, inheritVars, Deciding, Pending
<1>2. Turn \in Nat /\ Turn >= 1 /\ Len(evaluations) \in Nat /\ Cardinality(skipped) \in Nat
  BY TurnType
<1>3. /\ evaluations \in Seq(Evaluation)
      /\ IsFiniteSet(skipped) /\ skipped \subseteq 1..(Turn - 1)
      /\ merged # <<>> => status = "resolved" /\ merged = AllMerged
      /\ \A i \in skipped : party_role_mismatch(merged[i], caller)
      /\ \A k \in DOMAIN evaluations :
           evaluations[k].decision = decide(DecidedPolicy(evaluations[k].index), caller.ask)
      /\ \A i \in 1..(Turn - 1) \ skipped : \E k \in DOMAIN evaluations : evaluations[k].index = i
      /\ policies \in Requests
  BY DEF IInv, Bookkeeping
<1>4. entry \in Evaluation
  BY <1>2, DecideType DEF Evaluation
<1>5. entry.index = Turn /\ entry.decision = decide(DecidedPolicy(Turn), caller.ask)
  OBVIOUS
<1> HIDE DEF entry
<1>6. /\ evaluations' \in Seq(Evaluation) /\ Len(evaluations') = Len(evaluations) + 1
      /\ DOMAIN evaluations' = DOMAIN evaluations \cup {Len(evaluations) + 1}
      /\ \A k \in DOMAIN evaluations : evaluations'[k] = evaluations[k]
      /\ evaluations'[Len(evaluations) + 1] = entry
  BY <1>1, <1>2, <1>3, <1>4
<1>7. Turn' = Turn + 1
  BY <1>1, <1>2, <1>6 DEF Turn
<1>8. skipped' \subseteq 1..(Turn' - 1)
  BY <1>1, <1>2, <1>3, <1>7
<1>9. AllMerged' = AllMerged
  BY <1>1 DEF AllMerged
<1>10. \A k \in DOMAIN evaluations' :
         evaluations'[k].decision = decide(DecidedPolicy(evaluations'[k].index), caller.ask)
  BY <1>3, <1>5, <1>6
<1>11. \A i \in 1..(Turn' - 1) \ skipped' : \E k \in DOMAIN evaluations' : evaluations'[k].index = i
  <2> SUFFICES ASSUME NEW i \in 1..(Turn' - 1) \ skipped'
               PROVE  \E k \in DOMAIN evaluations' : evaluations'[k].index = i
    OBVIOUS
  <2>1. CASE i = Turn
    BY <1>5, <1>6, <2>1
  <2>2. CASE i # Turn
    <3>1. i \in 1..(Turn - 1) \ skipped
      BY <1>1, <1>2, <1>7, <2>2
    <3> QED
      BY <1>3, <1>6, <3>1
  <2> QED
    BY <2>1, <2>2
<1>12. response'.decision # "allow"
  BY <1>1 DEF NoResponse
<1>13. merged # <<>>
  BY <1>1
<1>14. \A k \in DOMAIN evaluations' :
         evaluations'[k].decision
           = decide(DecisionPolicy(policies', evaluations'[k].index, orders'[evaluations'[k].index]),
                    caller'.ask)
  BY <1>1, <1>10 DEF DecidedPolicy
<1> QED
  BY <1>1, <1>3, <1>6, <1>8, <1>9, <1>11, <1>12, <1>13, <1>14 DEF IInv, Bookkeeping, DecidedPolicy

(* The combined answer is an Allow only of Allows.                         *)
LEMMA CombineAllows ==
  ASSUME IInv, Combine(Decisions) = "allow"
  PROVE  Decisions = {"allow"}
<1>1. \A k \in DOMAIN evaluations : evaluations[k].decision \in {"allow", "deny", "error"}
  BY DecideType DEF IInv, Bookkeeping
<1>2. Decisions \subseteq {"allow", "deny", "error"}
  BY <1>1 DEF Decisions
<1>3. "error" \notin Decisions /\ "deny" \notin Decisions /\ Decisions # {}
  BY DEF Combine
<1> QED
  BY <1>2, <1>3

LEMMA RespondKeeps ==
  ASSUME IInv, Respond
  PROVE  IInv'
<1>1. /\ response' = [decision |-> Combine(Decisions),
                      duties |-> IF Combine(Decisions) = "error" THEN {} ELSE ListedDuties]
      /\ merged # <<>> /\ Turn \notin DOMAIN merged
      /\ UNCHANGED <<inheritVars, caller, merged, evaluations, skipped>>
  BY DEF Respond, Reply
<1>2. response'.decision = "allow" =>
        Decisions = {"allow"} /\ response'.duties = ListedDuties
  BY <1>1, CombineAllows
<1> QED
  BY <1>1, <1>2, OnlyTheResponse

(* Every step keeps the books.                                             *)
LEMMA StepKeeps == IInv /\ [Next]_vars => IInv'
<1> SUFFICES ASSUME IInv, [Next]_vars
             PROVE  IInv'
  OBVIOUS
<1>1. CASE DenyEmpty \/ RejectInheritance \/ RejectProfile
  <2>1. UNCHANGED <<inheritVars, caller, merged, evaluations, skipped>>
    BY <1>1 DEF DenyEmpty, RejectInheritance, RejectProfile
  <2>2. response'.decision # "allow"
    BY <1>1 DEF DenyEmpty, RejectInheritance, RejectProfile, Reply
  <2> QED
    BY <2>1, <2>2, OnlyTheResponse
<1>2. CASE UNCHANGED vars
  <2>1. UNCHANGED <<inheritVars, caller, merged, evaluations, skipped, response>>
    BY <1>2 DEF vars, evaluateVars
  <2>2. response.decision = "allow" =>
          /\ merged # <<>> /\ Turn \notin DOMAIN merged
          /\ Decisions = {"allow"}
          /\ response.duties = ListedDuties
    BY DEF IInv, Bookkeeping
  <2> QED
    BY <2>1, <2>2, OnlyTheResponse
<1> QED
  BY <1>1, <1>2, ResolveKeeps, MergeKeeps, SkipKeeps, DecidePolicyKeeps, RespondKeeps DEF Next

(* What the loop has done is on its books, from the first state on.        *)
THEOREM InvariantCorrect == Spec => []IInv
BY InitEstablishes, StepKeeps, PTL DEF Spec

(* The loop keeps its books in every behaviour.                            *)
THEOREM BookkeepingCorrect == Spec => []Bookkeeping
<1>1. IInv => Bookkeeping
  BY DEF IInv
<1> QED
  BY <1>1, InvariantCorrect, PTL

-------------------------------------------------------------------------------
(* An Allow was given by every policy addressed to the caller, and there   *)
(* was one.                                                                *)
THEOREM AllowIsUnanimousCorrect == Spec => []AllowIsUnanimous
<1>1. IInv => AllowIsUnanimous
  <2> SUFFICES ASSUME IInv, response.decision = "allow"
               PROVE  /\ evaluations # <<>>
                      /\ \A i \in DOMAIN policies :
                           \/ /\ i \in skipped
                              /\ party_role_mismatch(MergedPolicy(policies, i, orders[i]), caller)
                           \/ \E k \in DOMAIN evaluations :
                                /\ evaluations[k].index = i
                                /\ decide(DecidedPolicy(i), caller.ask) = "allow"
    BY DEF AllowIsUnanimous
  <2>1. /\ merged = AllMerged /\ Turn \notin DOMAIN merged
        /\ Decisions = {"allow"}
        /\ \A i \in skipped : party_role_mismatch(merged[i], caller)
        /\ \A k \in DOMAIN evaluations :
             evaluations[k].decision = decide(DecidedPolicy(evaluations[k].index), caller.ask)
        /\ \A i \in 1..(Turn - 1) \ skipped :
             \E k \in DOMAIN evaluations : evaluations[k].index = i
    BY DEF IInv, Bookkeeping
  <2>2. evaluations # <<>>
    BY <2>1 DEF Decisions
  <2>3. policies \in Seq(WirePolicy)
    BY EvaluateAssumption DEF IInv
  <2>4. DOMAIN merged = DOMAIN policies
    BY <2>1 DEF AllMerged
  <2>5. DOMAIN policies \subseteq 1..(Turn - 1)
    BY <2>1, <2>3, <2>4, TurnType
  <2>6. ASSUME NEW i \in DOMAIN policies, i \in skipped
        PROVE  party_role_mismatch(MergedPolicy(policies, i, orders[i]), caller)
    BY <2>1, <2>6 DEF AllMerged
  <2>7. ASSUME NEW i \in DOMAIN policies, i \notin skipped
        PROVE  \E k \in DOMAIN evaluations :
                 evaluations[k].index = i /\ decide(DecidedPolicy(i), caller.ask) = "allow"
    <3>1. PICK k \in DOMAIN evaluations : evaluations[k].index = i
      BY <2>1, <2>5, <2>7
    <3>2. evaluations[k].decision = "allow"
      BY <2>1, <3>1 DEF Decisions
    <3> QED
      BY <2>1, <3>1, <3>2
  <2> QED
    BY <2>2, <2>6, <2>7
<1> QED
  BY <1>1, InvariantCorrect, PTL

(* A policy that allows under duty_mode deny has no open obligation: there *)
(* is nothing to suppress.                                                 *)
LEMMA AllowedLeavesNoObligation ==
  ASSUME NEW p, NEW who, decide(p, who.ask) = "allow",
         NEW e \in unresolved_duties(p, who.ask)
  PROVE  ~Suppressed(e, who)
<1> SUFFICES ASSUME who.ask.config.dutyMode = "deny", e.attachment = "obligation"
             PROVE  FALSE
  BY DEF Suppressed, plain_policy_obligation
<1>1. ~obligation_forces_deny(p, who.ask) /\ ~unrecognized_action(p, who.ask.config)
  BY AllowNeedsGrant
<1>2. unresolved_obligations(p, who.ask.claims) = {}
  BY <1>1 DEF obligation_forces_deny, unresolved_obligations
<1>3. ASSUME e \in unresolved_permission_duties(p, who.ask)
      PROVE  e.attachment = "permission"
  BY <1>3 DEF unresolved_permission_duties, Entry
<1>4. ASSUME e \in unresolved_remedies(p, who.ask)
      PROVE  e.attachment = "prohibition"
  BY <1>4 DEF unresolved_remedies, Entry
<1>5. e \in unresolved_permission_duties(p, who.ask) \/ e \in unresolved_remedies(p, who.ask)
  BY <1>1, <1>2 DEF unresolved_duties
<1> QED
  BY <1>3, <1>4, <1>5

(* An Allow lists every duty left open by the policies decided.            *)
THEOREM AllowListsEveryDutyCorrect == Spec => []AllowListsEveryDuty
<1>1. IInv => AllowListsEveryDuty
  <2> SUFFICES ASSUME IInv, response.decision = "allow",
                      NEW k \in DOMAIN evaluations, NEW e \in DutiesLeftBy(evaluations[k].index)
               PROVE  <<evaluations[k].index, e>> \in response.duties
    BY DEF AllowListsEveryDuty
  <2>1. /\ Decisions = {"allow"} /\ response.duties = ListedDuties
        /\ evaluations[k].decision = decide(DecidedPolicy(evaluations[k].index), caller.ask)
    BY DEF IInv, Bookkeeping
  <2>2. decide(DecidedPolicy(evaluations[k].index), caller.ask) = "allow"
    BY <2>1 DEF Decisions
  <2>3. ~Suppressed(e, caller)
    BY <2>2, AllowedLeavesNoObligation DEF DutiesLeftBy
  <2>4. <<evaluations[k].index, e>> \in ListedDuties
    BY <2>3 DEF ListedDuties
  <2> QED
    BY <2>1, <2>4
<1> QED
  BY <1>1, InvariantCorrect, PTL

-------------------------------------------------------------------------------
(* The walk over inheritFrom is a part of the call: the proofs about it    *)
(* carry over step by step.                                                *)
LEMMA WalkStepInCall == WalkIsSound /\ [Next]_vars => WalkIsSound'
<1> SUFFICES ASSUME WalkIsSound, [Next]_vars
             PROVE  WalkIsSound'
  OBVIOUS
<1>1. InheritNext \/ UNCHANGED inheritVars
  BY DEF Next, ResolveStep, DenyEmpty, RejectInheritance, RejectProfile, Merge, Skip,
         DecidePolicy, Respond, vars
<1> QED
  BY <1>1, WalkStep

LEMMA OrdersStepInCall ==
  WalkIsSound /\ OrdersAreRight /\ [Next]_vars => OrdersAreRight'
<1> SUFFICES ASSUME WalkIsSound, OrdersAreRight, [Next]_vars
             PROVE  OrdersAreRight'
  OBVIOUS
<1>1. InheritNext \/ UNCHANGED inheritVars
  BY DEF Next, ResolveStep, DenyEmpty, RejectInheritance, RejectProfile, Merge, Skip,
         DecidePolicy, Respond, vars
<1> QED
  BY <1>1, WalkStepInCall, OrdersStep

(* Before the walk is done, and after it failed, nothing but an Error is   *)
(* said of a request that carries a policy.                                *)
AnsweredWhenResolved ==
  ~Pending /\ response.decision # "error" => policies = <<>> \/ status = "resolved"

LEMMA AnsweredWhenResolvedStep ==
  IInv /\ AnsweredWhenResolved /\ [Next]_vars => AnsweredWhenResolved'
<1> SUFFICES ASSUME IInv, AnsweredWhenResolved, [Next]_vars
             PROVE  AnsweredWhenResolved'
  OBVIOUS
<1> USE DEF AnsweredWhenResolved, Pending
<1>1. CASE DenyEmpty
  BY <1>1 DEF DenyEmpty, inheritVars
<1>2. CASE ResolveStep
  BY <1>2 DEF ResolveStep, evaluateVars
<1>3. CASE RejectInheritance \/ RejectProfile
  BY <1>3 DEF RejectInheritance, RejectProfile, Reply
<1>4. CASE Merge \/ Skip \/ DecidePolicy
  BY <1>4 DEF Merge, Skip, DecidePolicy, Deciding
<1>5. CASE Respond
  <2>1. merged # <<>> /\ status' = status
    BY <1>5 DEF Respond, inheritVars
  <2>2. status = "resolved"
    BY <2>1 DEF IInv, Bookkeeping
  <2> QED
    BY <2>1, <2>2
<1>6. CASE UNCHANGED vars
  BY <1>6 DEF vars, inheritVars, evaluateVars
<1> QED
  BY <1>1, <1>2, <1>3, <1>4, <1>5, <1>6 DEF Next

(* Inside a call, too, the walk rejects exactly the policy sets that have  *)
(* a cycle or a parent outside, and inherits from every ancestor once, in  *)
(* the order of the paths upward.                                          *)
THEOREM InheritanceInCallCorrect ==
  Spec => [](WalkIsSound /\ RejectsExactly /\ InheritsEachOnce /\ InheritsInOrder)
<1>1. Init => WalkIsSound /\ OrdersAreRight
  BY WalkInit, OrdersInit DEF Init
<1>2. WalkIsSound /\ OrdersAreRight => InheritsInOrder
  BY RightOrders
<1> QED
  BY <1>1, <1>2, WalkStepInCall, OrdersStepInCall, SoundRejectsExactly, PTL DEF Spec

(* A circular or dangling policy set is never decided, whatever the caller *)
(* and the configuration.                                                  *)
THEOREM MalformedIsRefusedCorrect == Spec => []MalformedIsRefused
<1>1. Init => AnsweredWhenResolved
  BY DEF Init, AnsweredWhenResolved, Pending
<1>2. IInv /\ AnsweredWhenResolved /\ RejectsExactly => MalformedIsRefused
  <2> SUFFICES ASSUME IInv, AnsweredWhenResolved, RejectsExactly,
                      Circular(policies) \/ Dangling(policies)
               PROVE  evaluations = <<>> /\ (Pending \/ response.decision = "error")
    BY DEF MalformedIsRefused
  <2>1. status # "resolved"
    BY DEF RejectsExactly
  <2>2. evaluations = <<>>
    BY <2>1, QuietWhileResolving
  <2>3. policies # <<>>
    BY DEF Circular, Dangling, Ids
  <2> QED
    BY <2>1, <2>2, <2>3 DEF AnsweredWhenResolved
<1> QED
  BY <1>1, <1>2, AnsweredWhenResolvedStep, InvariantCorrect, InheritanceInCallCorrect, PTL DEF Spec

-------------------------------------------------------------------------------
(* What a policy inherits keeps it a policy: the merge is a fold over the  *)
(* ancestors, unfolded as the one of the walk is.                          *)
Replicated(list, base, s, S, iter) ==
  iter = [t \in SUBSET S |->
            IF t = {} THEN base ELSE Replicate(iter[t \ {Max(t)}], ById(list, s[Max(t)]))]

LEMMA MergeExists ==
  ASSUME NEW list, NEW base, NEW s, NEW n \in Nat
  PROVE  \E iter : Replicated(list, base, s, 1..n, iter)
<1> DEFINE P(k) == \E iter : Replicated(list, base, s, 1..k, iter)
           Bad == {k \in Nat : ~P(k)}
<1>1. P(0)
  <2> DEFINE it == [t \in SUBSET (1..0) |-> base]
  <2>1. \A t \in SUBSET (1..0) : t = {}
    OBVIOUS
  <2>2. Replicated(list, base, s, 1..0, it)
    BY <2>1 DEF Replicated
  <2> QED
    BY <2>2
<1>2. ASSUME NEW k \in Nat, P(k)
      PROVE  P(k+1)
  <2>1. PICK it : Replicated(list, base, s, 1..k, it)
    BY <1>2
  <2> DEFINE more == ById(list, s[k+1])
             nx == [t \in SUBSET (1..(k+1)) |->
                      IF k + 1 \in t THEN Replicate(it[t \ {k+1}], more) ELSE it[t]]
  <2>2. ASSUME NEW t \in SUBSET (1..(k+1))
        PROVE  nx[t] = IF t = {} THEN base ELSE Replicate(nx[t \ {Max(t)}], ById(list, s[Max(t)]))
    <3>1. CASE k + 1 \in t
      <4>1. Max(t) = k + 1
        <5>0. k + 1 \in Nat /\ t # {}
          BY <3>1
        <5>1. Max(t) \in t /\ \A j \in t : j <= Max(t)
          BY <5>0, MaxUpTo, Zenon
        <5>2. Max(t) \in 1..(k+1)
          BY <5>1
        <5>3. Max(t) <= k + 1 /\ k + 1 <= Max(t)
          BY <5>1, <5>2, <3>1
        <5> QED
          BY <5>2, <5>3
      <4>2. t \ {k+1} \in SUBSET (1..(k+1)) /\ k + 1 \notin t \ {k+1}
        OBVIOUS
      <4>3. nx[t \ {k+1}] = it[t \ {k+1}]
        BY <4>2
      <4>4. nx[t] = Replicate(it[t \ {k+1}], more)
        BY <3>1
      <4> QED
        BY <3>1, <4>1, <4>3, <4>4
    <3>2. CASE k + 1 \notin t
      <4>1. t \in SUBSET (1..k)
        BY <3>2
      <4>2. nx[t] = it[t]
        BY <3>2
      <4>3. it[t] = IF t = {} THEN base ELSE Replicate(it[t \ {Max(t)}], ById(list, s[Max(t)]))
        BY <2>1, <4>1 DEF Replicated
      <4>4. t # {} => t \ {Max(t)} \in SUBSET (1..(k+1)) /\ k + 1 \notin t \ {Max(t)}
        BY <3>2
      <4>5. t # {} => nx[t \ {Max(t)}] = it[t \ {Max(t)}]
        BY <4>4
      <4> QED
        BY <4>2, <4>3, <4>5
    <3> QED
      BY <3>1, <3>2
  <2>3. nx = [t \in SUBSET (1..(k+1)) |-> nx[t]]
    OBVIOUS
  <2> HIDE DEF nx
  <2>4. Replicated(list, base, s, 1..(k+1), nx)
    BY <2>2, <2>3 DEF Replicated
  <2> QED
    BY <2>4
<1> HIDE DEF P
<1>3. CASE Bad # {}
  <2>1. Bad \in SUBSET Nat
    OBVIOUS
  <2>2. PICK k \in Bad : \A j \in Bad : k <= j
    BY <1>3, <2>1, LeastNat
  <2>3. k # 0
    BY <1>1
  <2>4. k - 1 \in Nat /\ k - 1 \notin Bad
    BY <2>2, <2>3
  <2>5. P((k - 1) + 1)
    BY <1>2, <2>4
  <2>6. (k - 1) + 1 = k
    BY <2>2
  <2> QED
    BY <2>5, <2>6
<1> QED
  BY <1>3 DEF P

LEMMA ReplicateType ==
  ASSUME NEW child \in WirePolicy, NEW ancestor \in WirePolicy
  PROVE  Replicate(child, ancestor) \in WirePolicy
<1>1. child.permissions \o ancestor.permissions \in Seq(Rule)
  BY DEF WirePolicy
<1>2. child.prohibitions \o ancestor.prohibitions \in Seq(Rule)
  BY DEF WirePolicy
<1>3. child.obligations \o ancestor.obligations \in Seq(Chain)
  BY DEF WirePolicy
<1>4. /\ (IF child.assignee = NoParty THEN ancestor.assignee ELSE child.assignee)
           \in Value \cup {NoParty}
      /\ child.profile \cup ancestor.profile \in SUBSET Profile
  BY DEF WirePolicy
<1> QED
  BY <1>1, <1>2, <1>3, <1>4 DEF Replicate, WirePolicy

(* Whatever set the policy is in, and replicating keeps it in, has it when *)
(* everything is replicated into it.                                       *)
LEMMA MergedStaysIn ==
  ASSUME NEW list, NEW i, NEW order \in Seq(PolicyId), NEW Good, list[i] \in Good,
         \A k \in DOMAIN order : \A child \in Good : Replicate(child, ById(list, order[k])) \in Good
  PROVE  MergedPolicy(list, i, order) \in Good
<1> DEFINE n == Len(order)
           base == list[i]
           it == CHOOSE iter : Replicated(list, base, order, 1..n, iter)
<1>1. n \in Nat /\ DOMAIN order = 1..n
  OBVIOUS
<1>2. Replicated(list, base, order, 1..n, it)
  BY <1>1, MergeExists
<1>3. MergedPolicy(list, i, order) = it[1..n]
  BY <1>1 DEF MergedPolicy, FoldLeft, MapThenFoldSet, Replicated
<1> DEFINE Fine == {k \in 0..n : it[1..k] \in Good}
<1>4. it[1..0] \in Good
  <2>1. it[{}] = base
    BY <1>2 DEF Replicated
  <2>2. 1..0 = {}
    OBVIOUS
  <2> QED
    BY <2>1, <2>2
<1>5. ASSUME NEW k \in 1..n, it[1..(k - 1)] \in Good
      PROVE  it[1..k] \in Good
  <2>1. 1..k \in SUBSET (1..n) /\ 1..k # {} /\ (1..k) \ {k} = 1..(k - 1)
    <3> HIDE DEF n
    <3> QED
      BY <1>1
  <2>2. Max(1..k) = k
    <3>1. Max(1..k) \in 1..k /\ \A j \in 1..k : j <= Max(1..k)
      <4>1. k \in Nat /\ 1..k \in SUBSET (1..k)
        OBVIOUS
      <4> QED
        BY <2>1, <4>1, MaxUpTo, Zenon
    <3> QED
      BY <3>1
  <2>3. it[1..k] = Replicate(it[1..(k - 1)], ById(list, order[k]))
    BY <1>2, <2>1, <2>2 DEF Replicated
  <2> QED
    BY <1>1, <1>5, <2>3
<1> HIDE DEF it, n
<1>6. \A k \in 0..(n - 1) : k \in Fine => k + 1 \in Fine
  <2> SUFFICES ASSUME NEW k \in 0..(n - 1), it[1..k] \in Good
               PROVE  it[1..(k + 1)] \in Good
    BY <1>1
  <2>1. k + 1 \in 1..n /\ (k + 1) - 1 = k
    BY <1>1
  <2> QED
    BY <1>5, <2>1
<1>7. 0 \in Fine
  BY <1>1, <1>4
<1> HIDE DEF Fine
<1>8. 0..n \subseteq Fine
  BY <1>1, <1>6, <1>7, CountUp
<1> QED
  BY <1>1, <1>3, <1>8 DEF Fine

LEMMA MergedPolicyType ==
  ASSUME NEW list, NEW i, list[i] \in WirePolicy, NEW order \in Seq(PolicyId),
         \A k \in DOMAIN order : ById(list, order[k]) \in WirePolicy
  PROVE  MergedPolicy(list, i, order) \in WirePolicy
BY MergedStaysIn, ReplicateType

LEMMA IdIsOfAPolicy ==
  ASSUME NEW list \in Seq(WirePolicy), NEW id \in Ids(list)
  PROVE  \E i \in DOMAIN list : ById(list, id) = list[i]
<1> DEFINE own == {i \in DOMAIN list : list[i].id = id}
<1>1. Len(list) \in Nat /\ DOMAIN list = 1..Len(list)
  OBVIOUS
<1>2. own \in SUBSET (1..Len(list)) /\ own # {}
  BY <1>1 DEF Ids
<1>3. \E i \in own : \A j \in own : j <= i
  BY <1>1, <1>2, LastOf, Zenon
<1>4. \E i \in DOMAIN list :
        list[i].id = id /\ \A j \in DOMAIN list : list[j].id = id => j <= i
  BY <1>3
<1> QED
  BY <1>4 DEF ById

(* Of a resolved request every policy that may be decided is a policy.     *)
LEMMA DecidedPolicyType ==
  ASSUME WalkIsSound, status = "resolved", policies \in Seq(WirePolicy), NEW i \in DOMAIN policies
  PROVE  DecidedPolicy(i) \in Policy
<1>1. /\ policies \in Requests /\ orders \in Seq(Seq(PolicyId))
      /\ ~Dangling(policies) /\ ListsOnce(orders[i], Ancestors(policies, policies[i].id))
      /\ Len(orders) = Len(policies)
  BY SoundRejectsExactly DEF RejectsExactly, InheritsEachOnce, WalkIsSound, InheritTypeOK
<1>2. orders[i] \in Seq(PolicyId) /\ policies[i] \in WirePolicy
  BY <1>1
<1>3. policies[i].id \in Ids(policies)
  BY DEF Ids
<1>4. ASSUME NEW k \in DOMAIN orders[i]
      PROVE  ById(policies, orders[i][k]) \in WirePolicy
  <2>1. orders[i][k] \in Ids(policies)
    BY <1>1, <1>3 DEF ListsOnce, Dangling
  <2> QED
    BY <2>1, IdIsOfAPolicy
<1>5. MergedPolicy(policies, i, orders[i]) \in WirePolicy
  BY <1>2, <1>4, MergedPolicyType
<1> QED
  BY <1>5 DEF DecidedPolicy, DecisionPolicy, WirePolicy, Policy

-------------------------------------------------------------------------------
(* How a request was answered: not at all, in refusal before any policy    *)
(* was decided, or by all that were.                                       *)
AnsweredBy ==
  \/ Pending
  \/ evaluations = <<>> /\ response.decision \in {"error", "deny"}
  \/ /\ response.decision = Combine(Decisions)
     /\ response.decision # "error" => response.duties = ListedDuties

(* The policies decided are of the request and addressed to the caller,    *)
(* and none is before its merge.                                           *)
AnswerInv ==
  /\ caller \in Callers
  /\ \A k \in DOMAIN evaluations :
       /\ evaluations[k].index \in DOMAIN merged
       /\ ~party_role_mismatch(merged[evaluations[k].index], caller)
  /\ merged # <<>> => ~unrecognised_profile(AllMerged, caller)
  /\ AnsweredBy

(* While the loop is where it was, only the response is new.               *)
LEMMA OnlyTheAnswer ==
  ASSUME IInv, AnswerInv, UNCHANGED <<inheritVars, caller, merged, evaluations, skipped>>,
         \/ response' = response
         \/ evaluations = <<>> /\ response'.decision \in {"error", "deny"}
         \/ /\ response'.decision = Combine(Decisions)
            /\ response'.decision # "error" => response'.duties = ListedDuties
  PROVE  AnswerInv'
<1>1. UNCHANGED <<policies, orders, status>>
  BY DEF inheritVars
<1>2. Decisions' = Decisions
  BY DEF Decisions
<1>3. AllMerged' = AllMerged /\ \A i : DecidedPolicy(i)' = DecidedPolicy(i)
  BY <1>1 DEF AllMerged, DecidedPolicy
<1>4. ListedDuties' = ListedDuties
  BY <1>3 DEF ListedDuties, DutiesLeftBy
<1>5. AnsweredBy'
  BY <1>2, <1>4 DEF AnswerInv, AnsweredBy, Pending
<1> QED
  BY <1>3, <1>5 DEF AnswerInv

LEMMA AnswerStep == IInv /\ AnswerInv /\ [Next]_vars => AnswerInv'
<1> SUFFICES ASSUME IInv, AnswerInv, [Next]_vars
             PROVE  AnswerInv'
  OBVIOUS
<1>1. CASE DenyEmpty
  <2>1. merged = <<>>
    BY <1>1 DEF DenyEmpty, IInv, Bookkeeping, AllMerged
  <2>2. evaluations = <<>>
    BY <2>1 DEF IInv, Bookkeeping
  <2>3. response'.decision = "deny"
    BY <1>1 DEF DenyEmpty, Reply
  <2> QED
    BY <1>1, <2>2, <2>3, OnlyTheAnswer DEF DenyEmpty
<1>2. CASE ResolveStep
  <2>1. status = "resolving" /\ policies' = policies
    BY <1>2, ResolveChangesUnresolved DEF ResolveStep
  <2>2. merged = <<>> /\ evaluations = <<>> /\ Pending
    BY <1>2, <2>1, QuietWhileResolving DEF ResolveStep
  <2>3. merged' = <<>> /\ evaluations' = <<>> /\ response' = response /\ caller' = caller
    BY <1>2, <2>2 DEF ResolveStep, evaluateVars
  <2> QED
    BY <2>2, <2>3 DEF AnswerInv, AnsweredBy, Pending
<1>3. CASE RejectInheritance
  <2>1. evaluations = <<>>
    BY <1>3, QuietWhileResolving DEF RejectInheritance
  <2>2. response'.decision = "error"
    BY <1>3 DEF RejectInheritance, Reply
  <2> QED
    BY <1>3, <2>1, <2>2, OnlyTheAnswer DEF RejectInheritance
<1>4. CASE RejectProfile
  <2>1. merged = <<>>
    BY <1>4 DEF RejectProfile, AnswerInv
  <2>2. evaluations = <<>>
    BY <2>1 DEF IInv, Bookkeeping
  <2>3. response'.decision = "error"
    BY <1>4 DEF RejectProfile, Reply
  <2> QED
    BY <1>4, <2>2, <2>3, OnlyTheAnswer DEF RejectProfile
<1>5. CASE Merge
  <2>1. evaluations = <<>> /\ Pending /\ ~unrecognised_profile(AllMerged, caller)
    BY <1>5 DEF Merge, IInv, Bookkeeping
  <2>2. evaluations' = <<>> /\ response' = response /\ caller' = caller
    BY <1>5, <2>1 DEF Merge
  <2>3. AllMerged' = AllMerged
    BY <1>5 DEF Merge, inheritVars, AllMerged
  <2> QED
    BY <2>1, <2>2, <2>3 DEF AnswerInv, AnsweredBy, Pending
<1>6. CASE Skip
  <2>1. UNCHANGED <<policies, orders, caller, merged, evaluations, response>> /\ Pending
    BY <1>6 DEF Skip, Deciding, inheritVars
  <2>2. AllMerged' = AllMerged
    BY <2>1 DEF AllMerged
  <2> QED
    BY <2>1, <2>2 DEF AnswerInv, AnsweredBy, Pending
<1>7. CASE DecidePolicy
  <2>1. UNCHANGED <<policies, orders, caller, merged, response>> /\ Pending
        /\ Turn \in DOMAIN merged /\ ~party_role_mismatch(merged[Turn], caller)
    BY <1>7 DEF DecidePolicy, Deciding, inheritVars
  <2>2. AllMerged' = AllMerged
    BY <2>1 DEF AllMerged
  <2> DEFINE e == [index |-> Turn, decision |-> decide(DecidedPolicy(Turn), caller.ask)]
  <2>3. evaluations' = Append(evaluations, e) /\ evaluations \in Seq(Evaluation)
    BY <1>7 DEF DecidePolicy, IInv, Bookkeeping
  <2>4. e.index \in DOMAIN merged /\ ~party_role_mismatch(merged[e.index], caller)
    BY <2>1
  <2> HIDE DEF e
  <2>5. \A k \in DOMAIN evaluations' :
          \/ evaluations'[k] = e
          \/ k \in DOMAIN evaluations /\ evaluations'[k] = evaluations[k]
    BY <2>3
  <2>6. \A k \in DOMAIN evaluations' :
          /\ evaluations'[k].index \in DOMAIN merged
          /\ ~party_role_mismatch(merged[evaluations'[k].index], caller)
    BY <2>4, <2>5 DEF AnswerInv
  <2> QED
    BY <2>1, <2>2, <2>6 DEF AnswerInv, AnsweredBy, Pending
<1>8. CASE Respond
  <2>1. /\ response'.decision = Combine(Decisions)
        /\ response'.decision # "error" => response'.duties = ListedDuties
    BY <1>8 DEF Respond, Reply
  <2> QED
    BY <1>8, <2>1, OnlyTheAnswer DEF Respond
<1>9. CASE UNCHANGED vars
  BY <1>9, OnlyTheAnswer DEF vars, evaluateVars
<1> QED
  BY <1>1, <1>2, <1>3, <1>4, <1>5, <1>6, <1>7, <1>8, <1>9 DEF Next

LEMMA AnswerInit == Init => AnswerInv
BY DEF Init, AnswerInv, AnsweredBy, Pending

(* Reading the reports policy by policy pins no decision but the combined  *)
(* one: V is what is read of the policies, D what was decided of them.     *)
LEMMA VerdictsCombine ==
  ASSUME NEW V, NEW D, D # {}, D \subseteq {"allow", "deny"},
         \A v \in V : v = "indeterminate" \/ v \in D,
         \A d \in D : d \in V \/ "indeterminate" \in V
  PROVE  expected_decision(V) \in {"not stated", Combine(D)}
<1>1. "error" \notin D
  OBVIOUS
<1>2. CASE "deny" \in V
  <2>1. "deny" \in D
    BY <1>2
  <2> QED
    BY <1>1, <1>2, <2>1 DEF expected_decision, Combine
<1>3. CASE "deny" \notin V /\ V \subseteq {"allow"}
  <2>1. "indeterminate" \notin V
    BY <1>3
  <2>2. "deny" \notin D
    BY <1>3, <2>1
  <2> QED
    BY <1>1, <1>3, <2>2 DEF expected_decision, Combine
<1>4. CASE "deny" \notin V /\ ~(V \subseteq {"allow"})
  BY <1>4 DEF expected_decision
<1> QED
  BY <1>2, <1>3, <1>4

(* What the compliance runner infers from the detailed evaluation is the   *)
(* answer, for any number of policies, and an Error has its cause there.   *)
THEOREM RequestForetoldCorrect == Spec => []RequestForetold
<1>1. Init => AnswerInv /\ WalkIsSound
  BY AnswerInit, WalkInit DEF Init
<1>2. IInv /\ AnswerInv /\ WalkIsSound => RequestForetold
  <2> SUFFICES ASSUME IInv, AnswerInv, WalkIsSound, ~Pending
               PROVE  RequestForetold
    BY DEF RequestForetold
  <2> DEFINE all == detailed.policyReports
             Reports(k) == all[k].ruleReports
             config == caller.ask.config
  <2>1. /\ DOMAIN all = DOMAIN evaluations
        /\ detailed.skippedPolicies = skipped
        /\ \A k \in DOMAIN evaluations :
             /\ all[k].policy = evaluations[k].index
             /\ all[k].evaluationError = (evaluations[k].decision = "error")
             /\ evaluations[k].decision # "error" =>
                  Reports(k) = derive_detailed_rule_reports(DecidedPolicy(evaluations[k].index), caller.ask)
    BY DEF detailed
  <2>2. /\ evaluations \in Seq(Evaluation)
        /\ \A k \in DOMAIN evaluations :
             evaluations[k].decision = decide(DecidedPolicy(evaluations[k].index), caller.ask)
        /\ merged # <<>> => status = "resolved" /\ merged = AllMerged
        /\ merged = <<>> => evaluations = <<>>
    BY DEF IInv, Bookkeeping
  <2>3. policies \in Seq(WirePolicy) /\ caller \in Caller
    BY EvaluateAssumption DEF IInv, AnswerInv
  <2>4. config.dutyMode \in {"advise", "deny"}
    BY <2>3 DEF Caller, Ask, Config
  <2>5. all = <<>> <=> evaluations = <<>>
    <3>1. all = [k \in DOMAIN evaluations |-> all[k]]
      BY DEF detailed
    <3> HIDE DEF all
    <3> QED
      BY <2>1, <2>2, <3>1
  <2> HIDE DEF all
  <2>6. ASSUME response.decision = "error"
        PROVE  all = <<>> \/ \E k \in DOMAIN all : all[k].evaluationError
    <3>1. CASE evaluations = <<>>
      BY <2>5, <3>1
    <3>2. CASE evaluations # <<>>
      <4>1. Combine(Decisions) = "error"
        BY <2>6, <3>2 DEF AnswerInv, AnsweredBy
      <4>2. "error" \in Decisions
        BY <4>1 DEF Combine
      <4>3. PICK k \in DOMAIN evaluations : evaluations[k].decision = "error"
        BY <4>2 DEF Decisions
      <4> QED
        BY <2>1, <4>3
    <3> QED
      BY <3>1, <3>2
  <2>7. ASSUME response.decision # "error", all # <<>>,
               \A k \in DOMAIN all : EveryChainWalked(Reports(k))
        PROVE  /\ expected_decision({policy_verdict(Reports(k), config) : k \in DOMAIN all})
                    \in {"not stated", response.decision}
               /\ \A k \in DOMAIN all :
                    DutiesCrossCheck(Reports(k), config,
                      {e \in DutiesLeftBy(all[k].policy) : <<all[k].policy, e>> \in response.duties})
    <3>1. evaluations # <<>> /\ merged # <<>>
      BY <2>2, <2>5, <2>7
    <3>2. status = "resolved" /\ merged = AllMerged
      BY <2>2, <3>1
    <3>3. response.decision = Combine(Decisions) /\ response.duties = ListedDuties
      BY <2>7, <3>1 DEF AnswerInv, AnsweredBy
    <3>4. "error" \notin Decisions
      BY <2>7, <3>3 DEF Combine
    <3>5. ASSUME NEW k \in DOMAIN evaluations
          PROVE  /\ DecidedPolicy(evaluations[k].index) \in Policy
                 /\ evaluations[k].decision \in {"allow", "deny"}
                 /\ decide(DecidedPolicy(evaluations[k].index), caller.ask) # "error"
                 /\ Reports(k) = derive_detailed_rule_reports(DecidedPolicy(evaluations[k].index), caller.ask)
      <4>1. evaluations[k].index \in DOMAIN policies
        BY <3>2 DEF AnswerInv, AllMerged
      <4>2. DecidedPolicy(evaluations[k].index) \in Policy
        BY <2>3, <3>2, <4>1, DecidedPolicyType
      <4>3. evaluations[k].decision # "error"
        BY <3>4 DEF Decisions
      <4>4. evaluations[k].decision = decide(DecidedPolicy(evaluations[k].index), caller.ask)
        BY <2>2
      <4>5. evaluations[k].decision \in {"allow", "deny"}
        BY <4>3, <4>4, DecideType
      <4> QED
        BY <2>1, <4>2, <4>3, <4>4, <4>5
    <3> DEFINE S == DOMAIN evaluations
               verdict == [k \in S |-> policy_verdict(Reports(k), config)]
               decided == [k \in S |-> evaluations[k].decision]
    <3>6. S # {}
      BY <2>2, <3>1
    <3>7. ASSUME NEW k \in S
          PROVE  verdict[k] \in {"indeterminate", decided[k]}
      <4> DEFINE reports == Reports(k)
                 p == DecidedPolicy(evaluations[k].index)
      <4>1. /\ p \in Policy /\ decide(p, caller.ask) # "error"
            /\ reports = derive_detailed_rule_reports(p, caller.ask)
            /\ EveryChainWalked(reports) /\ caller.ask.config.dutyMode \in {"advise", "deny"}
        BY <2>1, <2>4, <2>7, <3>5
      <4>2. verdict[k] = policy_verdict(reports, caller.ask.config) /\ decided[k] = decide(p, caller.ask)
        BY <2>2
      <4> HIDE DEF reports, p, verdict, decided
      <4>3. policy_verdict(reports, caller.ask.config) \in {"indeterminate", decide(p, caller.ask)}
        BY <4>1, VerdictForetells
      <4> QED
        BY <4>2, <4>3
    <3>8. \A k \in S : decided[k] \in {"allow", "deny"}
      BY <3>5
    <3>9. {policy_verdict(Reports(k), config) : k \in DOMAIN all} = {verdict[k] : k \in S}
          /\ Decisions = {decided[k] : k \in S}
      BY <2>1 DEF Decisions
    <3>10. ASSUME NEW k \in S
           PROVE  DutiesCrossCheck(Reports(k), config,
                    {e \in DutiesLeftBy(all[k].policy) : <<all[k].policy, e>> \in response.duties})
      <4> DEFINE reports == Reports(k)
                 p == DecidedPolicy(evaluations[k].index)
                 listed == {e \in unresolved_duties(p, caller.ask) :
                              ~(caller.ask.config.dutyMode = "deny" /\ plain_policy_obligation(e))}
      <4>1. /\ p \in Policy /\ ~unrecognized_action(p, caller.ask.config)
            /\ reports = derive_detailed_rule_reports(p, caller.ask)
            /\ EveryChainWalked(reports)
        BY <2>1, <2>7, <3>5, ErrorIffUnrecognized
      <4>2. all[k].policy = evaluations[k].index
        BY <2>1
      <4>3. ASSUME NEW e \in DutiesLeftBy(evaluations[k].index)
            PROVE  <<evaluations[k].index, e>> \in ListedDuties <=> ~Suppressed(e, caller)
        BY DEF ListedDuties
      <4>4. {e \in DutiesLeftBy(all[k].policy) : <<all[k].policy, e>> \in response.duties} = listed
        BY <3>3, <4>2, <4>3 DEF Suppressed, DutiesLeftBy
      <4> HIDE DEF reports, p, listed
      <4>5. listed = {e \in unresolved_duties(p, caller.ask) :
                        ~(caller.ask.config.dutyMode = "deny" /\ plain_policy_obligation(e))}
        BY DEF listed
      <4>6. DutiesCrossCheck(reports, caller.ask.config, listed)
        BY <4>1, <4>5, DutiesForetold
      <4> QED
        BY <4>4, <4>6 DEF reports
    <3> DEFINE V == {verdict[k] : k \in S}
               D == {decided[k] : k \in S}
    <3>11. /\ D # {} /\ D \subseteq {"allow", "deny"}
           /\ \A v \in V : v = "indeterminate" \/ v \in D
           /\ \A d \in D : d \in V \/ "indeterminate" \in V
      <4>1. \A k \in S : verdict[k] \in {"indeterminate", decided[k]}
        BY <3>7
      <4> HIDE DEF verdict, decided, S
      <4> QED
        BY <3>6, <3>8, <4>1
    <3> HIDE DEF verdict, decided, S, V, D
    <3>12. expected_decision(V) \in {"not stated", Combine(D)}
      BY <3>11, VerdictsCombine
    <3> QED
      BY <2>1, <3>3, <3>9, <3>10, <3>12 DEF S, V, D
  <2> QED
    BY <2>6, <2>7 DEF RequestForetold, all
<1> QED
  BY <1>1, <1>2, AnswerStep, WalkStepInCall, InvariantCorrect, PTL DEF Spec

-------------------------------------------------------------------------------
(* When the walk is done every policy has the order it is owed.            *)
LEMMA ResolvedOrders ==
  ASSUME WalkIsSound, OrdersAreRight, status = "resolved", policies \in Seq(WirePolicy)
  PROVE  \A i \in DOMAIN policies : orders[i] = OrderOf(policies, i)
<1>1. orders \in Seq(Seq(PolicyId)) /\ Len(orders) = Len(policies)
  BY DEF WalkIsSound, InheritTypeOK
<1>2. DOMAIN orders = DOMAIN policies
  BY <1>1
<1> QED
  BY <1>2, RightOrders DEF InheritsInOrder, OrderOf

(* The policies of a resolved request are merged with what they are owed.  *)
LEMMA MergedWithTheirOwn ==
  ASSUME WalkIsSound, OrdersAreRight, status = "resolved", policies \in Seq(WirePolicy)
  PROVE  /\ AllMerged = [i \in DOMAIN policies |-> MergedPolicy(policies, i, OrderOf(policies, i))]
         /\ \A i \in DOMAIN policies :
              DecidedPolicy(i) = DecisionPolicy(policies, i, OrderOf(policies, i))
<1>1. \A i \in DOMAIN policies : orders[i] = OrderOf(policies, i)
  BY ResolvedOrders
<1> QED
  BY <1>1 DEF AllMerged, DecidedPolicy

(* Once the loop has passed every policy, those addressed to the caller    *)
(* are the ones decided.                                                   *)
LEMMA AllApplicableDecided ==
  ASSUME IInv, AnswerInv, WalkIsSound, OrdersAreRight,
         merged # <<>>, Turn \notin DOMAIN merged
  PROVE  /\ \A k \in DOMAIN evaluations : evaluations[k].index \in Applicable(policies, caller)
         /\ \A i \in Applicable(policies, caller) : \E k \in DOMAIN evaluations : evaluations[k].index = i
         /\ \A k \in DOMAIN evaluations :
              LET i == evaluations[k].index IN
              /\ evaluations[k].decision = decide(DecisionPolicy(policies, i, OrderOf(policies, i)), caller.ask)
              /\ DecidedPolicy(i) = DecisionPolicy(policies, i, OrderOf(policies, i))
<1>1. /\ status = "resolved" /\ merged = AllMerged
      /\ \A i \in skipped : party_role_mismatch(merged[i], caller)
      /\ \A k \in DOMAIN evaluations :
           evaluations[k].decision = decide(DecidedPolicy(evaluations[k].index), caller.ask)
      /\ \A i \in 1..(Turn - 1) \ skipped : \E k \in DOMAIN evaluations : evaluations[k].index = i
  BY DEF IInv, Bookkeeping
<1>2. policies \in Seq(WirePolicy)
  BY EvaluateAssumption DEF IInv
<1>3. DOMAIN merged = DOMAIN policies
  BY <1>1 DEF AllMerged
<1>4. DOMAIN policies \subseteq 1..(Turn - 1)
  BY <1>2, <1>3, TurnType
<1>5. /\ merged = [i \in DOMAIN policies |-> MergedPolicy(policies, i, OrderOf(policies, i))]
      /\ \A i \in DOMAIN policies :
           DecidedPolicy(i) = DecisionPolicy(policies, i, OrderOf(policies, i))
  BY <1>1, <1>2, MergedWithTheirOwn
<1>6. \A i \in DOMAIN policies : merged[i] = MergedPolicy(policies, i, OrderOf(policies, i))
  BY <1>5
<1>7. \A k \in DOMAIN evaluations :
        /\ evaluations[k].index \in DOMAIN policies
        /\ ~party_role_mismatch(merged[evaluations[k].index], caller)
  BY <1>3 DEF AnswerInv
<1>8. \A i \in Applicable(policies, caller) : i \in 1..(Turn - 1) \ skipped
  BY <1>1, <1>4, <1>6 DEF Applicable
<1> QED
  BY <1>1, <1>5, <1>6, <1>7, <1>8 DEF Applicable

(* What Respond combines is what the policy set calls for.                 *)
LEMMA CombinesTheJudgement ==
  ASSUME IInv, AnswerInv, WalkIsSound, OrdersAreRight,
         merged # <<>>, Turn \notin DOMAIN merged
  PROVE  /\ Combine(Decisions) = Judgement(policies, caller)
         /\ ListedDuties = OpenDuties(policies, caller)
<1> DEFINE owed(i) == DecisionPolicy(policies, i, OrderOf(policies, i))
<1>1. /\ \A k \in DOMAIN evaluations : evaluations[k].index \in Applicable(policies, caller)
      /\ \A i \in Applicable(policies, caller) : \E k \in DOMAIN evaluations : evaluations[k].index = i
      /\ \A k \in DOMAIN evaluations :
           /\ evaluations[k].decision = decide(owed(evaluations[k].index), caller.ask)
           /\ DecidedPolicy(evaluations[k].index) = owed(evaluations[k].index)
  BY AllApplicableDecided
<1> HIDE DEF owed
<1>2. Decisions = {decide(owed(i), caller.ask) : i \in Applicable(policies, caller)}
  BY <1>1 DEF Decisions
<1>3. \A k \in DOMAIN evaluations :
        DutiesLeftBy(evaluations[k].index) = unresolved_duties(owed(evaluations[k].index), caller.ask)
  BY <1>1 DEF DutiesLeftBy
<1> DEFINE Left(i) == {<<i, e>> : e \in {e \in unresolved_duties(owed(i), caller.ask) : ~Suppressed(e, caller)}}
<1>4. ListedDuties = UNION {Left(evaluations[k].index) : k \in DOMAIN evaluations}
  BY <1>3 DEF ListedDuties
<1>5. OpenDuties(policies, caller) = UNION {Left(i) : i \in Applicable(policies, caller)}
  BY DEF OpenDuties, owed
<1> HIDE DEF Left
<1>6. ListedDuties = OpenDuties(policies, caller)
  BY <1>1, <1>4, <1>5
<1> QED
  BY <1>2, <1>6 DEF Judgement, owed

(* Whoever answers gives the answer the request calls for.                 *)
LEMMA AnswersAsOwed ==
  ASSUME IInv, AnswerInv, WalkIsSound, OrdersAreRight,
         DenyEmpty \/ RejectInheritance \/ RejectProfile \/ Respond
  PROVE  Pending /\ response' = AnswerTo(policies, caller)
<1>1. policies \in Seq(WirePolicy)
  BY EvaluateAssumption DEF IInv
<1>2. RejectsExactly
  BY SoundRejectsExactly
<1>3. CASE DenyEmpty
  BY <1>3 DEF DenyEmpty, Reply, AnswerTo
<1>4. CASE RejectInheritance
  <2>1. Circular(policies) \/ Dangling(policies)
    BY <1>2, <1>4 DEF RejectInheritance, RejectsExactly
  <2>2. policies # <<>>
    BY <2>1 DEF Circular, Dangling, Ids
  <2>3. ~WellFormed(policies, caller)
    BY <2>1 DEF WellFormed
  <2> QED
    BY <1>4, <2>2, <2>3 DEF RejectInheritance, Reply, AnswerTo
<1>5. CASE RejectProfile
  <2>1. status = "resolved" /\ unrecognised_profile(AllMerged, caller)
    BY <1>5 DEF RejectProfile
  <2>2. policies # <<>>
    BY <2>1 DEF unrecognised_profile, AllMerged
  <2>3. ~WellFormed(policies, caller)
    BY <1>1, <2>1, MergedWithTheirOwn DEF WellFormed
  <2> QED
    BY <1>5, <2>2, <2>3 DEF RejectProfile, Reply, AnswerTo
<1>6. CASE Respond
  <2>1. merged # <<>> /\ Turn \notin DOMAIN merged
    BY <1>6 DEF Respond
  <2>2. status = "resolved" /\ merged = AllMerged /\ ~unrecognised_profile(AllMerged, caller)
    BY <2>1 DEF IInv, Bookkeeping, AnswerInv
  <2>3. policies # <<>>
    BY <2>1, <2>2 DEF AllMerged
  <2>4. WellFormed(policies, caller)
    BY <1>1, <1>2, <2>2, MergedWithTheirOwn DEF WellFormed, RejectsExactly
  <2>5. Combine(Decisions) = Judgement(policies, caller) /\ ListedDuties = OpenDuties(policies, caller)
    BY <2>1, CombinesTheJudgement
  <2> QED
    BY <1>6, <2>3, <2>4, <2>5 DEF Respond, Reply, AnswerTo
<1> QED
  BY <1>3, <1>4, <1>5, <1>6

(* For any request and caller: every step of the call is the one answer    *)
(* the policy set calls for, or does not show - the safety half of         *)
(* ImplementsPdp.                                                          *)
THEOREM ImplementsPdpSteps ==
  Spec => Promise!Init /\ [][Promise!Answer]_(Promise!pdpVars)
<1> DEFINE Inv == IInv /\ AnswerInv /\ WalkIsSound /\ OrdersAreRight
<1>1. Init => Inv
  BY InitEstablishes, AnswerInit, WalkInit, OrdersInit DEF Init
<1>2. Inv /\ [Next]_vars => Inv'
  BY StepKeeps, AnswerStep, WalkStepInCall, OrdersStepInCall
<1>3. Init => Promise!Init
  BY DEF Init, InheritInit, Promise!Init
<1>4. Inv /\ [Next]_vars => [Promise!Answer]_(Promise!pdpVars)
  <2> SUFFICES ASSUME Inv, [Next]_vars
               PROVE  [Promise!Answer]_(Promise!pdpVars)
    OBVIOUS
  <2>1. CASE DenyEmpty \/ RejectInheritance \/ RejectProfile \/ Respond
    <3>1. Pending /\ response' = AnswerTo(policies, caller)
      BY <2>1, AnswersAsOwed
    <3>2. UNCHANGED <<policies, caller>>
      BY <2>1 DEF DenyEmpty, RejectInheritance, RejectProfile, Respond, inheritVars
    <3> QED
      BY <3>1, <3>2 DEF Pending, Promise!Answer
  <2>2. CASE ResolveStep
    BY <2>2, ResolveChangesUnresolved DEF ResolveStep, evaluateVars, Promise!pdpVars
  <2>3. CASE Merge \/ Skip \/ DecidePolicy
    BY <2>3 DEF Merge, Skip, DecidePolicy, inheritVars, Promise!pdpVars
  <2>4. CASE UNCHANGED vars
    BY <2>4 DEF vars, inheritVars, evaluateVars, Promise!pdpVars
  <2> QED
    BY <2>1, <2>2, <2>3, <2>4 DEF Next
<1> HIDE DEF Inv
<1> QED
  BY <1>1, <1>2, <1>3, <1>4, PTL DEF Spec

-------------------------------------------------------------------------------
(* Introspection: what the host is told to gather, and what it is told the *)
(* caller could perform.                                                   *)

LEMMA JoinedFrom ==
  ASSUME NEW S, NEW s \in Seq(S), NEW t \in Seq(S), NEW G,
         \A k \in DOMAIN s : s[k] \in G, \A k \in DOMAIN t : t[k] \in G
  PROVE  \A k \in DOMAIN (s \o t) : (s \o t)[k] \in G
<1> SUFFICES ASSUME NEW k \in DOMAIN (s \o t)
             PROVE  (s \o t)[k] \in G
  OBVIOUS
<1>1. k \in 1..Len(s) \/ (k - Len(s) \in 1..Len(t) /\ k > Len(s))
  OBVIOUS
<1>2. CASE k \in 1..Len(s)
  BY <1>2
<1>3. CASE k - Len(s) \in 1..Len(t) /\ k > Len(s)
  <2>1. (s \o t)[k] = t[k - Len(s)]
    BY <1>3
  <2> QED
    BY <1>3, <2>1
<1> QED
  BY <1>1, <1>2, <1>3

LEMMA ReplicateReads ==
  ASSUME NEW child \in WirePolicy, NEW ancestor \in WirePolicy, NEW K,
         referenced_left_operands(child) \subseteq K, referenced_left_operands(ancestor) \subseteq K
  PROVE  referenced_left_operands(Replicate(child, ancestor)) \subseteq K
<1> DEFINE both == Replicate(child, ancestor)
           GoodChain == {chain \in Chain : collect_duty_chain_left_operands(chain) \subseteq K}
           GoodRule == {rule \in Rule : /\ collect_rule_left_operands(rule) \subseteq K
                                        /\ \A d \in DOMAIN rule.duties :
                                             collect_duty_chain_left_operands(rule.duties[d]) \subseteq K}
<1>1. /\ child.permissions \in Seq(Rule) /\ ancestor.permissions \in Seq(Rule)
      /\ child.prohibitions \in Seq(Rule) /\ ancestor.prohibitions \in Seq(Rule)
      /\ child.obligations \in Seq(Chain) /\ ancestor.obligations \in Seq(Chain)
  BY DEF WirePolicy
<1>2. /\ both.permissions = child.permissions \o ancestor.permissions
      /\ both.prohibitions = child.prohibitions \o ancestor.prohibitions
      /\ both.obligations = child.obligations \o ancestor.obligations
  BY DEF Replicate, WirePolicy
<1>3. \A rules \in Seq(Rule) : RulesRead(rules, K) <=> \A k \in DOMAIN rules : rules[k] \in GoodRule
  BY DEF RulesRead
<1>4. \A chains \in Seq(Chain) :
        (\A d \in DOMAIN chains : collect_duty_chain_left_operands(chains[d]) \subseteq K)
          <=> \A d \in DOMAIN chains : chains[d] \in GoodChain
  OBVIOUS
<1> HIDE DEF both, GoodRule, GoodChain
<1>5. /\ RulesRead(child.permissions, K) /\ RulesRead(ancestor.permissions, K)
      /\ RulesRead(child.prohibitions, K) /\ RulesRead(ancestor.prohibitions, K)
      /\ \A d \in DOMAIN child.obligations :
           collect_duty_chain_left_operands(child.obligations[d]) \subseteq K
      /\ \A d \in DOMAIN ancestor.obligations :
           collect_duty_chain_left_operands(ancestor.obligations[d]) \subseteq K
  BY ReferencedAre
<1>6. /\ both.permissions \in Seq(Rule) /\ both.prohibitions \in Seq(Rule) /\ both.obligations \in Seq(Chain)
  BY <1>1, <1>2
<1>7. \A k \in DOMAIN both.permissions : both.permissions[k] \in GoodRule
  BY <1>1, <1>2, <1>3, <1>5, JoinedFrom
<1>8. \A k \in DOMAIN both.prohibitions : both.prohibitions[k] \in GoodRule
  BY <1>1, <1>2, <1>3, <1>5, JoinedFrom
<1>9. \A d \in DOMAIN both.obligations : both.obligations[d] \in GoodChain
  BY <1>1, <1>2, <1>4, <1>5, JoinedFrom
<1> QED
  BY <1>3, <1>4, <1>6, <1>7, <1>8, <1>9, ReferencedAre DEF both

(* Every claim key a decided policy refers to is one its request names.    *)
LEMMA DecidedReads ==
  ASSUME NEW list \in Seq(WirePolicy), NEW i \in DOMAIN list, NEW order \in Seq(PolicyId),
         \A k \in DOMAIN order : order[k] \in Ids(list)
  PROVE  referenced_left_operands(DecisionPolicy(list, i, order)) \subseteq left_operands_for_request(list)
<1> DEFINE K == left_operands_for_request(list)
           Good == {p \in WirePolicy : referenced_left_operands(p) \subseteq K}
<1>1. \A j \in DOMAIN list : list[j] \in Good
  BY DEF left_operands_for_request
<1>2. ASSUME NEW id \in Ids(list)
      PROVE  ById(list, id) \in Good
  <2>1. \E j \in DOMAIN list : ById(list, id) = list[j]
    BY IdIsOfAPolicy
  <2> QED
    BY <1>1, <2>1
<1>3. ASSUME NEW child \in Good, NEW ancestor \in Good
      PROVE  Replicate(child, ancestor) \in Good
  BY ReplicateReads, ReplicateType
<1> DEFINE merged1 == MergedPolicy(list, i, order)
<1>4. merged1 \in Good
  <2> HIDE DEF Good
  <2> QED
    BY <1>1, <1>2, <1>3, MergedStaysIn
<1> DEFINE decided == DecisionPolicy(list, i, order)
<1>5. /\ decided.permissions = merged1.permissions /\ decided.prohibitions = merged1.prohibitions
      /\ decided.obligations = merged1.obligations
  BY DEF DecisionPolicy
<1> HIDE DEF merged1, decided, K
<1>6. referenced_left_operands(merged1) \subseteq K
  BY <1>4
<1>7. referenced_left_operands(decided) \subseteq K
  BY <1>5, <1>6, ReferencedAre
<1> QED
  BY <1>7 DEF decided, K

(* The same caller, as far as being addressed goes. *)
SameParty(who, other) ==
  /\ other.partyCollections = who.partyCollections /\ other.loaded = who.loaded
  /\ other.partyIdentityClaim = who.partyIdentityClaim
  /\ other.agreementAssigneeClaim = who.agreementAssigneeClaim

(* The keys that say who the caller is. *)
IdentityKeys(who) == {who.partyIdentityClaim, who.agreementAssigneeClaim}

LEMMA AddressedAlike ==
  ASSUME NEW list, NEW who, NEW other, SameParty(who, other),
         Agree(who.ask.claims, other.ask.claims, IdentityKeys(who))
  PROVE  /\ Applicable(list, who) = Applicable(list, other)
         /\ WellFormed(list, who) <=> WellFormed(list, other)
<1>1. ASSUME NEW policy
      PROVE  party_role_mismatch(policy, who) <=> party_role_mismatch(policy, other)
  <2>1. \A key \in IdentityKeys(who) :
          IsAssignee(policy.assignee, key, who) <=> IsAssignee(policy.assignee, key, other)
    BY DEF IsAssignee, Agree, SameParty
  <2> QED
    BY <2>1 DEF party_role_mismatch, SameParty, IdentityKeys
<1>2. Applicable(list, who) = Applicable(list, other)
  BY <1>1 DEF Applicable
<1>3. WellFormed(list, who) <=> WellFormed(list, other)
  BY DEF WellFormed, unrecognised_profile, SameParty
<1> QED
  BY <1>2, <1>3

(* The order a well-formed request owes a policy stays inside the request. *)
OrdersWithin(list) ==
  \A i \in DOMAIN list :
    /\ OrderOf(list, i) \in Seq(PolicyId)
    /\ \A k \in DOMAIN OrderOf(list, i) : OrderOf(list, i)[k] \in Ids(list)

(* Claims the host was not told to gather do not move the answer.          *)
LEMMA AnswerTurnsOnKeys ==
  ASSUME NEW list \in Seq(WirePolicy), NEW who, NEW other,
         SameParty(who, other), SameButClaims(who.ask, other.ask),
         WellFormed(list, who) => OrdersWithin(list),
         Agree(who.ask.claims, other.ask.claims, left_operands_for_request(list) \cup IdentityKeys(who))
  PROVE  AnswerTo(list, who) = AnswerTo(list, other)
<1>1. /\ Agree(who.ask.claims, other.ask.claims, IdentityKeys(who))
      /\ Agree(who.ask.claims, other.ask.claims, left_operands_for_request(list))
  BY DEF Agree
<1>2. /\ Applicable(list, other) = Applicable(list, who)
      /\ WellFormed(list, who) <=> WellFormed(list, other)
  BY <1>1, AddressedAlike
<1>3. CASE ~WellFormed(list, who)
  BY <1>2, <1>3 DEF AnswerTo
<1>4. CASE WellFormed(list, who)
  <2> DEFINE owed(i) == DecisionPolicy(list, i, OrderOf(list, i))
             S == Applicable(list, who)
  <2>1. Applicable(list, other) = S
    BY <1>2
  <2>2. ASSUME NEW i \in S
        PROVE  /\ decide(owed(i), who.ask) = decide(owed(i), other.ask)
               /\ unresolved_duties(owed(i), who.ask) = unresolved_duties(owed(i), other.ask)
    <3>1. i \in DOMAIN list
      BY DEF Applicable
    <3>2. referenced_left_operands(owed(i)) \subseteq left_operands_for_request(list)
      BY <1>4, <3>1, DecidedReads DEF OrdersWithin
    <3> HIDE DEF owed, S
    <3> QED
      BY <1>1, <3>2, PolicyReads
  <2>3. \A e : Suppressed(e, who) <=> Suppressed(e, other)
    BY DEF Suppressed, SameButClaims
  <2> DEFINE Left(i, duties, caller1) == {<<i, entry>> : entry \in {e \in duties : ~Suppressed(e, caller1)}}
  <2>4. /\ Judgement(list, who) = Combine({decide(owed(i), who.ask) : i \in S})
        /\ Judgement(list, other) = Combine({decide(owed(i), other.ask) : i \in S})
    BY <2>1 DEF Judgement
  <2>5. /\ OpenDuties(list, who) = UNION {Left(i, unresolved_duties(owed(i), who.ask), who) : i \in S}
        /\ OpenDuties(list, other) = UNION {Left(i, unresolved_duties(owed(i), other.ask), other) : i \in S}
    BY <2>1 DEF OpenDuties
  <2>6. \A i, duties : Left(i, duties, who) = Left(i, duties, other)
    BY <2>3
  <2> HIDE DEF Left, owed, S
  <2>7. Judgement(list, who) = Judgement(list, other) /\ OpenDuties(list, who) = OpenDuties(list, other)
    <3>1. {decide(owed(i), who.ask) : i \in S} = {decide(owed(i), other.ask) : i \in S}
      BY <2>2
    <3>2. UNION {Left(i, unresolved_duties(owed(i), who.ask), who) : i \in S}
            = UNION {Left(i, unresolved_duties(owed(i), other.ask), other) : i \in S}
      BY <2>2, <2>6
    <3> QED
      BY <2>4, <2>5, <3>1, <3>2
  <2> QED
    BY <1>2, <2>7 DEF AnswerTo
<1> QED
  BY <1>3, <1>4

(* An answered call is over: nothing to decide, the walk gave up, a        *)
(* profile is not the one loaded, or the loop has passed every policy.     *)
Ended ==
  ~Pending =>
    \/ policies = <<>>
    \/ status \in {"circular", "missing"}
    \/ status = "resolved" /\ merged = <<>> /\ unrecognised_profile(AllMerged, caller)
    \/ merged # <<>> /\ Turn \notin DOMAIN merged

LEMMA EndedStep == AnswerInv /\ Ended /\ [Next]_vars => Ended'
<1> SUFFICES ASSUME AnswerInv, Ended, [Next]_vars
             PROVE  Ended'
  OBVIOUS
<1>1. CASE DenyEmpty
  BY <1>1 DEF DenyEmpty, inheritVars, Ended
<1>2. CASE ResolveStep
  BY <1>2 DEF ResolveStep, evaluateVars, Ended, Pending
<1>3. CASE RejectInheritance
  BY <1>3 DEF RejectInheritance, inheritVars, Ended
<1>4. CASE RejectProfile
  <2>1. status = "resolved" /\ merged = <<>> /\ unrecognised_profile(AllMerged, caller)
    BY <1>4 DEF RejectProfile, AnswerInv
  <2> QED
    BY <1>4, <2>1 DEF RejectProfile, inheritVars, Ended, AllMerged
<1>5. CASE Merge \/ Skip \/ DecidePolicy
  BY <1>5 DEF Merge, Skip, DecidePolicy, Deciding, Ended, Pending
<1>6. CASE Respond
  BY <1>6 DEF Respond, Ended, Turn
<1>7. CASE UNCHANGED vars
  BY <1>7 DEF vars, inheritVars, evaluateVars, Ended, Pending, AllMerged, Turn
<1> QED
  BY <1>1, <1>2, <1>3, <1>4, <1>5, <1>6, <1>7 DEF Next

(* It ended before any policy was decided, for want of a well-formed set,  *)
(* or with a judgement on every policy that applies.                       *)
LEMMA HowItEnded ==
  ASSUME IInv, AnswerInv, WalkIsSound, OrdersAreRight, Ended, ~Pending
  PROVE  /\ policies = <<>> \/ ~WellFormed(policies, caller) =>
              evaluations = <<>>
         /\ policies # <<>> /\ WellFormed(policies, caller) =>
              merged # <<>> /\ Turn \notin DOMAIN merged
         /\ WellFormed(policies, caller) => OrdersWithin(policies)
<1>1. policies \in Seq(WirePolicy) /\ RejectsExactly
  BY EvaluateAssumption, SoundRejectsExactly DEF IInv
<1>2. /\ merged # <<>> => status = "resolved" /\ merged = AllMerged
      /\ merged = <<>> => evaluations = <<>>
  BY DEF IInv, Bookkeeping
<1>3. status = "resolved" =>
        (unrecognised_profile(AllMerged, caller) <=> ~WellFormed(policies, caller))
  BY <1>1, MergedWithTheirOwn DEF WellFormed, RejectsExactly
<1>4. policies = <<>> \/ ~WellFormed(policies, caller) => evaluations = <<>>
  <2>1. policies = <<>> => merged = <<>>
    BY <1>2 DEF AllMerged
  <2>2. merged # <<>> => WellFormed(policies, caller)
    BY <1>2, <1>3 DEF AnswerInv
  <2> QED
    BY <1>2, <2>1, <2>2
<1>5. status \in {"circular", "missing"} => ~WellFormed(policies, caller)
  BY <1>1 DEF RejectsExactly, WellFormed
<1>6. policies # <<>> /\ WellFormed(policies, caller) => merged # <<>> /\ Turn \notin DOMAIN merged
  BY <1>3, <1>5 DEF Ended
<1>7. CASE policies = <<>>
  BY <1>4, <1>6, <1>7 DEF OrdersWithin
<1>8. CASE policies # <<>> /\ WellFormed(policies, caller)
  <2>1. status = "resolved"
    BY <1>2, <1>6, <1>8
  <2>2. ASSUME NEW i \in DOMAIN policies
        PROVE  /\ OrderOf(policies, i) \in Seq(PolicyId)
               /\ \A k \in DOMAIN OrderOf(policies, i) : OrderOf(policies, i)[k] \in Ids(policies)
    <3>1. /\ orders[i] = OrderOf(policies, i) /\ orders[i] \in Seq(PolicyId)
          /\ ListsOnce(orders[i], Ancestors(policies, policies[i].id))
      <4>1. orders \in Seq(Seq(PolicyId)) /\ Len(orders) = Len(policies)
        BY <2>1 DEF WalkIsSound, InheritTypeOK
      <4>2. orders[i] \in Seq(PolicyId)
        BY <1>1, <4>1
      <4> QED
        BY <1>1, <2>1, <4>2, ResolvedOrders, SoundRejectsExactly DEF InheritsEachOnce
    <3>2. policies[i].id \in Ids(policies) /\ ~Dangling(policies)
      BY <1>8 DEF Ids, WellFormed
    <3> QED
      BY <3>1, <3>2 DEF ListsOnce, Dangling
  <2> QED
    BY <1>4, <1>6, <2>2 DEF OrdersWithin
<1> QED
  BY <1>4, <1>6, <1>7, <1>8

LEMMA CombineIsAllow ==
  ASSUME NEW D, D \subseteq {"allow", "deny", "error"}
  PROVE  Combine(D) = "allow" <=> D # {} /\ \A d \in D : d = "allow"
BY DEF Combine

(* The host is told of every claim key that can matter, and of the actions *)
(* that every policy decided would allow: for every request and caller.    *)
THEOREM IntrospectionHoldsCorrect == Spec => []IntrospectionHolds
<1> DEFINE Inv == IInv /\ AnswerInv /\ WalkIsSound /\ OrdersAreRight /\ Ended
<1>1. Init => Inv
  BY InitEstablishes, AnswerInit, WalkInit, OrdersInit DEF Init, Ended, Pending
<1>2. Inv /\ [Next]_vars => Inv'
  BY StepKeeps, AnswerStep, WalkStepInCall, OrdersStepInCall, EndedStep
<1>3. Inv => IntrospectionHolds
  <2> SUFFICES ASSUME Inv, ~Pending
               PROVE  IntrospectionHolds
    BY DEF IntrospectionHolds
  <2>1. policies \in Seq(WirePolicy) /\ caller \in Caller
    BY EvaluateAssumption DEF IInv, AnswerInv
  <2>2. /\ policies = <<>> \/ ~WellFormed(policies, caller) => evaluations = <<>>
        /\ policies # <<>> /\ WellFormed(policies, caller) => merged # <<>> /\ Turn \notin DOMAIN merged
        /\ WellFormed(policies, caller) => OrdersWithin(policies)
    BY HowItEnded
  <2> DEFINE Doing(who, a) == [who EXCEPT !.ask.action = a]
  <2>3. ASSUME NEW k \in DOMAIN caller.ask.claims \ (left_operands_for_request(policies) \cup
                           {caller.partyIdentityClaim, caller.agreementAssigneeClaim})
        PROVE  LET without == [caller EXCEPT !.ask.claims = [j \in DOMAIN @ \ {k} |-> @[j]]]
               IN  /\ AnswerTo(policies, without) = AnswerTo(policies, caller)
                   /\ performable_actions_for_request(policies, without)
                        = performable_actions_for_request(policies, caller)
    <3> DEFINE without == [caller EXCEPT !.ask.claims = [j \in DOMAIN @ \ {k} |-> @[j]]]
               keys == left_operands_for_request(policies) \cup IdentityKeys(caller)
    <3>1. /\ SameParty(caller, without) /\ SameButClaims(caller.ask, without.ask)
          /\ without.ask.claims = [j \in DOMAIN caller.ask.claims \ {k} |-> caller.ask.claims[j]]
      BY <2>1 DEF SameParty, SameButClaims, Caller, Ask
    <3>2. Agree(caller.ask.claims, without.ask.claims, keys)
      BY <2>3, <3>1 DEF Agree, IdentityKeys
    <3>3. ASSUME NEW a
          PROVE  /\ SameParty(Doing(caller, a), Doing(without, a))
                 /\ SameButClaims(Doing(caller, a).ask, Doing(without, a).ask)
                 /\ Doing(caller, a).ask.claims = caller.ask.claims
                 /\ Doing(without, a).ask.claims = without.ask.claims
                 /\ IdentityKeys(Doing(caller, a)) = IdentityKeys(caller)
                 /\ SameParty(caller, Doing(caller, a))
      BY <2>1 DEF SameParty, SameButClaims, Caller, Ask, IdentityKeys
    <3>4. ASSUME NEW a
          PROVE  AnswerTo(policies, Doing(caller, a)) = AnswerTo(policies, Doing(without, a))
      <4> HIDE DEF without, Doing
      <4>1. Agree(caller.ask.claims, Doing(caller, a).ask.claims, IdentityKeys(caller))
        BY <3>3 DEF Agree
      <4>2. WellFormed(policies, Doing(caller, a)) <=> WellFormed(policies, caller)
        BY <3>3, <4>1, AddressedAlike
      <4> QED
        BY <2>1, <2>2, <3>2, <3>3, <4>2, AnswerTurnsOnKeys
    <3>5. AnswerTo(policies, without) = AnswerTo(policies, caller)
      <4> HIDE DEF without
      <4> QED
        BY <2>1, <2>2, <3>1, <3>2, AnswerTurnsOnKeys
    <3>6. declared_actions(without.ask.config.actions) = declared_actions(caller.ask.config.actions)
      BY <3>1 DEF SameButClaims
    <3>7. /\ performable_actions_for_request(policies, without) =
               {a \in declared_actions(without.ask.config.actions) :
                  AnswerTo(policies, Doing(without, a)).decision = "allow"}
          /\ performable_actions_for_request(policies, caller) =
               {a \in declared_actions(caller.ask.config.actions) :
                  AnswerTo(policies, Doing(caller, a)).decision = "allow"}
      BY DEF performable_actions_for_request
    <3> HIDE DEF without, Doing
    <3>8. performable_actions_for_request(policies, without)
            = performable_actions_for_request(policies, caller)
      BY <3>4, <3>6, <3>7
    <3> QED
      BY <3>5, <3>8 DEF without
  <2>4. ASSUME NEW a \in declared_actions(caller.ask.config.actions)
        PROVE  AnswerTo(policies, Doing(caller, a)).decision = "allow" <=>
                 /\ evaluations # <<>>
                 /\ \A k \in DOMAIN evaluations :
                      a \in performable_actions(DecidedPolicy(evaluations[k].index), caller.ask)
    <3> DEFINE then == Doing(caller, a)
               owed(i) == DecisionPolicy(policies, i, OrderOf(policies, i))
    <3>1. /\ SameParty(caller, then) /\ then.ask.claims = caller.ask.claims
          /\ then.ask = [caller.ask EXCEPT !.action = a]
      BY <2>1 DEF SameParty, Caller, Ask
    <3> HIDE DEF Doing, then
    <3>2. Agree(caller.ask.claims, then.ask.claims, IdentityKeys(caller))
      BY <3>1 DEF Agree
    <3>3. /\ Applicable(policies, caller) = Applicable(policies, then)
          /\ WellFormed(policies, caller) <=> WellFormed(policies, then)
      BY <3>1, <3>2, AddressedAlike
    <3>4. CASE policies = <<>> \/ ~WellFormed(policies, caller)
      <4>1. AnswerTo(policies, then).decision # "allow"
        BY <3>3, <3>4 DEF AnswerTo
      <4> QED
        BY <2>2, <3>4, <4>1 DEF then
    <3>5. CASE policies # <<>> /\ WellFormed(policies, caller)
      <4> DEFINE S == Applicable(policies, caller)
                 Allows(i) == decide(owed(i), then.ask) = "allow"
      <4>1. /\ \A k \in DOMAIN evaluations :
                 /\ evaluations[k].index \in S
                 /\ DecidedPolicy(evaluations[k].index) = owed(evaluations[k].index)
            /\ \A i \in S : \E k \in DOMAIN evaluations : evaluations[k].index = i
        BY <2>2, <3>5, AllApplicableDecided
      <4>2. evaluations \in Seq(Evaluation)
        BY DEF IInv, Bookkeeping
      <4>3. Judgement(policies, then) = Combine({decide(owed(i), then.ask) : i \in S})
        BY <3>3 DEF Judgement
      <4>4. {decide(owed(i), then.ask) : i \in S} \subseteq {"allow", "deny", "error"}
        BY DecideType
      <4>5. AnswerTo(policies, then).decision = "allow" <=> Judgement(policies, then) = "allow"
        BY <3>3, <3>5 DEF AnswerTo
      <4>6. Judgement(policies, then) = "allow" <=> S # {} /\ \A i \in S : Allows(i)
        <5> DEFINE D == {decide(owed(i), then.ask) : i \in S}
        <5>1. Combine(D) = "allow" <=> D # {} /\ \A d \in D : d = "allow"
          <6>1. D \subseteq {"allow", "deny", "error"}
            BY <4>4
          <6> HIDE DEF D
          <6> QED
            BY <6>1, CombineIsAllow
        <5>2. (D # {} /\ \A d \in D : d = "allow") <=> (S # {} /\ \A i \in S : Allows(i))
          OBVIOUS
        <5> QED
          BY <4>3, <5>1, <5>2
      <4>7. \A k \in DOMAIN evaluations :
              a \in performable_actions(DecidedPolicy(evaluations[k].index), caller.ask)
                <=> Allows(evaluations[k].index)
        BY <2>4, <3>1, <4>1 DEF performable_actions
      <4> HIDE DEF S, Allows, owed
      <4>8. S # {} <=> evaluations # <<>>
        <5>1. evaluations # <<>> => 1 \in DOMAIN evaluations
          BY <4>2
        <5>2. evaluations = <<>> => DOMAIN evaluations = {}
          OBVIOUS
        <5> QED
          BY <4>1, <5>1, <5>2
      <4>9. (\A i \in S : Allows(i)) <=> \A k \in DOMAIN evaluations : Allows(evaluations[k].index)
        BY <4>1
      <4> QED
        BY <4>5, <4>6, <4>7, <4>8, <4>9 DEF then
    <3> QED
      BY <3>4, <3>5
  <2>5. performable_actions_for_request(policies, caller) =
          {a \in declared_actions(caller.ask.config.actions) :
             AnswerTo(policies, Doing(caller, a)).decision = "allow"}
    BY DEF performable_actions_for_request
  <2> HIDE DEF Doing
  <2>6. performable_actions_for_request(policies, caller) =
          {a \in declared_actions(caller.ask.config.actions) :
             /\ evaluations # <<>>
             /\ \A k \in DOMAIN evaluations :
                  a \in performable_actions(DecidedPolicy(evaluations[k].index), caller.ask)}
    BY <2>4, <2>5
  <2> QED
    BY <2>3, <2>6 DEF IntrospectionHolds
<1> HIDE DEF Inv
<1> QED
  BY <1>1, <1>2, <1>3, PTL DEF Spec
===============================================================================
