-------------------------------- MODULE Lineage -------------------------------
(***************************************************************************)
(* The inheritance graph of a request's policies: which policy an id       *)
(* stands for, its ancestors, whether the graph is circular or leaves the  *)
(* request, and the order rules are replicated in.  No walk, no memo and   *)
(* no stack: this is what the walk of Inherit is held against.             *)
(***************************************************************************)
EXTENDS Naturals, Sequences, FiniteSets, SequencesExt

CONSTANT PolicyId   \* identifiers a policy may have or name

(* A list with two policies of one id resolves the id to the last of them. *)
Ids(list) == {list[i].id : i \in DOMAIN list}

ById(list, id) ==
  list[CHOOSE i \in DOMAIN list : list[i].id = id /\ \A j \in DOMAIN list : list[j].id = id => j <= i]

ParentsOf(list, id) ==
  IF id \in Ids(list) THEN ById(list, id).inheritFrom ELSE <<>>

ClosedUnderParents(list, S) ==
  \A id \in S : \A p \in DOMAIN ParentsOf(list, id) : ParentsOf(list, id)[p] \in S

(* The ids reached from id by one or more inheritFrom edges.               *)
Ancestors(list, id) ==
  {a \in PolicyId :
     \A S \in SUBSET PolicyId :
       (ClosedUnderParents(list, S) /\ \A p \in DOMAIN ParentsOf(list, id) : ParentsOf(list, id)[p] \in S)
         => a \in S}

Circular(list) == \E id \in Ids(list) : id \in Ancestors(list, id)

Dangling(list) == \E id \in Ids(list) : ~(Ancestors(list, id) \subseteq Ids(list))

(* Every path upward written out, parents in their declared order.         *)
PathsUp(list) ==
  LET walk[n \in 0..Len(list)] ==
        [id \in PolicyId |->
           IF n = 0 THEN <<>>
           ELSE FlattenSeq([p \in DOMAIN ParentsOf(list, id) |->
                  <<ParentsOf(list, id)[p]>> \o walk[n - 1][ParentsOf(list, id)[p]]])]
  IN  walk[Len(list)]

FirstOccurrences(s) ==
  LET firsts == {k \in DOMAIN s : \A j \in 1..(k - 1) : s[j] # s[k]}
      Nth(n) == CHOOSE k \in firsts : Cardinality({j \in firsts : j <= k}) = n
  IN  [n \in 1..Cardinality(firsts) |-> s[Nth(n)]]

Preorder(list, id) == FirstOccurrences(PathsUp(list)[id])

===============================================================================
