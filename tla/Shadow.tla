--------------------------------- MODULE Shadow -------------------------------
(***************************************************************************)
(* The compliance runner's own merge order.  To name the RDF rule that a   *)
(* report's position stands for, it merges the ids of the policies as the  *)
(* engine merges the policies: a second implementation, for one policy at  *)
(* a time, that recurses and remembers nothing.                            *)
(***************************************************************************)
EXTENDS Inherit

Unresolved == [found |-> FALSE, order |-> <<>>]

(* A slip: every parent before any of their ancestors. *)
JoinParents_LevelByLevel(parents, below) ==
  FirstOccurrences(parents \o FlattenSeq([p \in DOMAIN parents |-> below[p].order]))

(* Each parent and then its ancestors, one met before left out.            *)
JoinParents(parents, below) ==
  FirstOccurrences(FlattenSeq([p \in DOMAIN parents |-> <<parents[p]>> \o below[p].order]))

(* under: the ids whose ancestors are being looked up.                     *)
ancestor_order(all) ==
  LET order[under \in SUBSET PolicyId] ==
        [id \in PolicyId |->
           IF id \in under \/ id \notin Ids(all) THEN Unresolved
           ELSE LET parents == ParentsOf(all, id)
                    below == [p \in DOMAIN parents |-> order[under \cup {id}][parents[p]]]
                IN  IF \E p \in DOMAIN parents : ~below[p].found THEN Unresolved
                    ELSE [found |-> TRUE, order |-> JoinParents(parents, below)]]
  IN  order

(* The policies whose rules make up the merged policy, in the order their  *)
(* rules come in: what a rule index of a report counts through.            *)
merged_policy_ids(all, id) ==
  LET ancestors == ancestor_order(all)[{}][id] IN
  [found |-> ancestors.found, order |-> <<id>> \o ancestors.order]

-------------------------------------------------------------------------------
(* A report on rule n is about the same rule to the engine and to the      *)
(* runner: for each policy both join the same ancestors in the same order, *)
(* and the runner fails on some policy of every request the engine refuses *)
(* for its inheritance.                                                    *)
ShadowAgrees ==
  /\ \A i \in DOMAIN orders : status # "circular" /\ status # "missing" =>
       LET shadow == merged_policy_ids(policies, policies[i].id) IN
       shadow.found /\ shadow.order = <<policies[i].id>> \o orders[i]
  /\ status \in {"circular", "missing"} =>
       \E i \in DOMAIN policies : ~merged_policy_ids(policies, policies[i].id).found

===============================================================================
