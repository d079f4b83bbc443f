------------------------------- MODULE PolicySet ------------------------------
(***************************************************************************)
(* A request carries several policies.  What makes one of them the policy  *)
(* that is decided: the rules, the assignee and the profiles it inherits,  *)
(* the strategy a merge forces on it, whether it is addressed to the       *)
(* caller at all - and how the answers of several combine into one: the    *)
(* answer a request calls for, as a function of the request alone.         *)
(***************************************************************************)
EXTENDS Decision, Lineage

CONSTANTS
  NoParty,      \* the assignee of a policy addressed to nobody in particular
  NoClaim,      \* a claim key the host did not configure
  Profile       \* profile identifiers

WirePolicy ==
  [id : PolicyId, inheritFrom : Seq(PolicyId), kind : {"Set", "Offer", "Agreement"},
   assignee : Value \cup {NoParty}, profile : SUBSET Profile,
   permissions : Seq(Rule), prohibitions : Seq(Rule), obligations : Seq(Chain),
   conflict : {"perm", "prohibit", "invalid"}]

(* The request besides its policies.  loaded is the profile config.id.     *)
Caller ==
  [ask : Ask, partyCollections : SUBSET Value, loaded : Profile,
   partyIdentityClaim : Key \cup {NoClaim}, agreementAssigneeClaim : Key \cup {NoClaim}]

-------------------------------------------------------------------------------
(* The child's own come first; the first ancestor that sets an assignee    *)
(* gives it to a child that sets none.                                     *)
Replicate(child, ancestor) ==
  [child EXCEPT !.permissions = @ \o ancestor.permissions,
                !.prohibitions = @ \o ancestor.prohibitions,
                !.obligations = @ \o ancestor.obligations,
                !.assignee = IF @ = NoParty THEN ancestor.assignee ELSE @,
                !.profile = @ \cup ancestor.profile]

MergedPolicy(list, i, order) ==
  FoldLeft(LAMBDA child, id : Replicate(child, ById(list, id)), list[i], order)

(* The default strategy casts no vote. *)
explicit_conflict_values(policy) == {policy.conflict} \ {"invalid"}

(* More than one strategy named among a policy and its ancestors.  Kept by *)
(* id, so of two policies of one id the last one answers for both.         *)
ConflictValuesDiffer(list, i, order) ==
  Cardinality(explicit_conflict_values(ById(list, list[i].id)) \cup
              UNION {explicit_conflict_values(ById(list, order[k])) : k \in DOMAIN order}) > 1

DecisionPolicy(list, i, order) ==
  LET merged == MergedPolicy(list, i, order) IN
  [permissions |-> merged.permissions, prohibitions |-> merged.prohibitions,
   obligations |-> merged.obligations,
   conflict |-> IF ConflictValuesDiffer(list, i, order) THEN "invalid" ELSE merged.conflict]

-------------------------------------------------------------------------------
(* The claim under this key says the caller is the assignee, or is there   *)
(* and the host puts the caller in the collection the assignee names.      *)
IsAssignee(assignee, key, caller) ==
  /\ key \in DOMAIN caller.ask.claims
  /\ assignee \in caller.ask.claims[key] \cup caller.partyCollections

(* An Offer is addressed to anybody; so is a policy without an assignee.   *)
party_role_mismatch(policy, caller) ==
  /\ policy.kind # "Offer"
  /\ policy.assignee # NoParty
  /\ \/ /\ policy.kind = "Agreement"
        /\ caller.agreementAssigneeClaim # NoClaim
        /\ ~IsAssignee(policy.assignee, caller.agreementAssigneeClaim, caller)
     \/ /\ caller.partyIdentityClaim # NoClaim
        /\ ~IsAssignee(policy.assignee, caller.partyIdentityClaim, caller)

(* Every profile a merged policy declares must be the one loaded.          *)
unrecognised_profile(merged, caller) ==
  \E i \in DOMAIN merged : ~(merged[i].profile \subseteq {caller.loaded})

-------------------------------------------------------------------------------
(* Error before Deny before Allow; no evaluation at all is a Deny.         *)
Combine(decisions) ==
  IF "error" \in decisions THEN "error"
  ELSE IF "deny" \in decisions \/ decisions = {} THEN "deny" ELSE "allow"

(* A slip: left out whatever the duty mode. *)
Suppressed_AnyMode(entry, caller) == plain_policy_obligation(entry)

(* A plain policy obligation is left out under duty_mode deny: the Deny    *)
(* says it already.                                                        *)
Suppressed(entry, caller) ==
  caller.ask.config.dutyMode = "deny" /\ plain_policy_obligation(entry)

left_operands_for_request(list) ==
  UNION {referenced_left_operands(list[i]) : i \in DOMAIN list}

-------------------------------------------------------------------------------
OrderOf(list, i) == Preorder(list, list[i].id)

(* The policies of the list addressed to the caller. *)
Applicable(list, who) ==
  {i \in DOMAIN list : ~party_role_mismatch(MergedPolicy(list, i, OrderOf(list, i)), who)}

(* An Error if the policy set is not well formed or an applicable policy   *)
(* is not; a Deny if an applicable policy denies or none applies.          *)
WellFormed(list, who) ==
  /\ ~Circular(list)
  /\ ~Dangling(list)
  /\ ~unrecognised_profile([i \in DOMAIN list |-> MergedPolicy(list, i, OrderOf(list, i))], who)

Judgement(list, who) ==
  Combine({decide(DecisionPolicy(list, i, OrderOf(list, i)), who.ask) : i \in Applicable(list, who)})

OpenDuties(list, who) ==
  UNION {{<<i, entry>> : entry \in
            {e \in unresolved_duties(DecisionPolicy(list, i, OrderOf(list, i)), who.ask) :
               ~Suppressed(e, who)}} : i \in Applicable(list, who)}

AnswerTo(list, who) ==
  IF list = <<>> THEN [decision |-> "deny", duties |-> {}]
  ELSE IF ~WellFormed(list, who) \/ Judgement(list, who) = "error"
    THEN [decision |-> "error", duties |-> {}]
  ELSE [decision |-> Judgement(list, who), duties |-> OpenDuties(list, who)]

(* The actions the host is told it could perform. *)
performable_actions_for_request(list, who) ==
  {a \in declared_actions(who.ask.config.actions) :
     AnswerTo(list, [who EXCEPT !.ask.action = a]).decision = "allow"}

===============================================================================
