-------------------------------- MODULE Evaluate ------------------------------
(***************************************************************************)
(* evaluate_request: build_scaffolding - the empty request, inheritance    *)
(* (the walk of Inherit), the profile check, then the policies one by one, *)
(* each skipped or decided - and response_from_scaffolding.                *)
(***************************************************************************)
EXTENDS Inherit, PolicySet, Compare

CONSTANT Callers    \* who asks what, under which configuration

ASSUME EvaluateAssumption ==
  /\ \A list \in Requests : list \in Seq(WirePolicy)
  /\ Callers \subseteq Caller

VARIABLES
  caller,
  merged,       \* the policies with what they inherit; <<>> until resolved
  evaluations,  \* the policies decided so far, in order
  skipped,      \* the indices of those addressed to somebody else
  response

evaluateVars == <<caller, merged, evaluations, skipped, response>>
vars == <<inheritVars, evaluateVars>>

NoResponse == [decision |-> "none", duties |-> {}]

Response ==
  [decision : {"none", "allow", "deny", "error"},
   duties : SUBSET (Nat \X UnresolvedDuty)]

Evaluation == [index : Nat, decision : {"allow", "deny", "error"}]

TypeOK ==
  /\ InheritTypeOK
  /\ caller \in Callers
  /\ merged \in Seq(WirePolicy)
  /\ evaluations \in Seq(Evaluation)
  /\ skipped \subseteq Nat
  /\ response \in Response

Init ==
  /\ InheritInit
  /\ caller \in Callers
  /\ merged = <<>>
  /\ evaluations = <<>>
  /\ skipped = {}
  /\ response = NoResponse

Pending == response = NoResponse

Reply(decision, duties) == response' = [decision |-> decision, duties |-> duties]

(* An empty policy set is a default deny, whatever the behaviour.          *)
DenyEmpty ==
  /\ Pending
  /\ policies = <<>>
  /\ Reply("deny", {})
  /\ UNCHANGED <<inheritVars, caller, merged, evaluations, skipped>>

ResolveStep ==
  /\ Pending
  /\ policies # <<>>
  /\ InheritNext
  /\ UNCHANGED evaluateVars

(* A circular chain or a parent outside the request fails the request.     *)
RejectInheritance ==
  /\ Pending
  /\ status \in {"circular", "missing"}
  /\ Reply("error", {})
  /\ UNCHANGED <<inheritVars, caller, merged, evaluations, skipped>>

AllMerged == [i \in DOMAIN policies |-> MergedPolicy(policies, i, orders[i])]

(* A declared or inherited profile other than the loaded one does, too.    *)
RejectProfile ==
  /\ Pending
  /\ status = "resolved"
  /\ unrecognised_profile(AllMerged, caller)
  /\ Reply("error", {})
  /\ UNCHANGED <<inheritVars, caller, merged, evaluations, skipped>>

Merge ==
  /\ Pending
  /\ status = "resolved"
  /\ merged = <<>>
  /\ ~unrecognised_profile(AllMerged, caller)
  /\ merged' = AllMerged
  /\ UNCHANGED <<inheritVars, caller, evaluations, skipped, response>>

(* The policy the loop stands on. *)
Turn == Len(evaluations) + Cardinality(skipped) + 1

Deciding == Pending /\ Turn \in DOMAIN merged

Skip ==
  /\ Deciding
  /\ party_role_mismatch(merged[Turn], caller)
  /\ skipped' = skipped \cup {Turn}
  /\ UNCHANGED <<inheritVars, caller, merged, evaluations, response>>

(* What decide is given for the policy at index i. *)
DecidedPolicy(i) == DecisionPolicy(policies, i, orders[i])

(* A slip: the policy is decided as it came, nothing inherited. *)
DecidePolicy_OwnRules ==
  /\ Deciding
  /\ ~party_role_mismatch(merged[Turn], caller)
  /\ evaluations' = Append(evaluations,
       [index |-> Turn,
        decision |-> decide(DecisionPolicy(policies, Turn, <<>>), caller.ask)])
  /\ UNCHANGED <<inheritVars, caller, merged, skipped, response>>

DecidePolicy ==
  /\ Deciding
  /\ ~party_role_mismatch(merged[Turn], caller)
  /\ evaluations' = Append(evaluations,
       [index |-> Turn, decision |-> decide(DecidedPolicy(Turn), caller.ask)])
  /\ UNCHANGED <<inheritVars, caller, merged, skipped, response>>

Decisions == {evaluations[k].decision : k \in DOMAIN evaluations}

DutiesLeftBy(i) == unresolved_duties(DecidedPolicy(i), caller.ask)

ListedDuties ==
  UNION {{<<evaluations[k].index, e>> :
            e \in {e \in DutiesLeftBy(evaluations[k].index) : ~Suppressed(e, caller)}} :
         k \in DOMAIN evaluations}

(* A slip: the first policy decides the request. *)
Respond_First ==
  /\ Pending
  /\ merged # <<>>
  /\ Turn \notin DOMAIN merged
  /\ IF evaluations = <<>> THEN Reply("deny", {})
     ELSE Reply(evaluations[1].decision,
                IF evaluations[1].decision = "error" THEN {} ELSE ListedDuties)
  /\ UNCHANGED <<inheritVars, caller, merged, evaluations, skipped>>

(* The first error decides, else the first deny, else the first policy.    *)
Respond ==
  /\ Pending
  /\ merged # <<>>
  /\ Turn \notin DOMAIN merged
  /\ Reply(Combine(Decisions), IF Combine(Decisions) = "error" THEN {} ELSE ListedDuties)
  /\ UNCHANGED <<inheritVars, caller, merged, evaluations, skipped>>

Next ==
  \/ DenyEmpty \/ ResolveStep \/ RejectInheritance \/ RejectProfile \/ Merge
  \/ Skip \/ DecidePolicy \/ Respond

(* One call, run to its end. *)
Spec == Init /\ [][Next]_vars /\ WF_vars(Next)

-------------------------------------------------------------------------------
(* The richer answer over the same walk: the reports of every policy that  *)
(* was decided - none of one that failed on an unrecognised action - and   *)
(* the policies skipped.                                                   *)
detailed ==
  [policyReports |->
     [k \in DOMAIN evaluations |->
        LET i == evaluations[k].index IN
        [policy                |-> i,
         evaluationError       |-> evaluations[k].decision = "error",
         ruleReports           |-> IF evaluations[k].decision = "error" THEN NoRuleReports
                                   ELSE derive_detailed_rule_reports(DecidedPolicy(i), caller.ask),
         declaredConflict      |-> merged[i].conflict,
         conflictForcedInvalid |-> ConflictValuesDiffer(policies, i, orders[i])]],
   skippedPolicies |-> skipped]

-------------------------------------------------------------------------------
Promise == INSTANCE Pdp

(* The request gets the answer the policy set calls for, in one step and   *)
(* once: the walk, the memo, the loop and the order of the checks never    *)
(* show.                                                                   *)
ImplementsPdp == Promise!Spec

(* Allow is unanimous: every policy of the request was looked at, those    *)
(* skipped were addressed to somebody else, and every other one allowed -  *)
(* at least one did.                                                       *)
AllowIsUnanimous ==
  response.decision = "allow" =>
    /\ evaluations # <<>>
    /\ \A i \in DOMAIN policies :
         \/ /\ i \in skipped
            /\ party_role_mismatch(MergedPolicy(policies, i, orders[i]), caller)
         \/ \E k \in DOMAIN evaluations :
              /\ evaluations[k].index = i
              /\ decide(DecidedPolicy(i), caller.ask) = "allow"

(* A policy set with a cycle in its inheritance, or a parent outside it,   *)
(* is answered by an Error: no policy of it is decided.                    *)
MalformedIsRefused ==
  Circular(policies) \/ Dangling(policies) =>
    evaluations = <<>> /\ (Pending \/ response.decision = "error")

(* What is left out of an Allow's duties is nothing: obligations are only  *)
(* suppressed where they forced a Deny.                                    *)
AllowListsEveryDuty ==
  response.decision = "allow" =>
    \A k \in DOMAIN evaluations : \A e \in DutiesLeftBy(evaluations[k].index) :
      <<evaluations[k].index, e>> \in response.duties

(* Read the way the compliance runner reads it, the detailed evaluation    *)
(* implies the answer: where it accounts for every policy, the verdicts of *)
(* the policies pin no decision but the one given, and the duties listed   *)
(* are those their reports show open.  An Error stands in the evaluation   *)
(* of a policy, or no policy was evaluated.                                *)
RequestForetold ==
  LET all == detailed.policyReports IN
  ~Pending =>
    /\ response.decision = "error" =>
         all = <<>> \/ \E k \in DOMAIN all : all[k].evaluationError
    /\ /\ response.decision # "error"
       /\ all # <<>> /\ detailed.skippedPolicies = {}
       /\ \A k \in DOMAIN all : EveryChainWalked(all[k].ruleReports)
       => /\ expected_decision({policy_verdict(all[k].ruleReports, caller.ask.config) :
                                  k \in DOMAIN all}) \in {"not stated", response.decision}
          /\ \A k \in DOMAIN all :
               DutiesCrossCheck(all[k].ruleReports, caller.ask.config,
                 {e \in DutiesLeftBy(all[k].policy) : <<all[k].policy, e>> \in response.duties})

(* What the host is told before it asks.  A claim outside the keys it is   *)
(* told to gather changes neither its answer nor what it could perform,    *)
(* short of the two the config names for who it is; and what it could      *)
(* perform is what every policy decided for it would allow on its own, not *)
(* what some policy would.                                                 *)
IntrospectionHolds ==
  ~Pending =>
    /\ \A k \in DOMAIN caller.ask.claims \ (left_operands_for_request(policies) \cup
                   {caller.partyIdentityClaim, caller.agreementAssigneeClaim}) :
         LET without == [caller EXCEPT !.ask.claims = [j \in DOMAIN @ \ {k} |-> @[j]]]
         IN  /\ AnswerTo(policies, without) = AnswerTo(policies, caller)
             /\ performable_actions_for_request(policies, without)
                  = performable_actions_for_request(policies, caller)
    /\ performable_actions_for_request(policies, caller) =
         {a \in declared_actions(caller.ask.config.actions) :
            /\ evaluations # <<>>
            /\ \A k \in DOMAIN evaluations :
                 a \in performable_actions(DecidedPolicy(evaluations[k].index), caller.ask)}

(* The loop's bookkeeping, strong enough to be inductive: nothing is       *)
(* looked at before the merge, each policy behind the loop was skipped or  *)
(* decided for what it is, and an Allow was given on that alone.           *)
Bookkeeping ==
  /\ evaluations \in Seq(Evaluation)
  /\ IsFiniteSet(skipped) /\ skipped \subseteq 1..(Turn - 1)
  /\ merged # <<>> => status = "resolved" /\ merged = AllMerged
  /\ merged = <<>> => evaluations = <<>> /\ skipped = {}
  /\ \A i \in skipped : party_role_mismatch(merged[i], caller)
  /\ \A k \in DOMAIN evaluations :
       evaluations[k].decision = decide(DecidedPolicy(evaluations[k].index), caller.ask)
  /\ \A i \in 1..(Turn - 1) \ skipped : \E k \in DOMAIN evaluations : evaluations[k].index = i
  /\ response.decision = "allow" =>
       /\ merged # <<>> /\ Turn \notin DOMAIN merged
       /\ Decisions = {"allow"}
       /\ response.duties = ListedDuties

===============================================================================
