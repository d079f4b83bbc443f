---------------------------------- MODULE Wire ---------------------------------
(***************************************************************************)
(* The engine as a host meets it: a request as it is written, the          *)
(* deserialization that refuses some requests and drops the keys it does   *)
(* not know, the answer, and the reason the answer states.                 *)
(*                                                                         *)
(* A string that the engine splits at its commas is the sequence of its    *)
(* pieces, any other one a sequence of one.  A reason is the set of        *)
(* phrases it is put together from; places in a list count from one.       *)
(***************************************************************************)
EXTENDS PolicySet, Report

CONSTANT NoKey      \* a claim key nobody asserts

-------------------------------------------------------------------------------
(* Constraints as written: the atomic fields, and possibly one logical     *)
(* list beside them.                                                       *)
Atom(left, operator, right) ==
  [left |-> left, operator |-> operator, right |-> right, list |-> "none", operands |-> <<>>]

Logical(list, operands) ==
  [left |-> NoKey, operator |-> "eq", right |-> <<"">>, list |-> list, operands |-> operands]

(* The list operators split their operand, the others take it whole. *)
Candidates(c) ==
  IF c.operator \in {"isAnyOf", "isAllOf", "isNoneOf", "isPartOf"}
    THEN {<<c.right[i]>> : i \in DOMAIN c.right} ELSE {c.right}

ReadAtom(c) ==
  [leftOperand |-> c.left, operator |-> c.operator, rightOperand |-> Candidates(c)]

(* A list beside the atomic fields is what counts. *)
Holds(c, claims) ==
  IF c.list = "none" THEN evaluate(ReadAtom(c), claims)
  ELSE combine(c.list, DOMAIN c.operands,
               {i \in DOMAIN c.operands : evaluate(ReadAtom(c.operands[i]), claims)})

(* A constraint whose verdict is known: isNoneOf holds of an absent claim, *)
(* eq does not.                                                            *)
Settled(c, claims) ==
  [leftOperand |-> NoKey, operator |-> IF Holds(c, claims) THEN "isNoneOf" ELSE "eq",
   rightOperand |-> {<<"">>}]

-------------------------------------------------------------------------------
(* A request that names an operator or a strategy outside the enumerations *)
(* is not a request.  A key no field has is dropped, whatever it holds.    *)
RuleConstraints(rule) ==
  Range(rule.constraints) \cup
  UNION {UNION {Range(hop.constraints) : hop \in Range(chain)} : chain \in Range(rule.duties)}

PolicyConstraints(policy) ==
  UNION {RuleConstraints(rule) : rule \in Range(policy.permissions \o policy.prohibitions)}
  \cup UNION {UNION {Range(hop.constraints) : hop \in Range(chain)} : chain \in Range(policy.obligations)}

UnknownVariants(request) ==
  UNION {{c.operator : c \in PolicyConstraints(policy)} \ Operators : policy \in Range(request.policies)}
  \cup ({policy.conflict : policy \in Range(request.policies)} \ {"perm", "prohibit", "invalid"})

(* The fields deserialization knows, by the object that carries them. *)
KnownKeys ==
  [config |-> {"@type", "@id", "odrl:action", "dutyMode", "behaviour", "partyIdentityClaim",
               "agreementAssigneeClaim"},
   action |-> {"@id", "odrl:includedIn"},
   policy |-> {"id", "kind", "assigner", "assignee", "permissions", "prohibitions", "obligations",
               "odrl:conflict", "inheritFrom", "profile"},
   rule |-> {"action", "odrl:target", "constraints", "odrl:refinement", "odrl:duty", "odrl:remedy",
             "odrl:consequence"},
   constraint |-> {"left_operand", "operator", "right_operand", "odrl:and", "odrl:or", "odrl:xone",
                   "odrl:andSequence"}]

(* A slip: a behaviour left out is the closed one. *)
ReadBehaviour_Closed(written) == IF written = "open" THEN "open" ELSE "closed"

(* "default" is another word for closed; a behaviour left out is open.     *)
ReadBehaviour(written) == IF written \in {"closed", "default"} THEN "closed" ELSE "open"

ReadHop(hop, claims) ==
  [action |-> hop.action, constraints |-> {Settled(c, claims) : c \in Range(hop.constraints)},
   refinement |-> {}]

ReadChain(chain, claims) == [h \in DOMAIN chain |-> ReadHop(chain[h], claims)]

ReadRule(rule, claims) ==
  [action |-> rule.action, target |-> rule.target, refinement |-> {},
   constraints |-> {Settled(c, claims) : c \in Range(rule.constraints)},
   duties |-> [d \in DOMAIN rule.duties |-> ReadChain(rule.duties[d], claims)]]

ReadPolicy(policy, claims) ==
  [policy EXCEPT
     !.permissions = [i \in DOMAIN @ |-> ReadRule(@[i], claims)],
     !.prohibitions = [i \in DOMAIN @ |-> ReadRule(@[i], claims)],
     !.obligations = [i \in DOMAIN @ |-> ReadChain(@[i], claims)]]

ReadCaller(request) ==
  [ask |-> [config |-> [actions |-> request.config.actions,
                        behaviour |-> ReadBehaviour(request.config.behaviour),
                        dutyMode |-> request.config.dutyMode],
            claims |-> request.claims, action |-> request.action, target |-> request.dataset,
            assetCollections |-> request.assetCollections],
   partyCollections |-> request.partyCollections, loaded |-> request.config.id,
   partyIdentityClaim |-> request.config.partyIdentityClaim,
   agreementAssigneeClaim |-> request.config.agreementAssigneeClaim]

-------------------------------------------------------------------------------
(* The reason.  A phrase: what it says, of which place in which list, and  *)
(* the words of the request it quotes.                                     *)
Says(what, place, quoted) == [says |-> what, place |-> place, quoted |-> quoted]

describe_atom(c) == <<c.left, c.operator>> \o c.right

describe_constraint(c) ==
  IF c.list = "none" THEN describe_atom(c)
  ELSE <<c.list>> \o FlattenSeq([i \in DOMAIN c.operands |-> describe_atom(c.operands[i])])

(* and and andSequence are worded alike. *)
Worded(c) ==
  describe_constraint([c EXCEPT !.list = IF @ = "andSequence" THEN "and" ELSE @])

describe_rule(rule, requested) ==
  {Says(IF rule.action = requested THEN "its action" ELSE "its action covers the requested", 0,
        <<rule.action>>)}
  \cup (IF rule.target = NoTarget THEN {} ELSE {Says("on target", 0, <<rule.target>>)})
  \cup (IF rule.constraints = <<>> THEN {Says("unconstrained", 0, <<>>)}
        ELSE {Says("constraint", i, Worded(rule.constraints[i])) : i \in DOMAIN rule.constraints})

(* The state of each duty of a permission, or remedy of a prohibition.     *)
describe_duties(rule, claims) ==
  {LET chain == ReadChain(rule.duties[d], claims) IN
     IF outstanding_duty(chain, claims)
       THEN Says("duty unresolved", d, <<chain[LastWalked(chain)].action>>)
       ELSE Says("duty satisfied", d, <<chain[1].action>>) : d \in DOMAIN rule.duties}

(* The first action the engine misses, kind by kind.                       *)
FirstUnrecognized(policy, config) ==
  LET Missed(rules) == {i \in DOMAIN rules : ~recognizes(config.actions, rules[i].action)}
      At(kind, rules) == {Says("unrecognized action", 0, <<rules[First(Missed(rules))].action>>),
                          Says(kind, First(Missed(rules)), <<>>)}
  IN  IF Missed(policy.prohibitions) # {} THEN At("in prohibition rule", policy.prohibitions)
      ELSE IF Missed(policy.permissions) # {} THEN At("in permission rule", policy.permissions)
      ELSE {Says("unrecognized action", 0, <<"of a duty">>)}

(* The first permission that grants and the first prohibition that fires.  *)
Collision(policy, ask) ==
  {Says("permission and", First(Granting(policy, ask)), <<>>),
   Says("prohibition matched", First(Fired(policy, ask)), <<>>)}

(* written: the rules with their wording; read: the same rules as they     *)
(* were decided.                                                           *)
Trace(written, read, ask, mergeForced) ==
  LET found     == describe_reason(read, ask, written.conflict, mergeForced)
      i         == found.rule
      about     == <<written.id>>
      permitted == written.permissions[i]
      banned    == written.prohibitions[i]
  IN  CASE found.clause = "unrecognized action" ->
             {Says("policy", 0, about)} \cup FirstUnrecognized(written, ask.config)
        [] found.clause = "void by merge" ->
             {Says("void", 0, about), Says("merged more than one strategy", 0, <<written.conflict>>)}
               \cup Collision(read, ask)
        [] found.clause = "void" ->
             {Says("void", 0, about), Says("strategy invalid", 0, <<>>)} \cup Collision(read, ask)
        [] found.clause \in {"prohibition", "prohibition over permission"} ->
             {Says("prohibition matched", i, about)}
               \cup describe_rule(banned, ask.action) \cup describe_duties(banned, ask.claims)
               \cup (IF found.clause = "prohibition" THEN {}
                     ELSE {Says("prohibit over permission", First(Granting(read, ask)), <<>>)})
        [] found.clause = "obligation" ->
             {Says("obligation unresolved", entry.duty, <<entry.action, written.id>>) :
                entry \in {e \in unresolved_obligations(read, ask.claims) :
                             \A f \in unresolved_obligations(read, ask.claims) : e.duty <= f.duty}}
        [] found.clause = "permission duty" ->
             {Says("permission matched", i, about)}
               \cup {phrase \in describe_duties(permitted, ask.claims) :
                       phrase.says = "duty unresolved"}
        [] found.clause = "target" ->
             {Says("permission covers the action", i, about),
              Says("but targets", 0, <<permitted.target, ask.target>>)}
        [] found.clause = "refinement" -> {Says("refinement not satisfied", i, about)}
        [] found.clause = "closed default" ->
             {Says("no permission covered and matched", 0, <<written.id, ask.action>>)}
        [] found.clause = "open default" -> {Says("open default", 0, about)}
        [] found.clause \in {"permission", "permission over prohibition"} ->
             {Says("permission matched", i, about)}
               \cup describe_rule(permitted, ask.action) \cup describe_duties(permitted, ask.claims)
               \cup (IF found.clause = "permission" THEN {}
                     ELSE {Says("perm over prohibition", First(Fired(read, ask)), <<>>)})
        [] found.clause = "not reconstructed" -> {Says("not reconstructed", 0, about)}

-------------------------------------------------------------------------------
Response(decision, dataset, reason, duties) ==
  [decision |-> decision, dataset |-> dataset, reason |-> reason, duties |-> duties]

parse_error_response(request) ==
  Response("error", "", {Says("did not parse", 0, <<variant>>) : variant \in UnknownVariants(request)}, {})

(* Why a policy is not for this caller: the claim it is held against, and  *)
(* what the caller asserts there.                                          *)
describe_mismatch(policy, who) ==
  LET key == IF policy.kind = "Agreement" /\ who.agreementAssigneeClaim # NoClaim
                   /\ ~IsAssignee(policy.assignee, who.agreementAssigneeClaim, who)
               THEN who.agreementAssigneeClaim ELSE who.partyIdentityClaim
  IN  {Says("addressed to another", 0, <<policy.id>> \o policy.assignee)}
      \cup (IF key \in DOMAIN who.ask.claims
              THEN {Says("while claiming", 0, <<key>> \o v) : v \in who.ask.claims[key]}
              ELSE {Says("while claiming nothing", 0, <<key>>)})

(* The policy that settles the answer: the first in error, else the first  *)
(* that denies, else the first.                                            *)
Deciding(read, who) ==
  LET outcome == [i \in Applicable(read, who) |->
                    decide(DecisionPolicy(read, i, OrderOf(read, i)), who.ask)]
      With(decision) == {i \in DOMAIN outcome : outcome[i] = decision}
  IN  IF With("error") # {} THEN First(With("error"))
      ELSE IF With("deny") # {} THEN First(With("deny"))
      ELSE First(DOMAIN outcome)

(* The first policy that names a profile which is not the one loaded. *)
Unrecognised(list, who) ==
  LET i == First({k \in DOMAIN list : ~(list[k].profile \subseteq {who.loaded})})
  IN  {Says("profile not recognised", 0, <<list[i].id, profile>>) :
         profile \in list[i].profile \ {who.loaded}}

ReasonOf(list, read, who) ==
  LET Written(i) == MergedPolicy(list, i, OrderOf(list, i))
      i == Deciding(read, who)
  IN  IF list = <<>> THEN {Says("no policies in the request", 0, <<>>)}
      ELSE IF Circular(list) \/ Dangling(list) THEN {Says("broken odrl:inheritFrom", 0, <<>>)}
      ELSE IF ~WellFormed(read, who) THEN Unrecognised([k \in DOMAIN list |-> Written(k)], who)
      ELSE IF Applicable(read, who) = {}
        THEN {Says("no policy applies to this caller", 0, <<>>)}
               \cup UNION {describe_mismatch(Written(k), who) : k \in DOMAIN list}
      ELSE Trace(Written(i), DecisionPolicy(read, i, OrderOf(read, i)), who.ask,
                 ConflictValuesDiffer(list, i, OrderOf(list, i)))

(* What the evaluate export returns.  A duty entry names the policy, the   *)
(* action, and where it hangs unless it is a policy obligation itself.     *)
evaluate_request(request) ==
  LET list   == request.policies
      who    == ReadCaller(request)
      read   == [i \in DOMAIN list |-> ReadPolicy(list[i], request.claims)]
      answer == AnswerTo(read, who)
  IN  IF UnknownVariants(request) # {} THEN parse_error_response(request)
      ELSE Response(answer.decision, request.dataset, ReasonOf(list, read, who),
                    {[policy |-> list[pair[1]].id, action |-> pair[2].action, resolved |-> FALSE] :
                       pair \in answer.duties})

===============================================================================
