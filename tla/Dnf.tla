---------------------------------- MODULE Dnf ---------------------------------
(***************************************************************************)
(* The compliance runner's translation of a fixture - a policy, a request  *)
(* and the state of the world - into a request to the engine.  Whom a rule *)
(* is addressed to, what it is about and whether its duty was breached are *)
(* settled from the world before anything is sent; a rule's constraint is  *)
(* expanded into disjunctive normal form and the rule sent once per        *)
(* disjunct, each copy carrying the disjunct's constraints as a plain      *)
(* list.  The tree of ConstraintTree is the constraint of a fixture's rule.*)
(***************************************************************************)
EXTENDS ConstraintTree, Decision, SequencesExt

CONSTANTS
  Party,        \* who may ask, and the collections they may be part of
  Sub,          \* the claim that names the caller
  Fixtures      \* policies, requests and worlds: see Fixture

(* A party or an asset a rule names, itself or as a collection, or none.   *)
Reference == [form : {"none", "individual", "collection"}, name : Party \cup Asset]

(* A rule without an action is about any; constrained: it carries tree.    *)
RuleInfo ==
  [kind : {"permission", "prohibition"}, assignee : Reference, target : Reference,
   action : Action \cup {NoAction}, constrained : BOOLEAN, nestedDuty : BOOLEAN]

RequestInfo == [assignee : Party, action : Action, target : Asset \cup {NoTarget}]

Fixture ==
  [rules : Seq(RuleInfo), request : RequestInfo, actions : Vocabularies,
   partOf : SUBSET ((Party \cup Asset) \X (Party \cup Asset)), violated : BOOLEAN]

ASSUME SubAssumption == Sub \notin Key

(* The corpus uses no action that the runner's vocabulary leaves out.      *)
ASSUME FixturesAssumption ==
  /\ Fixtures \subseteq Fixture
  /\ \A f \in Fixtures :
       {f.request.action} \cup {f.rules[i].action : i \in DOMAIN f.rules}
         \subseteq declared_actions(f.actions) \cup {NoAction}

(* The comparisons of the runner's fixtures that the engine has.           *)
resolve_operator == {"eq", "neq", "lt", "lteq", "gt", "gteq"}

(* The trees a fixture can hold: odrl:and and odrl:or, one list an object. *)
Translatable ==
  \A n \in DOMAIN tree :
    IF is_logical(tree[n]) THEN tree[n].fields \in {{"and"}, {"or"}}
                           ELSE tree[n].atom.operator \in resolve_operator

(* A slip: a prefix is not taken up again for the next disjunct. *)
Extended_First(conjunctions, disjuncts) ==
  {prefix \cup (CHOOSE disjunct \in disjuncts : TRUE) :
     prefix \in IF disjuncts = {} THEN {} ELSE conjunctions}

(* Each conjunction so far with each disjunct of the next operand.         *)
Extended(conjunctions, disjuncts) ==
  {prefix \cup disjunct : prefix \in conjunctions, disjunct \in disjuncts}

(* The disjuncts of a tree, each the set of the atoms that must all hold.  *)
to_dnf ==
  LET dnf[n \in DOMAIN tree] ==
        LET expand[m \in n..Len(tree)] ==
              IF m = n THEN {{}}
              ELSE IF m \in logical_children(n) THEN Extended(expand[m - 1], dnf[m])
              ELSE expand[m - 1]
        IN  IF ~is_logical(tree[n]) THEN {{tree[n].atom}}
            ELSE IF Combining(tree[n]) = "or" THEN UNION {dnf[m] : m \in logical_children(n)}
            ELSE expand[Len(tree)]
  IN  dnf[1]

-------------------------------------------------------------------------------
is_member_of(fixture, member, collection) == <<member, collection>> \in fixture.partOf

InScope(fixture, reference, name) ==
  \/ reference.form = "none"
  \/ reference.form = "individual" /\ reference.name = name
  \/ reference.form = "collection" /\ is_member_of(fixture, name, reference.name)

(* The world reports the duty violated; no report is no breach.            *)
duty_is_violated(fixture, rule) == rule.nestedDuty /\ fixture.violated

Survives(fixture, rule) ==
  /\ InScope(fixture, rule.assignee, fixture.request.assignee)
  /\ InScope(fixture, rule.target, fixture.request.target)
  /\ ~duty_is_violated(fixture, rule)

(* The caller the rule is addressed to, as a constraint on the claims.     *)
BaseConstraints(fixture, rule) ==
  IF rule.assignee.form = "none" THEN {}
  ELSE {[leftOperand |-> Sub, operator |-> "eq", rightOperand |-> {fixture.request.assignee}]}

Copies(fixture, rule) ==
  LET disjuncts == SetToSeq(IF rule.constrained THEN to_dnf ELSE {{}})
      action == IF rule.action = NoAction THEN fixture.request.action ELSE rule.action
  IN  IF ~Survives(fixture, rule) THEN <<>>
      ELSE [d \in DOMAIN disjuncts |->
              [action |-> action, target |-> NoTarget, refinement |-> {}, duties |-> <<>>,
               constraints |-> BaseConstraints(fixture, rule) \cup disjuncts[d]]]

CopiesOf(fixture, kind) ==
  FlattenSeq([i \in DOMAIN fixture.rules |->
                IF fixture.rules[i].kind = kind THEN Copies(fixture, fixture.rules[i]) ELSE <<>>])

translate(fixture) ==
  [permissions |-> CopiesOf(fixture, "permission"),
   prohibitions |-> CopiesOf(fixture, "prohibition"),
   obligations |-> <<>>, conflict |-> "invalid"]

(* The claims: who asks, besides the facts of the world.                   *)
TranslatedAsk(fixture) ==
  [config |-> [actions |-> fixture.actions, behaviour |-> "closed", dutyMode |-> "advise"],
   claims |-> [k \in DOMAIN claims \cup {Sub} |->
                 IF k = Sub THEN {fixture.request.assignee} ELSE claims[k]],
   action |-> fixture.request.action, target |-> fixture.request.target,
   assetCollections |-> {}]

(* A policy no rule of which survives is not sent; none sent is a Deny.    *)
AnswerToFixture(fixture) ==
  LET sent == translate(fixture) IN
  IF sent.permissions = <<>> /\ sent.prohibitions = <<>> THEN "deny"
  ELSE decide(sent, TranslatedAsk(fixture))

-------------------------------------------------------------------------------
(* Active, in the suite's reports: every premise of the rule holds.        *)
Active(fixture, rule) ==
  /\ Survives(fixture, rule)
  /\ rule.action = NoAction \/ covers(fixture.actions, rule.action, fixture.request.action)
  /\ rule.constrained => evaluate_bounded(claims, MaxNodes)

(* The verdict the suite's report of each rule stands for.                 *)
expected_decision(fixture) ==
  LET ActiveOf(kind) == \E i \in DOMAIN fixture.rules :
                          fixture.rules[i].kind = kind /\ Active(fixture, fixture.rules[i])
  IN  IF ActiveOf("prohibition") THEN "deny"
      ELSE IF ActiveOf("permission") THEN "allow" ELSE "deny"

(* Sending the copies asks what the fixture asks: what the engine decides  *)
(* of the plain rules is what the suite's reading of the rules, constraint *)
(* trees and all, expects - empty lists and policies none of whose rules   *)
(* is about the request included.                                          *)
TranslationAgrees ==
  Translatable => \A f \in Fixtures : AnswerToFixture(f) = expected_decision(f)

===============================================================================
