------------------------------- MODULE MCAdapter ------------------------------
(* A bare policy or one in an offer beside an asset, up to MaxFacts        *)
(* statements added anywhere in it.                                        *)
EXTENDS Adapter

Bare == [p \in {} |-> <<>>]
Acts(a) == [action |-> <<Iri(a)>>]
Rule1(id, props) == Inline(NodeOf(id, FALSE, props))

PolicyNode == NodeOf("p", TRUE, [assigner |-> <<Iri("alice")>>])
Offer == NodeOf("m", FALSE, [offer |-> <<Inline(PolicyNode)>>,
                             dataset |-> <<Inline(NodeOf("d3", FALSE, Bare))>>])

AtomNode(left, right) ==
  Inline(NodeOf(NoId, FALSE, [leftOperand |-> <<Iri(left)>>, operator |-> <<Iri("eq")>>,
                              rightOperand |-> <<Literal(right)>>]))
GroupNode(g, first, second) ==
  Inline(NodeOf(NoId, FALSE, (g :> <<first, second>>) @@ Bare))

(* A constrained permission, for more constraints to be added. *)
Constrained ==
  {NodeOf("p", TRUE, [assigner |-> <<Iri("alice")>>, permission |->
     <<Rule1("r", [action |-> <<Iri("use")>>, constraint |-> <<c>>])>>]) :
     c \in {AtomNode("k", "u"), GroupNode("and", AtomNode("k", "u"), AtomNode("l", "u")),
            GroupNode("or", AtomNode("k", "u"), AtomNode("k", "v"))}}

MCEnvelopes == {PolicyNode, Offer} \cup Constrained

Fact(under, prop, value) == [under |-> under, prop |-> prop, value |-> value]

PolicyFacts ==
  {Fact("policy", "target", Iri("d1")), Fact("policy", "target", Literal("d2")),
   Fact("policy", "action", Iri("read")),
   Fact("policy", "permission", Rule1("r", Bare)),
   Fact("policy", "permission", Rule1("r", [action |-> <<Iri("use"), Iri("read")>>])),
   Fact("policy", "permission", Iri("r")),
   Fact("policy", "prohibition", Rule1(NoId, Acts("use"))),
   Fact("policy", "obligation", Rule1("o", Acts("use")))}
RuleFacts ==
  {Fact("permission", "target", Iri("d1")), Fact("permission", "target", Iri("d2")),
   Fact("prohibition", "target", Iri("d1"))}
DutyFacts ==
  {Fact("permission", "duty", Rule1(NoId, [action |-> <<Iri("pay"), Iri("read")>>])),
   Fact("obligation", "consequence", Rule1(NoId, Acts("pay"))),
   Fact("duty", "consequence", Rule1(NoId, Acts("pay"))),
   Fact("duty", "target", Iri("d1")),
   Fact("consequence", "consequence", Rule1(NoId, Acts("use")))}
OtherFacts ==
  {Fact("dataset", "hasPolicy", Iri(id)) : id \in {"p", "r", "x"}}
    \cup {Fact("dataset", "assigneeOf", Iri("p")),
          Fact("root", "offer", Inline(PolicyNode))}
ConstraintFacts ==
  {Fact("constraint", "xone", AtomNode("k", "v")),
   Fact("permission", "constraint", AtomNode("k", "v"))}

(* A target and an action described in place. *)
DescribedFacts ==
  {Fact("permission", "target", Inline(NodeOf("d2", FALSE, [title |-> <<Literal("Two")>>]))),
   Fact("permission", "action", Inline(NodeOf(NoId, FALSE,
     [value |-> <<Iri("read")>>, refinement |-> <<AtomNode("k", "u"), AtomNode("l", "u")>>]))),
   Fact("policy", "conflict", Iri("perm"))}

MCFacts == PolicyFacts \cup RuleFacts \cup DutyFacts \cup OtherFacts \cup ConstraintFacts \cup DescribedFacts
MCVocabularies == {Declared(S) : S \in SUBSET Action}
===============================================================================
