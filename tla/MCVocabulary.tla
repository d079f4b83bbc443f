------------------------------ MODULE MCVocabulary ----------------------------
(* Written configurations: every declaration list of at most               *)
(* MaxDeclarations entries, with the cycles, duplicates and parents nobody *)
(* declares it holds.  Documents: two IRIs are read as the same action,    *)
(* subjects are declared twice or not at all, and up to two includedIn     *)
(* triples stand before or after the declarations.                         *)
EXTENDS Vocabulary

CONSTANTS MaxDeclarations, use, distribute, play

MCVocabularies == UNION {[1..n -> ActionDecl] : n \in 0..MaxDeclarations}

MCIRI == {"odrl:use", "odrl:play", "ex:play", "ex:distribute"}
MCLocalName ==
  [i \in MCIRI |-> CASE i = "odrl:use" -> use [] i = "ex:distribute" -> distribute
                     [] OTHER -> play]

Typed(i) == [predicate |-> "Action", subject |-> i, object |-> i]
In(i, j) == [predicate |-> "includedIn", subject |-> i, object |-> j]

Declarings == {<<>>, <<Typed("odrl:play")>>, <<Typed("odrl:play"), Typed("ex:distribute")>>,
               <<Typed("ex:play"), Typed("odrl:play"), Typed("odrl:use")>>,
               <<Typed("odrl:use"), Typed("ex:distribute"), Typed("odrl:use")>>}
Edges == {In("odrl:play", j) : j \in {"odrl:use", "ex:distribute", Literal}}
           \cup {In("ex:play", "odrl:use"), In("ex:distribute", "odrl:use"),
                 In("odrl:use", "ex:play")}

Documents ==
  {d \o e : d \in Declarings, e \in BoundedSeq(Edges, 2)}
    \cup {e \o d : d \in Declarings, e \in BoundedSeq(Edges, 2)}
Short == {d \o <<e>> : d \in Declarings \ {<<>>}, e \in Edges}

Strict(d) == [document |-> d, dutyMode |-> "deny", behaviour |-> "closed"]
Lax(d) == [document |-> d, dutyMode |-> "advise", behaviour |-> "open"]
MCStartups ==
  {<<Lax(d)>> : d \in Documents} \cup {<<Strict(d), Lax(e)>> : d \in Short, e \in Short}
===============================================================================
