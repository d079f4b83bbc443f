------------------------------- MODULE MCContexts -----------------------------
(* Contexts in miniature: a vocabulary of ODRL terms under a prefix, one   *)
(* that moves the prefix, one that takes a term back, one that sets a      *)
(* vocabulary, one with chains of prefixes up to the bound, past it and    *)
(* round in a circle, one whose terms are compact IRIs, and a message type *)
(* whose scoped context imports the first and propagates beside a type     *)
(* whose scoped context does not.  One context is not bundled, one imports *)
(* it, and a type may have it for its scoped one.                          *)
EXTENDS Contexts

MCKeyOrder == <<"Message", "Party", "action", "chain", "loop", "ns", "odrl", "odrl:action", "uid">>

MCSpelled ==
  [t \in {MCKeyOrder[i] : i \in DOMAIN MCKeyOrder} |->
     IF t = "odrl:action" THEN Compact("odrl", "action") ELSE Bare(t)]

Def(value, coercion) == [value |-> value, coercion |-> coercion, scoped |-> None]
Scoping(value, name) == [value |-> value, coercion |-> None, scoped |-> name]

Body(vocab, import, propagate, defs) ==
  [readable |-> TRUE, vocab |-> vocab, import |-> import, propagate |-> propagate, defs |-> defs]

MCBodies ==
  [w3c |-> Body(None, None, FALSE,
     [action |-> Def(Compact("odrl", "action"), "@vocab"),
      odrl |-> Def(Absolute(<<"odrl#">>), None),
      uid |-> Def(Keyword("@id"), None)]),
   moved |-> Body(None, None, FALSE,
     [action |-> Def(Compact("odrl", "action"), None), odrl |-> Def(Absolute(<<"other#">>), None),
      uid |-> Def(Compact("odrl", "uid"), "@id"),
      Party |-> Scoping(Compact("odrl", "Party"), "partial")]),
   dsp2024 |-> Body(None, None, FALSE,
     [odrl |-> Def(Absolute(<<"odrl#">>), None), action |-> Def(Compact("odrl", "action"), "@vocab")]
       @@ "odrl:action" :> Def(Compact("odrl", "action"), "@id")),
   unbundled |-> [Body(None, None, FALSE, <<>>) EXCEPT !.readable = FALSE],
   partial |-> Body(None, "unbundled", FALSE, [uid |-> Def(Keyword("@id"), None)]),
   vocab |-> Body("vocab#", None, FALSE, [action |-> Def(Bare("act"), None)]),
   chained |-> Body(None, None, FALSE,
     [action |-> Def(Compact("chain", "act"), None), chain |-> Def(Compact("odrl", "c"), None),
      loop |-> Def(Compact("uid", "l"), None), ns |-> Def(Compact("action", "n"), None),
      odrl |-> Def(Absolute(<<"odrl#">>), None), uid |-> Def(Compact("loop", "u"), None)]),
   dspace |-> Body(None, None, FALSE,
     [Message |-> Scoping(Compact("ns", "Message"), "message"),
      Party |-> Scoping(Compact("ns", "Party"), "party"),
      ns |-> Def(Absolute(<<"dspace#">>), None), uid |-> Def(Null, None)]),
   message |-> Body(None, "w3c", TRUE, [chain |-> Def(Compact("odrl", "agreed"), None)]),
   party |-> Body(None, None, FALSE,
     [action |-> Def(Compact("ns", "acts"), "@id"),
      Message |-> Def(Compact("ns", "Note"), None)])]

Named == {"w3c", "moved", "vocab", "chained", "dspace", "dsp2024", Reset}

MCWord == STRING

MCContextLists ==
  {<<>>} \cup {<<n>> : n \in Named \cup {"unbundled", "partial"}} \cup {<<m, n>> \in Named \X Named : m # n}
===============================================================================
