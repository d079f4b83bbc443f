-------------------------------- MODULE Contexts ------------------------------
(***************************************************************************)
(* JSON-LD contexts: what the terms of a document stand for where each of  *)
(* its nodes is read.  A node brings local contexts, applied one after     *)
(* another on the one it starts from; its types bring scoped ones; nested  *)
(* nodes start from what is left without those that do not propagate.      *)
(*                                                                         *)
(* A string is what IRI expansion tells apart: a keyword, a compact IRI    *)
(* (a prefix and the rest), an absolute IRI, or a bare word.  Any of them  *)
(* but a keyword may be defined as a term, and is looked up as one first.  *)
(* An IRI is the sequence of the pieces it was put together from.          *)
(***************************************************************************)
EXTENDS Naturals, Sequences, FiniteSets, SequencesExt

CONSTANTS
  Word,         \* the pieces IRIs are put together from, and coercions
  Term,         \* the strings contexts define: keys, prefixes and types
  Spelled,      \* the string each of them is
  KeyOrder,     \* the terms in the order a sorted map visits them
  Bodies,       \* the context objects, by name: bundled, inline and scoped ones
  ContextLists, \* the local contexts a node may carry
  MAX_PREFIX_CHAIN,
  MaxNodes      \* bound: the nodes on a path through the document

(* What a @context may be besides an object. *)
Reset == "null"

None == "none"
AsWritten == "as written"

CONSTANTS
  \* a body: [readable, vocab, import, propagate, defs], each def [value,
  \* coercion, scoped]; what is not bundled and what is no context is one
  \* that cannot be read
  NoWord        \* no prefix, and no term

Keyword(word) == [form |-> "keyword", prefix |-> NoWord, text |-> <<word>>]
Compact(prefix, rest) == [form |-> "compact", prefix |-> prefix, text |-> <<rest>>]
Absolute(text) == [form |-> "absolute", prefix |-> NoWord, text |-> text]
Bare(word) == [form |-> "bare", prefix |-> NoWord, text |-> <<word>>]
Null == [form |-> "null", prefix |-> NoWord, text |-> <<>>]

NoIri == <<>>
KeywordWords == {"@id", "@type", "@language"}

EmptyCtx == [terms |-> <<>>, vocab |-> None]

Value ==
  [form : {"keyword", "compact", "absolute", "bare", "null"}, prefix : Term \cup {NoWord},
   text : Seq(Word)]

RawDef == [value : Value, coercion : Word, scoped : DOMAIN Bodies \cup {None}]

(* What a string is put together from is never nothing; bundled contexts   *)
(* import none in a circle; a sorted map visits every term; two terms are  *)
(* two strings, and those with an @ in front are not defined.              *)
ASSUME ContextsAssumption ==
  /\ {None, AsWritten} \subseteq Word
  /\ IsFiniteSet(Term) /\ IsFiniteSet(DOMAIN Bodies) /\ MAX_PREFIX_CHAIN \in Nat
  /\ Term \subseteq Word
  /\ KeyOrder \in Seq(Term) /\ \A t \in Term : \E k \in DOMAIN KeyOrder : KeyOrder[k] = t
  /\ NoWord \notin Term
  /\ Spelled \in [Term -> Value] /\ IsInjective(Spelled)
  /\ \A t \in Term : Spelled[t].form \in {"compact", "absolute", "bare"}
  /\ {None, Reset} \cap DOMAIN Bodies = {}
  /\ ContextLists \subseteq Seq(DOMAIN Bodies \cup {Reset})
  /\ \A b \in DOMAIN Bodies :
       /\ Bodies[b].readable \in BOOLEAN
       /\ Bodies[b].vocab \in Word /\ Bodies[b].propagate \in BOOLEAN
       /\ DOMAIN Bodies[b].defs \subseteq Term
       /\ \A t \in DOMAIN Bodies[b].defs :
            /\ Bodies[b].defs[t] \in RawDef
            /\ Bodies[b].defs[t].value.form = "compact" => Bodies[b].defs[t].value.prefix \in Term
            /\ Bodies[b].defs[t].value # Null => Bodies[b].defs[t].value.text # <<>>
  /\ \E depth \in [DOMAIN Bodies -> 0..Cardinality(DOMAIN Bodies)] :
       \A b \in DOMAIN Bodies : Bodies[b].import # None =>
         Bodies[b].import \in DOMAIN Bodies /\ depth[Bodies[b].import] < depth[b]

VARIABLES
  ctx,          \* the active context: of the node under way
  childBase,    \* what nested nodes start from
  pending,      \* the local contexts of the node still to be applied
  path,         \* the nodes from the root down: the contexts and types of each
  status        \* "contexts", "reading" or "failed"

contextVars == <<ctx, childBase, pending, path, status>>

-------------------------------------------------------------------------------
(* Only keywords are written with an @. *)
StartsWithAt(iri) == iri # NoIri /\ iri[1] \in KeywordWords

term_iri(c, term) ==
  IF term \in DOMAIN c.terms /\ ~StartsWithAt(c.terms[term].iri) THEN c.terms[term].iri ELSE NoIri

(* A slip: a prefix is what it was before this object, if it was anything. *)
Based_Inherited(c, prefix, resolved) ==
  IF term_iri(c, prefix) # NoIri THEN term_iri(c, prefix) ELSE resolved

(* The object's own definition of a prefix comes before the inherited one. *)
Based(c, prefix, resolved) ==
  IF resolved # NoIri THEN resolved ELSE term_iri(c, prefix)

(* One definition, given what its prefix resolves to in the object.  A     *)
(* compact IRI of no known prefix is taken as written.                     *)
resolve_value(c, v, resolved) ==
  LET base == Based(c, v.prefix, resolved)
  IN  IF v.form = "keyword" THEN v.text
      ELSE IF v.form = "compact"
        THEN (IF base # NoIri THEN base ELSE <<AsWritten, v.prefix>>) \o v.text
      ELSE IF c.vocab = None THEN v.text ELSE <<c.vocab>> \o v.text

(* raw: the definitions of one object.  A prefix may be defined by another *)
(* prefix, MAX_PREFIX_CHAIN of them.                                       *)
resolve_raw_term(c, raw, asked) ==
  LET iri[left \in 0..(MAX_PREFIX_CHAIN + 1)] ==
        [term \in Term |->
           IF left = 0 \/ term \notin DOMAIN raw THEN NoIri
           ELSE resolve_value(c, raw[term].value, iri[left - 1][raw[term].value.prefix])]
  IN  iri[MAX_PREFIX_CHAIN + 1][asked]

Define(c, term, def, iri) ==
  [c EXCEPT !.terms = [t \in DOMAIN @ \cup {term} |->
     IF t = term THEN [iri |-> iri, coercion |-> def.coercion, scoped |-> def.scoped] ELSE @[t]]]

DefineKey(c, raw, t) ==
  IF t \in DOMAIN raw THEN Define(c, t, raw[t], resolve_raw_term(c, raw, t)) ELSE c

(* @vocab first, then removals, then the definitions, key by key: each is  *)
(* resolved in the context the ones before it are already in.              *)
put_on(c, body) ==
  LET vocabbed == [c EXCEPT !.vocab = IF body.vocab = None THEN @ ELSE body.vocab]
      gone == {t \in DOMAIN body.defs : body.defs[t].value = Null}
      kept == [vocabbed EXCEPT !.terms = [t \in DOMAIN @ \ gone |-> @[t]]]
      raw == [t \in DOMAIN body.defs \ gone |-> body.defs[t]]
      after[k \in 0..Len(KeyOrder)] ==
        IF k = 0 THEN kept ELSE DefineKey(after[k - 1], raw, KeyOrder[k])
  IN  after[Len(KeyOrder)]

(* What an object imports is under it. *)
process_context_object(c, name) ==
  LET processed[b \in DOMAIN Bodies] ==
        put_on(IF Bodies[b].import = None THEN c ELSE processed[Bodies[b].import], Bodies[b])
  IN  processed[name]

process_context(c, name) ==
  IF name = Reset THEN EmptyCtx ELSE process_context_object(c, name)

(* A slip: what a context imports is left out if it cannot be read. *)
Readable_Itself(name) == name # Reset => Bodies[name].readable

(* Nothing is fetched: a context that is not bundled, that is no context,  *)
(* or that imports one of these, cannot be read.                           *)
Readable(name) ==
  LET readable[b \in DOMAIN Bodies] ==
        /\ Bodies[b].readable
        /\ Bodies[b].import # None => readable[Bodies[b].import]
  IN  name # Reset => readable[name]

-------------------------------------------------------------------------------
(* The term a string is, if it is one. *)
AsTerm(s) ==
  IF \E t \in Term : Spelled[t] = s THEN CHOOSE t \in Term : Spelled[t] = s ELSE NoWord

(* IRI expansion of a string where terms (vocab) or are not looked up.     *)
expand_iri(c, s, vocab) ==
  IF s.form = "keyword" THEN s.text
  ELSE IF vocab /\ term_iri(c, AsTerm(s)) # NoIri THEN term_iri(c, AsTerm(s))
  ELSE IF s.form = "compact"
    THEN (IF term_iri(c, s.prefix) # NoIri THEN term_iri(c, s.prefix)
          ELSE <<AsWritten, s.prefix>>) \o s.text
  ELSE IF s.form = "bare" /\ vocab /\ c.vocab # None THEN <<c.vocab>> \o s.text
  ELSE s.text

is_resolved(c, s, vocab) ==
  s.form = "bare" => vocab /\ (term_iri(c, AsTerm(s)) # NoIri \/ c.vocab # None)

(* A key is an alias of a keyword, a property, or dropped, as are all      *)
(* keywords but two.                                                       *)
expand_key(c, s) ==
  LET alias == IF AsTerm(s) \in DOMAIN c.terms THEN c.terms[AsTerm(s)].iri ELSE NoIri
      named == IF StartsWithAt(alias) THEN alias ELSE s.text
  IN  IF StartsWithAt(alias) \/ s.form = "keyword"
        THEN (IF named \in {<<"@id">>, <<"@type">>} THEN named ELSE NoIri)
      ELSE IF is_resolved(c, s, TRUE) THEN expand_iri(c, s, TRUE) ELSE NoIri

(* A string under a key: an IRI where the key's term coerces it, otherwise *)
(* a literal, byte for byte.                                               *)
expand_value(c, coercion, s) ==
  IF coercion = None THEN [iri |-> FALSE, text |-> s]
  ELSE [iri |-> TRUE, text |-> expand_iri(c, s, coercion = "@vocab")]

-------------------------------------------------------------------------------
(* The terms among a node's types that bring a context of their own.       *)
ScopingTypes(c, types) == {t \in types \cap DOMAIN c.terms : c.terms[t].scoped # None}

(* Their contexts on top of the one they are looked up in, sorted by term. *)
put_on_scoped(c, types) ==
  LET after[k \in 0..Len(KeyOrder)] ==
        IF k = 0 THEN c
        ELSE IF KeyOrder[k] \in types
          THEN process_context(after[k - 1], c.terms[KeyOrder[k]].scoped)
          ELSE after[k - 1]
  IN  after[Len(KeyOrder)]

(* A slip: every scoped context reaches the nested nodes. *)
Propagating_Always(name) == TRUE

Propagating(name) == Bodies[name].propagate

(* The types are looked up in the context before any of them applies.      *)
apply_type_scoped(c, types) ==
  LET scoping == ScopingTypes(c, types)
  IN  [effective |-> put_on_scoped(c, scoping),
       child_base |-> put_on_scoped(c, {t \in scoping : Propagating(c.terms[t].scoped)})]

-------------------------------------------------------------------------------
Init ==
  /\ ctx = EmptyCtx
  /\ childBase = EmptyCtx
  /\ pending \in ContextLists
  /\ path = <<[contexts |-> pending, types |-> {}]>>
  /\ status = "contexts"

(* The next local context of the node is put on top. *)
Apply ==
  /\ status = "contexts"
  /\ pending # <<>>
  /\ Readable(Head(pending))
  /\ ctx' = process_context(ctx, Head(pending))
  /\ pending' = Tail(pending)
  /\ UNCHANGED <<childBase, path, status>>

(* One that cannot be read fails the document. *)
Refuse ==
  /\ status = "contexts"
  /\ pending # <<>>
  /\ ~Readable(Head(pending))
  /\ status' = "failed"
  /\ UNCHANGED <<ctx, childBase, pending, path>>

ScopesReadable(types) == \A t \in ScopingTypes(ctx, types) : Readable(ctx.terms[t].scoped)

(* The node's types are read, and its properties after them. *)
Enter(types) ==
  /\ status = "contexts"
  /\ pending = <<>>
  /\ ScopesReadable(types)
  /\ ctx' = apply_type_scoped(ctx, types).effective
  /\ childBase' = apply_type_scoped(ctx, types).child_base
  /\ path' = [path EXCEPT ![Len(path)].types = types]
  /\ status' = "reading"
  /\ UNCHANGED pending

(* So does a scoped context of one of them that cannot be read. *)
RefuseScoped(types) ==
  /\ status = "contexts"
  /\ pending = <<>>
  /\ ~ScopesReadable(types)
  /\ path' = [path EXCEPT ![Len(path)].types = types]
  /\ status' = "failed"
  /\ UNCHANGED <<ctx, childBase, pending>>

(* A property's value is a node of its own. *)
Nest(contexts) ==
  /\ status = "reading"
  /\ Len(path) < MaxNodes
  /\ ctx' = childBase
  /\ pending' = contexts
  /\ path' = Append(path, [contexts |-> contexts, types |-> {}])
  /\ status' = "contexts"
  /\ UNCHANGED childBase

Next ==
  \/ Apply \/ Refuse
  \/ \E types \in SUBSET {t \in Term : \E n \in DOMAIN Bodies :
                             t \in DOMAIN Bodies[n].defs /\ Bodies[n].defs[t].scoped # None} :
       Enter(types) \/ RefuseScoped(types)
  \/ \E contexts \in ContextLists : Nest(contexts)

Spec == Init /\ [][Next]_contextVars

-------------------------------------------------------------------------------
(* The hops from a term to the end of its chain of prefixes in one object. *)
Hops(defs) ==
  LET hops[n \in 0..Cardinality(Term)] ==
        [t \in Term |->
           IF t \notin DOMAIN defs \/ defs[t].value.form # "compact" THEN 0
           ELSE IF n = 0 THEN MAX_PREFIX_CHAIN + 1
           ELSE 1 + hops[n - 1][defs[t].value.prefix]]
  IN  [t \in DOMAIN defs |-> hops[Cardinality(Term)][t]]

(* A definition holds in the context it is part of: its IRI is the one its *)
(* prefix has there, and the rest.                                         *)
DefinitionHolds(c, t, v) ==
  v.form = "compact" /\ term_iri(c, v.prefix) # NoIri =>
    c.terms[t].iri = term_iri(c, v.prefix) \o v.text

(* A context object says one thing, in whatever order its keys are met:    *)
(* each definition it makes holds in the context it gives, what it removes *)
(* is gone, what it does not name is as its import left it.                *)
ContextMeansWhatItSays ==
  [][status = "contexts" /\ status' = "contexts" /\ pending' # pending /\ Head(pending) # Reset =>
       LET body == Bodies[Head(pending)]
           before == IF body.import = None THEN ctx ELSE process_context(ctx, body.import)
       IN  /\ \A t \in DOMAIN body.defs :
                IF body.defs[t].value = Null THEN t \notin DOMAIN ctx'.terms
                ELSE /\ t \in DOMAIN ctx'.terms
                     /\ ctx'.terms[t].coercion = body.defs[t].coercion
                     /\ Hops(body.defs)[t] <= MAX_PREFIX_CHAIN =>
                          DefinitionHolds(ctx', t, body.defs[t].value)
           /\ \A t \in Term \ DOMAIN body.defs :
                /\ t \in DOMAIN ctx'.terms <=> t \in DOMAIN before.terms
                /\ t \in DOMAIN ctx'.terms => ctx'.terms[t] = before.terms[t]]_contextVars

-------------------------------------------------------------------------------
(* A context with what it imports, imports first. *)
WithImports(name) ==
  LET chain[b \in DOMAIN Bodies] ==
        IF Bodies[b].import = None THEN <<b>> ELSE Append(chain[Bodies[b].import], b)
  IN  IF name = Reset THEN <<Reset>> ELSE chain[name]

(* The last of a sequence of contexts to say anything of a term, a reset   *)
(* included; "none" if none does.                                          *)
LastWord(names, t) ==
  LET say == {k \in DOMAIN names : names[k] = Reset \/ t \in DOMAIN Bodies[names[k]].defs}
  IN  IF say = {} THEN None ELSE names[CHOOSE k \in say : \A j \in say : j <= k]

Scope(names, t) ==
  IF LastWord(names, t) \in {None, Reset} \/ Bodies[LastWord(names, t)].defs[t].value = Null
    THEN None
    ELSE Bodies[LastWord(names, t)].defs[t].scoped

(* On top of some contexts, those a node carries, and the scoped ones of   *)
(* some of its types.                                                      *)
OnTop(names, contexts) ==
  names \o FlattenSeq([i \in DOMAIN contexts |-> WithImports(contexts[i])])

Under(own, types) ==
  LET scope(t) == IF t \in types THEN Scope(own, t) ELSE None
  IN  own \o FlattenSeq([i \in DOMAIN KeyOrder |->
               IF scope(KeyOrder[i]) = None THEN <<>> ELSE WithImports(scope(KeyOrder[i]))])

Reaching(own, types) == {t \in types : Scope(own, t) # None /\ Bodies[Scope(own, t)].propagate}

(* The contexts that come down from nodes to those nested in them: of      *)
(* their types those that propagate count.                                 *)
Past(above, node) ==
  LET own == OnTop(above, node.contexts) IN Under(own, Reaching(own, node.types))

ComingDown(nodes) ==
  LET past[k \in 0..Len(nodes)] == IF k = 0 THEN <<>> ELSE Past(past[k - 1], nodes[k])
  IN  past[Len(nodes)]

(* In force for the properties of the last node: of its own types all.     *)
InForce ==
  LET node == path[Len(path)]
  IN  Under(OnTop(ComingDown(Front(path)), node.contexts), node.types)

DefinedAs(t, last) ==
  LET defined == last \notin {None, Reset} /\ Bodies[last].defs[t].value # Null
  IN  /\ t \in DOMAIN ctx.terms <=> defined
      /\ defined => /\ ctx.terms[t].coercion = Bodies[last].defs[t].coercion
                    /\ ctx.terms[t].scoped = Bodies[last].defs[t].scoped

AllDefinedBy(names) == \A t \in Term : DefinedAs(t, LastWord(names, t))

(* Where the properties of a node are read, a term is defined as the last  *)
(* context in force to name it says, and not at all if that one removed    *)
(* it: no scoped context outlives the node it was for, and none that       *)
(* propagates is lost on the way down.                                     *)
LastDefinitionWins == status = "reading" => AllDefinedBy(InForce)

(* A document is read to its end only if every context it brings in, on a  *)
(* node, by an import or with a type, can be read; and fails only if one   *)
(* cannot.  None is passed over, which would leave its terms to others.    *)
FailsOnUnreadable ==
  status # "contexts" =>
    LET names == InForce IN
      status = "failed" <=> \E k \in DOMAIN names : names[k] # Reset /\ ~Bodies[names[k]].readable

AlikeAs(t, last, names) ==
  LET v == Bodies[last].defs[t].value
      same == AsTerm(v)
  IN  (/\ v.form = "compact"
       /\ LastWord(names, v.prefix) = last
       /\ Hops(Bodies[last].defs)[t] <= MAX_PREFIX_CHAIN
       /\ term_iri(ctx, v.prefix) # NoIri
       /\ same \in DOMAIN ctx.terms =>
            LastWord(names, same) = last /\ Bodies[last].defs[same].value = v)
      => /\ expand_key(ctx, Spelled[t]) = expand_key(ctx, v)
         /\ expand_value(ctx, "@vocab", Spelled[t]) = expand_value(ctx, "@vocab", v)

AlikeUnder(names) == \A t \in DOMAIN ctx.terms : AlikeAs(t, LastWord(names, t), names)

(* Two spellings of a term: its own, and the compact IRI it is defined by; *)
(* where one object defined the term and its prefix, both mean it, as a    *)
(* key and as a value a key coerces to the vocabulary, unless the compact  *)
(* IRI is itself a term and another context defined that, as the keys of   *)
(* dsp-2024-1 are when a later context moves their prefix.                 *)
SpellingsAgree == status = "reading" => AlikeUnder(InForce)

AlikeInFull(last, v, names) ==
  (/\ v.form = "compact"
   /\ LastWord(names, v.prefix) = last
   /\ Bodies[last].defs[v.prefix].value.form = "absolute"
   /\ AsTerm(v) \notin DOMAIN ctx.terms)
  => expand_key(ctx, v)
       = expand_key(ctx, Absolute(Bodies[last].defs[v.prefix].value.text \o v.text))

AlikeInFullUnder(names) ==
  \A t \in DOMAIN ctx.terms :
    LET last == LastWord(names, t) IN AlikeInFull(last, Bodies[last].defs[t].value, names)

(* dsp-odrl-adapter/README.md: a full IRI in place of the compact one it   *)
(* is the expansion of reads identically, and no @vocab corrupts it.       *)
AbsoluteSpellingAgrees == status = "reading" => AlikeInFullUnder(InForce)

===============================================================================
