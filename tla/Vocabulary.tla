------------------------------- MODULE Vocabulary -----------------------------
(***************************************************************************)
(* From profile documents to a covers answer: what the interpreter reads   *)
(* from a document, how the engine resolves the loaded profiles into one   *)
(* configuration, and the walk over the declared includedIn edges, that of *)
(* CoverWalk.  A host loads its profiles one after the other, or writes    *)
(* the configuration of a request itself.                                  *)
(*                                                                         *)
(* A document is the list of its triples, in file order.  Of an IRI only   *)
(* its local name survives interpretation.                                 *)
(***************************************************************************)
EXTENDS CoverWalk, SequencesExt

CONSTANTS
  IRI,              \* the nodes of a document
  LocalName,        \* the action identifier each of them is read as
  Literal,          \* an object that is no node
  Startups          \* the lists of profiles a host may load

ASSUME LocalNameAssumption == LocalName \in [IRI -> Action]
ASSUME LiteralAssumption == Literal \notin IRI

Triple ==
  [predicate : {"Action", "includedIn"}, subject : IRI, object : IRI \cup {Literal}]

(* A loaded profile; the two modes are the host's, never the document's.   *)
Source == [document : Seq(Triple), dutyMode : {"advise", "deny"}, behaviour : {"open", "closed"}]

ASSUME StartupsAssumption == Startups \subseteq Seq(Source)

-------------------------------------------------------------------------------
(* The triples that type their subject odrl:Action.                        *)
subjects_with_type(document) == {i \in DOMAIN document : document[i].predicate = "Action"}

(* The object of the first odrl:includedIn triple of the subject, if that  *)
(* object is a node: a literal there hides a node stated after it.         *)
object_node(document, subject) ==
  LET stated == {i \in DOMAIN document :
                   document[i].predicate = "includedIn" /\ document[i].subject = subject}
      first == document[CHOOSE i \in stated : \A j \in stated : i <= j]
  IN  IF stated = {} \/ first.object = Literal THEN NoAction ELSE LocalName[first.object]

(* A declaration is kept unless its identifier was declared before: by     *)
(* this document (sort_by and dedup_by keep the first) or by an earlier    *)
(* profile.                                                                *)
Declare(decls, decl) ==
  IF recognizes(decls, decl.id) THEN decls ELSE Append(decls, decl)

Union(decls, more) ==
  LET union[n \in 0..Len(more)] ==
        IF n = 0 THEN decls ELSE Declare(union[n - 1], more[n])
  IN  union[Len(more)]

(* The subjects typed odrl:Action are declared in file order.              *)
interpret(document) ==
  LET read[n \in 0..Len(document)] ==
        IF n = 0 THEN <<>>
        ELSE IF n \notin subjects_with_type(document) THEN read[n - 1]
        ELSE Declare(read[n - 1],
               [id |-> LocalName[document[n].subject],
                includedIn |-> object_node(document, document[n].subject)])
  IN  read[Len(document)]

Strictest(strict, mode, other) == IF strict \in {mode, other} THEN strict ELSE mode

(* A slip: the mode of the last profile loaded. *)
Merge_LastMode(config, source) ==
  [actions   |-> Union(config.actions, interpret(source.document)),
   dutyMode  |-> source.dutyMode,
   behaviour |-> Strictest("closed", config.behaviour, source.behaviour)]

(* One turn of the loop of resolve. *)
Merge(config, source) ==
  [actions   |-> Union(config.actions, interpret(source.document)),
   dutyMode  |-> Strictest("deny", config.dutyMode, source.dutyMode),
   behaviour |-> Strictest("closed", config.behaviour, source.behaviour)]

NoProfile == [actions |-> <<>>, dutyMode |-> "advise", behaviour |-> "open"]

resolve(sources) ==
  LET merged[n \in 0..Len(sources)] ==
        IF n = 0 THEN NoProfile ELSE Merge(merged[n - 1], sources[n])
  IN  merged[Len(sources)]

-------------------------------------------------------------------------------
(* Two declaration lists contradict each other: an action both declare has *)
(* another parent in the second.                                           *)
Contradict(decls, others) ==
  \E a \in Action : /\ recognizes(decls, a) /\ recognizes(others, a)
                    /\ IncludedIn(decls, a) # IncludedIn(others, a)

VARIABLES
  pending,     \* the profiles still to be loaded
  loaded,      \* the profiles loaded, in order
  dutyMode,
  behaviour

hostVars == <<pending, loaded, dutyMode, behaviour>>
vocabularyVars == <<vars, hostVars>>

Config == [actions |-> actions, dutyMode |-> dutyMode, behaviour |-> behaviour]

VocabularyInit ==
  /\ loaded = <<>>
  /\ dutyMode = NoProfile.dutyMode
  /\ behaviour = NoProfile.behaviour
  /\ \/ (* the request's config lists its actions: nothing deduplicates them *)
        pending = <<>> /\ actions \in Vocabularies
     \/ pending \in Startups /\ actions = NoProfile.actions
  /\ ruleAction \in Action
  /\ requested \in Action
  /\ current = requested
  /\ visited = {}
  /\ answer = IF ruleAction = requested THEN "covers" ELSE "walking"

(* The host loads the next profile. *)
Load ==
  /\ pending # <<>>
  /\ LET merged == Merge(Config, Head(pending)) IN
       /\ actions' = merged.actions
       /\ dutyMode' = merged.dutyMode
       /\ behaviour' = merged.behaviour
  /\ pending' = Tail(pending)
  /\ loaded' = Append(loaded, Head(pending))
  /\ UNCHANGED <<ruleAction, requested, current, visited, answer>>

(* covers is called on the configuration once all profiles are in it.      *)
Walk ==
  /\ pending = <<>>
  /\ Next
  /\ UNCHANGED hostVars

VocabularyNext == Load \/ Walk

(* Loading and the walk are straight-line code.                            *)
VocabularySpec ==
  VocabularyInit /\ [][VocabularyNext]_vocabularyVars /\ WF_vocabularyVars(VocabularyNext)

-------------------------------------------------------------------------------
(* Profiles that do not contradict each other may be loaded in any order;  *)
(* of those that do, what is recognised and the two modes still do not     *)
(* depend on it.                                                           *)
LoadOrderImmaterial ==
  pending = <<>> =>
    LET other  == resolve(Reverse(loaded))
        agreed == resolve(loaded)
    IN  /\ declared_actions(other.actions) = declared_actions(agreed.actions)
        /\ other.dutyMode = agreed.dutyMode /\ other.behaviour = agreed.behaviour
        /\ \/ \E i, j \in DOMAIN loaded :
                Contradict(interpret(loaded[i].document), interpret(loaded[j].document))
           \/ \A a, b \in Action : covers(other.actions, a, b) <=> covers(agreed.actions, a, b)

(* Startup ends and the call returns, whatever edges the profiles declare: *)
(* on a cycle that avoids the rule's action, at any distance from the      *)
(* requested one, nothing but what the walk has visited stops it.          *)
WalkEnds == <>(pending = <<>> /\ answer # "walking")

===============================================================================
