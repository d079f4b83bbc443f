------------------------------- MODULE CoverWalk ------------------------------
(***************************************************************************)
(* ResolvedConfig::covers as the code runs it: from the requested action,  *)
(* one odrl:includedIn hop at a time, remembering the actions it has       *)
(* visited so that a profile declaring a cycle ends the walk.              *)
(***************************************************************************)
EXTENDS Taxonomy

CONSTANT Vocabularies   \* the declaration lists a loaded profile may hold

ASSUME VocabulariesAssumption == Vocabularies \subseteq Seq(ActionDecl)

VARIABLES
  actions,      \* the declarations of the resolved config
  ruleAction,   \* the action the rule names
  requested,    \* the action the request names
  current,      \* the action the walk stands on
  visited,      \* the actions it has stood on before
  answer        \* "walking" until the call returns

vars == <<actions, ruleAction, requested, current, visited, answer>>
input == <<actions, ruleAction, requested>>

TypeOK ==
  /\ actions \in Vocabularies
  /\ ruleAction \in Action
  /\ requested \in Action
  /\ current \in Action
  /\ visited \subseteq Action
  /\ answer \in {"walking", "covers", "misses"}

Init ==
  /\ actions \in Vocabularies
  /\ ruleAction \in Action
  /\ requested \in Action
  /\ current = requested
  /\ visited = {}
  /\ answer = IF ruleAction = requested THEN "covers" ELSE "walking"

(* A slip: coming back to a visited action is taken for coverage. *)
Revisit_Covering ==
  /\ answer = "walking"
  /\ current \in visited
  /\ answer' = "covers"
  /\ UNCHANGED <<input, current, visited>>

(* The walk is back on an action it already left: the taxonomy is cyclic. *)
Revisit ==
  /\ answer = "walking"
  /\ current \in visited
  /\ answer' = "misses"
  /\ UNCHANGED <<input, current, visited>>

(* The action stood on is undeclared or has no parent. *)
RunOut ==
  /\ answer = "walking"
  /\ current \notin visited
  /\ IncludedIn(actions, current) = NoAction
  /\ visited' = visited \cup {current}
  /\ answer' = "misses"
  /\ UNCHANGED <<input, current>>

(* The parent is the rule's action. *)
Found ==
  /\ answer = "walking"
  /\ current \notin visited
  /\ IncludedIn(actions, current) = ruleAction
  /\ visited' = visited \cup {current}
  /\ answer' = "covers"
  /\ UNCHANGED <<input, current>>

(* A slip: only the action just left is remembered. *)
Climb_Forgetful ==
  /\ answer = "walking"
  /\ current \notin visited
  /\ IncludedIn(actions, current) \notin {ruleAction, NoAction}
  /\ visited' = {current}
  /\ current' = IncludedIn(actions, current)
  /\ UNCHANGED <<input, answer>>

(* The parent is another action: stand on it. *)
Climb ==
  /\ answer = "walking"
  /\ current \notin visited
  /\ IncludedIn(actions, current) \notin {ruleAction, NoAction}
  /\ visited' = visited \cup {current}
  /\ current' = IncludedIn(actions, current)
  /\ UNCHANGED <<input, answer>>

Next == Revisit \/ RunOut \/ Found \/ Climb

(* The loop is straight-line code: it keeps running until it returns. *)
Spec == Init /\ [][Next]_vars /\ WF_vars(Next)

-------------------------------------------------------------------------------
(* What the walk returns is whether the rule's action is the requested one *)
(* or one of its declared ancestors, for every taxonomy: cyclic, with      *)
(* duplicate declarations, with parents nobody declares.                   *)
WalkDecidesCoverage ==
  answer # "walking" => (answer = "covers" <=> covers(actions, ruleAction, requested))

(* The strengthening of WalkDecidesCoverage that one step preserves: every *)
(* action reached is an ancestor, every parent of a visited action is      *)
(* visited or stood on, and the rule's action is none of them.             *)
WalkInv ==
  /\ covers(actions, current, requested)
  /\ \A a \in visited : covers(actions, a, requested)
  /\ requested \in visited \cup {current}
  /\ answer = "walking" => ruleAction \notin visited \cup {current}
  /\ answer = "misses" => ruleAction \notin visited /\ UpwardClosed(actions, visited)
                          /\ requested \in visited
  /\ answer # "covers" =>
       \A a \in visited :
         IncludedIn(actions, a) # NoAction => IncludedIn(actions, a) \in visited \cup {current}

===============================================================================
