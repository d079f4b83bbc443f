------------------------------- MODULE Taxonomy -------------------------------
(***************************************************************************)
(* The action vocabulary a loaded profile declares: the list of action     *)
(* declarations a ResolvedConfig holds and the odrl:includedIn edges       *)
(* between them.  Everything here is a constant operator; CoverWalk models *)
(* the loop that the code runs to answer covers.                           *)
(***************************************************************************)
EXTENDS Naturals, Sequences

CONSTANTS
  Action,     \* the action identifiers a policy, a request or a profile can name
  NoAction    \* the included_in of an action that declares no parent

ASSUME NoActionAssumption == NoAction \notin Action

(* One declaration: an identifier and at most one odrl:includedIn parent.  *)
ActionDecl == [id : Action, includedIn : Action \cup {NoAction}]

(* A declaration list may declare an identifier twice: a config handed to  *)
(* ResolvedConfig::new is not deduplicated.                                *)
Declarations(actions, a) == {i \in DOMAIN actions : actions[i].id = a}

recognizes(actions, a) == Declarations(actions, a) # {}

declared_actions(actions) == {actions[i].id : i \in DOMAIN actions}

(* The declaration the code finds for an identifier is the first one.      *)
FirstDeclaration(actions, a) ==
  CHOOSE i \in Declarations(actions, a) :
    \A j \in Declarations(actions, a) : i <= j

IncludedIn(actions, a) ==
  IF recognizes(actions, a)
    THEN actions[FirstDeclaration(actions, a)].includedIn
    ELSE NoAction

(* S holds the parent of each of its members. *)
UpwardClosed(actions, S) ==
  \A a \in S : IncludedIn(actions, a) # NoAction => IncludedIn(actions, a) \in S

(***************************************************************************)
(* A rule's action covers a requested one iff it is that action or one of  *)
(* its ancestors: iff it is in every upward-closed set that holds the      *)
(* requested action.  The definition has no walk in it, so cyclic parent   *)
(* declarations need no special case.                                      *)
(***************************************************************************)
covers(actions, ruleAction, requested) ==
  \A S \in SUBSET Action :
    (requested \in S /\ UpwardClosed(actions, S)) => ruleAction \in S

===============================================================================
