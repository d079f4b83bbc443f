-------------------------------- MODULE Inherit -------------------------------
(***************************************************************************)
(* odrl:inheritFrom over the policies of one request: ancestor_order as    *)
(* the recursive, memoised walk the code runs, one call or one return a    *)
(* step, and the loop of resolve_inherit_from that calls it for each       *)
(* policy in turn.                                                         *)
(***************************************************************************)
EXTENDS Lineage

CONSTANT Requests   \* the policy lists a request may carry

ASSUME RequestsAssumption ==
  \A list \in Requests :
    /\ list \in Seq({list[i] : i \in DOMAIN list})
    /\ \A i \in DOMAIN list : list[i].id \in PolicyId /\ list[i].inheritFrom \in Seq(PolicyId)

VARIABLES
  policies,     \* the policies of the request
  memo,         \* id -> its ancestors, for the ids resolved so far
  stack,        \* the calls under way, outermost first
  orders,       \* the ancestors of policies[1], policies[2], ...
  status        \* "resolving", "resolved", "circular" or "missing"

inheritVars == <<policies, memo, stack, orders, status>>

Frame == [id : PolicyId, next : Nat, order : Seq(PolicyId)]

InheritTypeOK ==
  /\ policies \in Requests
  /\ \E known \in SUBSET PolicyId : memo \in [known -> Seq(PolicyId)]
  /\ stack \in Seq(Frame)
  /\ orders \in Seq(Seq(PolicyId))
  /\ status \in {"resolving", "resolved", "circular", "missing"}

InheritInit ==
  /\ policies \in Requests
  /\ memo = <<>>
  /\ stack = <<>>
  /\ orders = <<>>
  /\ status = "resolving"

-------------------------------------------------------------------------------
Top == stack[Len(stack)]

(* The call about to be made: by the loop over the policies, or for the    *)
(* next parent of the call on top of the stack.                            *)
Calling ==
  /\ status = "resolving"
  /\ IF stack = <<>> THEN Len(orders) < Len(policies)
                     ELSE Top.next <= Len(ParentsOf(policies, Top.id))

Callee ==
  IF stack = <<>> THEN policies[Len(orders) + 1].id
                  ELSE ParentsOf(policies, Top.id)[Top.next]

(* A slip: only the call that asks is looked at.                           *)
OnStack_Top(id) == stack # <<>> /\ Top.id = id

OnStack(id) == \E f \in DOMAIN stack : stack[f].id = id

(* Ancestors already taken over by an earlier path are not repeated.       *)
TakeOver(order, ancestors) ==
  FoldLeft(LAMBDA acc, a : IF \E i \in DOMAIN acc : acc[i] = a THEN acc ELSE Append(acc, a),
           order, ancestors)

(* The call that asked for a parent comes to its next one.                 *)
Advance(call, parent, ancestors) ==
  [id |-> call.id, next |-> call.next + 1,
   order |-> TakeOver(call.order, <<parent>> \o ancestors)]

(* A call for id returns its ancestors to whoever made it: calls are those *)
(* still under way.                                                        *)
Deliver(id, ancestors, calls) ==
  IF calls = <<>>
    THEN /\ orders' = Append(orders, ancestors)
         /\ stack' = calls
    ELSE /\ stack' = [calls EXCEPT ![Len(calls)] = Advance(@, id, ancestors)]
         /\ UNCHANGED orders

Memoise(id, ancestors) ==
  memo' = [i \in DOMAIN memo \cup {id} |-> IF i = id THEN ancestors ELSE memo[i]]

-------------------------------------------------------------------------------
(* The id was resolved before. *)
Recall ==
  /\ Calling
  /\ Callee \in DOMAIN memo
  /\ Deliver(Callee, memo[Callee], stack)
  /\ UNCHANGED <<policies, memo, status>>

(* The id is being resolved already: the chain is circular. *)
Circle ==
  /\ Calling
  /\ Callee \notin DOMAIN memo
  /\ OnStack(Callee)
  /\ status' = "circular"
  /\ UNCHANGED <<policies, memo, stack, orders>>

(* No policy of the request has the id. *)
Missing ==
  /\ Calling
  /\ ~OnStack(Callee)
  /\ Callee \notin Ids(policies) \cup DOMAIN memo
  /\ status' = "missing"
  /\ UNCHANGED <<policies, memo, stack, orders>>

(* A policy without parents has no ancestors. *)
Root ==
  /\ Calling
  /\ Callee \in Ids(policies) \ DOMAIN memo
  /\ ~OnStack(Callee)
  /\ ParentsOf(policies, Callee) = <<>>
  /\ Memoise(Callee, <<>>)
  /\ Deliver(Callee, <<>>, stack)
  /\ UNCHANGED <<policies, status>>

(* A slip: the id counts as resolved while its parents still are not.      *)
Descend_Early ==
  /\ Calling
  /\ Callee \in Ids(policies) \ DOMAIN memo
  /\ ~OnStack(Callee)
  /\ ParentsOf(policies, Callee) # <<>>
  /\ Memoise(Callee, <<>>)
  /\ stack' = Append(stack, [id |-> Callee, next |-> 1, order |-> <<>>])
  /\ UNCHANGED <<policies, orders, status>>

Descend ==
  /\ Calling
  /\ Callee \in Ids(policies) \ DOMAIN memo
  /\ ~OnStack(Callee)
  /\ ParentsOf(policies, Callee) # <<>>
  /\ stack' = Append(stack, [id |-> Callee, next |-> 1, order |-> <<>>])
  /\ UNCHANGED <<policies, memo, orders, status>>

(* Every parent of the top call is taken over: it returns. *)
Return ==
  /\ status = "resolving"
  /\ stack # <<>>
  /\ Top.next > Len(ParentsOf(policies, Top.id))
  /\ Memoise(Top.id, Top.order)
  /\ Deliver(Top.id, Top.order, SubSeq(stack, 1, Len(stack) - 1))
  /\ UNCHANGED <<policies, status>>

Finish ==
  /\ status = "resolving"
  /\ stack = <<>>
  /\ Len(orders) = Len(policies)
  /\ status' = "resolved"
  /\ UNCHANGED <<policies, memo, stack, orders>>

InheritNext == Recall \/ Circle \/ Missing \/ Root \/ Descend \/ Return \/ Finish

InheritSpec == InheritInit /\ [][InheritNext]_inheritVars /\ WF_inheritVars(InheritNext)

-------------------------------------------------------------------------------
(* An accepted request is one whose inheritance is a finite tree inside    *)
(* the request; a rejected one is rejected for what it really has.         *)
RejectsExactly ==
  /\ status = "resolved" => ~Circular(policies) /\ ~Dangling(policies)
  /\ status = "circular" => Circular(policies)
  /\ status = "missing" => Dangling(policies)

(* "rejected, not looped": a policy is never resolved inside its own       *)
(* resolution, so that the recursion goes no deeper than the request has   *)
(* policies, however their chains are closed.                              *)
NoCallWithinItself ==
  /\ \A f, g \in DOMAIN stack : stack[f].id = stack[g].id => f = g
  /\ Len(stack) <= Len(policies)

-------------------------------------------------------------------------------
(* An inherited rule comes in once: the order of a policy lists each of    *)
(* its ancestors, and none twice.                                          *)
ListsOnce(s, S) ==
  /\ {s[k] : k \in DOMAIN s} = S
  /\ \A j, k \in DOMAIN s : s[j] = s[k] => j = k

InheritsEachOnce ==
  status = "resolved" =>
    \A i \in DOMAIN policies : ListsOnce(orders[i], Ancestors(policies, policies[i].id))

(* And in the order of the paths upward, whatever was memoised before.     *)
InheritsInOrder ==
  \A i \in DOMAIN orders : orders[i] = Preorder(policies, policies[i].id)

-------------------------------------------------------------------------------
(* The walk's own books, strong enough to be inductive.                    *)

(* What is resolved is of the request, with all its parents, acyclic, and  *)
(* has each of its ancestors listed once.                                  *)
MemoIsSound ==
  \A id \in DOMAIN memo :
    /\ id \in Ids(policies)
    /\ \A p \in DOMAIN ParentsOf(policies, id) : ParentsOf(policies, id)[p] \in DOMAIN memo
    /\ id \notin Ancestors(policies, id)
    /\ ListsOnce(memo[id], Ancestors(policies, id))

(* What the first n parents of id bring in. *)
BroughtIn(id, n) ==
  UNION {{ParentsOf(policies, id)[p]} \cup Ancestors(policies, ParentsOf(policies, id)[p]) :
           p \in 1..n}

(* Calls are a path upward: each is for the parent the one below it has    *)
(* come to, no id twice, and none is known while the parents before its    *)
(* current one are, and are taken over.                                    *)
IsPath(calls, known) ==
  \A f \in DOMAIN calls :
    LET parents == ParentsOf(policies, calls[f].id) IN
    /\ calls[f].id \in Ids(policies) \ known
    /\ calls[f].next \in 1..(Len(parents) + 1)
    /\ \A p \in 1..(calls[f].next - 1) : parents[p] \in known
    /\ ListsOnce(calls[f].order, BroughtIn(calls[f].id, calls[f].next - 1))
    /\ \A g \in DOMAIN calls : f < g =>
         /\ calls[g].id # calls[f].id
         /\ calls[g].id \in Ancestors(policies, calls[f].id)
         /\ calls[f].next \in DOMAIN parents
         /\ g = f + 1 => calls[g].id = parents[calls[f].next]

(* The path starts at the policy the loop is at; the loop is past those    *)
(* that are resolved.                                                      *)
LoopIsInOrder ==
  /\ Len(orders) <= Len(policies)
  /\ stack # <<>> => /\ Len(orders) < Len(policies)
                     /\ stack[1].id = policies[Len(orders) + 1].id
  /\ \A i \in DOMAIN orders :
       policies[i].id \in DOMAIN memo /\ orders[i] = memo[policies[i].id]

WalkIsSound ==
  /\ InheritTypeOK
  /\ MemoIsSound
  /\ IsPath(stack, DOMAIN memo)
  /\ LoopIsInOrder
  /\ status = "resolved" => stack = <<>> /\ Len(orders) = Len(policies)
  /\ status = "circular" => Circular(policies)
  /\ status = "missing" => Dangling(policies)

===============================================================================
