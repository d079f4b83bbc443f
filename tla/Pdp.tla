---------------------------------- MODULE Pdp ---------------------------------
(***************************************************************************)
(* What the engine promises a host: one request, one answer, and the       *)
(* answer a function of the request alone.                                 *)
(***************************************************************************)
CONSTANTS
  Requests,       \* the policy lists a request may carry
  Callers,        \* who asks what, under which configuration
  NoResponse,
  AnswerTo(_, _)  \* of a policy list and a caller

VARIABLES
  policies,
  caller,
  response        \* NoResponse until the engine has answered

pdpVars == <<policies, caller, response>>

Init ==
  /\ policies \in Requests
  /\ caller \in Callers
  /\ response = NoResponse

Answer ==
  /\ response = NoResponse
  /\ response' = AnswerTo(policies, caller)
  /\ UNCHANGED <<policies, caller>>

(* Safety, and that the one answer is given: what weak fairness of Answer  *)
(* amounts to, since Answer is enabled until it is taken.                  *)
Spec == Init /\ [][Answer]_pdpVars /\ <>(response # NoResponse)

===============================================================================
