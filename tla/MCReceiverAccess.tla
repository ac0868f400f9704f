-------------------------- MODULE MCReceiverAccess --------------------------
(***************************************************************************)
(* VariablesAreAsked needs a body with a declaration in it and a statement *)
(* that uses what was declared, eight nodes.  Only the trees of such a     *)
(* body are built: no arguments of calls, the port calls at the bottom of  *)
(* the stack, every other node in the mutable phase, from the left.        *)
(***************************************************************************)
EXTENDS ReceiverAccess

NoCalls == /\ \A i \in DOMAIN stack : stack[i].form # "args"
           /\ stack # <<>> => stack[1].form = "ports"
           /\ nodes > 1 => phase = "mutable"
           /\ Len(stack) <= 4
           /\ Len(stack) > 2 => stack[2].form = "stmt"
=============================================================================
