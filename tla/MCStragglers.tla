---------------------------- MODULE MCStragglers ----------------------------
(* PartitionedScheduler with a history variable, for what holds unless a   *)
(* straggler has hit.                                                      *)
EXTENDS MCPartitionedScheduler

(* Whether a straggler, a task that runs in WAIT1 or WAIT2, has ever hit:  *)
(* run_i does not look at its result.                                      *)
VARIABLE ignored

StragglerHits ==
  \E e \in Executor : state[e] \in {"WAIT1", "WAIT2"} /\ result[e] \in {"HIT", "FIRST_HIT"}

MCInit == Init /\ ignored = FALSE
MCNext == Next /\ ignored' = (ignored \/ StragglerHits)
MCSpec == MCInit /\ [][MCNext]_<<vars, program, ignored>>

(* The threads all wait, or terminate, only when no action can run,        *)
(* whatever stale messages they have acted on and whenever an action has   *)
(* become enabled; the hit of a straggler is all that is ever overlooked.  *)
RestIsDone == (AllWait \/ Terminating) /\ ~ignored => enabled = {}
=============================================================================
