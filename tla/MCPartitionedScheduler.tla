----------------------- MODULE MCPartitionedScheduler -----------------------
(* Small programs for PartitionedScheduler.                                *)
EXTENDS PartitionedScheduler, TLC

(* Whatever the initializers do.                                           *)
AnyStart == SUBSET Task

(* Two instances.  Executor 0 runs task 1, which writes instance 1 (an     *)
(* action, or the collector of the instance), and task 2, which writes 1   *)
(* and reads 2; executor 1 runs task 3, which reads 1 and writes 2.        *)
MixedOwner == <<0, 0, 1>>
MixedAccess == <<(1 :> "Write"), (1 :> "Write" @@ 2 :> "Read"),
                 (1 :> "Read" @@ 2 :> "Write")>>

(* Nothing special; task 1 with a literal true precondition; task 3, or    *)
(* tasks 2 and 3, waiting for descriptors.                                 *)
Program(always, fd, n) == [always |-> always, fd |-> fd, enables |-> n]
Plain == {Program({}, {}, 1)}
Descriptor == {Program({}, {3}, 1), Program({}, {2, 3}, 1)}
Descriptors == {Program({}, {2, 3}, 1)}
Twice == {Program({}, {}, 2)}
OneDescriptor == {Program({}, {2}, 2)}
EveryKind == {Program({}, {}, 0), Program({1}, {}, 1), Program({}, {3}, 0)}

(* Stragglers.  Executor 0 runs tasks 1 and 2, which write instance 1 and  *)
(* then read or write 3, and task 3, which writes 2; executor 1 runs task  *)
(* 4, which reads 2 and writes 3.  Tasks 1 to 3 can all wait at once: 3    *)
(* and 1 for task 4, and 2 for 1.                                          *)
StragglersOwner == <<0, 0, 0, 1>>
StragglersAccess == <<(1 :> "Write" @@ 3 :> "Read"), (1 :> "Write" @@ 3 :> "Write"),
                      (2 :> "Write"), (2 :> "Read" @@ 3 :> "Write")>>
=============================================================================
