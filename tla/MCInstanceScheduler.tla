------------------------ MODULE MCInstanceScheduler ------------------------
(* A small program for InstanceScheduler.                                  *)
EXTENDS InstanceScheduler, TLC

(* Instance 1 has two actions: action 1 looks at and writes its own state; *)
(* action 2 looks at instance 2 through a pull port, writes instance 1     *)
(* and activates a reaction of instance 3.  Action 3 of instance 2 writes  *)
(* its own state and reads instance 1; action 4 prints the state of        *)
(* instance 2 and calls a getter of instance 3 that writes it.  Instance 3 *)
(* has no action of its own.                                               *)
ThreeActionsOf == <<<<1, 2>>, <<3, 4>>, <<>>>>
ThreeAccess == <<(1 :> "Write"), (1 :> "Write" @@ 2 :> "Read" @@ 3 :> "Write"),
                 (1 :> "Read" @@ 2 :> "Write"), (2 :> "Read" @@ 3 :> "Write")>>
ThreeChanges == <<{1}, {1, 3}, {2}, {}>>
ThreePulls == <<{}, {2}, {}, {}>>

(* Instance 1 has an action that pulls from instance 2 and writes itself.  *)
(* The action of instance 2 writes it, in its immutable phase only.        *)
TwoActionsOf == <<<<1>>, <<2>>>>
TwoAccess == <<(1 :> "Write" @@ 2 :> "Read"), (2 :> "Write")>>
TwoChanges == <<{1}, {}>>
TwoPulls == <<{2}, {}>>
=============================================================================
