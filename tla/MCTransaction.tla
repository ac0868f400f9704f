---------------------------- MODULE MCTransaction ----------------------------
(***************************************************************************)
(* Three components: the action of 1 may trigger a reaction of 2, which    *)
(* may trigger one of 3; or 1 triggers a reaction of 2 and one of 3; or    *)
(* only 2 reacts, and the path is longer.                                  *)
(***************************************************************************)
EXTENDS Transaction

Alone == <<<<>>, <<>>, <<>>>>
Chain == <<<<2>>, <<3>>, <<>>>>
Fan   == <<<<2, 3>>, <<>>, <<>>>>

MCBindings == {Alone, Chain, Fan}
MCMaxStatements == [b \in MCBindings |-> IF b = Alone THEN 3 ELSE 2]
MCPull == <<{2}, {}, {}>>
=============================================================================
