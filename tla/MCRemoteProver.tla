--------------------------- MODULE MCRemoteProver ---------------------------
(***************************************************************************)
(* The committee witnesses of two epochs, the second with a validator more, *)
(* a final proof over the first, which the store keeps, and the next         *)
(* epoch's over that, which it keeps too and no frame carries.              *)
(***************************************************************************)
EXTENDS RemoteProver

CONSTANTS committee1, committee2, final1, final2

MCJobs == {committee1, committee2, final1, final2}
MCCommittee == {committee1, committee2}
MCPersisted == {final1, final2}
MCOversized == {final2}
MCChildren == [job \in MCJobs |->
    CASE job = final1 -> {committee1}
      [] job = final2 -> {final1}
      [] OTHER -> {}]
MCMembers == [job \in MCCommittee |-> IF job = committee1 THEN {1} ELSE {1, 2}]
=============================================================================
