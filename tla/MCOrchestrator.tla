--------------------------- MODULE MCOrchestrator ---------------------------
(***************************************************************************)
(* Orchestrator on a few epochs, with the registries of the branches the   *)
(* same (a boundary block that reorged and changed no validator) or        *)
(* different on each, and with epochs that change nothing of them or too    *)
(* much.                                                                   *)
(***************************************************************************)
EXTENDS Orchestrator

SameRegistry == [b \in Branches |-> 0]
OwnRegistry == [b \in Branches |-> b]

NoEpoch == {}
SecondAdvance == {First + 2}
LastAdvance == {Last}
=============================================================================
