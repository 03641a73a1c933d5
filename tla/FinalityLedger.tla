--------------------------- MODULE FinalityLedger ---------------------------
(***************************************************************************)
(* What a consumer of the daemon may rely on, stated with no daemon in it: *)
(* one cursor that walks the epochs in order, one verdict per epoch, and a *)
(* finalized checkpoint that is always one the ledger had justified just   *)
(* before.  Crashes, restarts, reorgs, speculation and the choice of       *)
(* pipeline are all invisible here; Orchestrator is shown to implement it. *)
(***************************************************************************)
EXTENDS Integers

CONSTANTS
    First,      \* the epoch the accumulator was initialised at
    Last,       \* the last epoch the model follows
    Roots       \* the checkpoint roots the chain may give an epoch

VARIABLES
    cursor,     \* the epoch the accumulator of record sits on
    settled,    \* whether the epoch at the cursor has its verdict
    justified,  \* the newest justified checkpoint, or NoCheckpoint
    finalized   \* the newest finalized checkpoint, or NoCheckpoint

vars == <<cursor, settled, justified, finalized>>

Epochs == First .. Last
NoCheckpoint == [epoch |-> -1, root |-> -1]
Checkpoints == [epoch : Epochs, root : Roots]

Init ==
    /\ cursor = First
    /\ settled = FALSE
    /\ justified = NoCheckpoint
    /\ finalized = NoCheckpoint

\* The epoch at the cursor is justified, which finalizes the one before it
\* exactly when that one was the last to be justified.
Justify(root) ==
    /\ ~settled
    /\ settled' = TRUE
    /\ justified' = [epoch |-> cursor, root |-> root]
    /\ finalized' \in {finalized} \cup
                      {c \in {justified} : c.epoch # -1 /\ c.epoch + 1 = cursor}
    /\ UNCHANGED cursor

\* The epoch at the cursor is given up; nothing else moves.
Abandon ==
    /\ ~settled
    /\ settled' = TRUE
    /\ UNCHANGED <<cursor, justified, finalized>>

\* Only a settled epoch is left behind, and only for the next one.
Advance ==
    /\ settled
    /\ cursor < Last
    /\ cursor' = cursor + 1
    /\ settled' = FALSE
    /\ UNCHANGED <<justified, finalized>>

Next ==
    \/ \E root \in Roots : Justify(root)
    \/ Abandon
    \/ Advance

Spec == Init /\ [][Next]_vars
=============================================================================
