---------------------------- MODULE MCPublisher ----------------------------
(* Five scenarios over at most two epochs, which are enough for a speculated *)
(* epoch, a stranded one, a retried one and an inline store that evicts.    *)
EXTENDS Publisher

TwoEpochs == 1..2

Quiet == [epochs |-> 1, full |-> 0, faults |-> 0, starts |-> 0, crashes |-> 0,
          reorgs |-> 0, ahead |-> 0, views |-> 0]

Scenarios == {
    [Quiet EXCEPT !.faults = 1, !.starts = 1],   \* an outage, an exit, the spool
    [Quiet EXCEPT !.crashes = 1, !.starts = 1],  \* a crash, the epoch redone
    [Quiet EXCEPT !.full = 2, !.reorgs = 1],     \* a queue that overflows
    [Quiet EXCEPT !.views = 2],                  \* a stream that drops
    [Quiet EXCEPT !.epochs = 2, !.ahead = 1]}    \* catching up, speculating
============================================================================
