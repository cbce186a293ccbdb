--------------------------- MODULE ReadingStream ---------------------------
(***************************************************************************)
(* What the pipeline of the sample rtos_threads promises: readings are     *)
(* numbered in the order in which they are taken, and the consumer sees    *)
(* some of them, in order and each at most once.  Readings may be skipped. *)
(***************************************************************************)
EXTENDS Naturals

VARIABLES
    latest,     \* number of the newest reading, 0 before the first
    delivered   \* number of the last reading the consumer has seen

vars == <<latest, delivered>>

Init == latest = 0 /\ delivered = 0

Produce == latest' = latest + 1 /\ UNCHANGED delivered

Deliver ==
    /\ delivered' \in (delivered + 1)..latest
    /\ UNCHANGED latest

Next == Produce \/ Deliver

Spec == Init /\ [][Next]_vars

=============================================================================
