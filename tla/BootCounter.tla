---------------------------- MODULE BootCounter ----------------------------
(***************************************************************************)
(* What the boot counter of the sample nvs_storage promises: a boot raises *)
(* it by one, once, or does not count at all.                              *)
(***************************************************************************)
EXTENDS Naturals

VARIABLES
    counted,  \* the boots that have been counted, over all resets
    pending   \* the boot under way may still be counted

vars == <<counted, pending>>

Init == counted = 0 /\ pending = TRUE

Boot == pending' = TRUE /\ UNCHANGED counted

CountBoot ==
    /\ pending
    /\ counted' = counted + 1
    /\ pending' = FALSE

\* A boot that fails to count goes on uncounted.
Miss ==
    /\ pending' = FALSE
    /\ UNCHANGED counted

Next == Boot \/ CountBoot \/ Miss

Spec == Init /\ [][Next]_vars

=============================================================================
