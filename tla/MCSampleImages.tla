--------------------------- MODULE MCSampleImages ---------------------------
(* The discharge curve of battery_adc's main.c, and voltages at, beside and *)
(* between its points, with both ends of the positive range of an int.      *)
EXTENDS SampleImages

MCCurve == <<[lvl_pptt |-> 10000, lvl_mV |-> 3950],
             [lvl_pptt |-> 625, lvl_mV |-> 3550],
             [lvl_pptt |-> 0, lvl_mV |-> 3100]>>

MCVoltages == {0, 3099, 3100, 3101, 3325, 3549, 3550, 3551, 3553, 3949, 3950, 3951,
               2147483647}
=============================================================================
