----------------------------- MODULE NvsStorage -----------------------------
(***************************************************************************)
(* The sample nvs_storage: in every boot main() mounts the storage and     *)
(* runs five demonstrations that read, write and delete entries in flash.  *)
(* The device may be reset before any of these operations, and any of them *)
(* may fail.  nvs_write and nvs_delete are atomic: after a reset the entry *)
(* is the old one or the new one.                                          *)
(*                                                                         *)
(* The name "Stratus-Pro-n" is its number n, and an entry that is absent   *)
(* has the number 0.  The reads whose result is only logged are left out.  *)
(*                                                                         *)
(* A definition marked "Mutant" is the definition that follows it with a   *)
(* plausible mistake; no formula uses it.                                  *)
(***************************************************************************)
EXTENDS Naturals

\* Bound on the number of boots.  It is far below the width of boot_count:
\* the flash wears out after some ten thousand.
CONSTANT MaxBoots

ASSUME BootsAssumption == MaxBoots \in Nat \ {0}

VARIABLES
    count,      \* NVS_ID_BOOT_COUNT
    name,       \* NVS_ID_DEVICE_NAME
    stored,     \* which of NVS_ID_CONFIG, _THRESHOLD, _SECRET are present
    mainPc,     \* where main() is
    bootCount,  \* the local boot_count of demo_boot_counter, and then the
                \* one of demo_device_name
    boots,      \* history: the number of boots
    course      \* history: clean until an operation of this boot fails

flash == <<count, name, stored>>
vars == <<flash, mainPc, bootCount, boots, course>>

Even == {n \in Nat : n % 2 = 0}

DefaultName == 1   \* "Stratus-Pro-001"

Init ==
    /\ count = 0 /\ name = 0 /\ stored = {}
    /\ mainPc = "mount"
    /\ bootCount = 0
    /\ boots = 1
    /\ course = "clean"

-----------------------------------------------------------------------------
(* One operation succeeds, or fails and is only logged.                    *)

Goto(next) == mainPc' = next /\ UNCHANGED course

FailsTo(next) ==
    /\ mainPc' = next
    /\ course' = "faulty"
    /\ UNCHANGED flash

Mount ==
    /\ mainPc = "mount"
    /\ \/ Goto("count_read") /\ UNCHANGED flash
       \/ FailsTo("ended")
    /\ UNCHANGED <<bootCount, boots>>

-----------------------------------------------------------------------------
(* demo_boot_counter                                                       *)

\* Mutant: every result but a whole counter is taken for a first boot.
CountRead_AnyError ==
    /\ mainPc = "count_read"
    /\ \/ bootCount' = count + 1 /\ Goto("count_write") /\ UNCHANGED flash
       \/ bootCount' = 1 /\ FailsTo("count_write")
    /\ UNCHANGED boots

\* The counter is incremented, or 1 if there is none.
CountRead ==
    /\ mainPc = "count_read"
    /\ \/ bootCount' = count + 1 /\ Goto("count_write") /\ UNCHANGED flash
       \/ FailsTo("name_read") /\ UNCHANGED bootCount
    /\ UNCHANGED boots

\* Mutant: the counter is incremented once more when it is written.
CountWrite_Again ==
    /\ mainPc = "count_write"
    /\ \/ count' = bootCount + 1 /\ Goto("name_read") /\ UNCHANGED <<name, stored>>
       \/ FailsTo("name_read")
    /\ UNCHANGED <<bootCount, boots>>

CountWrite ==
    /\ mainPc = "count_write"
    /\ \/ count' = bootCount /\ Goto("name_read") /\ UNCHANGED <<name, stored>>
       \/ FailsTo("name_read")
    /\ UNCHANGED <<bootCount, boots>>

-----------------------------------------------------------------------------
(* demo_device_name                                                        *)

\* Mutant: an error is taken for an entry that is absent.
NameRead_AnyError ==
    /\ mainPc = "name_read"
    /\ \/ Goto(IF name = 0 THEN "name_init" ELSE "name_count") /\ UNCHANGED flash
       \/ FailsTo("name_init")
    /\ UNCHANGED <<bootCount, boots>>

NameRead ==
    /\ mainPc = "name_read"
    /\ \/ Goto(IF name = 0 THEN "name_init" ELSE "name_count") /\ UNCHANGED flash
       \/ FailsTo("name_count")
    /\ UNCHANGED <<bootCount, boots>>

NameInit ==
    /\ mainPc = "name_init"
    /\ \/ name' = DefaultName /\ Goto("name_count") /\ UNCHANGED <<count, stored>>
       \/ FailsTo("name_count")
    /\ UNCHANGED <<bootCount, boots>>

\* Mutant: the counter of demo_boot_counter is used, stored or not.
NameCount_Local ==
    /\ mainPc = "name_count"
    /\ Goto(IF bootCount > 1 /\ bootCount \in Even THEN "name_update" ELSE "config_read")
    /\ UNCHANGED <<flash, bootCount, boots>>

\* The counter is read again; the result is not tested, but boot_count is 0 if
\* the read fails.
NameCount ==
    /\ mainPc = "name_count"
    /\ LET next == IF bootCount' > 1 /\ bootCount' \in Even
                   THEN "name_update" ELSE "config_read"
       IN  \/ bootCount' = count /\ Goto(next) /\ UNCHANGED flash
           \/ bootCount' = 0 /\ FailsTo(next)
    /\ UNCHANGED boots

NameUpdate ==
    /\ mainPc = "name_update"
    /\ \/ name' = bootCount /\ Goto("config_read") /\ UNCHANGED <<count, stored>>
       \/ FailsTo("config_read")
    /\ UNCHANGED <<bootCount, boots>>

-----------------------------------------------------------------------------
(* demo_config, demo_delete, demo_blob                                     *)

\* demo_config and demo_blob read an entry and write it if it is absent.
ReadEntry(here, id, init, next) ==
    /\ mainPc = here
    /\ \/ Goto(IF id \in stored THEN next ELSE init) /\ UNCHANGED flash
       \/ FailsTo(next)
    /\ UNCHANGED <<bootCount, boots>>

WriteEntry(here, id, next) ==
    /\ mainPc = here
    /\ \/ stored' = stored \cup {id} /\ Goto(next) /\ UNCHANGED <<count, name>>
       \/ FailsTo(next)
    /\ UNCHANGED <<bootCount, boots>>

ConfigRead == ReadEntry("config_read", "config", "config_init", "threshold_write")
ConfigInit == WriteEntry("config_init", "config", "threshold_write")

\* Mutant: a write that changes nothing returns 0 and is taken for an error, and
\* the demonstration ends.
ThresholdWrite_ZeroIsError ==
    IF "threshold" \in stored
    THEN /\ mainPc = "threshold_write"
         /\ Goto("secret_read")
         /\ UNCHANGED <<flash, bootCount, boots>>
    ELSE WriteEntry("threshold_write", "threshold", "threshold_delete")

ThresholdWrite == WriteEntry("threshold_write", "threshold", "threshold_delete")

ThresholdDelete ==
    /\ mainPc = "threshold_delete"
    /\ \/ /\ stored' = stored \ {"threshold"}
          /\ Goto("secret_read")
          /\ UNCHANGED <<count, name>>
       \/ FailsTo("secret_read")
    /\ UNCHANGED <<bootCount, boots>>

SecretRead == ReadEntry("secret_read", "secret", "secret_init", "ended")
SecretInit == WriteEntry("secret_init", "secret", "ended")

Demos == \/ CountRead \/ CountWrite
         \/ NameRead \/ NameInit \/ NameCount \/ NameUpdate
         \/ ConfigRead \/ ConfigInit
         \/ ThresholdWrite \/ ThresholdDelete
         \/ SecretRead \/ SecretInit

-----------------------------------------------------------------------------
\* Power or the reset button: at any time, also after main() has ended.
Reset ==
    /\ boots < MaxBoots
    /\ boots' = boots + 1
    /\ mainPc' = "mount"
    /\ bootCount' = 0
    /\ course' = "clean"
    /\ UNCHANGED flash

Next == Mount \/ Demos \/ Reset

Spec == Init /\ [][Next]_vars

-----------------------------------------------------------------------------
BeforeCount == {"mount", "count_read", "count_write"}
InName == {"name_read", "name_init", "name_count", "name_update"}
InStore == {"config_read", "config_init", "threshold_write", "threshold_delete",
            "secret_read", "secret_init"}

Entries == {"config", "threshold", "secret"}

TypeOK ==
    /\ count \in 0..MaxBoots
    /\ name \in 0..MaxBoots
    /\ stored \subseteq Entries
    /\ mainPc \in BeforeCount \cup InName \cup InStore \cup {"ended"}
    /\ bootCount \in 0..MaxBoots
    /\ boots \in 1..MaxBoots
    /\ course \in {"clean", "faulty"}

\* The counter survives resets and failures at any point: a boot raises it by
\* one, once, or leaves it alone, and nothing ever sets it back.
Counter == INSTANCE BootCounter
           WITH counted <- count, pending <- mainPc \in BeforeCount
CounterSpec == Counter!Spec

\* The number in the device name is never ahead of the stored counter, also
\* when the counter could not be written, and a boot that nothing has disturbed
\* leaves it equal to an even counter.
NameFollowsCounter ==
    /\ name > 1 => name <= count /\ name \in Even
    /\ course = "clean" /\ mainPc \in InStore \cup {"ended"} /\ count \in Even => name = count

\* The device name never goes back to an older one.
NameNeverBack == [][name' >= name]_vars

\* A boot without a failure leaves every entry in place and the threshold
\* deleted, whatever resets and failures the boots before it have left behind.
CompleteAfterCleanBoot ==
    mainPc = "ended" /\ course = "clean" =>
        /\ count > 0 /\ name > 0
        /\ stored = {"config", "secret"}

=============================================================================
