------------------------- MODULE NvsStorage_proofs -------------------------
(***************************************************************************)
(* The boot counter, the device name and the completeness of the store,    *)
(* for any number of boots, resets and failures.                           *)
(***************************************************************************)
EXTENDS NvsStorage, TLAPS

\* A boot that may still count finds a counter below the number of boots, and
\* writes the next value.
CountInv ==
    /\ count <= boots
    /\ mainPc \in BeforeCount => count < boots
    /\ mainPc = "count_write" => bootCount = count + 1

NameInv ==
    /\ name > 1 => name <= count /\ name \in Even
    /\ mainPc = "name_init" => name = 0
    /\ mainPc = "name_update" => bootCount = count /\ count > 1 /\ count \in Even

\* What the demonstrations that have run without a failure have achieved.
CleanInv ==
    course = "clean" =>
        /\ mainPc \notin BeforeCount => count > 0
        /\ mainPc \in {"name_count", "name_update", "ended"} \cup InStore => name > 0
        /\ mainPc \in InStore \cup {"ended"} /\ count \in Even => name = count
        /\ mainPc \in {"threshold_write", "threshold_delete", "secret_read",
                       "secret_init", "ended"} => "config" \in stored
        /\ mainPc \in {"secret_read", "secret_init", "ended"} => "threshold" \notin stored
        /\ mainPc = "ended" => "secret" \in stored

IInv ==
    /\ TypeOK
    /\ CountInv
    /\ NameInv
    /\ CleanInv

-----------------------------------------------------------------------------
LEMMA IInvInit == ASSUME Init PROVE IInv
BY BootsAssumption DEF Init, IInv, TypeOK, CountInv, NameInv, CleanInv,
   BeforeCount, InName, InStore, Entries

\* The next value of the counter is within its bound.
LEMMA NextCount ==
    ASSUME TypeOK, CountInv, mainPc \in BeforeCount
    PROVE  count + 1 \in 0..MaxBoots
BY BootsAssumption DEF TypeOK, CountInv

\* The demonstrations of the counter and of the name.
LEMMA CounterKeeps == ASSUME IInv, Mount \/ CountRead \/ CountWrite PROVE IInv'
<1> USE BootsAssumption DEF IInv, TypeOK, CountInv, NameInv, CleanInv,
        BeforeCount, InName, InStore, Entries, Goto, FailsTo, flash
<1>1. CASE Mount
  BY <1>1 DEF Mount
<1>2. CASE CountRead
  BY <1>2, NextCount DEF CountRead
<1>3. CASE CountWrite
  <2>1. TypeOK' BY <1>3, NextCount DEF CountWrite
  <2>2. CountInv' BY <1>3 DEF CountWrite
  <2>3. NameInv' BY <1>3 DEF CountWrite
  <2>4. CleanInv' BY <1>3 DEF CountWrite
  <2> QED BY <2>1, <2>2, <2>3, <2>4
<1> QED BY <1>1, <1>2, <1>3

LEMMA NameKeeps ==
    ASSUME IInv, NameRead \/ NameInit \/ NameCount \/ NameUpdate
    PROVE  IInv'
<1> USE BootsAssumption DEF IInv, TypeOK, CountInv, NameInv, CleanInv,
        BeforeCount, InName, InStore, Entries, Goto, FailsTo, flash, DefaultName
<1>0. 0 \in 0..MaxBoots /\ 1 \in 0..MaxBoots
  OBVIOUS
<1>1. CASE NameRead
  <2>1. TypeOK' BY <1>1 DEF NameRead
  <2>2. CountInv' BY <1>1 DEF NameRead
  <2>3. NameInv' BY <1>1 DEF NameRead
  <2>4. CleanInv' BY <1>1 DEF NameRead
  <2> QED BY <2>1, <2>2, <2>3, <2>4
<1>2. CASE NameInit
  <2>1. TypeOK' BY <1>0, <1>2 DEF NameInit
  <2>2. CountInv' BY <1>2 DEF NameInit
  <2>3. NameInv' BY <1>2 DEF NameInit
  <2>4. CleanInv' BY <1>2 DEF NameInit
  <2> QED BY <2>1, <2>2, <2>3, <2>4
<1>3. CASE NameCount
  <2>1. TypeOK' BY <1>0, <1>3 DEF NameCount
  <2>2. CountInv' BY <1>3 DEF NameCount
  <2>3. NameInv' BY <1>3 DEF NameCount
  <2>4. CleanInv' BY <1>3 DEF NameCount
  <2> QED BY <2>1, <2>2, <2>3, <2>4
<1>4. CASE NameUpdate
  <2>1. TypeOK' BY <1>4 DEF NameUpdate
  <2>2. CountInv' BY <1>4 DEF NameUpdate
  <2>3. NameInv' BY <1>4 DEF NameUpdate
  <2>4. CleanInv' BY <1>4 DEF NameUpdate
  <2> QED BY <2>1, <2>2, <2>3, <2>4
<1> QED BY <1>1, <1>2, <1>3, <1>4

\* The demonstrations that only touch which entries are present.
LEMMA StoreKeeps ==
    ASSUME IInv, \/ ConfigRead \/ ConfigInit \/ ThresholdWrite
                 \/ ThresholdDelete \/ SecretRead \/ SecretInit
    PROVE  IInv'
<1> USE DEF IInv, TypeOK, CountInv, NameInv, CleanInv, BeforeCount, InName,
        InStore, Entries, Goto, FailsTo, flash
<1>1. CASE ConfigRead
  BY <1>1 DEF ConfigRead, ReadEntry
<1>2. CASE ConfigInit
  BY <1>2 DEF ConfigInit, WriteEntry
<1>3. CASE ThresholdWrite
  BY <1>3 DEF ThresholdWrite, WriteEntry
<1>4. CASE ThresholdDelete
  BY <1>4 DEF ThresholdDelete
<1>5. CASE SecretRead
  BY <1>5 DEF SecretRead, ReadEntry
<1>6. CASE SecretInit
  BY <1>6 DEF SecretInit, WriteEntry
<1> QED BY <1>1, <1>2, <1>3, <1>4, <1>5, <1>6

\* A reset loses what main() knew, and nothing that is stored.
LEMMA ResetKeeps == ASSUME IInv, Reset PROVE IInv'
BY BootsAssumption DEF IInv, TypeOK, CountInv, NameInv, CleanInv, BeforeCount,
   InName, InStore, Entries, flash, Reset

LEMMA IInvNext == IInv /\ [Next]_vars => IInv'
<1> SUFFICES ASSUME IInv, [Next]_vars PROVE IInv' OBVIOUS
<1>1. CASE UNCHANGED vars
  BY <1>1 DEF vars, flash, IInv, TypeOK, CountInv, NameInv, CleanInv
<1>2. CASE Next
  BY <1>2, CounterKeeps, NameKeeps, StoreKeeps, ResetKeeps DEF Next, Demos
<1> QED BY <1>1, <1>2

\* The invariant that the theorems rest on.
THEOREM Inductive == Spec => []IInv
BY IInvInit, IInvNext, PTL DEF Spec

\* The counter is never above the number of boots, nor any variable out of its
\* type.
THEOREM TypeCorrect == Spec => []TypeOK
<1>1. IInv => TypeOK
  BY DEF IInv
<1> QED BY <1>1, Inductive, PTL

\* The name is not ahead of the stored counter, and a clean boot brings it
\* level with an even one.
THEOREM NameFollows == Spec => []NameFollowsCounter
<1>1. IInv => NameFollowsCounter
  BY DEF IInv, NameInv, CleanInv, NameFollowsCounter
<1> QED BY <1>1, Inductive, PTL

\* One boot without a failure completes the store, whatever was before.
THEOREM CleanBootCompletes == Spec => []CompleteAfterCleanBoot
<1>1. IInv => CompleteAfterCleanBoot
  BY DEF IInv, TypeOK, CleanInv, CompleteAfterCleanBoot, Entries, BeforeCount, InStore
<1> QED BY <1>1, Inductive, PTL

\* No step makes the device name an older one.
THEOREM NameGrows == Spec => NameNeverBack
<1>1. IInv /\ [Next]_vars => [name' >= name]_vars
  <2> SUFFICES ASSUME IInv, Next PROVE name' >= name OBVIOUS
  <2>1. name \in Nat /\ count \in Nat
    BY BootsAssumption DEF IInv, TypeOK
  <2>2. CASE NameInit
    BY <2>1, <2>2 DEF NameInit, FailsTo, flash, DefaultName, IInv, NameInv
  <2>3. CASE NameUpdate
    BY <2>1, <2>3 DEF NameUpdate, FailsTo, flash, IInv, NameInv
  <2>4. CASE UNCHANGED name
    BY <2>1, <2>4
  <2>5. Mount \/ Demos \/ Reset => NameInit \/ NameUpdate \/ UNCHANGED name
    BY DEF Mount, Demos, Reset, CountRead, CountWrite, NameRead, NameCount,
       ConfigRead, ConfigInit, ThresholdWrite, ThresholdDelete, SecretRead,
       SecretInit, ReadEntry, WriteEntry, FailsTo, flash
  <2> QED BY <2>2, <2>3, <2>4, <2>5 DEF Next
<1> QED BY <1>1, Inductive, PTL DEF Spec, NameNeverBack

\* The counter implements BootCounter: a boot raises it by one, once, or leaves
\* it alone.
THEOREM ImplementsCounter == Spec => CounterSpec
<1> USE DEF BeforeCount, FailsTo, Goto, flash
<1>1. Init => Counter!Init
  BY DEF Init, Counter!Init
<1>2. IInv /\ [Next]_vars => [Counter!Next]_(Counter!vars)
  <2> SUFFICES ASSUME IInv, [Next]_vars
               PROVE  Counter!Next \/ UNCHANGED Counter!vars
    OBVIOUS
  <2> USE DEF Counter!Next, Counter!vars
  <2>1. CASE Mount
    BY <2>1 DEF Mount, Counter!Miss
  <2>2. CASE CountRead
    BY <2>2 DEF CountRead, Counter!Miss
  <2>3. CASE CountWrite
    BY <2>3 DEF CountWrite, Counter!CountBoot, Counter!Miss, IInv, CountInv
  <2>4. CASE NameRead \/ NameInit \/ NameCount \/ NameUpdate
    BY <2>4 DEF NameRead, NameInit, NameCount, NameUpdate
  <2>5. CASE ConfigRead \/ ConfigInit \/ ThresholdWrite \/ ThresholdDelete
             \/ SecretRead \/ SecretInit
    BY <2>5 DEF ConfigRead, ConfigInit, ThresholdWrite, ThresholdDelete,
       SecretRead, SecretInit, ReadEntry, WriteEntry
  <2>6. CASE Reset
    BY <2>6 DEF Reset, Counter!Boot
  <2>7. CASE UNCHANGED vars
    BY <2>7 DEF vars
  <2> QED BY <2>1, <2>2, <2>3, <2>4, <2>5, <2>6, <2>7 DEF Next, Demos
<1> QED BY <1>1, <1>2, Inductive, PTL DEF Spec, CounterSpec, Counter!Spec

=============================================================================
