-------------------------- MODULE FuelGauge_proofs --------------------------
(***************************************************************************)
(* What the fuel gauge is told of the time, of the charge and of the       *)
(* supply, for any status words, currents and failures.                    *)
(***************************************************************************)
EXTENDS FuelGauge, TLAPS

\* The deltas have accounted for the time up to ref_time, at any point.
TimeInv ==
    /\ gauge.elapsed = ref - start
    /\ start <= ref /\ ref <= now
    /\ mainPc \in Setup => gauge.elapsed = 0

\* chg_status_prev is the status that was informed last, as long as that
\* succeeded, and still 0 before the first time.
ChargeInv ==
    /\ told = "ok" => gauge.charge = ChargeState(prev)
    /\ told = "never" => prev = {}
    /\ mainPc = "process" => status = prev
    /\ mainPc \in Setup => told = "never"

\* An event that is latched alone is that of the last change.
EventInv ==
    /\ "DETECTED" \in events /\ "REMOVED" \notin events => supply = "in"
    /\ "REMOVED" \in events /\ "DETECTED" \notin events => supply = "out"

IInv == TypeOK /\ TimeInv /\ ChargeInv /\ EventInv

-----------------------------------------------------------------------------
LEMMA ChargeStateType ==
    ASSUME NEW s PROVE ChargeState(s) \in Classes
BY DEF ChargeState, Classes

LEMMA SensorTypes ==
    ASSUME ReadSensors
    PROVE  status' \in Statuses /\ sensed' \in Int /\ current' \in Int
BY CurrentsAssumption DEF ReadSensors

LEMMA IInvInit == ASSUME Init PROVE IInv
BY TimeAssumption DEF Init, IInv, TypeOK, TimeInv, ChargeInv, EventInv,
   Setup, Loop, Supply, Classes

\* main() up to its loop.
LEMMA SetupKeeps == ASSUME IInv, MainInit PROVE IInv'
<1> USE TimeAssumption DEF IInv, Setup, Loop, Supply, Call, charger, time, vbus
<1>1. CASE Devices
  BY <1>1 DEF Devices, TypeOK, TimeInv, ChargeInv, EventInv
<1>2. CASE InitRead
  <2>1. TypeOK' BY <1>2, SensorTypes DEF InitRead, TypeOK
  <2>2. TimeInv' BY <1>2 DEF InitRead, TimeInv
  <2>3. ChargeInv' BY <1>2 DEF InitRead, ChargeInv
  <2> QED BY <1>2, <2>1, <2>2, <2>3 DEF InitRead, EventInv
<1>3. CASE InitGauge
  <2>1. TypeOK' BY <1>3 DEF InitGauge, TypeOK
  <2>2. TimeInv' BY <1>3 DEF InitGauge, TypeOK, TimeInv
  <2>3. ChargeInv' BY <1>3 DEF InitGauge, TypeOK, ChargeInv
  <2> QED BY <1>3, <2>1, <2>2, <2>3 DEF InitGauge, EventInv
<1>4. CASE InitInform
  <2>1. TypeOK' BY <1>4, ChargeStateType DEF InitInform, TypeOK
  <2>2. TimeInv' BY <1>4 DEF InitInform, TypeOK, TimeInv
  <2>3. ChargeInv' BY <1>4 DEF InitInform, TypeOK, ChargeInv
  <2> QED BY <1>4, <2>1, <2>2, <2>3 DEF InitInform, EventInv
<1>5. CASE AddCallback
  BY <1>5 DEF AddCallback, TypeOK, TimeInv, ChargeInv, EventInv
<1>6. CASE AttrGet
  BY <1>6 DEF AttrGet, TypeOK, TimeInv, ChargeInv, EventInv
<1>7. CASE StoreVbus
  BY <1>7 DEF StoreVbus, TypeOK, TimeInv, ChargeInv, EventInv
<1> QED BY <1>1, <1>2, <1>3, <1>4, <1>5, <1>6, <1>7 DEF MainInit

LEMMA UpdateKeeps == ASSUME IInv, Update PROVE IInv'
<1> USE TimeAssumption DEF IInv, Setup, Loop, Supply, Call, charger, time, vbus
<1>1. CASE ReadOk
  <2>1. TypeOK' BY <1>1, SensorTypes DEF ReadOk, TypeOK
  <2>2. TimeInv' BY <1>1 DEF ReadOk, TimeInv
  <2>3. ChargeInv' BY <1>1 DEF ReadOk, ChargeInv
  <2> QED BY <1>1, <2>1, <2>2, <2>3 DEF ReadOk, EventInv
<1>2. CASE ReadFails
  BY <1>2 DEF ReadFails, TypeOK, TimeInv, ChargeInv, EventInv
<1>3. CASE TellVbusOk
  <2>1. TypeOK' BY <1>3 DEF TellVbusOk, TypeOK
  <2>2. TimeInv' BY <1>3 DEF TellVbusOk, TypeOK, TimeInv
  <2>3. ChargeInv' BY <1>3 DEF TellVbusOk, TypeOK, ChargeInv
  <2> QED BY <1>3, <2>1, <2>2, <2>3 DEF TellVbusOk, EventInv
<1>4. CASE TellVbusFails
  BY <1>4 DEF TellVbusFails, TypeOK, TimeInv, ChargeInv, EventInv
<1>5. CASE Inform
  <2>1. TypeOK'
    <3>1. ChargeState(status) \in Classes BY ChargeStateType
    <3>2. gauge' \in [charge : Classes \cup {"unknown"},
                      vbus : Supply \cup {"unknown"}, current : Int, elapsed : Int]
      BY <1>5, <3>1 DEF Inform, TypeOK
    <3>3. /\ mainPc' \in {"process", "sleep"}
          /\ prev' = status
          /\ told' \in {"never", "ok", "failed"}
          /\ UNCHANGED <<charger, time, vbus>>
      BY <1>5 DEF Inform
    <3> QED BY <3>2, <3>3 DEF TypeOK
  <2>2. TimeInv' BY <1>5 DEF Inform, TypeOK, TimeInv
  <2>3. ChargeInv' BY <1>5 DEF Inform, TypeOK, ChargeInv
  <2> QED BY <1>5, <2>1, <2>2, <2>3 DEF Inform, EventInv
<1>6. CASE Process
  <2>1. TypeOK'
    <3>1. -current \in Int /\ gauge.elapsed + (now - ref) \in Int
      BY DEF TypeOK
    <3>2. gauge' \in [charge : Classes \cup {"unknown"},
                      vbus : Supply \cup {"unknown"}, current : Int, elapsed : Int]
      BY <1>6, <3>1 DEF Process, TypeOK
    <3>3. /\ mainPc' = "sleep" /\ ref' = now
          /\ UNCHANGED <<charger, prev, told, now, start, vbus>>
      BY <1>6 DEF Process
    <3> QED BY <3>2, <3>3 DEF TypeOK
  <2>2. TimeInv' BY <1>6 DEF Process, TypeOK, TimeInv
  <2>3. ChargeInv' BY <1>6 DEF Process, TypeOK, ChargeInv
  <2> QED BY <1>6, <2>1, <2>2, <2>3 DEF Process, EventInv
<1> QED BY <1>1, <1>2, <1>3, <1>4, <1>5, <1>6 DEF Update

LEMMA OthersKeep ==
    ASSUME IInv, Sleep \/ SupplyChanges \/ EventCallback \/ UNCHANGED vars
    PROVE  IInv'
<1> USE TimeAssumption DEF IInv, Setup, Loop, Supply, Call, charger, time, vbus, vars
<1>1. CASE Sleep
  BY <1>1 DEF Sleep, TypeOK, TimeInv, ChargeInv, EventInv
<1>2. CASE SupplyChanges
  <2>1. TypeOK'
    <3>1. events' \subseteq {"DETECTED", "REMOVED"}
      BY <1>2 DEF SupplyChanges, TypeOK
    <3>2. supply' \in Supply BY <1>2 DEF SupplyChanges
    <3>3. UNCHANGED <<mainPc, charger, prev, gauge, told, time, val, connected, arg>>
      BY <1>2 DEF SupplyChanges
    <3> QED BY <3>1, <3>2, <3>3 DEF TypeOK
  <2>2. TimeInv' /\ ChargeInv' BY <1>2 DEF SupplyChanges, TimeInv, ChargeInv
  <2>3. EventInv' BY <1>2 DEF SupplyChanges, EventInv
  <2> QED BY <2>1, <2>2, <2>3
<1>3. CASE EventCallback
  <2>1. TypeOK' BY <1>3 DEF EventCallback, TypeOK
  <2>2. TimeInv' /\ ChargeInv' BY <1>3 DEF EventCallback, TimeInv, ChargeInv
  <2>3. EventInv' BY <1>3 DEF EventCallback, EventInv
  <2> QED BY <2>1, <2>2, <2>3
<1>4. CASE UNCHANGED vars
  BY <1>4 DEF TypeOK, TimeInv, ChargeInv, EventInv
<1> QED BY <1>1, <1>2, <1>3, <1>4

\* The invariant is inductive.
THEOREM Inductive == Spec => []IInv
<1>1. IInv /\ [Next]_vars => IInv'
  BY SetupKeeps, UpdateKeeps, OthersKeep DEF Next
<1> QED BY <1>1, IInvInit, PTL DEF Spec

-----------------------------------------------------------------------------
\* Every variable has its type.
THEOREM TypeCorrect == Spec => []TypeOK
BY Inductive, PTL DEF IInv

\* No second is lost or processed twice, whatever fails.
THEOREM NoTimeLost == Spec => []TimeAccounted
<1>1. IInv => TimeAccounted BY DEF IInv, TimeInv, TimeAccounted
<1> QED BY <1>1, Inductive, PTL

\* The gauge knows the charge state of what it processes, but for the two holes
\* of chg_status_prev.
THEOREM ChargeKnown == Spec => []ChargeStateKnown
<1>1. IInv => ChargeStateKnown
  BY DEF IInv, TypeOK, ChargeInv, ChargeStateKnown
<1> QED BY <1>1, Inductive, PTL

\* vbus_connected goes wrong in two ways only.
THEOREM SupplyIsFollowed == Spec => SupplyFollowed
<1>1. IInv /\ [Next]_vars =>
        [~Mistaken /\ Mistaken' =>
            \/ events = {"DETECTED", "REMOVED"}
            \/ mainPc = "store_vbus" /\ val # supply]_vars
  <2> SUFFICES ASSUME IInv, [Next]_vars, ~Mistaken, Mistaken'
               PROVE  \/ events = {"DETECTED", "REMOVED"}
                      \/ mainPc = "store_vbus" /\ val # supply
    OBVIOUS
  <2> USE DEF Mistaken, Looping, Setup, Loop, Call, charger, time, vbus, vars
  <2>1. CASE MainInit
    BY <2>1 DEF MainInit, Devices, InitRead, InitGauge, InitInform,
       AddCallback, AttrGet, StoreVbus
  <2>2. CASE Update \/ Sleep \/ UNCHANGED vars
    BY <2>2 DEF Update, ReadOk, ReadFails, TellVbusOk, TellVbusFails, Inform,
       Process, Sleep
  <2>3. CASE SupplyChanges
    BY <2>3 DEF SupplyChanges
  <2>4. CASE EventCallback
    <3>1. ~("DETECTED" \in events /\ "REMOVED" \in events) => connected' = supply
      BY <2>4 DEF EventCallback, Registered, IInv, TypeOK, EventInv
    <3>2. supply' = supply BY <2>4 DEF EventCallback
    <3>3. events \subseteq {"DETECTED", "REMOVED"} BY DEF IInv, TypeOK
    <3> QED BY <3>1, <3>2, <3>3
  <2> QED BY <2>1, <2>2, <2>3, <2>4 DEF Next
<1> QED BY <1>1, Inductive, PTL DEF Spec, SupplyFollowed

-----------------------------------------------------------------------------
\* The gauge knows vbus_connected, and no update is about to tell it an older
\* value, read before the callback wrote the flag.
Settled == gauge.vbus = connected /\ (mainPc = "vbus" => arg = connected)

\* What SupplyTold rests on: as long as the callback leaves the flag alone, a
\* gauge that knows it is not told otherwise, whatever updates fail, and one
\* that does not comes to know it for good by the first update that has read the
\* flag as it is and tells it.
THEOREM SupplyStaysTold ==
    Spec => [][connected' = connected =>
                 /\ Settled => Settled'
                 /\ TellVbusOk /\ arg = connected => Settled']_vars
<1> DEFINE Stays == connected' = connected =>
                      /\ Settled => Settled'
                      /\ TellVbusOk /\ arg = connected => Settled'
<1>1. IInv /\ [Next]_vars => [Stays]_vars
  <2> SUFFICES ASSUME IInv, Next, connected' = connected PROVE Stays
    OBVIOUS
  <2> USE DEF Settled, Call, charger, time, vbus
  <2>1. gauge \in [charge : Classes \cup {"unknown"},
                   vbus : Supply \cup {"unknown"}, current : Int, elapsed : Int]
    BY DEF IInv, TypeOK
  <2>2. ASSUME TellVbusOk PROVE gauge'.vbus = arg /\ mainPc' # "vbus" /\ arg' = arg
    BY <2>1, <2>2 DEF TellVbusOk
  <2>3. ASSUME ReadOk PROVE arg' = connected /\ gauge' = gauge
    BY <2>3 DEF ReadOk
  <2>4. CASE MainInit
    BY <2>1, <2>4 DEF MainInit, Devices, InitRead, InitGauge, InitInform,
       AddCallback, AttrGet, StoreVbus, TellVbusOk, ReadOk
  <2>5. CASE Update
    <3>1. CASE TellVbusOk
      BY <2>2, <3>1 DEF TellVbusOk, ReadOk
    <3>2. CASE ReadOk
      BY <2>3, <3>2 DEF ReadOk, TellVbusOk
    <3>3. CASE ReadFails \/ TellVbusFails \/ Inform \/ Process
      BY <2>1, <2>2, <2>3, <3>3 DEF ReadFails, TellVbusFails, Inform, Process
    <3> QED BY <2>5, <3>1, <3>2, <3>3 DEF Update
  <2>6. CASE Sleep \/ SupplyChanges \/ EventCallback
    BY <2>2, <2>3, <2>6 DEF Sleep, SupplyChanges, EventCallback
  <2> QED BY <2>4, <2>5, <2>6 DEF Next
<1> QED BY <1>1, Inductive, PTL DEF Spec

-----------------------------------------------------------------------------
(* The sign of the current *)

\* The callers of read_sensors change the sign at once.
SignInv == sensed \in Int /\ current \in Int /\ sensed + current = 0

LEMMA Opposite == ASSUME NEW n \in Int PROVE n + (-n) = 0 /\ -n \in Int
OBVIOUS

LEMMA SignKept == ASSUME SignInv, [Next]_vars PROVE SignInv'
<1> USE DEF SignInv, charger
<1>1. CASE ReadSensors
  <2>1. sensed' \in Int
    BY <1>1, CurrentsAssumption DEF ReadSensors
  <2>2. sensed' + (-sensed') = 0 /\ -sensed' \in Int
    BY <2>1, Opposite
  <2> QED BY <1>1, <2>1, <2>2 DEF ReadSensors
<1>2. CASE UNCHANGED charger
  BY <1>2
<1>3. ReadSensors \/ UNCHANGED charger
  BY DEF Next, MainInit, Update, vars, Devices, InitRead, InitGauge, InitInform,
     AddCallback, AttrGet, StoreVbus, ReadOk, ReadFails, TellVbusOk, TellVbusFails,
     Inform, Process, Sleep, SupplyChanges, EventCallback
<1> QED BY <1>1, <1>2, <1>3

\* fuel_gauge_init gives the gauge the opposite sign of the sensor's current, as
\* the comments at fuel_gauge.c:131, :193 and :219 say, and fuel_gauge_update,
\* which changes the sign at :196 and again at :222, the sensor's own: every
\* current but 0 that the gauge processes contradicts the one it began with.
THEOREM SignsDiffer ==
    Spec => [][/\ InitGauge /\ mainPc' = "init_inform" => gauge'.current = -sensed
               /\ Process => gauge'.current = sensed]_vars
<1> DEFINE Signs == /\ InitGauge /\ mainPc' = "init_inform" => gauge'.current = -sensed
                    /\ Process => gauge'.current = sensed
<1>1. Init => SignInv
  BY DEF Init, SignInv
<1>2. SignInv /\ [Next]_vars => SignInv'
  BY SignKept
<1>3. IInv /\ SignInv /\ [Next]_vars => [Signs]_vars
  <2> SUFFICES ASSUME IInv, SignInv PROVE Signs
    OBVIOUS
  <2>1. gauge \in [charge : Classes \cup {"unknown"},
                   vbus : Supply \cup {"unknown"}, current : Int, elapsed : Int]
    BY DEF IInv, TypeOK
  <2>2. ASSUME InitGauge, mainPc' = "init_inform" PROVE gauge'.current = -sensed
    <3>1. gauge'.current = current
      BY <2>1, <2>2 DEF InitGauge, Call
    <3> QED BY <3>1 DEF SignInv
  <2>3. ASSUME Process PROVE gauge'.current = sensed
    <3>1. gauge'.current = -current
      BY <2>1, <2>3 DEF Process
    <3> QED BY <3>1 DEF SignInv
  <2> QED BY <2>2, <2>3
<1> QED BY <1>1, <1>2, <1>3, Inductive, PTL DEF Spec
=============================================================================
