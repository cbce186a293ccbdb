------------------------------ MODULE FuelGauge ------------------------------
(***************************************************************************)
(* The sample npm1300_fuel_gauge: main() initialises the fuel gauge from   *)
(* one reading of the charger and then updates it once a second, while the *)
(* PMIC reports by a callback that the supply (VBUS) came or went.  Every  *)
(* call to the charger and to the gauge may fail.                          *)
(*                                                                         *)
(* External: the charger (any status and current at any reading), the      *)
(* PMIC, which latches an event for each change of the supply and calls    *)
(* back with all that are latched, and the gauge, which keeps what it was  *)
(* last told.  The gauge's estimate is left out, and so are voltage and    *)
(* temperature, which only pass through.                                   *)
(*                                                                         *)
(* A definition marked "Mutant" is the definition that follows it with a   *)
(* plausible mistake; no formula uses it.                                  *)
(***************************************************************************)
EXTENDS Integers

CONSTANTS
    Statuses,   \* the charger's status words, each the set of its bits
    Currents,   \* readings of the current: negative is discharging
    MaxTime     \* bound on the uptime, where the clock stops

ASSUME StatusesAssumption == Statuses # {} /\ \A s \in Statuses : s \subseteq STRING
ASSUME CurrentsAssumption == Currents # {} /\ Currents \subseteq Int
ASSUME TimeAssumption == MaxTime \in Nat

VARIABLES
    mainPc,     \* where main() and the function it calls are
    status,     \* the local chg_status
    prev,       \* chg_status_prev
    sensed,     \* history: the current as the charger gave it
    current,    \* the local current
    gauge,      \* external: what the gauge was last told
    told,       \* history: how the last inform of an update ended
    now,        \* k_uptime_get()
    start,      \* history: the uptime when the gauge was initialised
    ref,        \* ref_time
    supply,     \* external: whether VBUS is there
    events,     \* external: the latched events of the PMIC
    val,        \* the local val of main()
    connected,  \* vbus_connected
    arg         \* the parameter vbus_connected of fuel_gauge_update

charger == <<status, sensed, current>>
time    == <<now, start, ref>>
vbus    == <<supply, events, val, connected, arg>>
vars    == <<mainPc, charger, prev, gauge, told, time, vbus>>

\* Constant sets.
Setup == {"start", "init_read", "init_gauge", "init_inform",
          "add_callback", "attr_get", "store_vbus"}
Loop  == {"read", "vbus", "inform", "process", "sleep"}
Supply == {"in", "out"}
Classes == {"COMPLETE", "TRICKLE", "CC", "CV", "IDLE"}

\* Mutant: without the last else, state_info keeps what the stack held.
ChargeState_NoIdle(s) ==
    IF "COMPLETE" \in s THEN "COMPLETE"
    ELSE IF "TRICKLE" \in s THEN "TRICKLE"
    ELSE IF "CC" \in s THEN "CC"
    ELSE IF "CV" \in s THEN "CV"
    ELSE "undefined"

\* The charge state that charge_status_inform derives from a status word.
ChargeState(s) ==
    IF "COMPLETE" \in s THEN "COMPLETE"
    ELSE IF "TRICKLE" \in s THEN "TRICKLE"
    ELSE IF "CC" \in s THEN "CC"
    ELSE IF "CV" \in s THEN "CV"
    ELSE "IDLE"

Init ==
    /\ mainPc = "start"
    /\ status = {} /\ prev = {}
    /\ sensed = 0 /\ current = 0
    /\ gauge = [charge |-> "unknown", vbus |-> "unknown", current |-> 0, elapsed |-> 0]
    /\ told = "never"
    /\ now \in 0..MaxTime /\ start = 0 /\ ref = 0
    /\ supply \in Supply /\ events = {}
    /\ val = "out" /\ connected = "out" /\ arg = "out"

-----------------------------------------------------------------------------
(* main() and fuel_gauge_init: each call succeeds, or main() returns.      *)

Call(at, next) == mainPc = at /\ mainPc' = next

\* device_is_ready, and the write that disables the NTC.
Devices ==
    /\ Call("start", "init_read") \/ Call("start", "ended")
    /\ UNCHANGED <<charger, prev, gauge, told, time, vbus>>

\* read_sensors and the change of sign in its callers.
ReadSensors ==
    /\ status' \in Statuses
    /\ sensed' \in Currents
    /\ current' = -sensed'

InitRead ==
    /\ \/ Call("init_read", "init_gauge") /\ ReadSensors
       \/ Call("init_read", "ended") /\ UNCHANGED charger
    /\ UNCHANGED <<prev, gauge, told, time, vbus>>

\* nrf_fuel_gauge_init and the two current limits, none of which depends on
\* the state.
InitGauge ==
    /\ \/ /\ Call("init_gauge", "init_inform")
          /\ gauge' = [gauge EXCEPT !.current = current]
       \/ Call("init_gauge", "ended") /\ UNCHANGED gauge
    /\ UNCHANGED <<charger, prev, told, time, vbus>>

InitInform ==
    /\ \/ /\ Call("init_inform", "add_callback")
          /\ gauge' = [gauge EXCEPT !.charge = ChargeState(status)]
          /\ ref' = now /\ start' = now
       \/ Call("init_inform", "ended") /\ UNCHANGED <<gauge, ref, start>>
    /\ UNCHANGED <<charger, prev, told, now, vbus>>

AddCallback ==
    /\ Call("add_callback", "attr_get") \/ Call("add_callback", "ended")
    /\ UNCHANGED <<charger, prev, gauge, told, time, vbus>>

AttrGet ==
    /\ \/ Call("attr_get", "store_vbus") /\ val' = supply
       \/ Call("attr_get", "ended") /\ UNCHANGED val
    /\ UNCHANGED <<charger, prev, gauge, told, time, supply, events, connected, arg>>

StoreVbus ==
    /\ Call("store_vbus", "read")
    /\ connected' = val
    /\ UNCHANGED <<charger, prev, gauge, told, time, supply, events, val, arg>>

-----------------------------------------------------------------------------
(* fuel_gauge_update: a call that fails ends it until the next second.     *)

\* main() reads vbus_connected for the call, before the sensors are read.
ReadOk ==
    /\ Call("read", "vbus")
    /\ ReadSensors
    /\ arg' = connected
    /\ UNCHANGED <<prev, gauge, told, time, supply, events, val, connected>>

ReadFails ==
    /\ Call("read", "sleep")
    /\ arg' = connected
    /\ UNCHANGED <<charger, prev, gauge, told, time, supply, events, val, connected>>

\* Mutant: the gauge is told of the supply only along with a new status.
TellVbusOk_OnChange ==
    /\ Call("vbus", IF status = prev THEN "process" ELSE "inform")
    /\ gauge' = IF status = prev THEN gauge ELSE [gauge EXCEPT !.vbus = arg]
    /\ UNCHANGED <<charger, prev, told, time, vbus>>

TellVbusOk ==
    /\ Call("vbus", IF status = prev THEN "process" ELSE "inform")
    /\ gauge' = [gauge EXCEPT !.vbus = arg]
    /\ UNCHANGED <<charger, prev, told, time, vbus>>

\* Mutant: the delta is taken and dropped although the update fails.
TellVbusFails_TakesTime ==
    /\ Call("vbus", "sleep")
    /\ ref' = now
    /\ UNCHANGED <<charger, prev, gauge, told, now, start, vbus>>

TellVbusFails ==
    /\ Call("vbus", "sleep")
    /\ UNCHANGED <<charger, prev, gauge, told, time, vbus>>

\* Mutant: the new status is not remembered.
Inform_Forgets ==
    /\ UNCHANGED prev
    /\ \/ /\ Call("inform", "process")
          /\ gauge' = [gauge EXCEPT !.charge = ChargeState(status)]
          /\ told' = "ok"
       \/ /\ Call("inform", "sleep")
          /\ told' = "failed"
          /\ UNCHANGED gauge
    /\ UNCHANGED <<charger, time, vbus>>

\* charge_status_inform; the status is remembered first.
Inform ==
    /\ prev' = status
    /\ \/ /\ Call("inform", "process")
          /\ gauge' = [gauge EXCEPT !.charge = ChargeState(status)]
          /\ told' = "ok"
       \/ /\ Call("inform", "sleep")
          /\ told' = "failed"
          /\ UNCHANGED gauge
    /\ UNCHANGED <<charger, time, vbus>>

\* The current changes its sign once more.
Process ==
    /\ Call("process", "sleep")
    /\ gauge' = [gauge EXCEPT !.current = -current, !.elapsed = @ + (now - ref)]
    /\ ref' = now
    /\ UNCHANGED <<charger, prev, told, now, start, vbus>>

\* k_msleep, which takes at least the second it is given.
Sleep ==
    /\ Call("sleep", "read")
    /\ now' = IF now < MaxTime THEN now + 1 ELSE now
    /\ UNCHANGED <<charger, prev, gauge, told, start, ref, vbus>>

-----------------------------------------------------------------------------
(* The supply, and event_callback.                                         *)

\* External: a change of the supply latches its event.
SupplyChanges ==
    /\ \/ supply = "out" /\ supply' = "in" /\ events' = events \cup {"DETECTED"}
       \/ supply = "in" /\ supply' = "out" /\ events' = events \cup {"REMOVED"}
    /\ UNCHANGED <<mainPc, charger, prev, gauge, told, time, val, connected, arg>>

\* Once main() has returned vbus_connected is not read any more.
Registered == mainPc \in Loop \cup {"attr_get", "store_vbus", "ended"}

\* Mutant: the callback is registered for one of the two events.
EventCallback_OnlyDetected ==
    /\ events # {}
    /\ events' = {}
    /\ connected' = IF Registered /\ "DETECTED" \in events THEN "in" ELSE connected
    /\ UNCHANGED <<mainPc, charger, prev, gauge, told, time, supply, val, arg>>

\* The PMIC clears the events, and the callback looks at DETECTED and then at
\* REMOVED.
EventCallback ==
    /\ events # {}
    /\ events' = {}
    /\ \/ ~Registered /\ UNCHANGED connected
       \/ Registered /\ "REMOVED" \in events /\ connected' = "out"
       \/ Registered /\ "REMOVED" \notin events /\ connected' = "in"
    /\ UNCHANGED <<mainPc, charger, prev, gauge, told, time, supply, val, arg>>

-----------------------------------------------------------------------------
MainInit == Devices \/ InitRead \/ InitGauge \/ InitInform
            \/ AddCallback \/ AttrGet \/ StoreVbus

Update == ReadOk \/ ReadFails \/ TellVbusOk \/ TellVbusFails \/ Inform \/ Process

Next == MainInit \/ Update \/ Sleep \/ SupplyChanges \/ EventCallback

\* main() runs whenever it can, and the charger and the gauge, called again and
\* again, succeed again and again.
Fairness ==
    /\ WF_vars(MainInit \/ Update \/ Sleep)
    /\ SF_vars(ReadOk)
    /\ SF_vars(TellVbusOk)

Spec == Init /\ [][Next]_vars /\ Fairness

-----------------------------------------------------------------------------
Looping == mainPc \in Loop

TypeOK ==
    /\ mainPc \in Setup \cup Loop \cup {"ended"}
    /\ status \in Statuses \cup {{}} /\ prev \in Statuses \cup {{}}
    /\ sensed \in Int /\ current \in Int
    /\ gauge \in [charge : Classes \cup {"unknown"},
                  vbus : Supply \cup {"unknown"}, current : Int, elapsed : Int]
    /\ told \in {"never", "ok", "failed"}
    /\ now \in 0..MaxTime /\ start \in 0..MaxTime /\ ref \in 0..MaxTime
    /\ supply \in Supply /\ val \in Supply /\ connected \in Supply /\ arg \in Supply
    /\ events \subseteq {"DETECTED", "REMOVED"}

\* The deltas given to nrf_fuel_gauge_process add up to the uptime since the
\* initialisation: an update that fails postpones its second to the next one
\* that does not, and none is lost or counted twice.
TimeAccounted ==
    Looping => gauge.elapsed = ref - start /\ start <= ref /\ ref <= now

\* When the gauge processes a reading, it knows the charge state that belongs
\* to that reading, but for the two holes of chg_status_prev: the last inform
\* failed, and is not repeated while the status stays; or no update has
\* informed yet and the status is 0, for which prev already stands, although
\* fuel_gauge_init may have informed another.
ChargeStateKnown ==
    mainPc = "process" =>
        \/ told = "ok" /\ gauge.charge = ChargeState(status)
        \/ told = "failed" /\ status = prev
        \/ told = "never" /\ status = {}

\* With no event pending, vbus_connected is the supply, unless two changes came
\* in one callback, or the value that main() read at the start was overtaken by
\* a change before it was stored.
Mistaken == Looping /\ events = {} /\ connected # supply
SupplyFollowed ==
    [][~Mistaken /\ Mistaken' =>
         \/ events = {"DETECTED", "REMOVED"}
         \/ mainPc = "store_vbus" /\ val # supply]_vars

\* The gauge learns what vbus_connected settles on, however often the updates
\* fail.
SupplyTold ==
    \A s \in Supply :
        <>[](Looping /\ connected = s) => <>[](gauge.vbus = s)
=============================================================================
