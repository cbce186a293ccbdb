---------------------------- MODULE ModemBattery ----------------------------
(***************************************************************************)
(* The sample cellular_modem_battery_monitor: a main loop that samples the *)
(* modem's battery voltage and drives the modem's functional mode through  *)
(* a state machine, and two work queues that the modem's notifications     *)
(* feed: "battery low" and "power-off warning".  The three threads share   *)
(* `state`, which the semaphore state_sem protects.                        *)
(*                                                                         *)
(* Time is abstract: k_sleep lasts any finite while.  Voltages are the     *)
(* millivolt values in the constant Voltages, and the battery may move     *)
(* between any two of them at any moment.                                  *)
(*                                                                         *)
(* A definition marked "Mutant" is the definition that follows it with a   *)
(* plausible mistake; no formula uses it.                                  *)
(***************************************************************************)
EXTENDS Integers, FiniteSets

CONSTANTS
    Voltages,        \* millivolt values the battery may have
    LowLevel,        \* CONFIG_MODEM_BATTERY_LOW_LEVEL, mV
    PofwarnVoltage,  \* CONFIG_MODEM_BATTERY_POFWARN_VOLTAGE, units of 100 mV
    Energies,        \* energy estimates lte_lc_conn_eval_params_get may yield
    Failing          \* the library calls that may return an error

Calls == {"lib_init", "voltage_get", "func_mode_set", "connect",
          "conn_eval", "power_off"}

ASSUME ConfigAssumption ==
    /\ Voltages \subseteq Nat
    /\ Voltages # {}
    /\ LowLevel \in Nat
    /\ PofwarnVoltage \in Nat
    /\ Energies \subseteq Int
    /\ Failing \subseteq Calls

States == {"INIT", "POFWARN", "RX_ONLY_LOW_BAT", "RX_ONLY_HIGH_BAT",
           "NORMAL_LOW_BAT", "NORMAL_HIGH_BAT"}

Modes == {"offline", "rx_only", "normal"}   \* offline: also powered off

MainPcs == {"lib_init", "read", "take", "init_mode", "init_connect",
            "pof_mode", "pof_connect", "eval", "set_normal", "low_mode",
            "low_connect", "give", "sleep", "stopped", "no_modem"}

VARIABLES
    state,            \* the state machine, protected by state_sem
    refreshInterval,  \* which CONFIG_*_REFRESH_INTERVAL_SEC is in force
    stateSem,         \* the count of state_sem
    modem,            \* the functional mode the modem is really in
    voltage,          \* the voltage the battery really has
    batteryVoltage,   \* the local of main(): the last sample
    mainPc,           \* where main() is
    lowQueued,        \* low_level_work is queued
    lowPc,            \* where the low_level_work_q thread is
    pofQueued,        \* pofwarn_work is queued
    pofPc,            \* where the pofwarn_work_q thread is
    roseSinceWarn     \* history: the battery has been at or above the
                      \* power-off level since the last warning

battery == <<voltage, roseSinceWarn>>
lowWork == <<lowQueued, lowPc>>
pofWork == <<pofQueued, pofPc>>
machine == <<state, refreshInterval>>
vars == <<machine, stateSem, modem, battery, batteryVoltage, mainPc,
          lowWork, pofWork>>

AbovePofwarn(v) == v >= PofwarnVoltage * 100
AboveLow(v) == v >= LowLevel

Init ==
    /\ state = "INIT"
    /\ refreshInterval = "HIGH_BAT"
    /\ stateSem = 1
    /\ modem = "offline"
    /\ voltage \in Voltages
    /\ batteryVoltage \in Voltages  \* an uninitialised local: any value
    /\ mainPc = "lib_init"
    /\ lowQueued = FALSE /\ lowPc = "idle"
    /\ pofQueued = FALSE /\ pofPc = "idle"
    /\ roseSinceWarn = TRUE

-----------------------------------------------------------------------------
(* Helpers shared by the handlers.                                         *)

\* Mutant: every state names an interval of its own.
IntervalOf_Each(s) == s

\* Mutant: RX_ONLY_HIGH_BAT forgets to assign the interval.
IntervalOf_Stale(s) ==
    CASE s = "POFWARN"          -> "POFWARN"
      [] s = "RX_ONLY_LOW_BAT"  -> "LOW_BAT"
      [] OTHER                  -> refreshInterval

\* The NORMAL states leave the refresh interval as it was.
IntervalOf(s) ==
    CASE s = "POFWARN"          -> "POFWARN"
      [] s = "RX_ONLY_LOW_BAT"  -> "LOW_BAT"
      [] s = "RX_ONLY_HIGH_BAT" -> "HIGH_BAT"
      [] OTHER                  -> refreshInterval

StateUpdate(s) ==
    /\ state' = s
    /\ refreshInterval' = IntervalOf(s)

\* lte_lc_func_mode_set: the modem is in the mode asked for.
FuncModeSet(mode, next) ==
    /\ modem' = mode
    /\ mainPc' = next

\* lte_lc_connect: a modem that is offline is first switched to normal mode.
ConnectedMode == IF modem = "offline" THEN "normal" ELSE modem

\* An error in an activity is returned from main(), which still holds
\* state_sem: the thread ends and nobody gives the semaphore back.
MainFails(call) ==
    /\ call \in Failing
    /\ mainPc' = "stopped"
    /\ UNCHANGED <<machine, modem>>

-----------------------------------------------------------------------------
(* main()                                                                  *)

LibInit ==
    /\ mainPc = "lib_init"
    /\ \/ mainPc' = "read"
       \/ "lib_init" \in Failing /\ mainPc' = "no_modem"
    /\ UNCHANGED <<machine, stateSem, modem, battery, batteryVoltage,
                   lowWork, pofWork>>

\* The sample is taken before state_sem is.
ReadVoltage ==
    /\ mainPc = "read"
    /\ \/ batteryVoltage' = voltage /\ mainPc' = "take"
       \/ /\ "voltage_get" \in Failing
          /\ mainPc' = "stopped"
          /\ UNCHANGED batteryVoltage
    /\ UNCHANGED <<machine, stateSem, modem, battery, lowWork, pofWork>>

\* Mutant: the switch has no case for NORMAL_LOW_BAT.
Activity_NoLowCase ==
    CASE state = "INIT"                                      -> "init_mode"
      [] state = "POFWARN" /\ AbovePofwarn(batteryVoltage)   -> "pof_mode"
      [] state = "RX_ONLY_HIGH_BAT"                          -> "eval"
      [] OTHER                                               -> "give"

\* The activity that the switch statement of main() selects.  The DNS lookup
\* of NORMAL_HIGH_BAT changes nothing that is modelled, fails or not.
Activity ==
    CASE state = "INIT"                                      -> "init_mode"
      [] state = "POFWARN" /\ AbovePofwarn(batteryVoltage)   -> "pof_mode"
      [] state = "RX_ONLY_HIGH_BAT"                          -> "eval"
      [] state = "NORMAL_LOW_BAT"                            -> "low_mode"
      [] OTHER                                               -> "give"

TakeState ==
    /\ mainPc = "take"
    /\ stateSem = 1
    /\ stateSem' = 0
    /\ mainPc' = Activity
    /\ IF state = "RX_ONLY_LOW_BAT" /\ AboveLow(batteryVoltage)
       THEN StateUpdate("RX_ONLY_HIGH_BAT")
       ELSE UNCHANGED machine
    /\ UNCHANGED <<modem, battery, batteryVoltage, lowWork, pofWork>>

\* init_activity updates the state before it connects.
InitMode ==
    /\ mainPc = "init_mode"
    /\ \/ /\ AboveLow(batteryVoltage)
          /\ FuncModeSet("normal", "init_connect")
          /\ StateUpdate("NORMAL_HIGH_BAT")
       \/ /\ ~AboveLow(batteryVoltage)
          /\ FuncModeSet("rx_only", "init_connect")
          /\ StateUpdate("RX_ONLY_LOW_BAT")
       \/ MainFails("func_mode_set")
    /\ UNCHANGED <<stateSem, battery, batteryVoltage, lowWork, pofWork>>

InitConnect ==
    /\ mainPc = "init_connect"
    /\ \/ modem' = ConnectedMode /\ mainPc' = "give" /\ UNCHANGED machine
       \/ MainFails("connect")
    /\ UNCHANGED <<stateSem, battery, batteryVoltage, lowWork, pofWork>>

\* pofwarn_activity and normal_low_bat_activity both switch to receive-only
\* mode, connect, and only then update the state.
RxOnlyMode(here, next) ==
    /\ mainPc = here
    /\ \/ FuncModeSet("rx_only", next) /\ UNCHANGED machine
       \/ MainFails("func_mode_set")
    /\ UNCHANGED <<stateSem, battery, batteryVoltage, lowWork, pofWork>>

\* Mutant: the connection is evaluated without waiting for the voltage to rise.
RxOnlyConnect_High(here) ==
    /\ mainPc = here
    /\ \/ /\ modem' = ConnectedMode
          /\ mainPc' = "give"
          /\ StateUpdate("RX_ONLY_HIGH_BAT")
       \/ MainFails("connect")
    /\ UNCHANGED <<stateSem, battery, batteryVoltage, lowWork, pofWork>>

RxOnlyConnect(here) ==
    /\ mainPc = here
    /\ \/ /\ modem' = ConnectedMode
          /\ mainPc' = "give"
          /\ StateUpdate("RX_ONLY_LOW_BAT")
       \/ MainFails("connect")
    /\ UNCHANGED <<stateSem, battery, batteryVoltage, lowWork, pofWork>>

PofMode == RxOnlyMode("pof_mode", "pof_connect")
PofConnect == RxOnlyConnect("pof_connect")
LowMode == RxOnlyMode("low_mode", "low_connect")
LowConnect == RxOnlyConnect("low_connect")

\* rx_only_high_bat_activity: the voltage is not looked at again.
EvalConn ==
    /\ mainPc = "eval"
    /\ \/ /\ \E e \in Energies :
                mainPc' = IF e >= 7 THEN "set_normal" ELSE "give"
          /\ UNCHANGED <<machine, modem>>
       \/ MainFails("conn_eval")
    /\ UNCHANGED <<stateSem, battery, batteryVoltage, lowWork, pofWork>>

SetNormal ==
    /\ mainPc = "set_normal"
    /\ \/ FuncModeSet("normal", "give") /\ StateUpdate("NORMAL_HIGH_BAT")
       \/ MainFails("func_mode_set")
    /\ UNCHANGED <<stateSem, battery, batteryVoltage, lowWork, pofWork>>

GiveState ==
    /\ mainPc = "give"
    /\ stateSem' = 1
    /\ mainPc' = "sleep"
    /\ UNCHANGED <<machine, modem, battery, batteryVoltage, lowWork, pofWork>>

Wake ==
    /\ mainPc = "sleep"
    /\ mainPc' = "read"
    /\ UNCHANGED <<machine, stateSem, modem, battery, batteryVoltage,
                   lowWork, pofWork>>

Main == \/ LibInit \/ ReadVoltage \/ TakeState \/ InitMode \/ InitConnect
        \/ PofMode \/ PofConnect \/ LowMode \/ LowConnect
        \/ EvalConn \/ SetNormal \/ GiveState \/ Wake

-----------------------------------------------------------------------------
(* The low_level_work_q thread.                                            *)

LowStart ==
    /\ lowQueued /\ lowPc = "idle"
    /\ lowQueued' = FALSE
    /\ lowPc' = "take"
    /\ UNCHANGED <<machine, stateSem, modem, battery, batteryVoltage, mainPc,
                   pofWork>>

\* Mutant: the handler powers the modem off whatever the state is.
LowTake_Unchecked ==
    /\ lowPc = "take"
    /\ stateSem = 1
    /\ stateSem' = 0
    /\ lowPc' = "power_off"
    /\ UNCHANGED <<machine, modem, battery, batteryVoltage, mainPc, lowQueued,
                   pofWork>>

\* Mutant: the handler tests for the wrong state.
LowTake_WrongState ==
    /\ lowPc = "take"
    /\ stateSem = 1
    /\ stateSem' = 0
    /\ lowPc' = IF state = "RX_ONLY_HIGH_BAT" THEN "power_off" ELSE "give"
    /\ UNCHANGED <<machine, modem, battery, batteryVoltage, mainPc, lowQueued,
                   pofWork>>

LowTake ==
    /\ lowPc = "take"
    /\ stateSem = 1
    /\ stateSem' = 0
    /\ lowPc' = IF state = "NORMAL_HIGH_BAT" THEN "power_off" ELSE "give"
    /\ UNCHANGED <<machine, modem, battery, batteryVoltage, mainPc, lowQueued,
                   pofWork>>

\* Mutant: the error path lacks its return.
LowPowerOff_NoReturn ==
    /\ lowPc = "power_off"
    /\ StateUpdate("NORMAL_LOW_BAT")
    /\ lowPc' = "give"
    /\ \/ modem' = "offline"
       \/ "power_off" \in Failing /\ UNCHANGED modem
    /\ UNCHANGED <<stateSem, battery, batteryVoltage, mainPc, lowQueued,
                   pofWork>>

\* The error path returns without giving state_sem.
LowPowerOff ==
    /\ lowPc = "power_off"
    /\ \/ /\ modem' = "offline"
          /\ StateUpdate("NORMAL_LOW_BAT")
          /\ lowPc' = "give"
       \/ /\ "power_off" \in Failing
          /\ lowPc' = "idle"
          /\ UNCHANGED <<machine, modem>>
    /\ UNCHANGED <<stateSem, battery, batteryVoltage, mainPc, lowQueued,
                   pofWork>>

LowGive ==
    /\ lowPc = "give"
    /\ stateSem' = 1
    /\ lowPc' = "idle"
    /\ UNCHANGED <<machine, modem, battery, batteryVoltage, mainPc, lowQueued,
                   pofWork>>

(* The pofwarn_work_q thread.                                              *)

PofStart ==
    /\ pofQueued /\ pofPc = "idle"
    /\ pofQueued' = FALSE
    /\ pofPc' = "take"
    /\ UNCHANGED <<machine, stateSem, modem, battery, batteryVoltage, mainPc,
                   lowWork>>

\* Mutant: the handler does not take state_sem.
PofTake_NoTake ==
    /\ pofPc = "take"
    /\ pofPc' = "update"
    /\ UNCHANGED <<machine, stateSem, modem, battery, batteryVoltage, mainPc,
                   lowWork, pofQueued>>

PofTake ==
    /\ pofPc = "take"
    /\ stateSem = 1
    /\ stateSem' = 0
    /\ pofPc' = "update"
    /\ UNCHANGED <<machine, modem, battery, batteryVoltage, mainPc, lowWork,
                   pofQueued>>

\* Mutant: the warning is recorded in normal mode only, like the low level.
PofUpdate_NormalOnly ==
    /\ pofPc = "update"
    /\ IF state = "NORMAL_HIGH_BAT" THEN StateUpdate("POFWARN")
                                    ELSE UNCHANGED machine
    /\ pofPc' = "give"
    /\ UNCHANGED <<stateSem, modem, battery, batteryVoltage, mainPc, lowWork,
                   pofQueued>>

PofUpdate ==
    /\ pofPc = "update"
    /\ StateUpdate("POFWARN")
    /\ pofPc' = "give"
    /\ UNCHANGED <<stateSem, modem, battery, batteryVoltage, mainPc, lowWork,
                   pofQueued>>

PofGive ==
    /\ pofPc = "give"
    /\ stateSem' = 1
    /\ pofPc' = "idle"
    /\ UNCHANGED <<machine, modem, battery, batteryVoltage, mainPc, lowWork,
                   pofQueued>>

LowWorker == LowStart \/ LowTake \/ LowPowerOff \/ LowGive
PofWorker == PofStart \/ PofTake \/ PofUpdate \/ PofGive

-----------------------------------------------------------------------------
(* The battery and the modem.  The notifications run the handlers, which   *)
(* submit the work items; submitting one that is queued changes nothing.   *)

LibReady == mainPc \notin {"lib_init", "no_modem"}

BatteryChange ==
    /\ \E v \in Voltages \ {voltage} :
          /\ voltage' = v
          /\ roseSinceWarn' = (roseSinceWarn \/ AbovePofwarn(v))
    /\ UNCHANGED <<machine, stateSem, modem, batteryVoltage, mainPc, lowWork,
                   pofWork>>

NotifyLow ==
    /\ LibReady
    /\ ~AboveLow(voltage)
    /\ lowQueued' = TRUE
    /\ UNCHANGED <<machine, stateSem, modem, battery, batteryVoltage, mainPc,
                   lowPc, pofWork>>

\* The modem sets itself offline before it warns.
NotifyPofwarn ==
    /\ LibReady
    /\ ~AbovePofwarn(voltage)
    /\ modem' = "offline"
    /\ pofQueued' = TRUE
    /\ roseSinceWarn' = FALSE
    /\ UNCHANGED <<machine, stateSem, voltage, batteryVoltage, mainPc,
                   lowWork, pofPc>>

Environment == BatteryChange \/ NotifyLow \/ NotifyPofwarn

Next == Main \/ LowWorker \/ PofWorker \/ Environment

Spec == Init /\ [][Next]_vars

(* Every thread runs.  k_sem_give hands the semaphore to a waiting thread, *)
(* so a thread that waits for it gets it: strong fairness for the takes.   *)
(* The modem monitors its battery: one that stays low is reported, and one *)
(* that is below the power-off level again and again is warned of.         *)
Fairness ==
    /\ WF_vars(Main) /\ SF_vars(TakeState)
    /\ WF_vars(LowWorker) /\ SF_vars(LowTake)
    /\ WF_vars(PofWorker) /\ SF_vars(PofTake)
    /\ WF_vars(NotifyLow) /\ SF_vars(NotifyPofwarn)

FairSpec == Spec /\ Fairness

-----------------------------------------------------------------------------
TypeOK ==
    /\ state \in States
    /\ refreshInterval \in {"HIGH_BAT", "LOW_BAT", "POFWARN"}
    /\ stateSem \in {0, 1}
    /\ modem \in Modes
    /\ voltage \in Voltages
    /\ batteryVoltage \in Voltages
    /\ mainPc \in MainPcs
    /\ lowQueued \in BOOLEAN
    /\ lowPc \in {"idle", "take", "power_off", "give"}
    /\ pofQueued \in BOOLEAN
    /\ pofPc \in {"idle", "take", "update", "give"}
    /\ roseSinceWarn \in BOOLEAN

-----------------------------------------------------------------------------
(* Safety.                                                                 *)

MainHolds == mainPc \in {"init_mode", "init_connect", "pof_mode",
                         "pof_connect", "eval", "set_normal", "low_mode",
                         "low_connect", "give"}
LowHolds == lowPc \in {"power_off", "give"}
PofHolds == pofPc \in {"update", "give"}

\* At most one of the main loop and the two work handlers is between its
\* k_sem_take and its k_sem_give of state_sem, whichever of them ended on an
\* error while it held the semaphore.
StateProtected ==
    /\ ~(MainHolds /\ LowHolds)
    /\ ~(MainHolds /\ PofHolds)
    /\ ~(LowHolds /\ PofHolds)
    /\ MainHolds \/ LowHolds \/ PofHolds => stateSem = 0

PofPending == pofQueued \/ pofPc # "idle"

ModeOf(s) ==
    CASE s \in {"INIT", "NORMAL_LOW_BAT"}                -> "offline"
      [] s \in {"RX_ONLY_LOW_BAT", "RX_ONLY_HIGH_BAT"}   -> "rx_only"
      [] s = "NORMAL_HIGH_BAT"                           -> "normal"

\* Whenever state_sem is free and no power-off warning waits to be recorded,
\* the state machine knows the functional mode the modem is really in, for
\* every state but POFWARN.
ModeAgreesWithState ==
    stateSem = 1 /\ ~PofPending /\ state # "POFWARN" => modem = ModeOf(state)

\* The refresh interval is the one that Kconfig documents for the state, also
\* in the NORMAL states, whose state_update does not assign it.
IntervalAgreesWithState ==
    refreshInterval = CASE state = "POFWARN"         -> "POFWARN"
                        [] state = "RX_ONLY_LOW_BAT" -> "LOW_BAT"
                        [] OTHER                     -> "HIGH_BAT"

\* Only the main loop ends the POFWARN state, on a sample at or above the
\* power-off level, and into RX_ONLY_LOW_BAT: a low-level notification that
\* races with the warning never does.
PofwarnEndsOnSample ==
    [][state = "POFWARN" /\ state' # "POFWARN" =>
          /\ state' = "RX_ONLY_LOW_BAT"
          /\ mainPc = "pof_connect"
          /\ AbovePofwarn(batteryVoltage)]_vars

(* Liveness.                                                               *)

\* A library call failed: main() has returned, or a handler ended without
\* giving state_sem back.
Crippled ==
    \/ mainPc \in {"stopped", "no_modem"}
    \/ stateSem = 0 /\ ~MainHolds /\ ~LowHolds /\ ~PofHolds

\* A power-off warning is recorded: pofwarn_work always gets state_sem,
\* unless a failed library call has taken the semaphore away.
WarningRecorded == pofQueued ~> state = "POFWARN" \/ Crippled

\* A modem in normal mode whose battery is low leaves normal mode, unless the
\* battery recovers or a library call fails: the notification that finds the
\* state machine elsewhere is not the last one.
LowLeavesNormalOrFails ==
    modem = "normal" /\ ~AboveLow(voltage)
        ~> modem # "normal" \/ AboveLow(voltage) \/ Crippled

\* A battery that stays between the power-off and the low level ends with the
\* modem in receive-only mode for good (in RX_ONLY_LOW_BAT, or in
\* RX_ONLY_HIGH_BAT as long as the connection is poor).
LowBatterySettles ==
    <>[](AbovePofwarn(voltage) /\ ~AboveLow(voltage))
        => \/ <>[](modem = "rx_only")
           \/ <>Crippled

\* With a battery that stays at the low level or above, the modem ends in
\* normal mode for good or the connection is evaluated again and again: no
\* other state keeps the modem.
HighBatterySettles ==
    <>[]AboveLow(voltage)
        => \/ <>[](state = "NORMAL_HIGH_BAT" /\ modem = "normal")
           \/ []<>(mainPc = "eval")
           \/ <>Crippled

(* What the README says and the code does not do.                          *)

\* README: the modem, set offline by the power-off warning, is set to
\* receive-only mode if the voltage rises above the power-off level.
RxOnlyAfterRise ==
    [][state = "POFWARN" /\ modem = "offline" /\ modem' = "rx_only"
          => roseSinceWarn]_vars

\* README: a modem in normal mode whose battery drops below the low level
\* switches to receive-only mode.
LowLeavesNormal ==
    modem = "normal" /\ ~AboveLow(voltage)
        ~> modem # "normal" \/ AboveLow(voltage)

=============================================================================
