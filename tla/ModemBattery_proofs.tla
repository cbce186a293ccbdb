------------------------- MODULE ModemBattery_proofs -------------------------
(***************************************************************************)
(* Type correctness, mutual exclusion, the agreement of the state machine  *)
(* with the modem's mode and with the refresh interval, and the guarded    *)
(* end of POFWARN, for any voltages, thresholds, energy estimates and      *)
(* failing calls.                                                          *)
(***************************************************************************)
EXTENDS ModemBattery, TLAPS

(***************************************************************************)
(* What each thread knows of the shared variables while it holds state_sem *)
(* or has just been told of a warning.                                     *)
(***************************************************************************)
Agreement == PofPending \/ state = "POFWARN" \/ modem = ModeOf(state)

\* The modem's mode lags behind the state only inside normal_low_bat_activity,
\* between the mode change and the state update.
AgreementInv ==
    \/ stateSem = 1
    \/ MainHolds /\ mainPc # "low_connect"
    \/ LowHolds
    \/ PofHolds
    => Agreement

LocalState ==
    /\ mainPc = "init_mode" => state = "INIT"
    /\ mainPc = "init_connect" => state \in {"RX_ONLY_LOW_BAT", "NORMAL_HIGH_BAT"}
    /\ mainPc \in {"pof_mode", "pof_connect"} =>
          state = "POFWARN" /\ AbovePofwarn(batteryVoltage)
    /\ mainPc \in {"eval", "set_normal"} => state = "RX_ONLY_HIGH_BAT"
    /\ mainPc \in {"low_mode", "low_connect"} => state = "NORMAL_LOW_BAT"
    /\ mainPc \in {"pof_connect", "low_connect"} =>
          PofPending \/ modem = "rx_only"
    /\ lowPc = "power_off" => state = "NORMAL_HIGH_BAT"
    /\ pofPc = "give" => state = "POFWARN"

IInv ==
    /\ TypeOK
    /\ StateProtected
    /\ AgreementInv
    /\ LocalState
    /\ IntervalAgreesWithState

-----------------------------------------------------------------------------
\* StateUpdate assigns one of the states and one of the intervals.
LEMMA StateUpdateType ==
    ASSUME TypeOK, NEW s \in States, StateUpdate(s)
    PROVE  /\ state' \in States
           /\ refreshInterval' \in {"HIGH_BAT", "LOW_BAT", "POFWARN"}
BY DEF TypeOK, StateUpdate, IntervalOf

LEMMA ConnectedModeType == ASSUME TypeOK PROVE ConnectedMode \in Modes
BY DEF TypeOK, ConnectedMode, Modes

\* Every variable keeps its type in every behaviour of the sample.
THEOREM TypeCorrect == Spec => []TypeOK
<1>1. Init => TypeOK
  BY ConfigAssumption DEF Init, TypeOK, States, Modes, MainPcs
<1>2. ASSUME TypeOK, [Next]_vars PROVE TypeOK'
  <2> USE <1>2, ConfigAssumption DEF TypeOK, MainPcs
  <2>1. CASE LibInit
    BY <2>1 DEF LibInit, machine, battery, lowWork, pofWork
  <2>2. CASE ReadVoltage
    BY <2>2 DEF ReadVoltage, machine, battery, lowWork, pofWork
  <2>3. CASE TakeState
    <3>1. Activity \in MainPcs
      BY DEF Activity
    <3>2. state' \in States /\ refreshInterval' \in {"HIGH_BAT", "LOW_BAT", "POFWARN"}
      BY <2>3, StateUpdateType DEF TakeState, machine, States
    <3> QED BY <2>3, <3>1, <3>2 DEF TakeState, battery, lowWork, pofWork
  <2>4. CASE InitMode
    <3>1. state' \in States /\ refreshInterval' \in {"HIGH_BAT", "LOW_BAT", "POFWARN"}
      BY <2>4, StateUpdateType DEF InitMode, MainFails, machine, States
    <3> QED BY <2>4, <3>1 DEF InitMode, FuncModeSet, MainFails, Modes, battery,
                              lowWork, pofWork
  <2>5. CASE InitConnect
    BY <2>5, ConnectedModeType DEF InitConnect, MainFails, machine, battery,
                                   lowWork, pofWork
  <2>6. ASSUME NEW here \in MainPcs, NEW next \in MainPcs, RxOnlyMode(here, next)
        PROVE  TypeOK'
    BY <2>6 DEF RxOnlyMode, FuncModeSet, MainFails, Modes, machine, battery,
                lowWork, pofWork
  <2>7. ASSUME NEW here \in MainPcs, RxOnlyConnect(here)
        PROVE  TypeOK'
    <3>1. state' \in States /\ refreshInterval' \in {"HIGH_BAT", "LOW_BAT", "POFWARN"}
      BY <2>7, StateUpdateType DEF RxOnlyConnect, MainFails, machine, States
    <3> QED BY <2>7, <3>1, ConnectedModeType
            DEF RxOnlyConnect, MainFails, battery, lowWork, pofWork
  <2>8. CASE PofMode \/ PofConnect \/ LowMode \/ LowConnect
    BY <2>6, <2>7, <2>8 DEF PofMode, PofConnect, LowMode, LowConnect
  <2>9. CASE EvalConn
    BY <2>9 DEF EvalConn, MainFails, machine, battery, lowWork, pofWork
  <2>10. CASE SetNormal
    <3>1. state' \in States /\ refreshInterval' \in {"HIGH_BAT", "LOW_BAT", "POFWARN"}
      BY <2>10, StateUpdateType DEF SetNormal, MainFails, machine, States
    <3> QED BY <2>10, <3>1 DEF SetNormal, FuncModeSet, MainFails, Modes, battery,
                               lowWork, pofWork
  <2>11. CASE GiveState \/ Wake
    BY <2>11 DEF GiveState, Wake, machine, battery, lowWork, pofWork
  <2>12. CASE LowStart \/ LowTake \/ LowGive
    BY <2>12 DEF LowStart, LowTake, LowGive, machine, battery, pofWork
  <2>13. CASE LowPowerOff
    <3>1. state' \in States /\ refreshInterval' \in {"HIGH_BAT", "LOW_BAT", "POFWARN"}
      BY <2>13, StateUpdateType DEF LowPowerOff, machine, States
    <3> QED BY <2>13, <3>1 DEF LowPowerOff, Modes, battery, pofWork
  <2>14. CASE PofStart \/ PofTake \/ PofGive
    BY <2>14 DEF PofStart, PofTake, PofGive, machine, battery, lowWork
  <2>15. CASE PofUpdate
    <3>1. state' \in States /\ refreshInterval' \in {"HIGH_BAT", "LOW_BAT", "POFWARN"}
      BY <2>15, StateUpdateType DEF PofUpdate, States
    <3> QED BY <2>15, <3>1 DEF PofUpdate, battery, lowWork
  <2>16. CASE BatteryChange
    BY <2>16 DEF BatteryChange, machine, lowWork, pofWork
  <2>17. CASE NotifyLow \/ NotifyPofwarn
    BY <2>17 DEF NotifyLow, NotifyPofwarn, Modes, machine, battery, lowWork, pofWork
  <2>18. CASE UNCHANGED vars
    BY <2>18 DEF vars, machine, battery, lowWork, pofWork
  <2> QED
    BY <2>1, <2>2, <2>3, <2>4, <2>5, <2>8, <2>9, <2>10, <2>11, <2>12, <2>13,
       <2>14, <2>15, <2>16, <2>17, <2>18
    DEF Next, Main, LowWorker, PofWorker, Environment
<1> QED BY <1>1, <1>2, PTL DEF Spec

-----------------------------------------------------------------------------
\* IInv holds initially.
LEMMA IInvInit == Init => IInv
<1> SUFFICES ASSUME Init PROVE IInv OBVIOUS
<1>1. TypeOK
  BY ConfigAssumption DEF Init, TypeOK, States, Modes, MainPcs
<1> QED
  BY <1>1 DEF Init, IInv, StateProtected, AgreementInv, Agreement, LocalState,
     IntervalAgreesWithState, PofPending, ModeOf, MainHolds, LowHolds, PofHolds

\* The steps of main() preserve IInv.
LEMMA IInvMain ==
    ASSUME IInv, TypeOK', Main
    PROVE  IInv'
<1> USE DEF IInv, TypeOK, StateProtected, AgreementInv, Agreement, LocalState,
            IntervalAgreesWithState, PofPending, ModeOf, MainHolds, LowHolds,
            PofHolds, MainPcs, States, Modes
<1>1. CASE LibInit
  BY <1>1 DEF LibInit, machine, battery, lowWork, pofWork
<1>2. CASE ReadVoltage
  BY <1>2 DEF ReadVoltage, machine, battery, lowWork, pofWork
<1>3. CASE TakeState
  <2>1. CASE state = "RX_ONLY_LOW_BAT" /\ AboveLow(batteryVoltage)
    BY <1>3, <2>1 DEF TakeState, Activity, StateUpdate, IntervalOf, battery,
                      lowWork, pofWork
  <2>2. CASE ~(state = "RX_ONLY_LOW_BAT" /\ AboveLow(batteryVoltage))
    BY <1>3, <2>2 DEF TakeState, Activity, AbovePofwarn, machine, battery, lowWork, pofWork
  <2> QED BY <2>1, <2>2
<1>4. CASE InitMode
  BY <1>4 DEF InitMode, FuncModeSet, MainFails, StateUpdate, IntervalOf,
              machine, battery, lowWork, pofWork
<1>5. CASE InitConnect
  BY <1>5 DEF InitConnect, ConnectedMode, MainFails, machine, battery,
              lowWork, pofWork
<1>6. CASE PofMode \/ LowMode
  BY <1>6 DEF PofMode, LowMode, RxOnlyMode, FuncModeSet, MainFails,
              AbovePofwarn, machine, battery, lowWork, pofWork
<1>7. CASE PofConnect \/ LowConnect
  BY <1>7 DEF PofConnect, LowConnect, RxOnlyConnect, ConnectedMode,
              StateUpdate, IntervalOf, MainFails, machine, battery, lowWork,
              pofWork
<1>8. CASE EvalConn
  BY <1>8 DEF EvalConn, MainFails, machine, battery, lowWork, pofWork
<1>9. CASE SetNormal
  BY <1>9 DEF SetNormal, FuncModeSet, MainFails, StateUpdate, IntervalOf,
              machine, battery, lowWork, pofWork
<1>10. CASE GiveState \/ Wake
  BY <1>10 DEF GiveState, Wake, machine, battery, lowWork, pofWork
<1> QED
  BY <1>1, <1>2, <1>3, <1>4, <1>5, <1>6, <1>7, <1>8, <1>9, <1>10 DEF Main

\* The steps of the two work queues preserve IInv.
LEMMA IInvWorkers ==
    ASSUME IInv, TypeOK', LowWorker \/ PofWorker
    PROVE  IInv'
<1> USE DEF IInv, TypeOK, StateProtected, AgreementInv, Agreement, LocalState,
            IntervalAgreesWithState, PofPending, ModeOf, MainHolds, LowHolds,
            PofHolds, MainPcs, States, Modes, AbovePofwarn
<1>1. CASE LowStart \/ LowTake \/ LowGive
  BY <1>1 DEF LowStart, LowTake, LowGive, machine, battery, pofWork
<1>2. CASE LowPowerOff
  BY <1>2 DEF LowPowerOff, StateUpdate, IntervalOf, machine, battery, pofWork
<1>3. CASE PofStart \/ PofTake \/ PofGive
  BY <1>3 DEF PofStart, PofTake, PofGive, machine, battery, lowWork
<1>4. CASE PofUpdate
  BY <1>4 DEF PofUpdate, StateUpdate, IntervalOf, battery, lowWork
<1> QED BY <1>1, <1>2, <1>3, <1>4 DEF LowWorker, PofWorker

\* The battery and the notifications preserve IInv: a warning that sets the
\* modem offline also queues its work item.
LEMMA IInvEnvironment ==
    ASSUME IInv, TypeOK', Environment \/ UNCHANGED vars
    PROVE  IInv'
<1> USE DEF IInv, TypeOK, StateProtected, AgreementInv, Agreement, LocalState,
            IntervalAgreesWithState, PofPending, ModeOf, MainHolds, LowHolds,
            PofHolds, MainPcs, States, Modes
<1>1. CASE BatteryChange
  BY <1>1 DEF BatteryChange, AbovePofwarn, machine, lowWork, pofWork
<1>2. CASE NotifyLow \/ NotifyPofwarn
  BY <1>2 DEF NotifyLow, NotifyPofwarn, AbovePofwarn, machine, battery,
              lowWork, pofWork
<1>3. CASE UNCHANGED vars
  BY <1>3 DEF vars, AbovePofwarn, machine, battery, lowWork, pofWork
<1> QED BY <1>1, <1>2, <1>3 DEF Environment

\* Every step preserves IInv.
LEMMA IInvNext == IInv /\ TypeOK' /\ [Next]_vars => IInv'
BY IInvMain, IInvWorkers, IInvEnvironment DEF Next

\* The invariant that the safety theorems rest on.
THEOREM Inductive == Spec => []IInv
BY TypeCorrect, IInvInit, IInvNext, PTL DEF Spec

\* state_sem admits one thread at a time, and is taken while one is inside.
THEOREM Protected == Spec => []StateProtected
<1>1. IInv => StateProtected
  BY DEF IInv
<1> QED BY <1>1, Inductive, PTL

\* With state_sem free and no warning pending, the state knows the modem's mode.
THEOREM ModeAgrees == Spec => []ModeAgreesWithState
<1>1. IInv => ModeAgreesWithState
  BY DEF IInv, AgreementInv, Agreement, ModeAgreesWithState
<1> QED BY <1>1, Inductive, PTL

\* The refresh interval in force is the one documented for the state.
THEOREM IntervalAgrees == Spec => []IntervalAgreesWithState
<1>1. IInv => IntervalAgreesWithState
  BY DEF IInv
<1> QED BY <1>1, Inductive, PTL

\* POFWARN ends only by the main loop and on a sample above its level.
THEOREM PofwarnEnds == Spec => PofwarnEndsOnSample
<1> DEFINE Ends == state = "POFWARN" /\ state' # "POFWARN" =>
                      /\ state' = "RX_ONLY_LOW_BAT"
                      /\ mainPc = "pof_connect"
                      /\ AbovePofwarn(batteryVoltage)
<1>1. IInv /\ [Next]_vars => [Ends]_vars
  <2> SUFFICES ASSUME IInv, Next PROVE Ends
    OBVIOUS
  <2> USE DEF IInv, LocalState
  <2>1. CASE Main
    BY <2>1 DEF Main, LibInit, ReadVoltage, TakeState, InitMode, InitConnect,
       PofMode, PofConnect, LowMode, LowConnect, RxOnlyMode, RxOnlyConnect,
       EvalConn, SetNormal, GiveState, Wake, MainFails, StateUpdate, machine
  <2>2. CASE LowWorker \/ PofWorker
    BY <2>2 DEF LowWorker, LowStart, LowTake, LowPowerOff, LowGive, PofWorker,
       PofStart, PofTake, PofUpdate, PofGive, StateUpdate, machine
  <2>3. CASE Environment
    BY <2>3 DEF Environment, BatteryChange, NotifyLow, NotifyPofwarn, machine
  <2> QED BY <2>1, <2>2, <2>3 DEF Next
<1> QED BY <1>1, Inductive, PTL DEF Spec, PofwarnEndsOnSample

-----------------------------------------------------------------------------
(* How state_sem is lost.                                                  *)

\* state_sem is taken, and no thread is on the way to give it back.
Lost == stateSem = 0 /\ ~MainHolds /\ ~LowHolds /\ ~PofHolds

\* The two ways out of the region that leave the semaphore taken.
MainLeaves == MainHolds /\ mainPc' = "stopped"
LowLeaves  == lowPc = "power_off" /\ lowPc' = "idle"

\* Every step that ends with the semaphore lost begins with it lost, or is a
\* failing call of a thread that holds it.
LEMMA LossStep ==
    ASSUME IInv, [Next]_vars, ~Lost, Lost'
    PROVE  \/ MainLeaves /\ Failing \cap {"func_mode_set", "connect", "conn_eval"} # {}
           \/ LowLeaves /\ "power_off" \in Failing
<1> USE DEF Lost, MainHolds, LowHolds, PofHolds, MainLeaves, LowLeaves
<1>1. CASE LibInit \/ ReadVoltage \/ Wake \/ GiveState
  BY <1>1 DEF LibInit, ReadVoltage, Wake, GiveState, lowWork, pofWork
<1>2. CASE TakeState
  BY <1>2 DEF TakeState, Activity
<1>3. CASE InitMode \/ InitConnect
  BY <1>3 DEF InitMode, InitConnect, FuncModeSet, MainFails, lowWork, pofWork
<1>4. CASE PofMode \/ PofConnect \/ LowMode \/ LowConnect
  BY <1>4 DEF PofMode, PofConnect, LowMode, LowConnect, RxOnlyMode, RxOnlyConnect,
     FuncModeSet, MainFails, lowWork, pofWork
<1>5. CASE EvalConn \/ SetNormal
  BY <1>5 DEF EvalConn, SetNormal, FuncModeSet, MainFails, lowWork, pofWork
<1>6. CASE LowWorker
  BY <1>6 DEF LowWorker, LowStart, LowTake, LowPowerOff, LowGive, pofWork
<1>7. CASE PofWorker
  BY <1>7 DEF PofWorker, PofStart, PofTake, PofUpdate, PofGive, lowWork
<1>8. CASE Environment \/ UNCHANGED vars
  BY <1>8 DEF Environment, BatteryChange, NotifyLow, NotifyPofwarn, vars, lowWork, pofWork
<1> QED BY <1>1, <1>2, <1>3, <1>4, <1>5, <1>6, <1>7, <1>8 DEF Next, Main

\* Nobody takes or gives a semaphore that is lost, and nobody updates the state.
LEMMA LostStep ==
    ASSUME Lost, [Next]_vars
    PROVE  Lost' /\ UNCHANGED machine
<1> USE DEF Lost, MainHolds, LowHolds, PofHolds
<1>1. CASE Main
  BY <1>1 DEF Main, LibInit, ReadVoltage, TakeState, InitMode, InitConnect, PofMode,
     PofConnect, LowMode, LowConnect, RxOnlyMode, RxOnlyConnect, EvalConn, SetNormal,
     GiveState, Wake, lowWork, pofWork
<1>2. CASE LowWorker \/ PofWorker
  BY <1>2 DEF LowWorker, LowStart, LowTake, LowPowerOff, LowGive, PofWorker, PofStart,
     PofTake, PofUpdate, PofGive, lowWork, pofWork
<1>3. CASE Environment \/ UNCHANGED vars
  BY <1>3 DEF Environment, BatteryChange, NotifyLow, NotifyPofwarn, vars, lowWork, pofWork
<1> QED BY <1>1, <1>2, <1>3 DEF Next

\* state_sem is lost in two ways only: a call of an activity fails and main()
\* returns inside the region, or lte_lc_power_off fails in the handler of
\* low_level_work.
THEOREM LossIsFailure ==
    Spec => [][~Lost /\ Lost' =>
                 \/ MainLeaves /\ Failing \cap {"func_mode_set", "connect", "conn_eval"} # {}
                 \/ LowLeaves /\ "power_off" \in Failing]_vars
<1>1. IInv /\ [Next]_vars =>
        [~Lost /\ Lost' =>
            \/ MainLeaves /\ Failing \cap {"func_mode_set", "connect", "conn_eval"} # {}
            \/ LowLeaves /\ "power_off" \in Failing]_vars
  BY LossStep
<1> QED BY <1>1, Inductive, PTL DEF Spec

\* A lost state_sem stays lost, and the state and its refresh interval are
\* frozen: no warning is recorded and no low battery is answered any more,
\* although the notifications and the work items go on.
THEOREM LossIsForGood == Spec => [][Lost => Lost' /\ UNCHANGED machine]_vars
<1>1. [Next]_vars => [Lost => Lost' /\ UNCHANGED machine]_vars
  BY LostStep
<1> QED BY <1>1, PTL DEF Spec

\* When the only calls that fail are those outside the region, state_sem is
\* never lost, also after a failed sample of the voltage has ended main().
THEOREM NeverLost ==
    Failing \subseteq {"lib_init", "voltage_get"} /\ Spec => []~Lost
<1> SUFFICES ASSUME Failing \subseteq {"lib_init", "voltage_get"} PROVE Spec => []~Lost
  OBVIOUS
<1>1. Init => ~Lost
  BY DEF Init, Lost
<1>2. IInv /\ ~Lost /\ [Next]_vars => ~Lost'
  BY LossStep
<1> QED BY <1>1, <1>2, Inductive, PTL DEF Spec

=============================================================================
