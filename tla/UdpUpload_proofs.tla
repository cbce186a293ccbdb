-------------------------- MODULE UdpUpload_proofs --------------------------
(***************************************************************************)
(* The number of transmissions before the shutdown, and the state of the   *)
(* socket at each of them, for any number of iterations.                   *)
(***************************************************************************)
EXTENDS UdpUpload, TLAPS

\* main() has not armed the work item yet.
BeforeUpload == mainPc \in {"lib_init", "connect_async", "wait_lte",
                            "socket_connect", "schedule"}

\* The work item is armed, and modem_shutdown_sem given, only while main()
\* waits for the semaphore, and never both.
UploadInv ==
    /\ work # "idle" => mainPc = "wait_shutdown" /\ modemShutdown = 0
    /\ modemShutdown = 1 => mainPc = "wait_shutdown"
    /\ mainPc \notin {"lib_init", "ended"} => modem = "on"
    /\ mainPc \in {"schedule", "wait_shutdown", "shutdown"} => socket = "connected"

\* What is left to count and what has been sent add up.
CountInv ==
    /\ configured = -1 <=> iterations = -1
    /\ BeforeUpload => sent = 0 /\ iterations = configured
    /\ configured >= 0 /\ work \in {"scheduled", "send"} =>
          sent = configured - iterations
    /\ configured >= 0 /\ work = "count" => sent = configured - iterations + 1
    /\ modemShutdown = 1 \/ mainPc = "shutdown" => sent = configured + 1

IInv ==
    /\ TypeOK
    /\ UploadInv
    /\ CountInv

-----------------------------------------------------------------------------
\* The counters are integers, and MaxSent is never reached by a limited upload.
LEMMA ConfiguredType ==
    ASSUME TypeOK
    PROVE  /\ configured \in Int /\ configured >= -1 /\ configured + 1 < MaxSent
           /\ MaxSent \in Nat /\ iterations \in Int /\ sent \in Int
BY ConfigAssumption DEF TypeOK

LEMMA IInvInit == ASSUME Init PROVE IInv
<1>1. configured \in Int /\ configured >= -1 /\ MaxSent \in Nat
  BY ConfigAssumption DEF Init
<1>2. iterations \in {-1} \cup (0..configured)
  BY <1>1 DEF Init
<1>3. TypeOK
  <2>1. sent \in 0..MaxSent
    BY <1>1 DEF Init
  <2> QED BY <1>2, <2>1, Zenon DEF Init, TypeOK
<1>4. UploadInv /\ CountInv
  BY <1>1 DEF Init, UploadInv, CountInv, BeforeUpload
<1> QED BY <1>3, <1>4 DEF IInv

LEMMA IInvMain == ASSUME IInv, Main PROVE IInv'
<1> USE DEF IInv, TypeOK, UploadInv, CountInv, BeforeUpload,
            upload, link, sems
<1> USE ConfiguredType
<1>1. CASE LibInit \/ ConnectAsync \/ WaitLte
  BY <1>1 DEF LibInit, ConnectAsync, WaitLte
<1>2. CASE SocketConnect
  BY <1>2 DEF SocketConnect
<1>3. CASE Schedule
  BY <1>3 DEF Schedule
<1>4. CASE WaitShutdown
  BY <1>4 DEF WaitShutdown
<1>5. CASE Shutdown
  BY <1>5 DEF Shutdown
<1> QED BY <1>1, <1>2, <1>3, <1>4, <1>5 DEF Main

LEMMA IInvWorker == ASSUME IInv, Worker PROVE IInv'
<1> USE DEF IInv, TypeOK, UploadInv, CountInv, BeforeUpload,
            link, sems
<1> USE ConfiguredType
<1>1. CASE Expire
  BY <1>1 DEF Expire
<1>2. CASE Send
  BY <1>2 DEF Send
<1>3. CASE Count
  BY <1>3 DEF Count
<1> QED BY <1>1, <1>2, <1>3 DEF Worker

\* The invariant that the theorems rest on.
THEOREM Inductive == Spec => []IInv
<1>1. ASSUME IInv, Register \/ Deregister \/ UNCHANGED vars PROVE IInv'
  BY <1>1 DEF Register, Deregister, vars, IInv, TypeOK, UploadInv, CountInv,
     BeforeUpload, upload, link, sems
<1>2. IInv /\ [Next]_vars => IInv'
  BY <1>1, IInvMain, IInvWorker DEF Next
<1> QED BY IInvInit, <1>2, PTL DEF Spec

\* The handler transmits on a connected socket of a running modem.
THEOREM SocketIsOpen == Spec => []SendsOnOpenSocket
<1>1. IInv => SendsOnOpenSocket
  BY DEF IInv, UploadInv, SendsOnOpenSocket
<1> QED BY <1>1, Inductive, PTL

\* Each transmission of a limited upload is counted once, and main() is told to
\* shut down only after as many as are configured, for every number of them.
THEOREM UploadsAddUp == Spec => []UploadsCounted
<1>1. IInv => UploadsCounted
  BY ConfiguredType DEF IInv, CountInv, UploadsCounted
<1> QED BY <1>1, Inductive, PTL

\* The number that socket_transmission_work_fn transmits before the shutdown is
\* the configured number and one, for every number: the countdown is tested
\* after the transmission, and does not end before it is at zero at the test.
THEOREM OneMoreThanConfigured ==
    Spec => [](modemShutdown = 1 \/ mainPc = "shutdown" => sent = configured + 1)
<1>1. IInv => (modemShutdown = 1 \/ mainPc = "shutdown" => sent = configured + 1)
  BY DEF IInv, CountInv
<1> QED BY <1>1, Inductive, PTL

-----------------------------------------------------------------------------
(* The safety halves of the two liveness properties.                       *)

\* While main() waits for the shutdown, either the work item is armed or runs,
\* or it has given modem_shutdown_sem; an unlimited upload never gives it.
AliveInv ==
    /\ mainPc = "wait_shutdown" => (work = "idle" <=> modemShutdown = 1)
    /\ configured = -1 => modemShutdown = 0 /\ mainPc # "shutdown"

LEMMA AliveStep ==
    ASSUME IInv, AliveInv, [Next]_vars
    PROVE  AliveInv'
<1> USE DEF IInv, UploadInv, CountInv, AliveInv, upload, link, sems
<1>1. CASE Main
  BY <1>1 DEF Main, TypeOK, BeforeUpload, LibInit, ConnectAsync, WaitLte,
     SocketConnect, Schedule, WaitShutdown, Shutdown
<1>2. CASE Worker
  BY <1>2, ConfiguredType DEF Worker, Expire, Send, Count
<1>3. CASE Register \/ Deregister \/ UNCHANGED vars
  BY <1>3 DEF Register, Deregister, vars
<1> QED BY <1>1, <1>2, <1>3 DEF Next

LEMMA ScheduleFindsIdle == ASSUME IInv, mainPc = "schedule" PROVE work = "idle"
BY DEF IInv, UploadInv

\* main() never waits for a shutdown that nobody is going to ask for: the chain
\* in which socket_transmission_work_fn arms itself ends only by the semaphore.
THEOREM UploadStaysAlive ==
    Spec => [](mainPc = "wait_shutdown" => (work = "idle" <=> modemShutdown = 1))
<1>1. Init => AliveInv
  BY DEF Init, AliveInv
<1> QED BY <1>1, AliveStep, Inductive, PTL DEF Spec, AliveInv

\* A device that uploads indefinitely does not leave the loop once it is in it:
\* -1 is neither counted down nor taken for the end.
THEOREM UnlimitedStays ==
    Spec => [][configured = -1 /\ mainPc = "wait_shutdown" =>
                 mainPc' = "wait_shutdown" /\ work' # "idle"]_vars
<1>1. Init => AliveInv
  BY DEF Init, AliveInv
<1>2. IInv /\ AliveInv /\ [Next]_vars =>
        [configured = -1 /\ mainPc = "wait_shutdown" =>
            mainPc' = "wait_shutdown" /\ work' # "idle"]_vars
  <2> SUFFICES ASSUME IInv, AliveInv, [Next]_vars, configured = -1,
                      mainPc = "wait_shutdown"
               PROVE  mainPc' = "wait_shutdown" /\ work' # "idle"
    OBVIOUS
  <2>1. AliveInv' BY AliveStep
  <2>2. configured' = -1 /\ mainPc' = "wait_shutdown"
    BY DEF AliveInv, Next, Main, Worker, LibInit, ConnectAsync, WaitLte,
       SocketConnect, Schedule, WaitShutdown, Shutdown, Expire, Send, Count,
       Register, Deregister, vars, upload, link, sems
  <2> QED BY <2>1, <2>2 DEF AliveInv
<1> QED BY <1>1, <1>2, AliveStep, Inductive, PTL DEF Spec

\* The steps that a limited upload has left: three for each transmission, one
\* transmission more than is left to count.
Left ==
    IF work = "idle" THEN 0
    ELSE 3 * iterations + (IF work = "scheduled" THEN 3 ELSE IF work = "send" THEN 2 ELSE 1)

\* Each step of the work item brings a limited upload nearer to its end, which
\* nothing but main(), when it schedules the first one, puts off: a registration
\* that comes and goes does not keep it running.
THEOREM LimitedCountsDown ==
    Spec => [][configured >= 0 =>
                 /\ Left' \in Nat
                 /\ Worker => Left' < Left
                 /\ mainPc # "schedule" => Left' <= Left]_vars
<1> DEFINE Down == configured >= 0 =>
                     /\ Left' \in Nat
                     /\ Worker => Left' < Left
                     /\ mainPc # "schedule" => Left' <= Left
<1>1. ASSUME IInv, Next, configured >= 0 PROVE Down
  <2> USE DEF upload, link, sems
  <2>1. iterations \in Nat /\ work \in {"idle", "scheduled", "send", "count"}
    BY <1>1, ConfiguredType DEF IInv, TypeOK, CountInv
  <2>2. Left \in Nat
    BY <2>1 DEF Left
  <2>3. CASE Worker
    <3>1. CASE Expire BY <2>1, <3>1 DEF Expire, Left
    <3>2. CASE Send BY <2>1, <3>2 DEF Send, Left
    <3>3. CASE Count BY <2>1, <3>3 DEF Count, Left
    <3> QED BY <2>3, <3>1, <3>2, <3>3 DEF Worker
  <2>4. CASE Schedule
    <3>1. ~Worker
      BY <2>4, <1>1, ScheduleFindsIdle DEF Schedule, Worker, Expire, Send, Count
    <3> QED BY <2>1, <2>4, <3>1 DEF Schedule, Left
  <2>5. CASE /\ UNCHANGED <<work, iterations>>
             /\ ~Worker
    BY <2>2, <2>5 DEF Left
  <2>6. CASE (Main /\ ~Schedule) \/ Register \/ Deregister
    <3>1. UNCHANGED <<work, iterations>>
      BY <2>6 DEF Main, LibInit, ConnectAsync, WaitLte, SocketConnect,
         WaitShutdown, Shutdown, Register, Deregister
    <3> QED BY <2>3, <2>5, <3>1
  <2> QED BY <1>1, <2>3, <2>4, <2>6 DEF Next
<1>2. IInv /\ [Next]_vars => [Down]_vars
  BY <1>1
<1> QED BY <1>2, Inductive, PTL DEF Spec

=============================================================================
