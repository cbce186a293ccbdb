----------------------------- MODULE UdpUpload -----------------------------
(***************************************************************************)
(* The sample udp: main() waits for the network registration, connects a   *)
(* UDP socket and arms a delayable work item that transmits, counts the    *)
(* transmission and arms itself again, until it tells main() to shut the   *)
(* modem library down.  main(), the system work queue and the callback of  *)
(* the LTE library meet at two binary semaphores.                          *)
(*                                                                         *)
(* A definition marked "Mutant" is the definition that follows it with a   *)
(* plausible mistake; no formula uses it.                                  *)
(***************************************************************************)
EXTENDS Integers

CONSTANTS
    Configured,   \* the values of CONFIG_UDP_DATA_UPLOAD_ITERATIONS
    MaxSent       \* bound: transmissions are counted up to it

ASSUME ConfigAssumption ==
    /\ Configured \subseteq {n \in Int : n >= -1}
    /\ MaxSent \in Nat
    /\ \A n \in Configured : n + 1 < MaxSent

VARIABLES
    configured,    \* the value that the build has
    iterations,    \* data_upload_iterations
    mainPc,        \* where main() is
    modem,         \* the modem library: off, on
    registered,    \* the network registration, which comes and goes
    socket,        \* client_fd: closed, connected
    work,          \* socket_transmission_work: idle, scheduled, send, count
    lteConnected,  \* count of lte_connected_sem
    modemShutdown, \* count of modem_shutdown_sem
    sent           \* history: number of calls of send, saturating at MaxSent

link == <<modem, registered, socket>>
sems == <<lteConnected, modemShutdown>>
upload == <<configured, iterations, work, sent>>
vars == <<upload, mainPc, link, sems>>

Init ==
    /\ configured \in Configured
    /\ iterations = configured
    /\ mainPc = "lib_init"
    /\ modem = "off" /\ registered = FALSE /\ socket = "closed"
    /\ work = "idle"
    /\ lteConnected = 0 /\ modemShutdown = 0
    /\ sent = 0

-----------------------------------------------------------------------------
(* main(): a call that fails ends it.                                      *)

LibInit ==
    /\ mainPc = "lib_init"
    /\ \/ mainPc' = "connect_async" /\ modem' = "on"
       \/ mainPc' = "ended" /\ UNCHANGED modem
    /\ UNCHANGED <<upload, registered, socket, sems>>

\* nrf_modem_at_printf and lte_lc_connect_async.
ConnectAsync ==
    /\ mainPc = "connect_async"
    /\ mainPc' \in {"wait_lte", "ended"}
    /\ UNCHANGED <<upload, link, sems>>

WaitLte ==
    /\ mainPc = "wait_lte"
    /\ lteConnected = 1
    /\ lteConnected' = 0
    /\ mainPc' = "socket_connect"
    /\ UNCHANGED <<upload, link, modemShutdown>>

SocketConnect ==
    /\ mainPc = "socket_connect"
    /\ \/ mainPc' = "schedule" /\ socket' = "connected"
       \/ mainPc' = "ended" /\ UNCHANGED socket
    /\ UNCHANGED <<upload, modem, registered, sems>>

Schedule ==
    /\ mainPc = "schedule"
    /\ work' = "scheduled"
    /\ mainPc' = "wait_shutdown"
    /\ UNCHANGED <<configured, iterations, sent, link, sems>>

WaitShutdown ==
    /\ mainPc = "wait_shutdown"
    /\ modemShutdown = 1
    /\ modemShutdown' = 0
    /\ mainPc' = "shutdown"
    /\ UNCHANGED <<upload, link, lteConnected>>

\* nrf_modem_lib_shutdown: the modem, and with it the socket, is gone, unless
\* the call fails.
Shutdown ==
    /\ mainPc = "shutdown"
    /\ mainPc' = "ended"
    /\ \/ modem' = "off" /\ socket' = "closed" /\ registered' = FALSE
       \/ UNCHANGED link
    /\ UNCHANGED <<upload, sems>>

Main == \/ LibInit \/ ConnectAsync \/ WaitLte \/ SocketConnect \/ Schedule
        \/ WaitShutdown \/ Shutdown

-----------------------------------------------------------------------------
(* socket_transmission_work_fn                                             *)

Expire ==
    /\ work = "scheduled"
    /\ work' = "send"
    /\ UNCHANGED <<configured, iterations, sent, mainPc, link, sems>>

\* Mutant: without a registration nothing is transmitted, and counted all the
\* same.
Send_Registered ==
    /\ work = "send"
    /\ sent' = IF registered /\ sent < MaxSent THEN sent + 1 ELSE sent
    /\ work' = "count"
    /\ UNCHANGED <<configured, iterations, mainPc, link, sems>>

\* The result of send is only printed: a failure counts like a success.
Send ==
    /\ work = "send"
    /\ sent' = IF sent < MaxSent THEN sent + 1 ELSE sent
    /\ work' = "count"
    /\ UNCHANGED <<configured, iterations, mainPc, link, sems>>

\* Mutant: the handler arms the work item although it shuts down.
Count_NoReturn ==
    /\ work = "count"
    /\ iterations' = IF iterations > 0 THEN iterations - 1 ELSE iterations
    /\ modemShutdown' = IF iterations = 0 THEN 1 ELSE modemShutdown
    /\ work' = "scheduled"
    /\ UNCHANGED <<configured, sent, mainPc, link, lteConnected>>

\* Mutant: every value but zero is counted, and -1 ends the uploads.
Count_Endless ==
    /\ work = "count"
    /\ iterations' = IF iterations > 0 THEN iterations - 1 ELSE iterations
    /\ IF iterations <= 0
       THEN modemShutdown' = 1 /\ work' = "idle"
       ELSE work' = "scheduled" /\ UNCHANGED modemShutdown
    /\ UNCHANGED <<configured, sent, mainPc, link, lteConnected>>

\* Mutant: the handler stops at zero without telling main().
Count_NoGive ==
    /\ work = "count"
    /\ iterations' = IF iterations > 0 THEN iterations - 1 ELSE iterations
    /\ work' = IF iterations = 0 THEN "idle" ELSE "scheduled"
    /\ UNCHANGED <<configured, sent, mainPc, link, sems>>

\* Mutant: the counter is counted down without a test, past -1 too.
Count_Down ==
    /\ work = "count"
    /\ iterations' = iterations - 1
    /\ work' = "scheduled"
    /\ UNCHANGED <<configured, sent, mainPc, link, sems>>

Count ==
    /\ work = "count"
    /\ iterations' = IF iterations > 0 THEN iterations - 1 ELSE iterations
    /\ IF iterations = 0
       THEN modemShutdown' = 1 /\ work' = "idle"
       ELSE work' = "scheduled" /\ UNCHANGED modemShutdown
    /\ UNCHANGED <<configured, sent, mainPc, link, lteConnected>>

Worker == Expire \/ Send \/ Count

-----------------------------------------------------------------------------
(* lte_handler, called whenever the registration changes.                  *)

LteListens == modem = "on" /\ mainPc \notin {"lib_init", "connect_async"}

Register ==
    /\ LteListens /\ ~registered
    /\ registered' = TRUE
    /\ lteConnected' = 1
    /\ UNCHANGED <<upload, mainPc, modem, socket, modemShutdown>>

Deregister ==
    /\ LteListens /\ registered
    /\ registered' = FALSE
    /\ UNCHANGED <<upload, mainPc, modem, socket, sems>>

Next == Main \/ Worker \/ Register \/ Deregister

Spec == Init /\ [][Next]_vars

(* main() and the system work queue run, and the delay of the work item    *)
(* passes.  The network promises nothing.                                  *)
FairSpec == Spec /\ WF_vars(Main) /\ WF_vars(Worker)

-----------------------------------------------------------------------------
TypeOK ==
    /\ configured \in Configured
    /\ iterations \in {-1} \cup (0..configured)
    /\ mainPc \in {"lib_init", "connect_async", "wait_lte", "socket_connect",
                   "schedule", "wait_shutdown", "shutdown", "ended"}
    /\ modem \in {"off", "on"} /\ socket \in {"closed", "connected"}
    /\ registered \in BOOLEAN
    /\ work \in {"idle", "scheduled", "send", "count"}
    /\ lteConnected \in {0, 1} /\ modemShutdown \in {0, 1}
    /\ sent \in 0..MaxSent

\* The handler transmits on a connected socket of a running modem: it is armed
\* after socket_connect, and main() shuts down after the last run of it.
SendsOnOpenSocket ==
    work # "idle" => modem = "on" /\ socket = "connected"

\* Each transmission of a limited upload is counted once, whatever becomes of
\* the registration: what is left to count and what has been sent add up to the
\* configured number when the next one is armed, and main() is not told to shut
\* down before that number is reached.
UploadsCounted ==
    /\ configured >= 0 /\ work = "scheduled" => sent + iterations = configured
    /\ modemShutdown = 1 \/ mainPc = "shutdown" => sent >= configured

\* The option is the "Number of data transmissions to the server before
\* shutdown" (Kconfig); the handler transmits once more.
ShutsDownAsConfigured ==
    configured >= 0 /\ (modemShutdown = 1 \/ mainPc = "shutdown") => sent = configured

\* A device that uploads a limited number of times ends by shutting down, once
\* it has been registered, also if it loses the registration meanwhile.
LimitedUploadEnds == lteConnected = 1 /\ configured >= 0 ~> mainPc = "ended"

\* A device that is to upload indefinitely transmits again and again.
UnlimitedUploadGoesOn ==
    mainPc = "wait_shutdown" /\ configured = -1 ~> work = "send"

=============================================================================
