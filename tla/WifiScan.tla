------------------------------ MODULE WifiScan ------------------------------
(***************************************************************************)
(* The sample wifi_scan: main() requests a scan, waits for its end or for  *)
(* ten seconds, sleeps and requests the next one.  The results and the end *)
(* of a scan are events, which the thread of the network management hands  *)
(* to wifi_mgmt_event_handler one after the other.                         *)
(*                                                                         *)
(* External: the driver, which runs one scan at a time, refuses a request  *)
(* meanwhile, and may never end one; and the queue of the events, in which *)
(* an event that finds it full is lost.  A raw result is an event as any   *)
(* result, and all that is shown of one is its number.                     *)
(*                                                                         *)
(* A definition marked "Mutant" is the definition that follows it with a   *)
(* plausible mistake; no formula uses it.                                  *)
(***************************************************************************)
EXTENDS Integers, Sequences

CONSTANTS
    QueueSize,      \* of the events of the network management
    MaxResults      \* bound on the results of one scan

VARIABLES
    wfMain,         \* where main() and the function it calls are
    scan_sem,       \* its tokens
    scan_result,    \* the results counted since the last end of a scan, up to
                    \* one more than MaxResults
    mac,            \* external: whether the interface has a MAC address
    iface,          \* external: whether the interface is up
    scan,           \* external: whether the driver scans
    found,          \* external: the results of the scan so far
    events,         \* external: the queue, of results by their number and ends
    shown,          \* history: the last result shown, as numbered and by its number
    timedOut,       \* history: a wait for the end of a scan has timed out
    lostDone        \* history: the event of an end has been lost

handler == <<scan_result, shown>>
link    == <<mac, iface>>
driver  == <<scan, found, lostDone>>
vars    == <<wfMain, scan_sem, handler, link, driver, events, timedOut>>

Init ==
    /\ wfMain = "start"
    /\ scan_sem = 0 /\ scan_result = 0
    /\ mac \in {"set", "none"} /\ iface \in {"up", "down"}
    /\ scan = "idle" /\ found = 0
    /\ events = <<>>
    /\ shown = <<0, 0>>
    /\ timedOut = FALSE /\ lostDone = FALSE

-----------------------------------------------------------------------------
(* main() before its loop *)

CheckMac ==
    /\ wfMain = "start"
    /\ wfMain' = IF mac = "set" THEN "request" ELSE IF iface = "up" THEN "down" ELSE "address"
    /\ UNCHANGED <<scan_sem, handler, link, driver, events, timedOut>>

InterfaceDown ==
    /\ wfMain = "down"
    /\ \/ iface' = "down" /\ wfMain' = "address"
       \/ UNCHANGED iface /\ wfMain' = "returned"
    /\ UNCHANGED <<scan_sem, handler, mac, driver, events, timedOut>>

\* The address is parsed and set; whether it could be set is not looked at.
SetAddress ==
    /\ wfMain = "address"
    /\ \/ mac' \in {"set", "none"} /\ wfMain' = "up"
       \/ UNCHANGED mac /\ wfMain' = "returned"
    /\ UNCHANGED <<scan_sem, handler, iface, driver, events, timedOut>>

InterfaceUp ==
    /\ wfMain = "up"
    /\ \/ iface' = "up" /\ wfMain' = "request"
       \/ UNCHANGED iface /\ wfMain' = "returned"
    /\ UNCHANGED <<scan_sem, handler, mac, driver, events, timedOut>>

-----------------------------------------------------------------------------
(* wifi_scan() and the loop *)

\* The driver accepts the request: a scan begins.
RequestScan ==
    /\ wfMain = "request"
    /\ iface = "up" /\ scan = "idle"
    /\ scan' = "running" /\ found' = 0
    /\ wfMain' = "wait"
    /\ UNCHANGED <<scan_sem, handler, link, lostDone, events, timedOut>>

\* No memory for the bands, values that cannot be parsed, or a request that
\* the driver refuses: the result of wifi_scan() is ignored.
ScanFails ==
    /\ wfMain = "request"
    /\ wfMain' = "sleep"
    /\ UNCHANGED <<scan_sem, handler, link, driver, events, timedOut>>

\* Mutant: the wait does not wait.
TakeScanSem_NoWait ==
    /\ wfMain = "wait"
    /\ scan_sem' = 0
    /\ wfMain' = "sleep"
    /\ UNCHANGED <<handler, link, driver, events, timedOut>>

TakeScanSem ==
    /\ wfMain = "wait" /\ scan_sem = 1
    /\ scan_sem' = 0
    /\ wfMain' = "sleep"
    /\ UNCHANGED <<handler, link, driver, events, timedOut>>

\* SCAN_TIMEOUT_MS pass; the result of k_sem_take is ignored as well.
ScanTimesOut ==
    /\ wfMain = "wait" /\ scan_sem = 0
    /\ timedOut' = TRUE
    /\ wfMain' = "sleep"
    /\ UNCHANGED <<scan_sem, handler, link, driver, events>>

SleepEnds ==
    /\ wfMain = "sleep"
    /\ wfMain' = "request"
    /\ UNCHANGED <<scan_sem, handler, link, driver, events, timedOut>>

-----------------------------------------------------------------------------
(* wifi_mgmt_event_handler *)

\* handle_wifi_scan_result; a result is a number above 0, an end is 0.
HandleResult ==
    /\ events # <<>> /\ Head(events) > 0
    /\ events' = Tail(events)
    /\ scan_result' = IF scan_result > MaxResults THEN scan_result ELSE scan_result + 1
    /\ shown' = <<scan_result', Head(events)>>
    /\ UNCHANGED <<wfMain, scan_sem, link, driver, timedOut>>

\* Mutant: the count is cleared only if the scan was not given up.
HandleDone_WhenWaiting ==
    /\ events # <<>> /\ Head(events) = 0
    /\ events' = Tail(events)
    /\ scan_result' = IF wfMain = "wait" THEN 0 ELSE scan_result
    /\ scan_sem' = 1
    /\ UNCHANGED <<wfMain, shown, link, driver, timedOut>>

\* handle_wifi_scan_done, also of a scan that failed.
HandleDone ==
    /\ events # <<>> /\ Head(events) = 0
    /\ events' = Tail(events)
    /\ scan_result' = 0
    /\ scan_sem' = 1
    /\ UNCHANGED <<wfMain, shown, link, driver, timedOut>>

-----------------------------------------------------------------------------
(* External: the driver *)

Post(event) == events' = IF Len(events) < QueueSize THEN Append(events, event) ELSE events

\* A result that is lost has no number.
FindNetwork ==
    /\ scan = "running" /\ found < MaxResults
    /\ Post(found + 1)
    /\ found' = IF events' = events THEN found ELSE found + 1
    /\ UNCHANGED <<wfMain, scan_sem, handler, link, scan, lostDone, timedOut>>

EndScan ==
    /\ scan = "running"
    /\ scan' = "idle"
    /\ Post(0)
    /\ lostDone' = (lostDone \/ events' = events)
    /\ UNCHANGED <<wfMain, scan_sem, handler, link, found, timedOut>>

SetUp    == CheckMac \/ InterfaceDown \/ SetAddress \/ InterfaceUp
Scanning == RequestScan \/ ScanFails \/ TakeScanSem \/ ScanTimesOut \/ SleepEnds
Main     == SetUp \/ Scanning
Handle   == HandleResult \/ HandleDone
Next     == Main \/ Handle \/ FindNetwork \/ EndScan

Spec == Init /\ [][Next]_vars

-----------------------------------------------------------------------------
(* Properties *)

TypeOK ==
    /\ wfMain \in {"start", "down", "address", "up", "request", "wait", "sleep", "returned"}
    /\ scan_sem \in 0..1 /\ scan_result \in 0..MaxResults + 1
    /\ mac \in {"set", "none"} /\ iface \in {"up", "down"}
    /\ scan \in {"idle", "running"} /\ found \in 0..MaxResults
    /\ events \in Seq(0..MaxResults) /\ Len(events) <= QueueSize
    /\ shown \in (0..MaxResults + 1) \X (0..MaxResults)
    /\ timedOut \in BOOLEAN /\ lostDone \in BOOLEAN

\* The results of a scan are numbered from one in the order of their events,
\* also after scans that main() has given up, unless the end of one was lost.
NumberedFromOne == ~lostDone => shown[1] = shown[2]

\* As long as no wait has timed out, main() requests a scan only when the
\* last has ended and its token is taken: each wait ends by its own scan.
WaitsForOwnScan ==
    wfMain = "request" /\ ~timedOut => scan = "idle" /\ scan_sem = 0
=============================================================================
