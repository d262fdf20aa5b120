------------------------------ MODULE EmboxDriver ------------------------------
(***************************************************************************)
(* Scanning and association in port/embox/driver_embox.c.  Three parties   *)
(* share struct embox_drv_data without a lock: the supplicant thread that  *)
(* calls the driver operations, the scan timer (which runs on the same     *)
(* thread, from eloop_run), and the worker thread of the 802.11 stack that *)
(* calls embox_wireless_event.  Their atomic exchanges on scan_pending     *)
(* decide who reports a scan; drv->associated is a plain variable that two *)
(* threads write.                                                          *)
(*                                                                         *)
(* The event queue is the bounded fifo that EmboxQueue implements; a full  *)
(* one drops the event.  The 802.11 stack below wlan_port is external: a   *)
(* scan or a join that it has begun may complete, until another state is   *)
(* forced on it, and a worker that has begun a notification finishes it.   *)
(***************************************************************************)
EXTENDS Naturals, Sequences

CONSTANTS
    Capacity,     \* events the queue holds (WPA_EMBOX_QUEUE_LEN - 1)
    MaxScans      \* bound: scan requests made

ASSUME DriverAssumption == Capacity \in Nat \ {0} /\ MaxScans \in Nat

VARIABLES
    pending,      \* scan_pending
    associated,   \* drv->associated
    timers,       \* the scans for which an embox_scan_poll timeout is registered
    queue,        \* the event queue
    spc, wpc,     \* where the supplicant thread and the worker are
    hw,           \* the state of the 802.11 stack
    view,         \* what the supplicant takes the connection to be
    scans,        \* history: scan requests that set scan_pending, counted
    sent,         \* history: scan reports made, dropped ones included
    owed,         \* history: the supplicant waits for the report of a scan
    lost          \* history: an event was dropped

history == <<scans, sent, owed>>
vars == <<pending, associated, timers, queue, spc, wpc, hw, view, history, lost>>

Init ==
    /\ pending = FALSE
    /\ associated = FALSE
    /\ timers = {}
    /\ queue = <<>>
    /\ spc = "idle"
    /\ wpc = "idle"
    /\ hw = "init"
    /\ view = "none"
    /\ scans = 0
    /\ sent = 0
    /\ owed = FALSE
    /\ lost = FALSE

Room == Len(queue) < Capacity

\* wpa_embox_send_event; the callers ignore its result.
Send(event) ==
    \/ /\ Room
       /\ queue' = Append(queue, event)
       /\ UNCHANGED lost
    \/ /\ ~Room
       /\ lost' = TRUE
       /\ UNCHANGED queue

-----------------------------------------------------------------------------
(* The supplicant thread                                                    *)

\* embox_scan2 up to its atomic exchange.  A request that finds a scan pending
\* returns -1 and changes nothing.
ScanBegin ==
    /\ spc = "idle"
    /\ ~pending
    /\ scans < MaxScans
    /\ pending' = TRUE
    /\ spc' = "scan"
    /\ scans' = scans + 1
    /\ UNCHANGED <<associated, timers, queue, wpc, hw, view, sent, owed, lost>>

\* Mutants: the timer of an earlier scan is not cancelled; the timer is
\* cancelled after it was registered.
MutRearmed == timers \cup {scans}
MutRearmedLate == {}

\* eloop_cancel_timeout, then eloop_register_timeout.
Rearmed == {scans}

ScanStart ==
    /\ spc = "scan"
    /\ timers' = Rearmed
    /\ hw' = "scan"
    /\ owed' = TRUE
    /\ spc' = "idle"
    /\ UNCHANGED <<pending, associated, queue, wpc, view, scans, sent, lost>>

\* The timeout is not registered or wlan_port_scan fails.
ScanFails ==
    /\ spc = "scan"
    /\ pending' = FALSE
    /\ timers' = {}
    /\ spc' = "idle"
    /\ UNCHANGED <<associated, queue, wpc, hw, view, history, lost>>

\* embox_scan_poll up to its atomic exchange, which decides whether it reports.
TimerFires ==
    /\ spc = "idle"
    /\ \E n \in timers : timers' = timers \ {n}
    /\ pending' = FALSE
    /\ IF pending THEN hw' = "init" /\ spc' = "report" ELSE UNCHANGED <<hw, spc>>
    /\ UNCHANGED <<associated, queue, wpc, view, history, lost>>

TimerReports ==
    /\ spc = "report"
    /\ Send("scan")
    /\ sent' = sent + 1
    /\ spc' = "idle"
    /\ UNCHANGED <<pending, associated, timers, wpc, hw, view, scans, owed>>

\* embox_deauthenticate.  It drops a scan without a report.
Deauthenticate ==
    /\ pending' = FALSE
    /\ timers' = {}
    /\ associated' = FALSE
    /\ hw' = "init"
    /\ owed' = FALSE

\* wpa_supplicant_deauthenticate: the driver is called while the supplicant
\* knows a BSSID or is associating.
Disconnect ==
    /\ spc = "idle"
    /\ view # "none"
    /\ Deauthenticate
    /\ view' = "none"
    /\ UNCHANGED <<queue, spc, wpc, scans, sent, lost>>

\* embox_associate up to ieee80211_sta_join.
Associate ==
    /\ spc = "idle"
    /\ hw' = "join"
    /\ view' = "associating"
    /\ UNCHANGED <<pending, associated, timers, queue, spc, wpc, history, lost>>

\* embox_associate returns -1: the SSID does not fit, no memory, or the BSS is not
\* in the scan table.  The driver does not vouch for its error codes, so the
\* supplicant goes on as if it were associating until its timeout disconnects it.
AssociateFails ==
    /\ spc = "idle"
    /\ view' = "associating"
    /\ UNCHANGED <<pending, associated, timers, queue, spc, wpc, hw, history, lost>>

\* wpa_embox_process_events hands the supplicant the first event.  On
\* EVENT_ASSOC it asks for the BSSID, which embox_get_bssid has only while
\* drv->associated is set, and deauthenticates without it.
Deliver ==
    /\ spc = "idle"
    /\ queue # <<>>
    /\ queue' = Tail(queue)
    /\ LET event == Head(queue)
       IN \/ /\ event = "scan"
             /\ owed' = FALSE
             /\ UNCHANGED <<pending, associated, timers, hw, view>>
          \/ /\ event = "assoc" /\ associated
             /\ view' = "associated"
             /\ UNCHANGED <<pending, associated, timers, hw, owed>>
          \/ /\ event = "assoc" /\ ~associated /\ view # "none"
             /\ Deauthenticate
             /\ view' = "none"
          \/ /\ event = "assoc" /\ ~associated /\ view = "none"
             /\ UNCHANGED <<pending, associated, timers, hw, view, owed>>
          \/ /\ event = "disassoc"
             /\ view' = "none"
             /\ UNCHANGED <<pending, associated, timers, hw, owed>>
          \/ /\ event = "eapol"
             /\ UNCHANGED <<pending, associated, timers, hw, view, owed>>
    /\ UNCHANGED <<spc, wpc, scans, sent, lost>>

-----------------------------------------------------------------------------
(* The 802.11 stack and its worker thread: embox_wireless_event             *)

\* The stack completes a scan or a join, or loses its association, and the
\* worker is about to call embox_wireless_event.
Notify ==
    /\ wpc = "idle"
    /\ \/ hw = "scan" /\ hw' = "init" /\ wpc' = "SCAN_DONE"
       \/ hw = "join" /\ hw' = "run" /\ wpc' = "ASSOC"
       \/ hw = "run" /\ hw' = "init" /\ wpc' = "DISASSOC"
    /\ UNCHANGED <<pending, associated, timers, queue, spc, view, history, lost>>

\* Mutant: the worker looks at scan_pending and leaves it set.
MutAfterExchange == pending

AfterExchange == FALSE

\* The atomic exchange of WLAN_PORT_SCAN_DONE.
ScanDone ==
    /\ wpc = "SCAN_DONE"
    /\ pending' = AfterExchange
    /\ wpc' = IF pending THEN "scan" ELSE "idle"
    /\ UNCHANGED <<associated, timers, queue, spc, hw, view, history, lost>>

\* Mutant: a loss of the association leaves the variable set.
MutSetAssociated ==
    /\ wpc \in {"ASSOC", "DISASSOC"}
    /\ associated' = (wpc = "ASSOC" \/ associated)
    /\ wpc' = IF wpc = "ASSOC" THEN "assoc" ELSE "disassoc"
    /\ UNCHANGED <<pending, timers, queue, spc, hw, view, history, lost>>

SetAssociated ==
    /\ wpc \in {"ASSOC", "DISASSOC"}
    /\ associated' = (wpc = "ASSOC")
    /\ wpc' = IF wpc = "ASSOC" THEN "assoc" ELSE "disassoc"
    /\ UNCHANGED <<pending, timers, queue, spc, hw, view, history, lost>>

WorkerSends ==
    /\ wpc \in {"scan", "assoc", "disassoc"}
    /\ Send(wpc)
    /\ sent' = IF wpc = "scan" THEN sent + 1 ELSE sent
    /\ wpc' = "idle"
    /\ UNCHANGED <<pending, associated, timers, spc, hw, view, scans, owed>>

\* embox_eapol_rx: the frames that fill the queue (one that is dropped changes
\* nothing here).
EapolRx ==
    /\ Room
    /\ queue' = Append(queue, "eapol")
    /\ UNCHANGED <<pending, associated, timers, spc, wpc, hw, view, history, lost>>

-----------------------------------------------------------------------------
WorkerStep == ScanDone \/ SetAssociated \/ WorkerSends

Next ==
    \/ ScanBegin \/ ScanStart \/ ScanFails
    \/ TimerFires \/ TimerReports
    \/ Disconnect \/ Associate \/ AssociateFails \/ Deliver
    \/ Notify \/ WorkerStep \/ EapolRx

Spec == Init /\ [][Next]_vars

\* A function that has begun returns, eloop_run comes round to the queue and to
\* a timer that is due (EmboxEloop), and the worker is scheduled.  The hardware
\* owes nobody a completion.
FairSpec ==
    /\ Spec
    /\ WF_vars(ScanStart \/ ScanFails) /\ WF_vars(TimerReports)
    /\ SF_vars(TimerFires) /\ SF_vars(Deliver)
    /\ WF_vars(WorkerStep)

-----------------------------------------------------------------------------
(* Properties                                                               *)

TypeOK ==
    /\ pending \in BOOLEAN
    /\ associated \in BOOLEAN
    /\ timers \in SUBSET (1..MaxScans)
    /\ queue \in Seq({"scan", "assoc", "disassoc", "eapol"})
    /\ Len(queue) <= Capacity
    /\ spc \in {"idle", "scan", "report"}
    /\ wpc \in {"idle", "SCAN_DONE", "ASSOC", "DISASSOC", "scan", "assoc", "disassoc"}
    /\ hw \in {"init", "scan", "join", "run"}
    /\ view \in {"none", "associating", "associated"}
    /\ scans \in 0..MaxScans
    /\ sent \in 0..MaxScans
    /\ owed \in BOOLEAN
    /\ lost \in BOOLEAN

Count(b) == IF b THEN 1 ELSE 0

\* A scan is reported at most once: the worker, the timer, a deauthentication
\* and the failure path of embox_scan2 may all come together, and a completion
\* may come late, after its scan was given up and another one begun.
OneReportPerScan ==
    sent + Count(wpc = "scan") + Count(spc = "report") + Count(pending) <= scans

\* While a scan is pending its timer is registered, so that it cannot be
\* forgotten when the hardware stays silent.
PendingHasTimer == pending /\ spc # "scan" => scans \in timers

\* scan_pending keeps its promise to both sides: one report for a scan, and a
\* timer as long as there is none.
ScanSound == TypeOK /\ OneReportPerScan /\ PendingHasTimer

\* A timeout aborts the scan it was registered for, never a later one, although
\* the worker that completes a scan leaves its timer running.
AbortsOwnScan ==
    [][spc = "idle" /\ spc' = "report" => scans \in timers \ timers']_vars

\* When the worker is at rest and the events are handled, the supplicant and the
\* driver agree on whether there is an association, in whatever order the
\* supplicant's deauthentication and the worker's notifications came, unless
\* an event was dropped.
AgreeWhenQuiet ==
    wpc = "idle" /\ queue = <<>> /\ ~lost =>
        (associated <=> view = "associated") \/ view = "associating"

\* Every scan that embox_scan2 accepted is reported, or dropped together with
\* the connection, as long as no event is lost.
ScanReportedUnlessLost == owed ~> ~owed \/ lost

\* The comment on embox_scan_poll: "This timeout reports an aborted scan if no
\* completion arrives."
ScanReported == owed ~> ~owed
===============================================================================
