-------------------------- MODULE EmboxDriver_proofs --------------------------
(***************************************************************************)
(* Proofs about EmboxDriver for any capacity of the event queue and any    *)
(* number of scans.                                                        *)
(***************************************************************************)
EXTENDS EmboxDriver, SequenceTheorems, TLAPS

USE DriverAssumption DEF history, vars

Events == {"scan", "assoc", "disassoc", "eapol"}

-----------------------------------------------------------------------------
(* Scans: who reports one, and which timer belongs to it                    *)

\* Outside embox_scan2 a registered timer is that of the last scan.
OwnTimer == spc # "scan" => timers \subseteq {scans}

\* ScanSound and what it takes to keep it: the scan that embox_scan2 is about to start
\* has been counted.
ScanInv ==
    /\ ScanSound
    /\ OwnTimer
    /\ spc = "scan" => scans >= 1

\* What wpa_embox_send_event does to the queue: it stays a queue of events within its
\* capacity.
LEMMA SendKeepsType ==
    ASSUME TypeOK, NEW e \in Events, Send(e)
    PROVE  /\ queue' \in Seq(Events)
           /\ Len(queue') <= Capacity
           /\ lost' \in BOOLEAN
<1>1. queue \in Seq(Events) /\ Len(queue) <= Capacity /\ Len(queue) \in Nat
  BY LenProperties DEF TypeOK, Events
<1>2. CASE Room /\ queue' = Append(queue, e) /\ lost' = lost
  <2>1. Append(queue, e) \in Seq(Events) /\ Len(Append(queue, e)) = Len(queue) + 1
    BY <1>1, AppendProperties
  <2> QED BY <1>1, <1>2, <2>1 DEF Room, TypeOK
<1>3. CASE lost' = TRUE /\ queue' = queue
  BY <1>1, <1>3
<1> QED BY <1>2, <1>3 DEF Send

\* One exchange on scan_pending moves the duty to report a scan from one place to another;
\* only embox_scan2 creates one, together with the count, and its timer follows.
LEMMA ScanInvPreserved == ScanInv /\ [Next]_vars => ScanInv'
<1> SUFFICES ASSUME ScanInv, [Next]_vars
             PROVE  ScanInv'
  OBVIOUS
<1> USE DEF ScanInv, ScanSound, TypeOK, OneReportPerScan, PendingHasTimer, OwnTimer, Count
<1>1. CASE ScanBegin
  BY <1>1 DEF ScanBegin
<1>2. CASE ScanStart
  BY <1>2 DEF ScanStart, Rearmed
<1>3. CASE ScanFails
  <2>1. TypeOK'
    BY <1>3 DEF ScanFails
  <2>2. OneReportPerScan'
    BY <1>3 DEF ScanFails
  <2>3. PendingHasTimer' /\ OwnTimer' /\ (spc = "scan" => scans >= 1)'
    BY <1>3 DEF ScanFails
  <2> QED BY <2>1, <2>2, <2>3
<1>4. CASE TimerFires
  <2>1. TypeOK'
    BY <1>4 DEF TimerFires
  <2>2. OneReportPerScan'
    BY <1>4 DEF TimerFires
  <2>3. PendingHasTimer' /\ OwnTimer' /\ (spc = "scan" => scans >= 1)'
    BY <1>4 DEF TimerFires
  <2> QED BY <2>1, <2>2, <2>3
<1>5. CASE TimerReports
  <2>1. TypeOK'
    BY <1>5, SendKeepsType DEF TimerReports, Events
  <2> QED BY <1>5, <2>1 DEF TimerReports
<1>6. CASE Disconnect
  <2>1. TypeOK'
    BY <1>6 DEF Disconnect, Deauthenticate
  <2>2. OneReportPerScan'
    BY <1>6 DEF Disconnect, Deauthenticate
  <2>3. PendingHasTimer' /\ OwnTimer' /\ (spc = "scan" => scans >= 1)'
    BY <1>6 DEF Disconnect, Deauthenticate
  <2> QED BY <2>1, <2>2, <2>3
<1>7. CASE Associate \/ AssociateFails
  <2>1. CASE Associate
    BY <2>1 DEF Associate
  <2>2. CASE AssociateFails
    BY <2>2 DEF AssociateFails
  <2> QED BY <1>7, <2>1, <2>2
<1>8. CASE Deliver
  <2>1. Tail(queue) \in Seq(Events) /\ Len(Tail(queue)) <= Capacity
    BY <1>8, HeadTailProperties, LenProperties DEF Deliver, Events
  <2>2. TypeOK'
    BY <1>8, <2>1 DEF Deliver, Deauthenticate, Events
  <2>3. OneReportPerScan'
    <3>1. pending' = pending \/ pending' = FALSE
      BY <1>8 DEF Deliver, Deauthenticate
    <3>2. UNCHANGED <<spc, wpc, scans, sent>>
      BY <1>8 DEF Deliver
    <3> QED BY <3>1, <3>2
  <2>4. PendingHasTimer' /\ OwnTimer' /\ (spc = "scan" => scans >= 1)'
    <3>1. UNCHANGED <<pending, timers>> \/ (pending' = FALSE /\ timers' = {})
      BY <1>8 DEF Deliver, Deauthenticate
    <3>2. UNCHANGED <<spc, scans>>
      BY <1>8 DEF Deliver
    <3>3. CASE UNCHANGED <<pending, timers>>
      BY <3>2, <3>3
    <3>4. CASE pending' = FALSE /\ timers' = {}
      BY <3>2, <3>4
    <3> QED BY <3>1, <3>3, <3>4
  <2> QED BY <2>2, <2>3, <2>4
<1>9. CASE Notify
  BY <1>9 DEF Notify
<1>10. CASE ScanDone
  <2>1. TypeOK'
    BY <1>10 DEF ScanDone, AfterExchange
  <2>2. OneReportPerScan'
    BY <1>10 DEF ScanDone, AfterExchange
  <2>3. PendingHasTimer' /\ OwnTimer' /\ (spc = "scan" => scans >= 1)'
    BY <1>10 DEF ScanDone, AfterExchange
  <2> QED BY <2>1, <2>2, <2>3
<1>11. CASE SetAssociated
  BY <1>11 DEF SetAssociated
<1>12. CASE WorkerSends
  <2>1. TypeOK'
    BY <1>12, SendKeepsType DEF WorkerSends, Events
  <2> QED BY <1>12, <2>1 DEF WorkerSends
<1>13. CASE EapolRx
  <2>1. Send("eapol")
    BY <1>13 DEF EapolRx, Send
  <2>2. TypeOK'
    BY <1>13, <2>1, SendKeepsType DEF EapolRx, Events
  <2> QED BY <1>13, <2>2 DEF EapolRx
<1>14. CASE UNCHANGED vars
  BY <1>14
<1> QED BY <1>1, <1>2, <1>3, <1>4, <1>5, <1>6, <1>7, <1>8, <1>9, <1>10, <1>11, <1>12, <1>13,
           <1>14 DEF Next, WorkerStep

LEMMA ScanInvInitially == Init => ScanInv
<1> SUFFICES ASSUME Init PROVE ScanInv
  OBVIOUS
<1>1. <<>> \in Seq(Events) /\ Len(<<>>) = 0
  BY EmptySeq
<1>2. TypeOK
  <2>1. queue \in Seq(Events) /\ Len(queue) <= Capacity
    BY <1>1 DEF Init
  <2>2. timers \in SUBSET (1..MaxScans) /\ scans \in 0..MaxScans /\ sent \in 0..MaxScans
    BY DEF Init
  <2> QED BY <2>1, <2>2 DEF Init, TypeOK, Events
<1>3. OneReportPerScan
  BY DEF Init, OneReportPerScan, Count
<1>4. PendingHasTimer /\ OwnTimer /\ (spc = "scan" => scans >= 1)
  BY DEF Init, PendingHasTimer, OwnTimer
<1> QED BY <1>2, <1>3, <1>4 DEF ScanInv, ScanSound

\* The inductive invariant of scan_pending, its timer and its reports.
THEOREM ScanInvariant == Spec => []ScanInv
  BY ScanInvInitially, ScanInvPreserved, PTL DEF Spec

\* Whoever comes first, worker, timer, deauthentication or failure: a scan is reported at
\* most once, and while nobody has reported it its timer is registered.
THEOREM ScansSound == Spec => []ScanSound
<1>1. ScanInv => ScanSound
  BY DEF ScanInv
<1> QED BY <1>1, ScanInvariant, PTL

\* A timeout that aborts a scan is the one that was registered for it: embox_scan2 has
\* cancelled the timer that an earlier scan left behind.
THEOREM TimersAbortOwnScan == Spec => AbortsOwnScan
<1>1. ScanInv /\ [Next]_vars => [spc = "idle" /\ spc' = "report" => scans \in timers \ timers']_vars
  <2> SUFFICES ASSUME ScanInv, Next, spc = "idle", spc' = "report"
               PROVE  scans \in timers \ timers'
    OBVIOUS
  <2>1. TimerFires
    BY DEF Next, ScanBegin, ScanStart, ScanFails, TimerFires, TimerReports, Disconnect,
           Associate, AssociateFails, Deliver, Notify, WorkerStep, ScanDone, SetAssociated, WorkerSends, EapolRx
  <2>2. PICK n \in timers : timers' = timers \ {n}
    BY <2>1 DEF TimerFires
  <2>3. n = scans
    BY DEF ScanInv, OwnTimer
  <2> QED BY <2>2, <2>3
<1> QED BY <1>1, ScanInvariant, PTL DEF Spec, AbortsOwnScan

-----------------------------------------------------------------------------
(* The association: what the supplicant takes it to be, and drv->associated *)

LinkEvents == {"assoc", "disassoc"}

\* The events in the queue that are about the association.
Pending(i) == i \in DOMAIN queue /\ queue[i] \in LinkEvents

Agree == (associated <=> view = "associated") \/ view = "associating"

\* If the last word of the worker, still on its way to the supplicant, is that the
\* association was lost, then drv->associated is not set; an association that was made is
\* looked up when its event is handled.  With nothing on its way the two sides agree.
Reconciled ==
    /\ wpc \notin LinkEvents /\ (\A i \in DOMAIN queue : ~Pending(i)) => Agree
    /\ wpc = "disassoc" => ~associated
    /\ wpc \notin LinkEvents =>
         \A i \in DOMAIN queue :
             queue[i] = "disassoc" /\ (\A j \in DOMAIN queue : j > i => ~Pending(j)) => ~associated

LinkInv == TypeOK /\ (~lost => Reconciled)

USE DEF LinkEvents, Pending, Agree

\* What the thread and the worker do beside the association changes nothing about it.
LEMMA LinkUntouched ==
    ASSUME LinkInv, ~lost', UNCHANGED <<queue, associated, view, lost>>,
           wpc' = wpc \/ (wpc \notin LinkEvents /\ wpc' \notin LinkEvents)
    PROVE  Reconciled'
  BY DEF LinkInv, Reconciled

\* An event of another kind joins the queue.
LEMMA OtherEventQueued ==
    ASSUME LinkInv, ~lost', NEW e \in {"scan", "eapol"}, Send(e), UNCHANGED <<associated, view>>,
           wpc' = wpc \/ (wpc \notin LinkEvents /\ wpc' \notin LinkEvents)
    PROVE  Reconciled'
<1>1. queue \in Seq(Events) /\ e \in Events /\ ~lost
  BY DEF LinkInv, TypeOK, Events, Send
<1>2. queue' = Append(queue, e)
  BY DEF Send
<1>3. /\ DOMAIN queue = 1..Len(queue) /\ DOMAIN queue' = 1..Len(queue)+1 /\ Len(queue) \in Nat
      /\ \A i \in DOMAIN queue : queue'[i] = queue[i]
      /\ queue'[Len(queue)+1] = e
  BY <1>1, <1>2, AppendProperties, LenProperties
<1>4. \A i \in DOMAIN queue : Pending(i)' <=> Pending(i)
  BY <1>3
<1> QED BY <1>1, <1>3, <1>4 DEF LinkInv, Reconciled

\* The worker's report of an association or of its loss is the last of those in the queue.
LEMMA LinkEventQueued ==
    ASSUME LinkInv, ~lost', wpc \in LinkEvents, Send(wpc), wpc' = "idle",
           UNCHANGED <<associated, view>>
    PROVE  Reconciled'
<1>1. queue \in Seq(Events) /\ wpc \in Events /\ ~lost
  BY DEF LinkInv, TypeOK, Events, Send
<1>2. queue' = Append(queue, wpc)
  BY DEF Send
<1>3. PICK n \in Nat : DOMAIN queue' = 1..n /\ n > 0 /\ queue'[n] = wpc
  BY <1>1, <1>2, AppendProperties, LenProperties
<1>4. n \in DOMAIN queue' /\ Pending(n)'
  BY <1>3
<1>5. wpc = "disassoc" => ~associated'
  BY <1>1 DEF LinkInv, Reconciled
<1>6. ASSUME NEW i \in DOMAIN queue', queue'[i] = "disassoc",
             \A j \in DOMAIN queue' : j > i => ~Pending(j)'
      PROVE  ~associated'
  <2>1. i = n
    BY <1>3, <1>4, <1>6
  <2> QED BY <1>3, <1>5, <1>6, <2>1
<1> QED BY <1>3, <1>4, <1>6 DEF Reconciled

\* An event is handled: the supplicant looks at drv->associated, which is what the last
\* report on its way said or has been cleared since.
LEMMA EventDelivered ==
    ASSUME LinkInv, ~lost', Deliver
    PROVE  Reconciled'
<1>1. queue \in Seq(Events) /\ queue # <<>> /\ queue' = Tail(queue) /\ ~lost /\ wpc' = wpc
  BY DEF LinkInv, TypeOK, Events, Deliver
<1>2. /\ DOMAIN queue = 1..Len(queue) /\ DOMAIN queue' = 1..Len(queue)-1 /\ Len(queue) \in Nat \ {0}
      /\ \A i \in DOMAIN queue' : queue'[i] = queue[i+1] /\ i + 1 \in DOMAIN queue
      /\ queue[1] = Head(queue)
  <2>1. Len(queue) \in Nat \ {0} /\ DOMAIN queue = 1..Len(queue)
    BY <1>1, EmptySeq, LenProperties
  <2>2. /\ Len(queue') = Len(queue) - 1 /\ queue' \in Seq(Events)
        /\ \A i \in 1..Len(queue') : queue'[i] = queue[i+1]
    BY <1>1, HeadTailProperties
  <2>3. DOMAIN queue' = 1..Len(queue')
    BY <2>2, LenProperties
  <2>4. queue[1] = Head(queue)
    BY <1>1
  <2> QED BY <2>1, <2>2, <2>3, <2>4
<1>3. \A i \in DOMAIN queue' : Pending(i)' <=> Pending(i + 1)
  BY <1>2
<1>4. associated' = associated \/ ~associated'
  BY DEF Deliver, Deauthenticate
<1>5. Reconciled
  BY <1>1 DEF LinkInv
<1>6. wpc \notin LinkEvents =>
        \A i \in DOMAIN queue' :
          queue'[i] = "disassoc" /\ (\A j \in DOMAIN queue' : j > i => ~Pending(j)') => ~associated'
  <2> SUFFICES ASSUME wpc \notin LinkEvents, NEW i \in DOMAIN queue', queue'[i] = "disassoc",
                      \A j \in DOMAIN queue' : j > i => ~Pending(j)'
               PROVE  ~associated'
    OBVIOUS
  <2>1. \A j \in DOMAIN queue : j > i + 1 => ~Pending(j)
    <3> SUFFICES ASSUME NEW j \in DOMAIN queue, j > i + 1 PROVE ~Pending(j)
      OBVIOUS
    <3>1. j - 1 \in DOMAIN queue' /\ j - 1 > i /\ (j - 1) + 1 = j
      BY <1>2
    <3> QED BY <1>3, <3>1
  <2>2. ~associated
    BY <1>2, <1>5, <2>1 DEF Reconciled
  <2> QED BY <1>4, <2>2
<1>7. ASSUME wpc \notin LinkEvents, \A i \in DOMAIN queue' : ~Pending(i)'
      PROVE  Agree'
  <2>1. \A j \in DOMAIN queue : j > 1 => ~Pending(j)
    <3> SUFFICES ASSUME NEW j \in DOMAIN queue, j > 1 PROVE ~Pending(j)
      OBVIOUS
    <3>1. j - 1 \in DOMAIN queue' /\ (j - 1) + 1 = j
      BY <1>2
    <3> QED BY <1>3, <1>7, <3>1
  <2>2. CASE queue[1] \in {"scan", "eapol"}
    <3>1. \A j \in DOMAIN queue : ~Pending(j)
      BY <1>2, <2>1, <2>2
    <3>2. UNCHANGED <<associated, view>>
      BY <1>2, <2>2 DEF Deliver
    <3> QED BY <1>5, <1>7, <3>1, <3>2 DEF Reconciled
  <2>3. CASE queue[1] = "assoc"
    BY <1>2, <2>3 DEF Deliver, Deauthenticate
  <2>4. CASE queue[1] = "disassoc"
    <3>1. ~associated
      BY <1>2, <1>5, <1>7, <2>1, <2>4 DEF Reconciled
    <3>2. view' = "none" /\ associated' = associated
      BY <1>2, <2>4 DEF Deliver
    <3> QED BY <3>1, <3>2
  <2> QED BY <1>2, <2>2, <2>3, <2>4 DEF Deliver
<1>8. wpc = "disassoc" => ~associated'
  BY <1>4, <1>5 DEF Reconciled
<1> QED BY <1>1, <1>6, <1>7, <1>8 DEF Reconciled

LEMMA LinkInvPreserved == ScanInv /\ ScanInv' /\ LinkInv /\ [Next]_vars => LinkInv'
<1> SUFFICES ASSUME TypeOK', LinkInv, [Next]_vars, ~lost'
             PROVE  Reconciled'
  BY DEF ScanInv, ScanSound, LinkInv
<1>1. CASE ScanBegin \/ ScanStart \/ ScanFails \/ TimerFires
  BY <1>1, LinkUntouched DEF ScanBegin, ScanStart, ScanFails, TimerFires
<1>2. CASE TimerReports
  BY <1>2, OtherEventQueued DEF TimerReports
<1>3. CASE Disconnect
  BY <1>3 DEF Disconnect, Deauthenticate, Reconciled
<1>4. CASE Associate \/ AssociateFails
  BY <1>4 DEF Associate, AssociateFails, Reconciled, LinkInv
<1>5. CASE Deliver
  BY <1>5, EventDelivered
<1>6. CASE Notify
  BY <1>6, LinkUntouched DEF Notify
<1>7. CASE ScanDone
  BY <1>7, LinkUntouched DEF ScanDone
<1>8. CASE SetAssociated
  BY <1>8 DEF SetAssociated, Reconciled
<1>9. CASE WorkerSends
  <2>1. CASE wpc = "scan"
    BY <1>9, <2>1, OtherEventQueued DEF WorkerSends
  <2>2. CASE wpc \in LinkEvents
    BY <1>9, <2>2, LinkEventQueued DEF WorkerSends
  <2> QED BY <1>9, <2>1, <2>2 DEF WorkerSends
<1>10. CASE EapolRx
  <2>1. Send("eapol")
    BY <1>10 DEF EapolRx, Send
  <2> QED BY <1>10, <2>1, OtherEventQueued DEF EapolRx
<1>11. CASE UNCHANGED vars
  BY <1>11, LinkUntouched
<1> QED BY <1>1, <1>2, <1>3, <1>4, <1>5, <1>6, <1>7, <1>8, <1>9, <1>10, <1>11
           DEF Next, WorkerStep

\* With the worker at rest and all events handled the supplicant and the driver agree on
\* whether there is an association, however deauthentications of the one and notifications
\* of the other were interleaved, if no event was dropped.
THEOREM SidesAgree == Spec => []AgreeWhenQuiet
<1>1. Init => LinkInv
  <2> SUFFICES ASSUME Init PROVE LinkInv
    OBVIOUS
  <2>1. TypeOK
    BY ScanInvInitially DEF ScanInv, ScanSound
  <2>2. Reconciled
    BY DEF Init, Reconciled
  <2> QED BY <2>1, <2>2 DEF LinkInv
<1>2. LinkInv => AgreeWhenQuiet
  BY DEF LinkInv, Reconciled, AgreeWhenQuiet
<1> QED BY <1>1, <1>2, LinkInvPreserved, ScanInvariant, PTL DEF Spec
=============================================================================
