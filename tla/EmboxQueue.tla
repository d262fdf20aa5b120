------------------------------ MODULE EmboxQueue ------------------------------
(***************************************************************************)
(* The driver event queue of port/embox/supp_main_embox.c: a ring of       *)
(* WPA_EMBOX_QUEUE_LEN message pointers under wpa_embox_queue_mtx, filled  *)
(* by the driver's worker threads and by the supplicant thread itself (its *)
(* scan timer and its event handlers may send), emptied by the supplicant  *)
(* thread.  The mutex is not recursive and is modelled as a variable, so   *)
(* that a handler that sends while the queue is locked would deadlock.     *)
(*                                                                         *)
(* A message stands for its whole deep copy (the msg block, the event data *)
(* and the duplicated pointer payloads), which is built and freed as one.  *)
(* Whether it is delivered (event >= 0 and ctx != NULL) is left open.      *)
(***************************************************************************)
EXTENDS Naturals, Sequences

CONSTANTS
    Workers,     \* driver threads that send
    Supp,        \* the supplicant thread
    Msgs,        \* addresses of messages
    NoMsg,       \* the NULL pointer
    Nobody,      \* the owner of a free mutex
    QueueLen     \* WPA_EMBOX_QUEUE_LEN, the slots of the ring

ASSUME QueueAssumption ==
    /\ NoMsg \notin Msgs
    /\ Supp \notin Workers
    /\ Nobody \notin Workers \cup {Supp}
    /\ QueueLen \in Nat \ {0}

Senders == Workers \cup {Supp}

VARIABLES
    ring, head, tail,   \* wpa_embox_queue, _head, _tail
    lock,               \* the owner of wpa_embox_queue_mtx
    heap,               \* the messages that are allocated
    ppc, pmsg,          \* sender -> its place in wpa_embox_send_event, its msg
    spc, smsg,          \* the same for wpa_embox_process_events
    budget              \* its loop counter

sendVars == <<ppc, pmsg>>
passVars == <<spc, smsg, budget>>
vars == <<ring, head, tail, lock, heap, sendVars, passVars>>

Init ==
    /\ ring = [i \in 0..QueueLen-1 |-> NoMsg]
    /\ head = 0
    /\ tail = 0
    /\ lock = Nobody
    /\ heap = {}
    /\ ppc = [p \in Senders |-> "idle"]
    /\ pmsg = [p \in Senders |-> NoMsg]
    /\ spc = "out"
    /\ smsg = NoMsg
    /\ budget = 0

Incr(i) == (i + 1) % QueueLen

\* Mutant: the ring is called full only when head and tail meet.
MutFull == FALSE

Full == Incr(tail) = head
Empty == head = tail

-----------------------------------------------------------------------------
(* wpa_embox_send_event and wpa_embox_send_dummy_event                      *)

\* The deep copy is made.  The supplicant thread sends from a timer (outside a
\* pass over the queue) or from an event handler (within one).
Build(p) ==
    /\ ppc[p] = "idle"
    /\ p = Supp => spc \in {"out", "deliver"}
    /\ \E m \in Msgs \ heap :
        /\ heap' = heap \cup {m}
        /\ pmsg' = [pmsg EXCEPT ![p] = m]
    /\ ppc' = [ppc EXCEPT ![p] = "lock"]
    /\ UNCHANGED <<ring, head, tail, lock, passVars>>

LockSend(p) ==
    /\ ppc[p] = "lock"
    /\ lock = Nobody
    /\ lock' = p
    /\ ppc' = [ppc EXCEPT ![p] = "put"]
    /\ UNCHANGED <<ring, head, tail, heap, pmsg, passVars>>

\* The locked section: append the message, or find the ring full.
Put(p) ==
    /\ ppc[p] = "put"
    /\ \/ /\ ~Full
          /\ ring' = [ring EXCEPT ![tail] = pmsg[p]]
          /\ tail' = Incr(tail)
          /\ ppc' = [ppc EXCEPT ![p] = "idle"]
          /\ pmsg' = [pmsg EXCEPT ![p] = NoMsg]
       \/ /\ Full
          /\ ppc' = [ppc EXCEPT ![p] = "drop"]
          /\ UNCHANGED <<ring, tail, pmsg>>
    /\ lock' = Nobody
    /\ UNCHANGED <<head, heap, passVars>>

\* Event queue full: the copy is freed and -1 returned (no caller looks at it).
Drop(p) ==
    /\ ppc[p] = "drop"
    /\ heap' = heap \ {pmsg[p]}
    /\ ppc' = [ppc EXCEPT ![p] = "idle"]
    /\ pmsg' = [pmsg EXCEPT ![p] = NoMsg]
    /\ UNCHANGED <<ring, head, tail, lock, passVars>>

-----------------------------------------------------------------------------
(* wpa_embox_process_events                                                 *)

StartPass ==
    /\ spc = "out"
    /\ ppc[Supp] = "idle"
    /\ budget' = QueueLen
    /\ spc' = "next"
    /\ UNCHANGED <<ring, head, tail, lock, heap, sendVars, smsg>>

\* Mutant: the loop runs until the queue is empty.
MutSpend == budget

\* while (budget--)
Spend == budget - 1

LockTake ==
    /\ spc = "next"
    /\ budget > 0
    /\ lock = Nobody
    /\ budget' = Spend
    /\ lock' = Supp
    /\ spc' = "take"
    /\ UNCHANGED <<ring, head, tail, heap, sendVars, smsg>>

EndPass ==
    /\ spc = "next"
    /\ budget = 0
    /\ spc' = "out"
    /\ UNCHANGED <<ring, head, tail, lock, heap, sendVars, smsg, budget>>

\* Mutant: the head stays where it is.
MutNextHead == head

NextHead == Incr(head)

\* The locked section: take the message at the head, or leave an empty queue.
Take ==
    /\ spc = "take"
    /\ lock' = Nobody
    /\ \/ /\ Empty
          /\ spc' = "out"
          /\ UNCHANGED <<head, smsg>>
       \/ /\ ~Empty
          /\ smsg' = ring[head]
          /\ head' = NextHead
          /\ spc' \in {"deliver", "free"}
    /\ UNCHANGED <<ring, tail, heap, sendVars, budget>>

\* wpa_supplicant_event() returns; whatever it sent is in the queue or dropped.
Delivered ==
    /\ spc = "deliver"
    /\ ppc[Supp] = "idle"
    /\ spc' = "free"
    /\ UNCHANGED <<ring, head, tail, lock, heap, sendVars, smsg, budget>>

\* Mutant: the message is not freed after the handler.
MutFreed == heap

Freed == heap \ {smsg}

FreeMsg ==
    /\ spc = "free"
    /\ heap' = Freed
    /\ smsg' = NoMsg
    /\ spc' = "next"
    /\ UNCHANGED <<ring, head, tail, lock, sendVars, budget>>

-----------------------------------------------------------------------------
SendStep(p) == LockSend(p) \/ Put(p) \/ Drop(p)
PassStep == LockTake \/ EndPass \/ Take \/ Delivered \/ FreeMsg

Next ==
    \/ \E p \in Senders : Build(p) \/ SendStep(p)
    \/ StartPass \/ PassStep

Spec == Init /\ [][Next]_vars

\* Who has the mutex runs on and gives it back, and it (its waiters queue up)
\* comes to the supplicant thread in the end; eloop_run starts a pass after at
\* most 16 timers, and no handler sends for ever.  A worker may stop anywhere else.
FairSpec ==
    /\ Spec
    /\ WF_vars(\E p \in Senders : Put(p))
    /\ SF_vars(LockSend(Supp) \/ LockTake)
    /\ WF_vars(Drop(Supp) \/ EndPass \/ Take \/ FreeMsg)
    /\ SF_vars(StartPass) /\ SF_vars(Delivered)

-----------------------------------------------------------------------------
(* Properties                                                               *)

TypeOK ==
    /\ ring \in [0..QueueLen-1 -> Msgs \cup {NoMsg}]
    /\ head \in 0..QueueLen-1
    /\ tail \in 0..QueueLen-1
    /\ lock \in Senders \cup {Nobody}
    /\ heap \in SUBSET Msgs
    /\ ppc \in [Senders -> {"idle", "lock", "put", "drop"}]
    /\ pmsg \in [Senders -> Msgs \cup {NoMsg}]
    /\ spc \in {"out", "next", "take", "deliver", "free"}
    /\ smsg \in Msgs \cup {NoMsg}
    /\ budget \in 0..QueueLen

\* The number of messages in the ring, and the i-th of them from the head.
Count == IF tail >= head THEN tail - head ELSE tail - head + QueueLen
Slot(i) == (head + i) % QueueLen
InRing(i) == i \in 0..QueueLen-1 /\ i < Count
Queued == {ring[Slot(i)] : i \in {i \in 0..QueueLen-1 : InRing(i)}}

\* A queued message is allocated, is queued once, and is in nobody else's hands:
\* the consumer never handles or frees a message twice, nor one that a sender
\* that saw a full queue has freed.
QueuedOnce ==
    \A i \in 0..QueueLen-1 : InRing(i) =>
        /\ ring[Slot(i)] \in heap
        /\ ring[Slot(i)] # smsg
        /\ \A p \in Senders : ring[Slot(i)] # pmsg[p]
        /\ \A k \in 0..QueueLen-1 : InRing(k) /\ k # i => ring[Slot(k)] # ring[Slot(i)]

\* Every allocated message is queued, being sent or being handled: neither the
\* drop of a full queue nor an event without a context leaks its copy.
NoLeak == heap \subseteq Queued \cup {smsg} \cup {pmsg[p] : p \in Senders}

\* Indices stay within the ring of wpa_embox_queue, and every copy that
\* wpa_embox_send_event makes has one owner at each moment, until it is freed.
QueueSound == TypeOK /\ QueuedOnce /\ NoLeak

\* The ring read as a sequence of messages.
AsSeq == [i \in 1..Count |-> ring[Slot(i - 1)]]

Fifo == INSTANCE BoundedFifo WITH
    q <- AsSeq, current <- smsg, Capacity <- QueueLen - 1

\* The ring is a first-in first-out queue of QueueLen - 1 messages.
ImplementsFifo == Fifo!Spec

\* A pass over the queue comes to an end although senders keep filling it, so
\* the timers and the jobs of eloop_run get their turn.
PassEnds == spc # "out" ~> spc = "out"

\* An accepted message reaches the supplicant.
AcceptedIsTaken == \A m \in Msgs : m \in Queued ~> m \notin Queued
===============================================================================
