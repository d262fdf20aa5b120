------------------------------ MODULE EmboxEloop ------------------------------
(***************************************************************************)
(* The event loop of port/embox/eloop_embox.c: the sorted list of timeouts *)
(* and the passes of eloop_run, all on the supplicant thread.  Handlers of *)
(* timers, events and jobs may register, cancel and reschedule timeouts,   *)
(* the one that is running included.                                       *)
(*                                                                         *)
(* Time is relative to the clock: Left(t) is the time until timeout t is   *)
(* due, 0 at the instant it becomes due and -1 for ever after (no code     *)
(* tells two overdue times apart).  Registered times, counted in ticks of  *)
(* 1 / TicksPerMs ms, keep the part of a millisecond that eloop_run cuts   *)
(* off when it computes its sleep.                                         *)
(***************************************************************************)
EXTENDS Integers, Sequences, FiniteSets, SequencesExt

CONSTANTS
    Blocks,       \* addresses of struct eloop_timeout
    NoBlock,      \* the NULL pointer
    Handlers,     \* timeout handlers
    Ctxs,         \* values of eloop_data and user_data, taken as one
    AllCtx,       \* ELOOP_ALL_CTX
    Delays,       \* bound: the delays registered, in ticks
    TicksPerMs,
    MaxSlice,     \* 20, the longest sleep in ms
    Budget        \* 16, the timers run per pass

ASSUME EloopAssumption ==
    /\ NoBlock \notin Blocks
    /\ AllCtx \notin Ctxs
    /\ Delays \subseteq Nat /\ IsFiniteSet(Delays) /\ Delays # {}
    /\ {TicksPerMs, MaxSlice, Budget} \subseteq Nat \ {0}

Keys == [handler : Handlers, ctx : Ctxs]
Patterns == [handler : Handlers, ctx : Ctxs \cup {AllCtx}]

VARIABLES
    timeouts,     \* eloop.timeout, the list
    heap,         \* allocated block -> its handler and data, the time until it is due
    terminate,    \* eloop.terminate
    pc,           \* where the thread is
    due,          \* the timeout whose handler runs
    budget,       \* the loop counter of eloop_run
    nap,          \* what is left of ksleep, in ticks
    regs          \* history: the blocks in the order of their registration

listVars == <<timeouts, heap, regs>>
vars == <<listVars, terminate, pc, due, budget, nap>>

Init ==
    /\ timeouts = <<>>
    /\ heap = <<>>
    /\ terminate = FALSE
    /\ pc = "setup"
    /\ due = NoBlock
    /\ budget = 0
    /\ nap = 0
    /\ regs = <<>>

\* The code between two passes over the loop that may call the eloop functions:
\* wpa_supplicant_add_iface, a timeout handler, the event and the job handlers.
InHandler == pc \in {"setup", "timer", "events", "jobs"}

Left(t) == heap[t].left
Key(t) == heap[t].key
Free == Blocks \ DOMAIN heap

-----------------------------------------------------------------------------
(* eloop_register_timeout                                                   *)

\* Mutants: a new timeout goes to the front of its equals; to the front of all.
MutPlace(list, d) ==
    CHOOSE i \in 1..Len(list)+1 :
        /\ \A k \in 1..i-1 : Left(list[k]) < d
        /\ i <= Len(list) => Left(list[i]) >= d
MutPlaceFirst(list, d) == 1

\* Before the first timeout that is strictly later.
Place(list, d) ==
    CHOOSE i \in 1..Len(list)+1 :
        /\ \A k \in 1..i-1 : Left(list[k]) <= d
        /\ i <= Len(list) => Left(list[i]) > d

\* The list and the history with block t registered; os_zalloc may also fail.
Insert(t, k, d, list, allocated, history) ==
    /\ timeouts' = InsertAt(list, Place(list, d), t)
    /\ heap' = (t :> [key |-> k, left |-> d]) @@ allocated
    /\ regs' = Append(history, t)

Register(k, d) ==
    /\ InHandler
    /\ \E t \in Free : Insert(t, k, d, timeouts, heap, regs)
    /\ UNCHANGED <<terminate, pc, due, budget, nap>>

-----------------------------------------------------------------------------
(* eloop_cancel_timeout, eloop_cancel_timeout_one                           *)

Matches(t, p) ==
    /\ Key(t).handler = p.handler
    /\ p.ctx \in {Key(t).ctx, AllCtx}

Matching(p) == {t \in Range(timeouts) : Matches(t, p)}

Without(list, gone) == SelectSeq(list, LAMBDA t : t \notin gone)

Freed(gone) == Restrict(heap, DOMAIN heap \ gone)

Unregister(gone) ==
    /\ timeouts' = Without(timeouts, gone)
    /\ heap' = Freed(gone)
    /\ regs' = Without(regs, gone)

Cancel(p) ==
    /\ InHandler
    /\ Matching(p) # {}
    /\ Unregister(Matching(p))
    /\ UNCHANGED <<terminate, pc, due, budget, nap>>

\* The first timeout in the list with this handler and data.
FirstWith(k) ==
    LET hits == {i \in DOMAIN timeouts : Key(timeouts[i]) = k}
    IN timeouts[CHOOSE i \in hits : \A h \in hits : i <= h]

Registered(k) == \E t \in Range(timeouts) : Key(t) = k

CancelOne(k) ==
    /\ InHandler
    /\ Registered(k)
    /\ Unregister({FirstWith(k)})
    /\ UNCHANGED <<terminate, pc, due, budget, nap>>

\* eloop_deplete_timeout (shorten) and eloop_replenish_timeout: every timeout
\* with this handler and data goes, one comes back at the requested time, unless
\* its allocation fails.
Reschedule(k, d, shorten) ==
    /\ InHandler
    /\ Registered(k)
    /\ IF shorten THEN d < Left(FirstWith(k)) ELSE Left(FirstWith(k)) < d
    /\ LET gone == Matching(k)
       IN \/ \E t \in Free \cup gone :
                Insert(t, k, d, Without(timeouts, gone), Freed(gone), Without(regs, gone))
          \/ Unregister(gone)
    /\ UNCHANGED <<terminate, pc, due, budget, nap>>

Terminate ==
    /\ InHandler
    /\ pc # "setup"
    /\ terminate' = TRUE
    /\ UNCHANGED <<listVars, pc, due, budget, nap>>

-----------------------------------------------------------------------------
(* eloop_run                                                                *)

Later(x) == IF x < 0 THEN x ELSE x - 1

\* The clock: handlers take time too.
Tick ==
    /\ heap' = [t \in DOMAIN heap |-> [heap[t] EXCEPT !.left = Later(@)]]
    /\ nap' = IF nap = 0 THEN 0 ELSE nap - 1
    /\ UNCHANGED <<timeouts, regs, terminate, pc, due, budget>>

\* timeout_ms, the time to the first timeout with its part of a ms cut off;
\* no wait at all, and a longer one, are a full slice.
Slice ==
    LET ms == IF timeouts = <<>> \/ Left(timeouts[1]) < 0 THEN 0
              ELSE Left(timeouts[1]) \div TicksPerMs
    IN IF ms = 0 \/ ms > MaxSlice THEN MaxSlice ELSE ms

\* The test of the while loop and the call of ksleep.
LoopTop ==
    \/ /\ terminate
       /\ pc' = "stopped"
       /\ UNCHANGED nap
    \/ /\ ~terminate
       /\ pc' = "sleep"
       /\ nap' = Slice * TicksPerMs

Run ==
    /\ pc = "setup"
    /\ LoopTop
    /\ UNCHANGED <<listVars, terminate, due, budget>>

Wake ==
    /\ pc = "sleep"
    /\ nap = 0
    /\ budget' = 0
    /\ pc' = "due"
    /\ UNCHANGED <<listVars, terminate, due, nap>>

\* Mutants: the timers run are not counted; the timeout stays in the list until
\* its handler has returned.
MutSpent == budget
MutUnlink == timeouts

InBudget == budget < Budget
Spent == budget + 1
HeadDue == timeouts # <<>> /\ Left(timeouts[1]) <= 0
Unlink == Tail(timeouts)

Fire ==
    /\ pc = "due"
    /\ InBudget
    /\ HeadDue
    /\ due' = timeouts[1]
    /\ timeouts' = Unlink
    /\ regs' = Without(regs, {timeouts[1]})
    /\ pc' = "timer"
    /\ UNCHANGED <<heap, terminate, budget, nap>>

\* The handler returns; its timeout is freed.
HandlerEnds ==
    /\ pc = "timer"
    /\ heap' = Freed({due})
    /\ due' = NoBlock
    /\ budget' = Spent
    /\ pc' = "due"
    /\ UNCHANGED <<timeouts, regs, terminate, nap>>

TimersEnd ==
    /\ pc = "due"
    /\ ~(InBudget /\ HeadDue)
    /\ pc' = "events"
    /\ UNCHANGED <<listVars, terminate, due, budget, nap>>

\* wpa_embox_process_events and wpa_embox_process_jobs return.
EventsEnd ==
    /\ pc = "events"
    /\ pc' = "jobs"
    /\ UNCHANGED <<listVars, terminate, due, budget, nap>>

JobsEnd ==
    /\ pc = "jobs"
    /\ LoopTop
    /\ UNCHANGED <<listVars, terminate, due, budget>>

\* eloop_destroy, from wpa_supplicant_deinit.
Destroy ==
    /\ pc = "stopped"
    /\ heap' = Freed(Range(timeouts))
    /\ timeouts' = <<>>
    /\ regs' = <<>>
    /\ pc' = "destroyed"
    /\ UNCHANGED <<terminate, due, budget, nap>>

-----------------------------------------------------------------------------
HandlerCall ==
    \/ \E k \in Keys, d \in Delays : Register(k, d)
    \/ \E p \in Patterns : Cancel(p)
    \/ \E k \in Keys : CancelOne(k)
    \/ \E k \in Keys, d \in Delays, b \in BOOLEAN : Reschedule(k, d, b)
    \/ Terminate

LoopStep ==
    \/ Run \/ Wake \/ Fire \/ HandlerEnds
    \/ TimersEnd \/ EventsEnd \/ JobsEnd \/ Destroy

Next == HandlerCall \/ Tick \/ LoopStep

Spec == Init /\ [][Next]_vars

\* Time passes, the thread is scheduled, and every handler returns: each of them
\* is straight-line code that may call the eloop functions on its way.
FairSpec == Spec /\ WF_vars(Tick) /\ WF_vars(LoopStep)

-----------------------------------------------------------------------------
(* Properties                                                               *)

TypeOK ==
    /\ timeouts \in Seq(Blocks)
    /\ DOMAIN heap \subseteq Blocks
    /\ \A t \in DOMAIN heap : heap[t] \in [key : Keys, left : -1..Max(Delays)]
    /\ terminate \in BOOLEAN
    /\ pc \in {"setup", "sleep", "due", "timer", "events", "jobs", "stopped", "destroyed"}
    /\ due \in Blocks \cup {NoBlock}
    /\ budget \in 0..Budget
    /\ nap \in 0..MaxSlice * TicksPerMs
    /\ regs \in Seq(Blocks)

\* Position of a block in the order of registration.
Rank(t) == CHOOSE i \in DOMAIN regs : regs[i] = t

\* The list is in the order in which the timeouts become due and, among those
\* due at the same instant, in the order of their registration, whatever
\* handlers have registered, cancelled and rescheduled.
DueOrder ==
    \A i, k \in DOMAIN timeouts : i < k =>
        \/ Left(timeouts[i]) < Left(timeouts[k])
        \/ Left(timeouts[i]) = -1 /\ Left(timeouts[k]) = -1
        \/ Left(timeouts[i]) = Left(timeouts[k]) /\ Rank(timeouts[i]) < Rank(timeouts[k])

\* Every allocated block is in the list, once, or belongs to the handler that
\* is running, never both: a handler that cancels or re-registers its own timeout
\* neither frees it under eloop_run nor leaks it, and nothing outlives
\* eloop_destroy.
OneOwner ==
    /\ DOMAIN heap = Range(timeouts) \cup (IF due = NoBlock THEN {} ELSE {due})
    /\ due \notin Range(timeouts)
    /\ Cardinality(Range(timeouts)) = Len(timeouts)
    /\ pc = "destroyed" => DOMAIN heap = {}

\* The list of eloop.timeout is in order and owns its blocks, whatever handlers
\* do to it while eloop_run is in the middle of a pass.
ListSound == TypeOK /\ DueOrder /\ OneOwner

\* No timeout fires early, and none overtakes one that is due before it.
FiresInOrder ==
    [][due' # NoBlock /\ due' # due =>
        /\ heap[due'].left <= 0
        /\ \A t \in Range(timeouts) : heap[due'].left <= heap[t].left]_vars

\* Timers that register themselves again without delay do not keep the loop
\* from the events and the jobs.
PassReachesEvents == pc = "due" ~> pc = "events"

Overdue(t) == t \in Range(timeouts) /\ Left(t) = -1

\* An overdue timeout fires, unless a handler cancels or postpones it: neither a
\* stream of other timers, nor the budget of a pass, nor the sleep of eloop_run,
\* which may overshoot, keeps it in the list for ever.
DueFires == \A t \in Blocks : Overdue(t) ~> ~Overdue(t)
===============================================================================
