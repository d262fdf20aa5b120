---------------------------- MODULE FreertosSupp ----------------------------
(***************************************************************************)
(* The supplicant task of the FreeRTOS port and the threads around it:     *)
(* freertos/src/supp_main.c (start, stop, the task, its event queue),      *)
(* src/utils/eloop_freertos.c (the event loop and its timeouts) and the    *)
(* way in which every function of freertos/src/supp_api.c calls into the   *)
(* supplicant.                                                             *)
(*                                                                         *)
(* Callers of the API run in threads of their own and work on the same     *)
(* timeouts as the task.  They hold wpa_supplicant_mutex; the task holds   *)
(* it while it runs the handler of a timeout, but not while it handles     *)
(* events.  Tasks may be preempted anywhere; the steps are cut where that  *)
(* matters: between finding the place of a timeout and linking it, before  *)
(* and after every lock, semaphore and flag.  Time is counted in units,    *)
(* and left is what remains until a timeout is due.  The timeout PERIODIC  *)
(* is wpas_periodic, which registers itself again whenever it runs, so     *)
(* that the list is never empty for long.                                  *)
(***************************************************************************)
EXTENDS Integers, Sequences, FiniteSets

CONSTANTS
    Callers,      \* threads that use the API
    Ids,          \* timeouts other than PERIODIC
    None,
    InitFails,    \* the task may fail to initialise
    WS_NUM_MESSAGES,
    MaxDelay,     \* bound: a delay; 0 stands for less than a second
    Work          \* bounds: the timeouts in use, the events and the API calls

ASSUME FreertosAssumption ==
    /\ {"task", "stop", None} \cap Callers = {}
    /\ {"PERIODIC", None} \cap Ids = {}
    /\ None \notin {"task", "stop", "PERIODIC"}
    /\ None \notin [id : Ids \cup {"PERIODIC"}, left : Nat, now : BOOLEAN,
                    prev : Ids \cup {"PERIODIC", None}, next : Ids \cup {"PERIODIC", None}]
    /\ InitFails \in BOOLEAN
    /\ {WS_NUM_MESSAGES, MaxDelay} \subseteq Nat \ {0}
    /\ Work \subseteq [ids : SUBSET Ids, events : Nat, calls : Nat]

VARIABLES
    pc,           \* where each thread is
    list,         \* eloop.timeout, with what is left until each is due
    link,         \* the timeout that a thread is inserting, and between which two
    fired,        \* the timeout whose handler runs, None outside
    lost,         \* history: timeouts that dropped out of the list unnoticed
    raced,        \* history: the task worked on the list without the mutex while a caller did
    sleep,        \* what is left of the task's wait
    note, flags,  \* taskNotification and the flags of supplicant_event_Handle
    posted, taken,    \* events put on event_queue and taken from it
    flagging,     \* the driver has put an event there but not set the flag yet
    terminate,    \* eloop.terminate
    sem,          \* wpaSuppReadySemaphoreHandle
    mutex,        \* who holds wpa_supplicant_mutex
    work          \* what may still happen

queue == <<posted, taken, flagging>>
loop == <<sleep, note, terminate>>
timeouts == <<list, link, fired, lost, raced>>
vars == <<pc, timeouts, loop, flags, queue, sem, mutex, work>>

Threads == Callers \cup {"task", "stop"}
Timeouts == Ids \cup {"PERIODIC"}

\* wpa_supp_init and start_wpa_supplicant have returned, the task has not run yet.
Init ==
    /\ pc = [t \in Threads |-> IF t = "task" THEN "init" ELSE "idle"]
    /\ list = <<>>
    /\ link = [t \in Threads |-> None]
    /\ fired = None
    /\ lost = {}
    /\ raced = FALSE
    /\ sleep = 0
    /\ note = {}
    /\ flags = {}
    /\ posted = 0
    /\ taken = 0
    /\ flagging = FALSE
    /\ terminate = FALSE
    /\ sem = 0
    /\ mutex = None
    /\ work \in Work

Goto(t, there) == pc' = [pc EXCEPT ![t] = there]
Move(t, here, there) == pc[t] = here /\ Goto(t, there)

-----------------------------------------------------------------------------
(* Timeouts, as thread t registers and cancels them                         *)

InList(l) == {l[i].id : i \in DOMAIN l}
Linking == {link[t].id : t \in {t \in Threads : link[t] # None}}
Free == Timeouts \ (InList(list) \cup Linking \cup {fired})

\* Where a thread goes on after its call of the event loop.
AfterOp(t) == IF mutex = t THEN "unlock" ELSE "events"

\* The task is in the handler of an event, or ends: it does not hold the mutex.
Unlocked ==
    \/ pc["task"] \in {"event", "deinit"}
    \/ pc["task"] = "insert" /\ fired = None /\ link["task"].id # "PERIODIC"

\* What thread t is about to do comes between the two halves of a registration, by
\* a caller if it is the task and by the task if it is a caller.
Overlaps(t) ==
    /\ Unlocked
    /\ IF t = "task" THEN \E c \in Callers : pc[c] = "insert" ELSE pc["task"] = "insert"

\* The first half of eloop_register_timeout: the place is found, timeout->next set.
Register(t, id, d) ==
    LET n == Cardinality({i \in DOMAIN list : list[i].left <= d}) IN
    /\ link[t] = None
    /\ id \in Free \cap work.ids
    /\ link' = [link EXCEPT ![t] = [id |-> id, left |-> d, now |-> d = 0,
                                    prev |-> IF n = 0 THEN None ELSE list[n].id,
                                    next |-> IF n = Len(list) THEN None ELSE list[n + 1].id]]
    /\ raced' = (raced \/ Overlaps(t))
    /\ Goto(t, "insert")
    /\ UNCHANGED <<list, fired, lost, flags>>

Index(id) == CHOOSE i \in DOMAIN list : list[i].id = id
Dangles(id) == id # None /\ id \notin InList(list)

\* The second half: prev->next is set.  What was inserted between prev and next by
\* then drops out; a neighbour that was freed by then leads into freed memory.
Inserted(e) ==
    LET before == IF e.prev = None THEN <<>> ELSE SubSeq(list, 1, Index(e.prev))
        after == IF e.next = None THEN <<>> ELSE SubSeq(list, Index(e.next), Len(list))
    IN before \o <<[id |-> e.id, left |-> e.left]>> \o after

Insert(t) ==
    /\ Move(t, "insert", "notify")
    /\ IF Dangles(link[t].prev) \/ Dangles(link[t].next)
       THEN /\ lost' = lost \cup {link[t].id}
            /\ UNCHANGED list
       ELSE /\ list' = Inserted(link[t])
            /\ lost' = lost \cup (InList(list) \ InList(list'))
    /\ UNCHANGED <<link, fired, raced, loop, flags, queue, sem, mutex, work>>

\* Mutant: the task is woken only if the timeout is due at once.
MutWakes(e) == e.now

\* The task is woken for a timeout at the head of the list, or of less than a second.
Wakes(e) == e.now \/ e.prev = None

Notify(t) ==
    /\ pc[t] = "notify"
    /\ t # "stop"
    /\ Goto(t, AfterOp(t))
    /\ flags' = IF Wakes(link[t]) THEN flags \cup {"DUMMY"} ELSE flags
    /\ link' = [link EXCEPT ![t] = None]
    /\ UNCHANGED <<list, fired, lost, raced, loop, queue, sem, mutex, work>>

\* eloop_cancel_timeout
Cancel(t, id) ==
    LET i == Index(id) IN
    /\ id \in InList(list) \cap Ids
    /\ list' = SubSeq(list, 1, i - 1) \o SubSeq(list, i + 1, Len(list))
    /\ raced' = (raced \/ Overlaps(t))
    /\ Goto(t, AfterOp(t))
    /\ UNCHANGED <<link, fired, lost, flags>>

\* A call into the supplicant by thread t: it may register or cancel a timeout.
Operate(t) ==
    /\ \/ \E id \in Ids, d \in 0..MaxDelay : Register(t, id, d)
       \/ \E id \in Ids : Cancel(t, id)
       \/ Goto(t, AfterOp(t)) /\ UNCHANGED <<timeouts, flags>>
    /\ UNCHANGED <<loop, queue, sem, mutex, work>>

Unlock(t, there) ==
    /\ Move(t, "unlock", there)
    /\ mutex' = None

-----------------------------------------------------------------------------
(* The task                                                                 *)

\* The event loop, the interfaces and their timeouts exist.
TaskInit ==
    /\ Move("task", "init", "ready")
    /\ list' = <<[id |-> "PERIODIC", left |-> MaxDelay]>>
    /\ UNCHANGED <<link, fired, lost, raced, loop, flags, queue, sem, mutex, work>>

\* The queue or memory is missing, or wpa_supplicant_init or adding an interface fails.
TaskInitFails ==
    /\ InitFails
    /\ Move("task", "init", "returned") \/ Move("task", "init", "drain")
    /\ UNCHANGED <<timeouts, loop, flags, queue, sem, mutex, work>>

\* OSA_SemaphorePost and OSA_SemaphoreWait, on a binary semaphore.
Post == sem' = 1

\* Mutant: the semaphore is not taken.
MutSemaphoreWait == sem = 1 /\ UNCHANGED sem

SemaphoreWait == sem = 1 /\ sem' = 0

TaskReady ==
    /\ Move("task", "ready", "loop")
    /\ Post
    /\ UNCHANGED <<timeouts, loop, flags, queue, mutex, work>>

\* The head of the loop: how long to wait is computed from the first timeout.
TaskLoop ==
    /\ pc["task"] = "loop"
    /\ IF terminate \/ list = <<>>
       THEN Goto("task", "deinit") /\ UNCHANGED sleep
       ELSE Goto("task", "wait") /\ sleep' = Head(list).left
    /\ note' = {}
    /\ UNCHANGED <<timeouts, terminate, flags, queue, sem, mutex, work>>

\* Mutant: of two flags only one is noticed.
MutNoted == IF "DUMMY" \in flags THEN {"DUMMY"} ELSE flags

\* OSA_EventWait returns the flags that are set, and clears them.
Noted == flags

TaskWait ==
    /\ Move("task", "wait", "timers")
    /\ flags # {} \/ sleep = 0
    /\ note' = Noted
    /\ flags' = {}
    /\ sleep' = 0
    /\ UNCHANGED <<timeouts, terminate, queue, sem, mutex, work>>

\* The first timeout is looked at before the mutex is taken.
TaskTimers ==
    /\ pc["task"] = "timers"
    /\ Goto("task", IF list # <<>> /\ Head(list).left = 0 THEN "lock" ELSE "events")
    /\ UNCHANGED <<timeouts, loop, flags, queue, sem, mutex, work>>

\* Mutant: the mutex is not taken.
MutTaskLock ==
    /\ Move("task", "lock", "handler")
    /\ fired' = Head(list).id
    /\ list' = Tail(list)
    /\ UNCHANGED <<link, lost, raced, loop, flags, queue, sem, mutex, work>>

\* The first timeout is taken out of the list and its handler called.  The list is
\* not looked at again: if it were empty, this would follow a null pointer.
TaskLock ==
    /\ Move("task", "lock", "handler")
    /\ mutex = None
    /\ list # <<>>
    /\ mutex' = "task"
    /\ fired' = Head(list).id
    /\ list' = Tail(list)
    /\ UNCHANGED <<link, lost, raced, loop, flags, queue, sem, work>>

TaskHandler ==
    /\ pc["task"] = "handler"
    /\ fired # "PERIODIC"
    /\ Operate("task")

\* wpas_periodic registers itself; the block that it ran from is freed after it, so
\* that the new one is another.
TaskPeriodic ==
    /\ pc["task"] = "handler"
    /\ fired = "PERIODIC"
    /\ fired' = None
    /\ LET n == Len(list) IN
       link' = [link EXCEPT !["task"] = [id |-> "PERIODIC", left |-> MaxDelay, now |-> FALSE,
                                         prev |-> IF n = 0 THEN None ELSE list[n].id, next |-> None]]
    /\ Goto("task", "insert")
    /\ UNCHANGED <<list, lost, raced, loop, flags, queue, sem, mutex, work>>

TaskUnlock ==
    /\ Unlock("task", "events")
    /\ fired' = None
    /\ UNCHANGED <<list, link, lost, raced, loop, flags, queue, sem, work>>

\* process_wpa_supplicant_event, if the flag was set: it ends when the queue is empty.
TaskEvents ==
    /\ pc["task"] = "events"
    /\ IF "EVENT" \in note /\ taken < posted
       THEN taken' = taken + 1 /\ Goto("task", "event")
       ELSE Goto("task", "loop") /\ UNCHANGED taken
    /\ UNCHANGED <<timeouts, loop, flags, posted, flagging, sem, mutex, work>>

\* wpa_supplicant_event, without the mutex.
TaskEvent ==
    /\ pc["task"] = "event"
    /\ Operate("task")

\* wpa_supplicant_deinit, eloop_destroy.
TaskDeinit ==
    /\ Move("task", "deinit", "drain")
    /\ list' = <<>>
    /\ raced' = (raced \/ Overlaps("task"))
    /\ UNCHANGED <<link, fired, lost, loop, flags, queue, sem, mutex, work>>

\* The messages on the queue are freed, until it is found empty.
TaskDrain ==
    /\ pc["task"] = "drain"
    /\ IF taken < posted
       THEN taken' = taken + 1 /\ Goto("task", "drain")
       ELSE Goto("task", "free") /\ UNCHANGED taken
    /\ UNCHANGED <<timeouts, loop, flags, posted, flagging, sem, mutex, work>>

\* sys_mbox_free: what was sent since is not freed.
TaskFree ==
    /\ Move("task", "free", "exit")
    /\ UNCHANGED <<timeouts, loop, flags, queue, sem, mutex, work>>

TaskExit ==
    /\ Move("task", "exit", "returned")
    /\ Post
    /\ UNCHANGED <<timeouts, loop, flags, queue, mutex, work>>

Task ==
    \/ TaskInit \/ TaskInitFails \/ TaskReady \/ TaskLoop \/ TaskWait \/ TaskTimers
    \/ TaskHandler \/ TaskPeriodic \/ TaskUnlock \/ TaskEvents \/ TaskEvent
    \/ TaskDeinit \/ TaskDrain \/ TaskFree \/ TaskExit \/ Insert("task") \/ Notify("task")

-----------------------------------------------------------------------------
(* A function of supp_api.c                                                 *)

CallLock(c) ==
    /\ Move(c, "idle", "wait")
    /\ work.calls > 0
    /\ work' = [work EXCEPT !.calls = @ - 1]
    /\ mutex = None
    /\ mutex' = c
    /\ UNCHANGED <<timeouts, loop, flags, queue, sem>>

\* get_wpa_s_handle: wait for the supplicant to be ready, give the semaphore back.
CallWait(c) ==
    /\ Move(c, "wait", "post")
    /\ SemaphoreWait
    /\ UNCHANGED <<timeouts, loop, flags, queue, mutex, work>>

\* Mutant: the semaphore is not given back.
MutCallPost(c) ==
    /\ Move(c, "post", "call")
    /\ UNCHANGED <<timeouts, loop, flags, queue, sem, mutex, work>>

CallPost(c) ==
    /\ Move(c, "post", "call")
    /\ Post
    /\ UNCHANGED <<timeouts, loop, flags, queue, mutex, work>>

CallOperates(c) == pc[c] = "call" /\ Operate(c)

CallUnlock(c) ==
    /\ Unlock(c, "idle")
    /\ UNCHANGED <<timeouts, loop, flags, queue, sem, work>>

Caller(c) ==
    \/ CallWait(c) \/ CallPost(c) \/ CallOperates(c) \/ Insert(c) \/ Notify(c) \/ CallUnlock(c)

-----------------------------------------------------------------------------
(* stop_wpa_supplicant                                                      *)

Stop ==
    /\ Move("stop", "idle", "wait")
    /\ UNCHANGED <<timeouts, loop, flags, queue, sem, mutex, work>>

StopWait ==
    /\ Move("stop", "wait", "terminate") \/ Move("stop", "wait again", "returned")
    /\ SemaphoreWait
    /\ UNCHANGED <<timeouts, loop, flags, queue, mutex, work>>

StopTerminate ==
    /\ Move("stop", "terminate", "notify")
    /\ terminate' = TRUE
    /\ UNCHANGED <<timeouts, sleep, note, flags, queue, sem, mutex, work>>

StopNotify ==
    /\ Move("stop", "notify", "wait again")
    /\ flags' = flags \cup {"DUMMY"}
    /\ UNCHANGED <<timeouts, loop, queue, sem, mutex, work>>

Stopping == StopWait \/ StopTerminate \/ StopNotify

-----------------------------------------------------------------------------
(* The driver puts events on the queue while it exists; the flag follows.   *)

QueueExists == pc["task"] \notin {"init", "exit", "returned"}

SendEvent ==
    /\ QueueExists
    /\ ~flagging
    /\ posted - taken < WS_NUM_MESSAGES
    /\ work.events > 0
    /\ work' = [work EXCEPT !.events = @ - 1]
    /\ posted' = posted + 1
    /\ flagging' = TRUE
    /\ UNCHANGED <<pc, timeouts, loop, flags, taken, sem, mutex>>

SendFlag ==
    /\ flagging
    /\ flagging' = FALSE
    /\ flags' = flags \cup {"EVENT"}
    /\ UNCHANGED <<pc, timeouts, loop, posted, taken, sem, mutex, work>>

\* Mutant: what is left is not 0 when a timeout is overdue.
MutLess(n) == n - 1

\* What is left when a unit of time has passed; nothing when it is overdue.
Less(n) == IF n > 0 THEN n - 1 ELSE 0

Tick ==
    /\ sleep > 0 \/ \E i \in DOMAIN list : list[i].left > 0
    /\ sleep' = Less(sleep)
    /\ list' = [i \in DOMAIN list |-> [list[i] EXCEPT !.left = Less(@)]]
    /\ link' = [t \in Threads |-> IF link[t] = None THEN None ELSE [link[t] EXCEPT !.left = Less(@)]]
    /\ UNCHANGED <<pc, fired, lost, raced, note, flags, queue, terminate, sem, mutex, work>>

-----------------------------------------------------------------------------
Next ==
    \/ Task \/ TaskLock \/ Stop \/ Stopping \/ SendEvent \/ SendFlag \/ Tick
    \/ \E c \in Callers : CallLock(c) \/ Caller(c)

Spec == Init /\ [][Next]_vars

\* Threads are scheduled.  The task, of the highest priority among those that wait
\* for the mutex, is not passed over for ever; nor is a thread at the semaphore:
\* of the callers, that is the one that has the mutex.
FairSpec ==
    /\ Spec
    /\ WF_vars(Task) /\ SF_vars(TaskLock) /\ SF_vars(Stopping)
    /\ WF_vars(SendFlag) /\ WF_vars(Tick)
    /\ SF_vars(\E c \in Callers : Caller(c))

-----------------------------------------------------------------------------
(* Properties                                                               *)

TypeOK ==
    /\ list \in Seq([id : Timeouts, left : 0..MaxDelay])
    /\ sleep \in 0..MaxDelay
    /\ {note, flags} \subseteq SUBSET {"DUMMY", "EVENT"}
    /\ taken <= posted /\ posted - taken <= WS_NUM_MESSAGES
    /\ sem \in {0, 1}
    /\ mutex \in Callers \cup {"task", None}

\* The task never sleeps past a timeout: one that a caller registers ahead of the
\* others, even after the task has computed how long to wait, wakes it.  This is so
\* while no event handler, nor the end of the task, has crossed a caller's
\* registration: they work on the list without wpa_supplicant_mutex.
NoOversleep ==
    pc["task"] = "wait" /\ list # <<>> /\ ~raced =>
        \/ Head(list).left >= sleep
        \/ "DUMMY" \in flags
        \/ \E c \in Callers : pc[c] = "notify" /\ Wakes(link[c])

\* Timeouts drop out of the list only if an event handler, or the end of the task,
\* has worked on it between the two halves of a caller's registration, or a caller
\* between those of an event handler's: the task does that without the mutex.
\* Callers and handlers of timeouts lose none.
NoneLost == raced \/ lost = {}

\* When stop_wpa_supplicant returns, the task has posted its last: the two posts of
\* the one semaphore are not taken for each other, whatever callers do with it.
StopMeansStopped == pc["stop"] = "returned" => pc["task"] = "returned"

\* stop_wpa_supplicant has taken the semaphore and waits for the task, the task for
\* the mutex, and the caller that has it for the semaphore.
Deadlocked ==
    /\ pc["stop"] = "wait again"
    /\ pc["task"] = "lock"
    /\ \E c \in Callers : mutex = c /\ pc[c] = "wait"
    /\ sem = 0

\* Every event on the queue is taken, or freed when the task ends, unless it is sent
\* after the queue was drained or the task never gets on.
EventsTaken ==
    taken < posted ~>
        taken = posted \/ pc["task"] \in {"free", "exit", "returned"} \/ Deadlocked

\* stop_wpa_supplicant returns, if the task came up; otherwise there is a caller that
\* it has deadlocked with, and nothing else keeps it.
StopReturns ==
    pc["stop"] = "wait" /\ pc["task"] \notin {"init", "drain", "free", "exit", "returned"}
        ~> pc["stop"] = "returned" \/ Deadlocked
==============================================================================
