------------------------------ MODULE EmboxJobs ------------------------------
(***************************************************************************)
(* The marshalled control jobs of port/embox/supp_main_embox.c.  A caller  *)
(* thread allocates a job, publishes it in the one slot wpa_embox_job and  *)
(* polls it every 10 ms; the supplicant thread takes the job from the slot *)
(* and runs it.  Either side may be the last to touch the block: the three *)
(* flags started, done and abandoned decide who frees it.                  *)
(*                                                                         *)
(* A section between mutex_lock and mutex_unlock of wpa_embox_job_mtx is   *)
(* one action; what the code does after the unlock is another.  Blocks are *)
(* addresses that the heap hands out again once they are freed.            *)
(***************************************************************************)
EXTENDS Naturals

CONSTANTS
    Callers,     \* threads that use the public API
    Jobs,        \* addresses of job blocks
    NoJob,       \* the NULL pointer
    MaxPolls     \* timeout_ms / 10: polls before a caller gives up

ASSUME JobsAssumption == NoJob \notin Jobs /\ MaxPolls \in Nat

VARIABLES
    slot,        \* wpa_embox_job
    heap,        \* the blocks that are allocated
    started, done, abandoned,   \* the flags of each block
    cpc,         \* caller -> where it is in wpa_embox_job_run
    cjob,        \* caller -> its local pointer job
    waited,      \* caller -> polls made so far
    answer,      \* caller -> what its last call returned
    wpc,         \* where the supplicant thread is in wpa_embox_process_jobs
    wjob         \* its local pointer job

callerVars == <<cpc, cjob, waited, answer>>
workerVars == <<wpc, wjob>>
flags == <<started, done, abandoned>>
vars == <<slot, heap, flags, callerVars, workerVars>>

Init ==
    /\ slot = NoJob
    /\ heap = {}
    /\ started = [j \in Jobs |-> FALSE]
    /\ done = [j \in Jobs |-> FALSE]
    /\ abandoned = [j \in Jobs |-> FALSE]
    /\ cpc = [c \in Callers |-> "idle"]
    /\ cjob = [c \in Callers |-> NoJob]
    /\ waited = [c \in Callers |-> 0]
    /\ answer = [c \in Callers |-> "none"]
    /\ wpc = "idle"
    /\ wjob = NoJob

\* The caller leaves wpa_embox_job_run; its pointer goes out of scope.
Leave(c, a) ==
    /\ cpc' = [cpc EXCEPT ![c] = "idle"]
    /\ cjob' = [cjob EXCEPT ![c] = NoJob]
    /\ answer' = [answer EXCEPT ![c] = a]

-----------------------------------------------------------------------------
(* The caller: wpa_embox_connect, wpa_embox_disconnect, wpa_embox_status   *)

Call(c) ==
    /\ cpc[c] = "idle"
    /\ cpc' = [cpc EXCEPT ![c] = "alloc"]
    /\ answer' = [answer EXCEPT ![c] = "none"]
    /\ waited' = [waited EXCEPT ![c] = 0]
    /\ UNCHANGED <<slot, heap, flags, cjob, workerVars>>

\* syscalloc of the job and sysmalloc of its argument both succeed.
Alloc(c) ==
    /\ cpc[c] = "alloc"
    /\ \E j \in Jobs \ heap :
        /\ heap' = heap \cup {j}
        /\ started' = [started EXCEPT ![j] = FALSE]
        /\ done' = [done EXCEPT ![j] = FALSE]
        /\ abandoned' = [abandoned EXCEPT ![j] = FALSE]
        /\ cjob' = [cjob EXCEPT ![c] = j]
    /\ cpc' = [cpc EXCEPT ![c] = "submit"]
    /\ UNCHANGED <<slot, waited, answer, workerVars>>

\* One of the two allocations fails; a job without its argument is freed.
AllocFails(c) ==
    /\ cpc[c] = "alloc"
    /\ Leave(c, "ENOMEM")
    /\ UNCHANGED <<slot, heap, flags, waited, workerVars>>

\* First locked section: publish the job, or find the slot taken.
Submit(c) ==
    /\ cpc[c] = "submit"
    /\ \/ /\ slot = NoJob
          /\ slot' = cjob[c]
          /\ cpc' = [cpc EXCEPT ![c] = "poll"]
       \/ /\ slot # NoJob
          /\ cpc' = [cpc EXCEPT ![c] = "refused"]
          /\ UNCHANGED slot
    /\ UNCHANGED <<heap, flags, cjob, waited, answer, workerVars>>

FreeRefused(c) ==
    /\ cpc[c] = "refused"
    /\ heap' = heap \ {cjob[c]}
    /\ Leave(c, "EBUSY")
    /\ UNCHANGED <<slot, flags, waited, workerVars>>

\* Mutants of the tests below: a finished job may still time out; the caller
\* takes back a job that has started.
MutUnfinished(c) == TRUE
MutWithdrawable(c) == TRUE

\* The tests of the poll loop, each made with the lock held.
Unfinished(c) == ~done[cjob[c]]
TimedOut(c) == waited[c] >= MaxPolls
Withdrawable(c) == ~started[cjob[c]]

\* Locked section of the poll loop, first branch: the job is done.
PollDone(c) ==
    /\ cpc[c] = "poll"
    /\ done[cjob[c]]
    /\ cpc' = [cpc EXCEPT ![c] = "reap"]
    /\ UNCHANGED <<slot, heap, flags, cjob, waited, answer, workerVars>>

FreeDone(c) ==
    /\ cpc[c] = "reap"
    /\ heap' = heap \ {cjob[c]}
    /\ Leave(c, "OK")
    /\ UNCHANGED <<slot, flags, waited, workerVars>>

\* Locked section of the poll loop, second branch: the caller gives up.  A job
\* that has not started is withdrawn and freed by the caller; one that has is
\* left to the supplicant thread.
PollTimeout(c) ==
    /\ cpc[c] = "poll"
    /\ Unfinished(c)
    /\ TimedOut(c)
    /\ abandoned' = [abandoned EXCEPT ![cjob[c]] = TRUE]
    /\ \/ /\ Withdrawable(c)
          /\ slot' = NoJob
          /\ cpc' = [cpc EXCEPT ![c] = "withdrawn"]
          /\ UNCHANGED <<cjob, answer>>
       \/ /\ ~Withdrawable(c)
          /\ Leave(c, "EAGAIN")
          /\ UNCHANGED slot
    /\ UNCHANGED <<heap, started, done, waited, workerVars>>

FreeWithdrawn(c) ==
    /\ cpc[c] = "withdrawn"
    /\ heap' = heap \ {cjob[c]}
    /\ Leave(c, "EAGAIN")
    /\ UNCHANGED <<slot, flags, waited, workerVars>>

\* Mutant: the time slept is not added up.
MutPollAgain(c) ==
    /\ cpc[c] = "poll"
    /\ Unfinished(c)
    /\ UNCHANGED vars

\* Neither: unlock, sleep 10 ms, poll again.
PollAgain(c) ==
    /\ cpc[c] = "poll"
    /\ Unfinished(c)
    /\ ~TimedOut(c)
    /\ waited' = [waited EXCEPT ![c] = @ + 1]
    /\ UNCHANGED <<slot, heap, flags, cpc, cjob, answer, workerVars>>

-----------------------------------------------------------------------------
(* The supplicant thread: wpa_embox_process_jobs                           *)

\* First locked section.  With an empty slot the function just returns.
TakeJob ==
    /\ wpc = "idle"
    /\ slot # NoJob
    /\ wjob' = slot
    /\ started' = [started EXCEPT ![slot] = TRUE]
    /\ wpc' = "run"
    /\ UNCHANGED <<slot, heap, done, abandoned, callerVars>>

\* job->fn(job->arg), outside the lock.
RunJob ==
    /\ wpc = "run"
    /\ wpc' = "finish"
    /\ UNCHANGED <<slot, heap, flags, callerVars, wjob>>

\* Mutant: abandoned is not looked at after the handler.
MutOwnsJob == FALSE

\* The copy of job->abandoned the thread takes before it unlocks.
OwnsJob == abandoned[wjob]

\* Mutant: the slot is not cleared when the job is done.
MutFinishJob ==
    /\ wpc = "finish"
    /\ done' = [done EXCEPT ![wjob] = TRUE]
    /\ wpc' = "idle" /\ wjob' = NoJob
    /\ UNCHANGED <<slot, heap, started, abandoned, callerVars>>

\* Second locked section.
FinishJob ==
    /\ wpc = "finish"
    /\ done' = [done EXCEPT ![wjob] = TRUE]
    /\ slot' = NoJob
    /\ \/ OwnsJob /\ wpc' = "free" /\ UNCHANGED wjob
       \/ ~OwnsJob /\ wpc' = "idle" /\ wjob' = NoJob
    /\ UNCHANGED <<heap, started, abandoned, callerVars>>

FreeAbandoned ==
    /\ wpc = "free"
    /\ heap' = heap \ {wjob}
    /\ wpc' = "idle"
    /\ wjob' = NoJob
    /\ UNCHANGED <<slot, flags, callerVars>>

-----------------------------------------------------------------------------
CallerStep(c) ==
    \/ Alloc(c) \/ AllocFails(c) \/ Submit(c) \/ FreeRefused(c)
    \/ PollDone(c) \/ FreeDone(c) \/ PollTimeout(c) \/ FreeWithdrawn(c) \/ PollAgain(c)

WorkerStep == TakeJob \/ RunJob \/ FinishJob \/ FreeAbandoned

Next ==
    \/ \E c \in Callers : Call(c) \/ CallerStep(c)
    \/ WorkerStep

Spec == Init /\ [][Next]_vars

\* A thread inside wpa_embox_job_run keeps being scheduled: it waits for nothing
\* but its own ksleep.  Nothing is assumed of the supplicant thread here.
FairSpec == Spec /\ \A c \in Callers : WF_vars(CallerStep(c))

-----------------------------------------------------------------------------
(* Properties                                                              *)

CallerStates == {"idle", "alloc", "submit", "refused", "poll", "reap", "withdrawn"}
Holding == CallerStates \ {"idle", "alloc"}

TypeOK ==
    /\ slot \in Jobs \cup {NoJob}
    /\ heap \in SUBSET Jobs
    /\ started \in [Jobs -> BOOLEAN]
    /\ done \in [Jobs -> BOOLEAN]
    /\ abandoned \in [Jobs -> BOOLEAN]
    /\ cpc \in [Callers -> CallerStates]
    /\ cjob \in [Callers -> Jobs \cup {NoJob}]
    /\ waited \in [Callers -> 0..MaxPolls]
    /\ answer \in [Callers -> {"none", "OK", "EBUSY", "EAGAIN", "ENOMEM"}]
    /\ wpc \in {"idle", "run", "finish", "free"}
    /\ wjob \in Jobs \cup {NoJob}

\* Memory safety of the hand-over: whoever is about to read or free a block
\* holds one that is still allocated, and a block in the slot is allocated
\* (no use after free, no double free, in any interleaving of the timeout with
\* wpa_embox_process_jobs).
NoUseAfterFree ==
    /\ \A c \in Callers : cpc[c] \in Holding => cjob[c] \in heap
    /\ wpc # "idle" => wjob \in heap
    /\ slot # NoJob => slot \in heap

\* At most one side is left to free a block: two callers never hold the same
\* one, and the supplicant thread frees only what no caller still holds.
OneReaper ==
    /\ \A c, d \in Callers :
        c # d /\ cpc[c] \in Holding /\ cpc[d] \in Holding => cjob[c] # cjob[d]
    /\ wpc = "free" => \A c \in Callers : cpc[c] \in Holding => cjob[c] # wjob

\* And at least one: every allocated block is still in the hands of the caller
\* that allocated it or, once abandoned, of the supplicant thread (no leak when
\* the timeout hits between started and done).
NoLeak ==
    \A j \in heap :
        \/ \E c \in Callers : cpc[c] \in Holding /\ cjob[c] = j
        \/ wpc # "idle" /\ wjob = j /\ abandoned[j]

\* What each side knows of the block it holds, and what the slot says of it: the
\* facts that make the three invariants above inductive.
CallerKnows ==
    \A c \in Callers :
        /\ cpc[c] \in {"idle", "alloc"} <=> cjob[c] = NoJob
        /\ cpc[c] \in {"submit", "refused"} =>
              /\ ~started[cjob[c]] /\ ~done[cjob[c]] /\ ~abandoned[cjob[c]]
              /\ slot # cjob[c] /\ wjob # cjob[c]
        /\ cpc[c] = "poll" =>
              /\ ~abandoned[cjob[c]]
              /\ done[cjob[c]] <=> slot # cjob[c]
              /\ started[cjob[c]] <=> done[cjob[c]] \/ wjob = cjob[c]
              /\ done[cjob[c]] => wjob # cjob[c]
        /\ cpc[c] = "reap" => slot # cjob[c] /\ wjob # cjob[c]
        /\ cpc[c] = "withdrawn" => slot # cjob[c] /\ wjob # cjob[c]

WorkerKnows ==
    /\ wpc = "idle" <=> wjob = NoJob
    /\ wpc \in {"run", "finish"} =>
          /\ slot = wjob /\ started[wjob] /\ ~done[wjob]
          /\ \/ abandoned[wjob] /\ \A c \in Callers : cjob[c] # wjob
             \/ ~abandoned[wjob] /\ \E c \in Callers : cpc[c] = "poll" /\ cjob[c] = wjob
    /\ wpc = "free" => abandoned[wjob] /\ slot # wjob
    /\ slot # NoJob /\ wjob # slot => \E c \in Callers : cpc[c] = "poll" /\ cjob[c] = slot

\* The hand-over protocol as one inductive invariant.
HandOver == TypeOK /\ NoUseAfterFree /\ OneReaper /\ NoLeak /\ CallerKnows /\ WorkerKnows

\* The reading of the model's state as a state of JobService.
CallState(c) ==
    CASE cpc[c] = "idle" -> "idle"
      [] cpc[c] = "poll" /\ done[cjob[c]] -> "ran"
      [] cpc[c] = "poll" /\ ~done[cjob[c]] /\ started[cjob[c]] -> "running"
      [] cpc[c] = "reap" -> "ran"
      [] OTHER -> "waiting"

CallOf == [c \in Callers |-> CallState(c)]
Orphan == wpc \in {"run", "finish"} /\ abandoned[wjob]

Service == INSTANCE JobService WITH call <- CallOf, answer <- answer, orphan <- Orphan

\* The protocol of flags implements the service the API promises.
ImplementsService == Service!Spec

\* Every call returns, whatever the supplicant thread is doing.
CallsReturn == \A c \in Callers : cpc[c] # "idle" ~> cpc[c] = "idle"

\* While the supplicant thread keeps coming round its loop (every 20 ms at most),
\* a job never keeps the slot for ever, even when its caller gave up: otherwise
\* every later call would return -EBUSY.
SlotReleased == WF_vars(WorkerStep) => (slot # NoJob ~> slot = NoJob)
==============================================================================
