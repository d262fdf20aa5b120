--------------------------- MODULE EmboxJobs_proofs ---------------------------
(***************************************************************************)
(* Proofs about EmboxJobs for any set of callers, any heap and any timeout. *)
(***************************************************************************)
EXTENDS EmboxJobs, TLAPS

USE DEF Holding, CallerStates, vars, flags, callerVars, workerVars

\* A caller enters the API: it holds no block yet.
LEMMA CallPreserves ==
    ASSUME HandOver, NEW c0 \in Callers, Call(c0)
    PROVE  HandOver'
<1>1. TypeOK'
  BY JobsAssumption DEF HandOver, TypeOK, Call
<1>2. NoUseAfterFree'
  BY DEF HandOver, NoUseAfterFree, Call
<1>3. OneReaper'
  BY DEF HandOver, OneReaper, Call
<1>4. NoLeak'
  BY DEF HandOver, NoLeak, Call
<1>5. CallerKnows'
  BY DEF HandOver, CallerKnows, Call
<1>6. WorkerKnows'
  BY DEF HandOver, WorkerKnows, Call
<1> QED BY <1>1, <1>2, <1>3, <1>4, <1>5, <1>6 DEF HandOver

\* The new block is in no other hands, because all of those are allocated.
LEMMA AllocPreserves ==
    ASSUME HandOver, NEW c0 \in Callers, Alloc(c0)
    PROVE  HandOver'
<1>1. TypeOK'
  BY DEF HandOver, TypeOK, Alloc
<1>2. NoUseAfterFree'
  BY DEF HandOver, TypeOK, NoUseAfterFree, Alloc
<1>3. OneReaper'
  BY DEF HandOver, NoUseAfterFree, OneReaper, CallerKnows, WorkerKnows, Alloc
<1>4. NoLeak'
  BY DEF HandOver, TypeOK, NoLeak, Alloc
<1>5. CallerKnows'
  BY JobsAssumption DEF HandOver, TypeOK, NoUseAfterFree, CallerKnows, WorkerKnows, Alloc
<1>6. WorkerKnows'
  BY DEF HandOver, NoUseAfterFree, WorkerKnows, Alloc
<1> QED BY <1>1, <1>2, <1>3, <1>4, <1>5, <1>6 DEF HandOver

\* No block changes hands when the allocation fails.
LEMMA AllocFailsPreserves ==
    ASSUME HandOver, NEW c0 \in Callers, AllocFails(c0)
    PROVE  HandOver'
<1>1. TypeOK'
  BY DEF HandOver, TypeOK, AllocFails, Leave
<1>2. NoUseAfterFree'
  BY DEF HandOver, NoUseAfterFree, AllocFails, Leave
<1>3. OneReaper'
  BY DEF HandOver, OneReaper, AllocFails, Leave
<1>4. NoLeak'
  BY DEF HandOver, NoLeak, AllocFails, Leave
<1>5. CallerKnows'
  BY DEF HandOver, CallerKnows, AllocFails, Leave
<1>6. WorkerKnows'
  BY DEF HandOver, WorkerKnows, AllocFails, Leave
<1> QED BY <1>1, <1>2, <1>3, <1>4, <1>5, <1>6 DEF HandOver

\* Publishing a job (or finding the slot taken) leaves it with its caller.
LEMMA SubmitPreserves ==
    ASSUME HandOver, NEW c0 \in Callers, Submit(c0)
    PROVE  HandOver'
<1>1. TypeOK'
  BY DEF HandOver, TypeOK, Submit
<1>2. NoUseAfterFree'
  BY DEF HandOver, TypeOK, NoUseAfterFree, Submit
<1>3. OneReaper'
  BY DEF HandOver, TypeOK, OneReaper, Submit
<1>4. NoLeak'
  BY DEF HandOver, TypeOK, NoLeak, Submit
<1>5. CallerKnows'
  BY DEF HandOver, TypeOK, OneReaper, CallerKnows, Submit
<1>6. WorkerKnows'
  BY DEF HandOver, TypeOK, CallerKnows, WorkerKnows, Submit
<1> QED BY <1>1, <1>2, <1>3, <1>4, <1>5, <1>6 DEF HandOver

\* A refused job was never published, so its caller is alone with it.
LEMMA FreeRefusedPreserves ==
    ASSUME HandOver, NEW c0 \in Callers, FreeRefused(c0)
    PROVE  HandOver'
<1>1. TypeOK'
  BY DEF HandOver, TypeOK, FreeRefused, Leave
<1>2. NoUseAfterFree'
  BY DEF HandOver, TypeOK, NoUseAfterFree, OneReaper, WorkerKnows, FreeRefused, Leave
<1>3. OneReaper'
  BY DEF HandOver, OneReaper, CallerKnows, WorkerKnows, FreeRefused, Leave
<1>4. NoLeak'
  BY DEF HandOver, NoLeak, FreeRefused, Leave
<1>5. CallerKnows'
  BY DEF HandOver, TypeOK, CallerKnows, FreeRefused, Leave
<1>6. WorkerKnows'
  BY DEF HandOver, WorkerKnows, FreeRefused, Leave
<1> QED BY <1>1, <1>2, <1>3, <1>4, <1>5, <1>6 DEF HandOver

\* A caller that sees done knows the supplicant thread has let go.
LEMMA PollDonePreserves ==
    ASSUME HandOver, NEW c0 \in Callers, PollDone(c0)
    PROVE  HandOver'
<1>1. TypeOK'
  BY DEF HandOver, TypeOK, PollDone
<1>2. NoUseAfterFree'
  BY DEF HandOver, NoUseAfterFree, PollDone
<1>3. OneReaper'
  BY DEF HandOver, OneReaper, PollDone
<1>4. NoLeak'
  BY DEF HandOver, NoLeak, PollDone
<1>5. CallerKnows'
  BY DEF HandOver, CallerKnows, PollDone
<1>6. WorkerKnows'
  BY DEF HandOver, CallerKnows, WorkerKnows, PollDone
<1> QED BY <1>1, <1>2, <1>3, <1>4, <1>5, <1>6 DEF HandOver

\* The caller frees a finished job that neither slot nor thread holds.
LEMMA FreeDonePreserves ==
    ASSUME HandOver, NEW c0 \in Callers, FreeDone(c0)
    PROVE  HandOver'
<1>1. TypeOK'
  BY DEF HandOver, TypeOK, FreeDone, Leave
<1>2. NoUseAfterFree'
  BY DEF HandOver, TypeOK, NoUseAfterFree, OneReaper, WorkerKnows, FreeDone, Leave
<1>3. OneReaper'
  BY DEF HandOver, OneReaper, CallerKnows, WorkerKnows, FreeDone, Leave
<1>4. NoLeak'
  BY DEF HandOver, NoLeak, FreeDone, Leave
<1>5. CallerKnows'
  BY DEF HandOver, TypeOK, CallerKnows, FreeDone, Leave
<1>6. WorkerKnows'
  BY DEF HandOver, WorkerKnows, FreeDone, Leave
<1> QED BY <1>1, <1>2, <1>3, <1>4, <1>5, <1>6 DEF HandOver

\* The timeout decides by started who owns the job from now on.
LEMMA PollTimeoutPreserves ==
    ASSUME HandOver, NEW c0 \in Callers, PollTimeout(c0)
    PROVE  HandOver'
<1>1. TypeOK'
  BY DEF HandOver, TypeOK, CallerKnows, PollTimeout, Leave
<1>2. NoUseAfterFree'
  BY DEF HandOver, TypeOK, NoUseAfterFree, PollTimeout, Leave
<1>3. OneReaper'
  BY DEF HandOver, TypeOK, OneReaper, PollTimeout, Leave
<1>4. NoLeak'
  BY DEF HandOver, TypeOK, NoLeak, CallerKnows, WorkerKnows, PollTimeout, Unfinished, Withdrawable, Leave
<1>5. CallerKnows'
  BY DEF HandOver, TypeOK, OneReaper, CallerKnows, PollTimeout, Withdrawable, Leave
<1>6. WorkerKnows'
  BY DEF HandOver, TypeOK, OneReaper, CallerKnows, WorkerKnows, PollTimeout, Withdrawable, Leave
<1> QED BY <1>1, <1>2, <1>3, <1>4, <1>5, <1>6 DEF HandOver

\* A withdrawn job was never taken, so its caller is alone with it.
LEMMA FreeWithdrawnPreserves ==
    ASSUME HandOver, NEW c0 \in Callers, FreeWithdrawn(c0)
    PROVE  HandOver'
<1>1. TypeOK'
  BY DEF HandOver, TypeOK, FreeWithdrawn, Leave
<1>2. NoUseAfterFree'
  BY DEF HandOver, TypeOK, NoUseAfterFree, OneReaper, WorkerKnows, FreeWithdrawn, Leave
<1>3. OneReaper'
  BY DEF HandOver, OneReaper, CallerKnows, WorkerKnows, FreeWithdrawn, Leave
<1>4. NoLeak'
  BY DEF HandOver, NoLeak, FreeWithdrawn, Leave
<1>5. CallerKnows'
  BY DEF HandOver, TypeOK, CallerKnows, FreeWithdrawn, Leave
<1>6. WorkerKnows'
  BY DEF HandOver, WorkerKnows, FreeWithdrawn, Leave
<1> QED BY <1>1, <1>2, <1>3, <1>4, <1>5, <1>6 DEF HandOver

\* Polling changes nothing but the caller's own count.
LEMMA PollAgainPreserves ==
    ASSUME HandOver, NEW c0 \in Callers, PollAgain(c0)
    PROVE  HandOver'
<1>1. TypeOK'
  BY JobsAssumption DEF HandOver, TypeOK, PollAgain, TimedOut
<1>2. NoUseAfterFree'
  BY DEF HandOver, NoUseAfterFree, PollAgain
<1>3. OneReaper'
  BY DEF HandOver, OneReaper, PollAgain
<1>4. NoLeak'
  BY DEF HandOver, NoLeak, PollAgain
<1>5. CallerKnows'
  BY DEF HandOver, CallerKnows, PollAgain
<1>6. WorkerKnows'
  BY DEF HandOver, WorkerKnows, PollAgain
<1> QED BY <1>1, <1>2, <1>3, <1>4, <1>5, <1>6 DEF HandOver

\* The supplicant thread takes a job whose caller is still polling it.
LEMMA TakeJobPreserves ==
    ASSUME HandOver, TakeJob
    PROVE  HandOver'
<1>1. TypeOK'
  BY DEF HandOver, TypeOK, TakeJob
<1>2. NoUseAfterFree'
  BY DEF HandOver, NoUseAfterFree, TakeJob
<1>3. OneReaper'
  BY DEF HandOver, OneReaper, TakeJob
<1>4. NoLeak'
  BY DEF HandOver, NoLeak, TakeJob
<1>5. CallerKnows'
  BY DEF HandOver, TypeOK, CallerKnows, TakeJob
<1>6. WorkerKnows'
  BY DEF HandOver, TypeOK, CallerKnows, WorkerKnows, TakeJob
<1> QED BY <1>1, <1>2, <1>3, <1>4, <1>5, <1>6 DEF HandOver

\* The handler runs on a block that its caller cannot free.
LEMMA RunJobPreserves ==
    ASSUME HandOver, RunJob
    PROVE  HandOver'
<1>1. TypeOK'
  BY DEF HandOver, TypeOK, RunJob
<1>2. NoUseAfterFree'
  BY DEF HandOver, NoUseAfterFree, RunJob
<1>3. OneReaper'
  BY DEF HandOver, OneReaper, RunJob
<1>4. NoLeak'
  BY DEF HandOver, NoLeak, RunJob
<1>5. CallerKnows'
  BY DEF HandOver, CallerKnows, RunJob
<1>6. WorkerKnows'
  BY DEF HandOver, WorkerKnows, RunJob
<1> QED BY <1>1, <1>2, <1>3, <1>4, <1>5, <1>6 DEF HandOver

\* The end of a job passes it back to its caller, or keeps an abandoned one.
LEMMA FinishJobPreserves ==
    ASSUME HandOver, FinishJob
    PROVE  HandOver'
<1>1. TypeOK'
  BY DEF HandOver, TypeOK, WorkerKnows, FinishJob
<1>2. NoUseAfterFree'
  BY DEF HandOver, NoUseAfterFree, FinishJob
<1>3. OneReaper'
  BY DEF HandOver, OneReaper, WorkerKnows, FinishJob, OwnsJob
<1>4. NoLeak'
  BY DEF HandOver, NoLeak, FinishJob, OwnsJob
<1>5. CallerKnows'
  BY DEF HandOver, TypeOK, CallerKnows, WorkerKnows, FinishJob, OwnsJob
<1>6. WorkerKnows'
  BY DEF HandOver, WorkerKnows, FinishJob, OwnsJob
<1> QED BY <1>1, <1>2, <1>3, <1>4, <1>5, <1>6 DEF HandOver

\* The supplicant thread frees a block that no caller holds.
LEMMA FreeAbandonedPreserves ==
    ASSUME HandOver, FreeAbandoned
    PROVE  HandOver'
<1>1. TypeOK'
  BY DEF HandOver, TypeOK, FreeAbandoned
<1>2. NoUseAfterFree'
  BY DEF HandOver, NoUseAfterFree, CallerKnows, WorkerKnows, FreeAbandoned
<1>3. OneReaper'
  BY DEF HandOver, OneReaper, FreeAbandoned
<1>4. NoLeak'
  BY DEF HandOver, NoLeak, FreeAbandoned
<1>5. CallerKnows'
  BY DEF HandOver, CallerKnows, WorkerKnows, FreeAbandoned
<1>6. WorkerKnows'
  BY DEF HandOver, WorkerKnows, FreeAbandoned
<1> QED BY <1>1, <1>2, <1>3, <1>4, <1>5, <1>6 DEF HandOver

-----------------------------------------------------------------------------
\* Every step of a caller or of the supplicant thread preserves the invariant.
LEMMA NextPreserves ==
    ASSUME HandOver, [Next]_vars
    PROVE  HandOver'
<1>1. ASSUME NEW c \in Callers, Call(c) \/ CallerStep(c) PROVE HandOver'
  BY <1>1, CallPreserves, AllocPreserves, AllocFailsPreserves, SubmitPreserves, FreeRefusedPreserves, PollDonePreserves, FreeDonePreserves, PollTimeoutPreserves, FreeWithdrawnPreserves, PollAgainPreserves DEF CallerStep
<1>2. CASE WorkerStep
  BY <1>2, TakeJobPreserves, RunJobPreserves, FinishJobPreserves, FreeAbandonedPreserves DEF WorkerStep
<1>3. CASE UNCHANGED vars
  BY <1>3 DEF HandOver, TypeOK, NoUseAfterFree, OneReaper, NoLeak, CallerKnows, WorkerKnows
<1> QED BY <1>1, <1>2, <1>3 DEF Next

\* In every execution the flags, the slot and the two sides' pointers agree, so a
\* job is freed once, by the last of caller and supplicant thread to use it.
THEOREM HandOverAlways == Spec => []HandOver
<1>1. Init => HandOver
  BY JobsAssumption DEF Init, HandOver, TypeOK, NoUseAfterFree, OneReaper, NoLeak, CallerKnows, WorkerKnows
<1>2. HandOver /\ [Next]_vars => HandOver'
  BY NextPreserves
<1> QED BY <1>1, <1>2, PTL DEF Spec

\* No thread ever reads or frees a job block that has been freed.
THEOREM JobMemorySafe == Spec => []NoUseAfterFree
<1>1. HandOver => NoUseAfterFree
  BY DEF HandOver
<1> QED BY <1>1, HandOverAlways, PTL

\* No job block is left allocated with nobody to free it.
THEOREM JobsNotLeaked == Spec => []NoLeak
<1>1. HandOver => NoLeak
  BY DEF HandOver
<1> QED BY <1>1, HandOverAlways, PTL

-----------------------------------------------------------------------------
\* What the service sees of a step: caller c's call moves to s, the others stay.
Moves(c, s) ==
    /\ CallState(c)' = s
    /\ \A d \in Callers \ {c} : CallState(d)' = CallState(d)

Hidden == (\A d \in Callers : CallState(d)' = CallState(d)) /\ answer' = answer /\ Orphan' = Orphan

\* A step that moves one caller is seen by JobService as that caller's move.
LEMMA MovesOne ==
    ASSUME NEW c \in Callers, NEW s, Moves(c, s)
    PROVE  CallOf' = [CallOf EXCEPT ![c] = s]
  BY DEF Moves, CallOf, CallState

\* A step that moves no caller, answers none and ends no abandoned handler is
\* invisible to the callers.
LEMMA HiddenStutters == Hidden => UNCHANGED Service!vars
  BY DEF Hidden, Service!vars, CallOf

\* A step of the threads is a step of the service they implement, or invisible
\* in it.  Each concrete action is matched with the abstract one it performs.
LEMMA StepSimulation ==
    ASSUME HandOver, HandOver', [Next]_vars
    PROVE  [Service!Next]_(Service!vars)
<1>1. ASSUME NEW c \in Callers, Call(c) PROVE Service!Begin(c)
  <2>1. CallState(c) = "idle" /\ Moves(c, "waiting") /\ Orphan' = Orphan
    BY <1>1 DEF HandOver, TypeOK, CallState, Orphan, Call, Moves
  <2> QED BY <1>1, <2>1, MovesOne DEF Call, CallOf, Service!Begin
<1>2. ASSUME NEW c \in Callers, Alloc(c) PROVE Hidden
  BY <1>2 DEF HandOver, CallState, Orphan, Alloc, Hidden, NoUseAfterFree
<1>3. ASSUME NEW c \in Callers, AllocFails(c) PROVE Service!Refuse(c)
  <2>1. CallState(c) = "waiting" /\ Moves(c, "idle") /\ Orphan' = Orphan
    BY <1>3 DEF HandOver, TypeOK, CallState, Orphan, AllocFails, Leave, Moves
  <2> QED BY <1>3, <2>1, MovesOne DEF AllocFails, Leave, CallOf, Service!Refuse
<1>4. ASSUME NEW c \in Callers, Submit(c) PROVE Hidden
  BY <1>4 DEF HandOver, TypeOK, CallerKnows, CallState, Orphan, Submit, Hidden
<1>5. ASSUME NEW c \in Callers, FreeRefused(c) PROVE Service!Refuse(c)
  <2>1. CallState(c) = "waiting" /\ Moves(c, "idle") /\ Orphan' = Orphan
    BY <1>5 DEF HandOver, TypeOK, CallState, Orphan, FreeRefused, Leave, Moves
  <2> QED BY <1>5, <2>1, MovesOne DEF FreeRefused, Leave, CallOf, Service!Refuse
<1>6. ASSUME NEW c \in Callers, PollDone(c) PROVE Hidden
  BY <1>6 DEF CallState, Orphan, PollDone, Hidden
<1>7. ASSUME NEW c \in Callers, FreeDone(c) PROVE Service!Return(c)
  <2>1. CallState(c) = "ran" /\ Moves(c, "idle") /\ Orphan' = Orphan
    BY <1>7 DEF HandOver, TypeOK, CallState, Orphan, FreeDone, Leave, Moves
  <2> QED BY <1>7, <2>1, MovesOne DEF FreeDone, Leave, CallOf, Service!Return
<1>8. ASSUME NEW c \in Callers, PollTimeout(c), Withdrawable(c) PROVE Hidden
  BY <1>8 DEF HandOver, TypeOK, CallState, Orphan, PollTimeout, Hidden, Unfinished, Withdrawable, WorkerKnows
<1>9. ASSUME NEW c \in Callers, PollTimeout(c), ~Withdrawable(c) PROVE Service!GiveUp(c)
  <2>1. CallState(c) = "running" /\ Moves(c, "idle") /\ Orphan'
    BY <1>9 DEF HandOver, TypeOK, CallerKnows, CallState, Orphan, PollTimeout, Leave, Moves, Unfinished, WorkerKnows
  <2> QED BY <1>9, <2>1, MovesOne DEF PollTimeout, Leave, CallOf, Service!GiveUp
<1>10. ASSUME NEW c \in Callers, FreeWithdrawn(c) PROVE Service!Refuse(c)
  <2>1. CallState(c) = "waiting" /\ Moves(c, "idle") /\ Orphan' = Orphan
    BY <1>10 DEF HandOver, TypeOK, CallState, Orphan, FreeWithdrawn, Leave, Moves
  <2> QED BY <1>10, <2>1, MovesOne DEF FreeWithdrawn, Leave, CallOf, Service!Refuse
<1>11. ASSUME NEW c \in Callers, PollAgain(c) PROVE Hidden
  BY <1>11 DEF CallState, Orphan, PollAgain, Hidden
<1>12. ASSUME TakeJob PROVE \E c \in Callers : Service!StartHandler(c)
  <2>1. PICK c \in Callers : cpc[c] = "poll" /\ cjob[c] = slot
    BY <1>12 DEF HandOver, TakeJob, WorkerKnows
  <2>2. CallState(c) = "waiting" /\ Moves(c, "running") /\ Orphan = FALSE /\ Orphan' = FALSE
    BY <1>12, <2>1 DEF HandOver, CallerKnows, CallState, Orphan, TakeJob, WorkerKnows, Moves
  <2>3. \A d \in Callers : CallState(d) # "running"
    BY <1>12 DEF HandOver, CallerKnows, CallState, TakeJob, WorkerKnows
  <2>4. Service!StartHandler(c)
    BY <1>12, <2>2, <2>3, MovesOne DEF TakeJob, callerVars, CallOf, Service!StartHandler, Service!Busy
  <2> QED BY <2>4
<1>13. ASSUME RunJob PROVE Hidden
  BY <1>13 DEF CallState, Orphan, RunJob, Hidden
<1>14. ASSUME FinishJob, OwnsJob PROVE Service!FinishOrphan
  <2>1. (\A d \in Callers : CallState(d)' = CallState(d)) /\ Orphan /\ ~Orphan'
    BY <1>14 DEF CallState, Orphan, FinishJob, OwnsJob
  <2> QED BY <1>14, <2>1 DEF FinishJob, CallOf, Service!FinishOrphan
<1>15. ASSUME FinishJob, ~OwnsJob PROVE \E c \in Callers : Service!FinishHandler(c)
  <2>1. PICK c \in Callers : cpc[c] = "poll" /\ cjob[c] = wjob
    BY <1>15 DEF HandOver, FinishJob, OwnsJob, WorkerKnows
  <2>2. CallState(c) = "running" /\ Moves(c, "ran") /\ Orphan' = Orphan
    BY <1>15, <2>1 DEF HandOver, CallerKnows, CallState, Orphan, FinishJob, Moves
  <2>3. Service!FinishHandler(c)
    BY <1>15, <2>2, MovesOne DEF FinishJob, CallOf, Service!FinishHandler
  <2> QED BY <2>3
<1>16. ASSUME FreeAbandoned PROVE Hidden
  BY <1>16 DEF CallState, Orphan, FreeAbandoned, Hidden
<1>17. ASSUME UNCHANGED vars PROVE Hidden
  BY <1>17 DEF Hidden, CallState, Orphan
<1> QED
  BY <1>1, <1>2, <1>3, <1>4, <1>5, <1>6, <1>7, <1>8, <1>9, <1>10, <1>11, <1>12, <1>13, <1>14, <1>15, <1>16, <1>17, HiddenStutters DEF Next, CallerStep, WorkerStep, Service!Next

\* The protocol of flags and locks in wpa_embox_job_run and
\* wpa_embox_process_jobs implements the service that the API promises: "OK" only
\* after the handler ran, one handler at a time, an abandoned handler accounted for.
THEOREM JobsImplementService == Spec => ImplementsService
<1>1. Init => Service!Init
  BY DEF Init, CallState, CallOf, Orphan, Service!Init
<1>2. HandOver /\ HandOver' /\ [Next]_vars => [Service!Next]_(Service!vars)
  BY StepSimulation
<1> QED BY <1>1, <1>2, HandOverAlways, PTL DEF Spec, ImplementsService, Service!Spec
==============================================================================
