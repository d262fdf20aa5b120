------------------------- MODULE FreertosSupp_proofs -------------------------
(***************************************************************************)
(* Proofs about FreertosSupp for any callers, timeouts and bounds.         *)
(*                                                                         *)
(* stop_wpa_supplicant does not return before the task does, whether or    *)
(* not API calls are under way.  The task posts                            *)
(* wpaSuppReadySemaphoreHandle twice, when it is ready and when it ends,   *)
(* and stop_wpa_supplicant waits for it twice.  The argument is that until *)
(* the task ends there is at most one token, from its first post: it is in *)
(* the semaphore, with the one caller between its wait and its post, or    *)
(* with stop_wpa_supplicant, which does not give it back.                  *)
(*                                                                         *)
(* No timeout is lost or slept past, unless an event handler or the end of *)
(* the task, which do not hold wpa_supplicant_mutex, cross a caller at the *)
(* list of timeouts.  The argument is that otherwise nobody touches the    *)
(* list between finding the place of a timeout and linking it there, the   *)
(* others because of the mutex, and that the list is in due order.         *)
(***************************************************************************)
EXTENDS FreertosSupp, SequenceTheorems, FiniteSetTheorems, TLAPS

USE DEF queue, loop, timeouts, vars

StopHolds == pc["stop"] \in {"terminate", "notify", "wait again"}

\* The token is neither in the semaphore nor with a caller.
Elsewhere == sem = 0 /\ \A c \in Callers : pc[c] # "post"

OneToken ==
    /\ sem \in {0, 1}
    /\ pc["stop"] \in {"idle", "wait"} \/ StopHolds
    /\ pc["task"] \in {"init", "ready"} => Elsewhere /\ ~StopHolds
    /\ StopHolds => Elsewhere
    /\ \A c \in Callers : pc[c] = "post" =>
           sem = 0 /\ \A d \in Callers : pc[d] = "post" => d = c

TokenInv ==
    /\ pc = [t \in Threads |-> pc[t]]
    /\ pc["task"] # "returned" => OneToken

\* The task goes on without touching the semaphore, to where it is not yet ready only
\* from its start: no token appears.
LEMMA TaskMoves ==
    ASSUME TokenInv, NEW there, Goto("task", there), sem' = sem,
           pc["task"] # "returned",
           there \in {"init", "ready"} => pc["task"] = "init"
    PROVE  TokenInv'
<1>1. /\ pc' = [t \in Threads |-> pc'[t]]
      /\ pc'["stop"] = pc["stop"]
      /\ \A c \in Callers : pc'[c] = pc[c]
      /\ pc'["task"] = there
  BY FreertosAssumption DEF TokenInv, Goto, Threads
<1> QED BY <1>1 DEF TokenInv, OneToken, StopHolds, Elsewhere

\* A caller goes on without touching the semaphore, to anywhere but the place where it
\* holds the token.
LEMMA CallerMoves ==
    ASSUME TokenInv, NEW c \in Callers, NEW there, Goto(c, there), sem' = sem,
           there # "post"
    PROVE  TokenInv'
<1>1. /\ pc' = [t \in Threads |-> pc'[t]]
      /\ pc'["stop"] = pc["stop"]
      /\ pc'["task"] = pc["task"]
      /\ \A d \in Callers : pc'[d] = IF d = c THEN there ELSE pc[d]
  BY FreertosAssumption DEF TokenInv, Goto, Threads
<1> QED BY <1>1 DEF TokenInv, OneToken, StopHolds, Elsewhere

\* A call into the supplicant takes a thread to the middle of eloop_register_timeout or
\* to where it goes on, and leaves the semaphore alone.
LEMMA OperateMoves ==
    ASSUME NEW t \in Threads, Operate(t)
    PROVE  /\ sem' = sem
           /\ \E there \in {"insert", "unlock", "events"} : Goto(t, there)
<1>1. AfterOp(t) \in {"insert", "unlock", "events"}
  BY DEF AfterOp
<1>2. CASE \E id \in Ids, d \in 0..MaxDelay : Register(t, id, d)
  BY <1>2 DEF Operate, Register
<1>3. CASE \E id \in Ids : Cancel(t, id)
  BY <1>1, <1>3 DEF Operate, Cancel
<1>4. CASE Goto(t, AfterOp(t))
  BY <1>1, <1>4 DEF Operate
<1> QED BY <1>2, <1>3, <1>4 DEF Operate

\* Before the task is ready there is no token; its last post ends the argument.
LEMMA TaskPreserves ==
    ASSUME TokenInv, Task \/ TaskLock
    PROVE  TokenInv'
<1>1. CASE TaskInit
  BY <1>1, TaskMoves DEF TaskInit, Move
<1>2. CASE TaskInitFails
  BY <1>2, TaskMoves DEF TaskInitFails, Move
<1>3. CASE TaskReady
  <2>1. /\ pc' = [t \in Threads |-> pc'[t]]
        /\ pc["task"] = "ready" /\ pc'["task"] = "loop"
        /\ pc'["stop"] = pc["stop"]
        /\ \A c \in Callers : pc'[c] = pc[c]
        /\ sem' = 1
    BY <1>3, FreertosAssumption DEF TaskReady, Move, Goto, Post, TokenInv, Threads
  <2> QED BY <2>1 DEF TokenInv, OneToken, StopHolds, Elsewhere
<1>4. CASE TaskLoop
  BY <1>4, TaskMoves DEF TaskLoop
<1>5. CASE TaskWait
  BY <1>5, TaskMoves DEF TaskWait, Move
<1>6. CASE TaskTimers
  BY <1>6, TaskMoves DEF TaskTimers
<1>7. CASE TaskLock
  BY <1>7, TaskMoves DEF TaskLock, Move
<1>8. CASE TaskHandler \/ TaskEvent
  <2>1. PICK there \in {"insert", "unlock", "events"} : Goto("task", there) /\ sem' = sem
    BY <1>8, OperateMoves DEF TaskHandler, TaskEvent, Threads
  <2> QED BY <1>8, <2>1, TaskMoves DEF TaskHandler, TaskEvent
<1>9. CASE TaskPeriodic
  BY <1>9, TaskMoves DEF TaskPeriodic
<1>10. CASE TaskUnlock
  BY <1>10, TaskMoves DEF TaskUnlock, Unlock, Move
<1>11. CASE TaskEvents
  BY <1>11, TaskMoves DEF TaskEvents
<1>12. CASE TaskDeinit
  BY <1>12, TaskMoves DEF TaskDeinit, Move
<1>13. CASE TaskDrain \/ TaskFree
  BY <1>13, TaskMoves DEF TaskDrain, TaskFree, Move
<1>14. CASE TaskExit
  BY <1>14, FreertosAssumption DEF TaskExit, Move, Goto, TokenInv, Threads
<1>15. CASE Insert("task")
  BY <1>15, TaskMoves DEF Insert, Move
<1>16. CASE Notify("task")
  BY <1>16, TaskMoves DEF Notify, AfterOp
<1> QED BY <1>1, <1>2, <1>3, <1>4, <1>5, <1>6, <1>7, <1>8, <1>9, <1>10, <1>11, <1>12,
           <1>13, <1>14, <1>15, <1>16 DEF Task

\* The first post has happened, and neither a caller nor stop_wpa_supplicant has its token.
OnlyInSemaphore ==
    /\ pc["task"] \notin {"init", "ready"}
    /\ ~StopHolds
    /\ \A c \in Callers : pc[c] # "post"

\* A wait that succeeds before the task has ended takes the only token.
LEMMA TokenInSemaphore ==
    ASSUME TokenInv, sem = 1, pc["task"] # "returned"
    PROVE  OnlyInSemaphore
<1>1. OneToken
  BY DEF TokenInv
<1>2. ~Elsewhere
  BY DEF Elsewhere
<1>3. \A c \in Callers : pc[c] # "post"
  BY <1>1 DEF OneToken
<1>4. ~StopHolds
  BY <1>1, <1>2 DEF OneToken
<1>5. pc["task"] \notin {"init", "ready"}
  BY <1>1, <1>2 DEF OneToken
<1> QED BY <1>3, <1>4, <1>5 DEF OnlyInSemaphore

\* A caller that takes the token is the only one that has it, and gives it back.
LEMMA CallerPreserves ==
    ASSUME TokenInv, NEW c \in Callers, CallLock(c) \/ Caller(c)
    PROVE  TokenInv'
<1>1. CASE CallLock(c)
  BY <1>1, CallerMoves DEF CallLock, Move
<1>2. CASE CallWait(c)
  <2>1. /\ pc' = [t \in Threads |-> pc'[t]]
        /\ pc'["task"] = pc["task"] /\ pc'["stop"] = pc["stop"]
        /\ \A d \in Callers : pc'[d] = IF d = c THEN "post" ELSE pc[d]
        /\ sem = 1 /\ sem' = 0
    BY <1>2, FreertosAssumption DEF CallWait, Move, Goto, SemaphoreWait, TokenInv, Threads
  <2>2. pc["task"] # "returned" => OnlyInSemaphore
    BY <2>1, TokenInSemaphore
  <2> QED BY <2>1, <2>2 DEF TokenInv, OneToken, StopHolds, Elsewhere, OnlyInSemaphore
<1>3. CASE CallPost(c)
  <2>1. /\ pc' = [t \in Threads |-> pc'[t]]
        /\ pc'["task"] = pc["task"] /\ pc'["stop"] = pc["stop"]
        /\ pc[c] = "post"
        /\ \A d \in Callers : pc'[d] = IF d = c THEN "call" ELSE pc[d]
        /\ sem' = 1
    BY <1>3, FreertosAssumption DEF CallPost, Move, Goto, Post, TokenInv, Threads
  <2> QED BY <2>1 DEF TokenInv, OneToken, StopHolds, Elsewhere
<1>4. CASE CallOperates(c)
  <2>1. PICK there \in {"insert", "unlock", "events"} : Goto(c, there) /\ sem' = sem
    BY <1>4, OperateMoves DEF CallOperates, Threads
  <2> QED BY <2>1, CallerMoves
<1>5. CASE Insert(c)
  BY <1>5, CallerMoves DEF Insert, Move
<1>6. CASE Notify(c)
  BY <1>6, CallerMoves DEF Notify, AfterOp
<1>7. CASE CallUnlock(c)
  BY <1>7, CallerMoves DEF CallUnlock, Unlock, Move
<1> QED BY <1>1, <1>2, <1>3, <1>4, <1>5, <1>6, <1>7 DEF Caller

\* stop_wpa_supplicant keeps the token of its first wait, so that its second wait finds
\* none before the task has ended.
LEMMA StopPreserves ==
    ASSUME TokenInv, Stop \/ Stopping
    PROVE  TokenInv'
<1>1. /\ pc' = [t \in Threads |-> pc'[t]]
      /\ pc'["task"] = pc["task"]
      /\ \A c \in Callers : pc'[c] = pc[c]
  BY FreertosAssumption
     DEF Stop, Stopping, StopWait, StopTerminate, StopNotify, Move, Goto, TokenInv, Threads
<1>2. CASE Stop
  <2>1. pc'["stop"] = "wait" /\ sem' = sem /\ pc["stop"] = "idle"
    BY <1>2 DEF Stop, Move, Goto, TokenInv, Threads
  <2> QED BY <1>1, <2>1 DEF TokenInv, OneToken, StopHolds, Elsewhere
<1>3. CASE StopWait
  <2>1. /\ sem = 1 /\ sem' = 0
        /\ \/ pc["stop"] = "wait" /\ pc'["stop"] = "terminate"
           \/ pc["stop"] = "wait again"
    BY <1>3 DEF StopWait, SemaphoreWait, Move, Goto, TokenInv, Threads
  <2>2. pc["task"] # "returned" => OnlyInSemaphore
    BY <2>1, TokenInSemaphore
  <2> QED BY <1>1, <2>1, <2>2 DEF TokenInv, OneToken, StopHolds, Elsewhere, OnlyInSemaphore
<1>4. CASE StopTerminate \/ StopNotify
  <2>1. /\ sem' = sem
        /\ pc["stop"] \in {"terminate", "notify"}
        /\ pc'["stop"] \in {"notify", "wait again"}
    BY <1>4 DEF StopTerminate, StopNotify, Move, Goto, TokenInv, Threads
  <2> QED BY <1>1, <2>1 DEF TokenInv, OneToken, StopHolds, Elsewhere
<1> QED BY <1>2, <1>3, <1>4 DEF Stopping

\* Until the task ends, its first post is the only token of the semaphore.
THEOREM TokenInvariant == Spec => []TokenInv
<1>1. Init => TokenInv
  BY FreertosAssumption DEF Init, TokenInv, OneToken, StopHolds, Elsewhere, Threads
<1>2. TokenInv /\ [Next]_vars => TokenInv'
  <2> SUFFICES ASSUME TokenInv, [Next]_vars PROVE TokenInv'
    OBVIOUS
  <2>1. CASE Task \/ TaskLock
    BY <2>1, TaskPreserves
  <2>2. CASE Stop \/ Stopping
    BY <2>2, StopPreserves
  <2>3. CASE \E c \in Callers : CallLock(c) \/ Caller(c)
    BY <2>3, CallerPreserves
  <2>4. CASE SendEvent \/ SendFlag \/ Tick \/ UNCHANGED vars
    <3>1. pc' = pc /\ sem' = sem
      BY <2>4 DEF SendEvent, SendFlag, Tick
    <3> QED BY <3>1 DEF TokenInv, OneToken, StopHolds, Elsewhere
  <2> QED BY <2>1, <2>2, <2>3, <2>4 DEF Next
<1> QED BY <1>1, <1>2, PTL DEF Spec

\* stop_wpa_supplicant returns only when the task has ended: with any number of callers
\* of the API, also while their calls are under way, and if the task fails to start.
THEOREM StopMeansStoppedTheorem == Spec => []StopMeansStopped
<1>1. TokenInv => StopMeansStopped
  BY DEF TokenInv, OneToken, StopHolds, StopMeansStopped
<1> QED BY <1>1, TokenInvariant, PTL

-----------------------------------------------------------------------------
(* The timeouts.  API threads and the task's timeout handlers work on the   *)
(* list under wpa_supplicant_mutex, event handlers without it: as long as   *)
(* these cross no API thread, what a thread found while looking for the     *)
(* place of a timeout is still so when it links it.                         *)

CallPlaces == {"idle", "wait", "post", "call", "insert", "notify", "unlock"}
TaskHolds == {"handler", "insert", "notify", "unlock"}
TaskPlaces ==
    {"init", "ready", "loop", "wait", "timers", "lock", "events", "event", "deinit", "drain",
     "free", "exit", "returned"} \cup TaskHolds
StopPlaces == {"idle", "wait", "terminate", "notify", "wait again", "returned"}

Entries == [id : Timeouts, left : 0..MaxDelay]
Links == [id : Timeouts, left : 0..MaxDelay, now : BOOLEAN,
          prev : Timeouts \cup {None}, next : Timeouts \cup {None}]

\* The list is in due order, and no timeout is in it twice.
Sorted(l) ==
    \A i, j \in DOMAIN l : i < j => l[i].id # l[j].id /\ l[i].left <= l[j].left

\* The place of timeout e is after the n-th of the list.
Place(l, e, n) ==
    /\ e.prev = IF n = 0 THEN None ELSE l[n].id
    /\ e.next = IF n = Len(l) THEN None ELSE l[n + 1].id
    /\ n > 0 => l[n].left <= e.left
    /\ n < Len(l) => e.left <= l[n + 1].left

\* m is l with the entry x behind the n-th.
Spliced(l, n, x, m) ==
    /\ m \in Seq(Entries)
    /\ Len(m) = Len(l) + 1
    /\ \A j \in 1..Len(l)+1 : m[j] = IF j <= n THEN l[j] ELSE IF j = n + 1 THEN x ELSE l[j - 1]

\* m is l without the n-th entry.
Without(l, n, m) ==
    /\ m \in Seq(Entries)
    /\ Len(m) = Len(l) - 1
    /\ \A j \in 1..Len(l)-1 : m[j] = IF j < n THEN l[j] ELSE l[j + 1]

\* Index finds the one place of a timeout.
LEMMA IndexIs ==
    ASSUME list \in Seq(Entries), Sorted(list), NEW n \in 1..Len(list)
    PROVE  Index(list[n].id) = n
<1>1. DOMAIN list = 1..Len(list) /\ Len(list) \in Nat
  OBVIOUS
<1>2. \A i \in DOMAIN list : list[i].id = list[n].id => i = n
  BY <1>1 DEF Sorted
<1>3. n \in DOMAIN list
  BY <1>1
<1> HIDE DEF Sorted
<1> QED BY <1>2, <1>3 DEF Index

\* Linking a timeout at its place.
LEMMA InsertedIs ==
    ASSUME list \in Seq(Entries), Sorted(list), NEW e \in Links,
           NEW n \in 0..Len(list), Place(list, e, n)
    PROVE  /\ ~Dangles(e.prev) /\ ~Dangles(e.next)
           /\ Spliced(list, n, [id |-> e.id, left |-> e.left], Inserted(e))
<1>0. n \in Nat /\ Len(list) \in Nat /\ n <= Len(list)
  OBVIOUS
<1> DEFINE x == [id |-> e.id, left |-> e.left]
           before == SubSeq(list, 1, n)
           after == SubSeq(list, n + 1, Len(list))
<1>1. DOMAIN list = 1..Len(list) /\ Len(list) \in Nat /\ x \in Entries
  BY DEF Links, Entries
<1>2. \A j \in 1..Len(list) : list[j].id \in Timeouts /\ list[j].id # None
  <2>1. \A j \in 1..Len(list) : list[j] \in Entries
    OBVIOUS
  <2> QED BY <2>1, FreertosAssumption DEF Entries, Timeouts
<1>3. /\ before \in Seq(Entries) /\ Len(before) = n
      /\ \A j \in 1..n : before[j] = list[j]
  BY <1>1
<1>4. /\ after \in Seq(Entries) /\ Len(after) = Len(list) - n
      /\ \A j \in 1..Len(list)-n : after[j] = list[n + j]
  <2>1. \A j \in n+1..Len(list) : list[j] \in Entries
    BY <1>1
  <2>2. /\ after \in Seq(Entries)
        /\ Len(after) = IF n + 1 <= Len(list) THEN Len(list) - (n + 1) + 1 ELSE 0
        /\ \A j \in 1..Len(list)-(n+1)+1 : after[j] = list[n + 1 + j - 1]
    BY <1>1, <2>1, SubSeqProperties
  <2> HIDE DEF after
  <2>3. Len(after) = Len(list) - n
    <3>1. CASE n + 1 <= Len(list)
      BY <1>1, <2>2, <3>1
    <3>2. CASE n = Len(list)
      <4>1. ~(n + 1 <= Len(list))
        BY <1>1, <3>2
      <4> QED BY <1>1, <2>2, <3>2, <4>1
    <3>3. n + 1 <= Len(list) \/ n = Len(list)
      BY <1>0
    <3> QED BY <3>1, <3>2, <3>3
  <2>4. ASSUME NEW j \in 1..Len(list)-n PROVE after[j] = list[n + j]
    <3>1. j \in 1..Len(list)-(n+1)+1 /\ n + 1 + j - 1 = n + j
      BY <1>1
    <3> QED BY <2>2, <3>1
  <2> QED BY <2>2, <2>3, <2>4
<1>5. /\ ~Dangles(e.prev)
      /\ (IF e.prev = None THEN <<>> ELSE SubSeq(list, 1, Index(e.prev))) = before
  <2>1. CASE n = 0
    BY <1>3, <2>1 DEF Place, Dangles
  <2>2. CASE n > 0
    <3>1. e.prev = list[n].id /\ n \in 1..Len(list)
      BY <2>2 DEF Place
    <3>2. Index(e.prev) = n
      BY <3>1, IndexIs
    <3> QED BY <1>1, <1>2, <3>1, <3>2 DEF Dangles, InList
  <2> HIDE DEF before
  <2> QED BY <2>1, <2>2
<1>6. /\ ~Dangles(e.next)
      /\ (IF e.next = None THEN <<>> ELSE SubSeq(list, Index(e.next), Len(list))) = after
  <2>1. CASE n = Len(list)
    BY <1>4, <2>1 DEF Place, Dangles
  <2>2. CASE n # Len(list)
    <3>1. e.next = list[n + 1].id /\ n + 1 \in 1..Len(list)
      BY <2>2 DEF Place
    <3>2. Index(e.next) = n + 1
      BY <3>1, IndexIs
    <3> QED BY <1>1, <1>2, <3>1, <3>2 DEF Dangles, InList
  <2> QED BY <2>1, <2>2
<1>7. Inserted(e) = before \o <<x>> \o after
  BY <1>5, <1>6 DEF Inserted
<1> HIDE DEF x, before, after
<1>8. Spliced(list, n, x, before \o <<x>> \o after)
  <2>1. <<x>> \in Seq(Entries) /\ Len(<<x>>) = 1 /\ <<x>>[1] = x
    BY <1>1
  <2>2. PICK b \in Seq(Entries) : b = before \o <<x>>
    BY <1>3, <2>1, ConcatProperties
  <2>3. Len(b) = n + 1 /\ \A j \in 1..n+1 : b[j] = IF j <= n THEN list[j] ELSE x
    BY <1>3, <2>1, <2>2, ConcatProperties
  <2>4. PICK m \in Seq(Entries) : m = b \o after
    BY <1>4, <2>2, ConcatProperties
  <2>5. /\ Len(m) = Len(list) + 1
        /\ \A j \in 1..Len(list)+1 : m[j] = IF j <= n + 1 THEN b[j] ELSE after[j - (n + 1)]
    BY <1>1, <1>4, <2>3, <2>4, ConcatProperties
  <2>6. \A j \in 1..Len(list)+1 : m[j] = IF j <= n THEN list[j] ELSE IF j = n + 1 THEN x ELSE list[j - 1]
    <3> TAKE j \in 1..Len(list)+1
    <3>1. CASE j <= n + 1
      BY <2>3, <2>5, <3>1
    <3>2. CASE j > n + 1
      <4>1. j - (n + 1) \in 1..Len(list)-n
        BY <1>1, <3>2
      <4>2. after[j - (n + 1)] = list[n + (j - (n + 1))]
        BY <1>4, <4>1
      <4> QED BY <1>1, <2>5, <3>2, <4>2
    <3> QED BY <1>1, <3>1, <3>2
  <2> QED BY <2>2, <2>4, <2>5, <2>6 DEF Spliced
<1> QED BY <1>5, <1>6, <1>7, <1>8 DEF x

\* What a sorted list with an entry more is.
LEMMA SplicedSorted ==
    ASSUME NEW l \in Seq(Entries), Sorted(l), NEW e \in Links, NEW n \in 0..Len(l), Place(l, e, n),
           NEW m, Spliced(l, n, [id |-> e.id, left |-> e.left], m), e.id \notin InList(l)
    PROVE  Sorted(m) /\ InList(m) = InList(l) \cup {e.id}
<1> DEFINE x == [id |-> e.id, left |-> e.left]
<1>1. DOMAIN l = 1..Len(l) /\ DOMAIN m = 1..Len(l)+1 /\ Len(l) \in Nat
  BY DEF Spliced
<1>2. \A j \in 1..Len(l)+1 : m[j] = IF j <= n THEN l[j] ELSE IF j = n + 1 THEN x ELSE l[j - 1]
  BY DEF Spliced
<1>3. x.id = e.id /\ x.left = e.left /\ e.left \in 0..MaxDelay
  BY DEF Links
<1>4. \A j \in 1..Len(l) : l[j].left \in 0..MaxDelay
  <2>1. \A j \in 1..Len(l) : l[j] \in Entries
    OBVIOUS
  <2> QED BY <2>1 DEF Entries
<1> HIDE DEF x
<1>5. InList(m) = InList(l) \cup {e.id}
  <2>1. ASSUME NEW i \in InList(m) PROVE i \in InList(l) \cup {e.id}
    <3>1. PICK j \in 1..Len(l)+1 : i = m[j].id
      BY <1>1, <2>1 DEF InList
    <3>2. m[j] = x \/ \E k \in 1..Len(l) : m[j] = l[k]
      BY <1>1, <1>2, <3>1
    <3> QED BY <1>1, <1>3, <3>1, <3>2 DEF InList
  <2>2. ASSUME NEW i \in InList(l) PROVE i \in InList(m)
    <3>1. PICK j \in 1..Len(l) : i = l[j].id
      BY <1>1, <2>2 DEF InList
    <3>2. m[IF j <= n THEN j ELSE j + 1] = l[j] /\ (IF j <= n THEN j ELSE j + 1) \in DOMAIN m
      BY <1>1, <1>2, <3>1
    <3> QED BY <3>1, <3>2 DEF InList
  <2>3. e.id \in InList(m)
    <3>1. n + 1 \in DOMAIN m /\ m[n + 1] = x
      BY <1>1, <1>2
    <3> QED BY <1>3, <3>1 DEF InList
  <2> QED BY <2>1, <2>2, <2>3
<1>6. \A j \in 1..Len(l) : l[j].id # e.id /\ (j <= n => l[j].left <= e.left) /\ (j > n => e.left <= l[j].left)
  <2> SUFFICES ASSUME NEW j \in 1..Len(l)
               PROVE  l[j].id # e.id /\ (j <= n => l[j].left <= e.left) /\ (j > n => e.left <= l[j].left)
    OBVIOUS
  <2>1. l[j].id # e.id
    BY <1>1 DEF InList
  <2>2. ASSUME j <= n PROVE l[j].left <= e.left
    <3>1. n \in 1..Len(l) /\ l[n].left <= e.left
      BY <2>2 DEF Place
    <3>2. j = n \/ l[j].left <= l[n].left
      BY <1>1, <2>2, <3>1 DEF Sorted
    <3> QED BY <1>3, <1>4, <3>1, <3>2
  <2>3. ASSUME j > n PROVE e.left <= l[j].left
    <3>1. n + 1 \in 1..Len(l) /\ e.left <= l[n + 1].left
      BY <2>3 DEF Place
    <3>2. j = n + 1 \/ l[n + 1].left <= l[j].left
      BY <1>1, <2>3, <3>1 DEF Sorted
    <3> QED BY <1>3, <1>4, <3>1, <3>2
  <2> QED BY <2>1, <2>2, <2>3
<1>7. Sorted(m)
  <2> SUFFICES ASSUME NEW i \in 1..Len(l)+1, NEW j \in 1..Len(l)+1, i < j
               PROVE  m[i].id # m[j].id /\ m[i].left <= m[j].left
    BY <1>1 DEF Sorted
  <2>1. CASE i = n + 1
    BY <1>2, <1>3, <1>6, <2>1
  <2>2. CASE j = n + 1
    <3>1. m[j] = x /\ m[i] = l[i] /\ i \in 1..Len(l) /\ i <= n
      BY <1>2, <2>2
    <3> QED BY <1>3, <1>6, <3>1
  <2>3. CASE i # n + 1 /\ j # n + 1
    <3>1. PICK a, b \in 1..Len(l) : a < b /\ m[i] = l[a] /\ m[j] = l[b]
      <4>1. (IF i <= n THEN i ELSE i - 1) < (IF j <= n THEN j ELSE j - 1)
        BY <2>3
      <4> QED BY <1>1, <1>2, <2>3, <4>1
    <3> QED BY <1>1, <3>1 DEF Sorted
  <2> QED BY <2>1, <2>2, <2>3
<1> QED BY <1>5, <1>7

\* Cancelling the n-th timeout, and taking the first.
LEMMA CancelledIs ==
    ASSUME NEW l \in Seq(Entries), NEW n \in 1..Len(l)
    PROVE  Without(l, n, SubSeq(l, 1, n - 1) \o SubSeq(l, n + 1, Len(l)))
<1>1. n \in Nat \ {0} /\ Len(l) \in Nat /\ n <= Len(l) /\ \A j \in 1..Len(l) : l[j] \in Entries
  OBVIOUS
<1>2. PICK b : b = SubSeq(l, 1, n - 1)
  OBVIOUS
<1>3. PICK a : a = SubSeq(l, n + 1, Len(l))
  OBVIOUS
<1>4. b \in Seq(Entries) /\ Len(b) = n - 1 /\ \A j \in 1..n-1 : b[j] = l[j]
  BY <1>1, <1>2
<1>5. a \in Seq(Entries) /\ Len(a) = Len(l) - n /\ \A j \in 1..Len(l)-n : a[j] = l[n + j]
  <2>1. /\ a \in Seq(Entries)
        /\ Len(a) = IF n + 1 <= Len(l) THEN Len(l) - (n + 1) + 1 ELSE 0
        /\ \A j \in 1..Len(l)-(n+1)+1 : a[j] = l[n + 1 + j - 1]
    BY <1>1, <1>3, SubSeqProperties
  <2>2. Len(a) = Len(l) - n
    <3>1. CASE n + 1 <= Len(l)
      BY <1>1, <2>1, <3>1
    <3>2. CASE ~(n + 1 <= Len(l))
      BY <1>1, <2>1, <3>2
    <3> QED BY <3>1, <3>2
  <2>3. ASSUME NEW j \in 1..Len(l)-n PROVE a[j] = l[n + j]
    <3>1. j \in 1..Len(l)-(n+1)+1 /\ n + 1 + j - 1 = n + j
      BY <1>1
    <3> QED BY <2>1, <3>1
  <2> QED BY <2>1, <2>2, <2>3
<1>6. PICK m \in Seq(Entries) : m = b \o a
  BY <1>4, <1>5, ConcatProperties
<1>7. /\ Len(m) = Len(l) - 1
      /\ \A j \in 1..Len(l)-1 : m[j] = IF j <= n - 1 THEN b[j] ELSE a[j - (n - 1)]
  <2>1. Len(b) + Len(a) = Len(l) - 1
    BY <1>1, <1>4, <1>5
  <2>2. /\ Len(m) = Len(b) + Len(a)
        /\ \A j \in 1..Len(b)+Len(a) : m[j] = IF j <= Len(b) THEN b[j] ELSE a[j - Len(b)]
    BY <1>4, <1>5, <1>6, ConcatProperties
  <2> QED BY <1>4, <2>1, <2>2
<1>8. ASSUME NEW j \in 1..Len(l)-1 PROVE m[j] = IF j < n THEN l[j] ELSE l[j + 1]
  <2>1. CASE j < n
    BY <1>1, <1>4, <1>7, <2>1
  <2>2. CASE ~(j < n)
    <3>1. j - (n - 1) \in 1..Len(l)-n /\ n + (j - (n - 1)) = j + 1 /\ ~(j <= n - 1)
      BY <1>1, <2>2
    <3>2. a[j - (n - 1)] = l[j + 1]
      BY <1>5, <3>1
    <3> QED BY <1>7, <2>2, <3>1, <3>2
  <2> QED BY <2>1, <2>2
<1> QED BY <1>2, <1>3, <1>6, <1>7, <1>8 DEF Without

LEMMA TailIs ==
    ASSUME NEW l \in Seq(Entries), l # <<>>
    PROVE  Len(l) \in Nat \ {0} /\ Head(l) = l[1] /\ Without(l, 1, Tail(l))
<1>1. Len(l) \in Nat \ {0} /\ Head(l) = l[1]
  OBVIOUS
<1>2. Tail(l) \in Seq(Entries) /\ Len(Tail(l)) = Len(l) - 1 /\ \A i \in 1..Len(Tail(l)) : Tail(l)[i] = l[i + 1]
  BY HeadTailProperties
<1> QED BY <1>1, <1>2 DEF Without

\* What a sorted list with an entry less is.
LEMMA WithoutSorted ==
    ASSUME NEW l \in Seq(Entries), Sorted(l), NEW n \in 1..Len(l), NEW m, Without(l, n, m)
    PROVE  Sorted(m) /\ InList(m) = InList(l) \ {l[n].id}
<1>1. /\ DOMAIN l = 1..Len(l) /\ DOMAIN m = 1..Len(l)-1
      /\ Len(l) \in Nat /\ n \in Nat /\ 1 <= n /\ n <= Len(l)
  BY DEF Without
<1>2. \A j \in 1..Len(l)-1 : m[j] = IF j < n THEN l[j] ELSE l[j + 1]
  BY DEF Without
<1>3. Sorted(m)
  <2> SUFFICES ASSUME NEW i \in 1..Len(l)-1, NEW j \in 1..Len(l)-1, i < j
               PROVE  m[i].id # m[j].id /\ m[i].left <= m[j].left
    BY <1>1 DEF Sorted
  <2>1. PICK a, b \in 1..Len(l) : a < b /\ m[i] = l[a] /\ m[j] = l[b]
    <3>1. (IF i < n THEN i ELSE i + 1) < (IF j < n THEN j ELSE j + 1)
      BY <1>1
    <3> QED BY <1>1, <1>2, <3>1
  <2> QED BY <1>1, <2>1 DEF Sorted
<1>4. ASSUME NEW i \in InList(m) PROVE i \in InList(l) \ {l[n].id}
  <2>1. PICK j \in 1..Len(l)-1 : i = m[j].id
    BY <1>1, <1>4 DEF InList
  <2>2. PICK k \in 1..Len(l) : m[j] = l[k] /\ k # n
    BY <1>1, <1>2, <2>1
  <2>3. l[k].id # l[n].id
    BY <1>1, <2>2 DEF Sorted
  <2> QED BY <1>1, <2>1, <2>2, <2>3 DEF InList
<1>5. ASSUME NEW i \in InList(l) \ {l[n].id} PROVE i \in InList(m)
  <2>1. PICK j \in 1..Len(l) : i = l[j].id
    BY <1>1, <1>5 DEF InList
  <2>2. j # n
    BY <1>5, <2>1
  <2>3. PICK k \in 1..Len(l)-1 : m[k] = l[j]
    <3>1. CASE j < n
      BY <1>1, <1>2, <3>1
    <3>2. CASE j > n
      <4>1. j - 1 \in 1..Len(l)-1 /\ ~(j - 1 < n) /\ (j - 1) + 1 = j
        BY <1>1, <3>2
      <4>2. m[j - 1] = l[j]
        BY <1>2, <4>1
      <4> QED BY <4>1, <4>2
    <3> QED BY <1>1, <2>2, <3>1, <3>2
  <2> QED BY <1>1, <2>1, <2>3 DEF InList
<1> QED BY <1>3, <1>4, <1>5

\* As many of the list are due no later as there are, or fewer.
LEMMA CountIs ==
    ASSUME NEW l \in Seq(Entries), NEW d, NEW n, n = Cardinality({i \in DOMAIN l : l[i].left <= d})
    PROVE  IsFiniteSet({i \in DOMAIN l : l[i].left <= d}) /\ n \in 0..Len(l)
<1> DEFINE S == {i \in DOMAIN l : l[i].left <= d}
<1>1. Len(l) \in Nat /\ S \subseteq 1..Len(l)
  OBVIOUS
<1>2. IsFiniteSet(1..Len(l)) /\ Cardinality(1..Len(l)) = Len(l)
  <2>1. 1 \in Int /\ Len(l) \in Int
    BY <1>1
  <2>2. /\ IsFiniteSet(1..Len(l))
        /\ Cardinality(1..Len(l)) = IF 1 > Len(l) THEN 0 ELSE Len(l) - 1 + 1
    BY <2>1, FS_Interval
  <2>3. CASE 1 > Len(l)
    BY <1>1, <2>2, <2>3
  <2>4. CASE ~(1 > Len(l))
    BY <1>1, <2>2, <2>4
  <2> QED BY <2>3, <2>4
<1> HIDE DEF S
<1>3. IsFiniteSet(S) /\ Cardinality(S) \in Nat /\ Cardinality(S) <= Len(l)
  BY <1>1, <1>2, FS_Subset, FS_CardinalityType
<1> QED BY <1>1, <1>3 DEF S

\* eloop_register_timeout finds the place of a timeout: behind those that are due no later.
LEMMA PlaceFound ==
    ASSUME NEW l \in Seq(Entries), Sorted(l), NEW d \in 0..MaxDelay,
           NEW n, n = Cardinality({i \in DOMAIN l : l[i].left <= d})
    PROVE  /\ n \in 0..Len(l)
           /\ n > 0 => l[n].left <= d
           /\ n < Len(l) => d <= l[n + 1].left
<1> DEFINE S == {i \in DOMAIN l : l[i].left <= d}
<1>1. DOMAIN l = 1..Len(l) /\ Len(l) \in Nat /\ \A i \in 1..Len(l) : l[i].left \in 0..MaxDelay
  <2>1. \A i \in 1..Len(l) : l[i] \in Entries
    OBVIOUS
  <2> QED BY <2>1 DEF Entries
<1>2. S \subseteq 1..Len(l) /\ \A i, j \in 1..Len(l) : j \in S /\ i < j => i \in S
  <2>1. MaxDelay \in Nat
    BY FreertosAssumption
  <2>2. ASSUME NEW i \in 1..Len(l), NEW j \in 1..Len(l), j \in S, i < j PROVE i \in S
    <3>1. l[i].left <= l[j].left /\ l[j].left <= d
      BY <1>1, <2>2 DEF Sorted
    <3>2. l[i].left \in Int /\ l[j].left \in Int /\ d \in Int
      BY <1>1, <2>1
    <3>3. l[i].left <= d
      BY <3>1, <3>2
    <3> QED BY <1>1, <3>3
  <2> QED BY <1>1, <2>2
<1>3. \A k \in Nat : IsFiniteSet(1..k) /\ Cardinality(1..k) = k
  BY FS_Interval
<1>4. IsFiniteSet(S) /\ n \in Nat /\ n <= Len(l)
  BY <1>1, <1>2, <1>3, FS_Subset, FS_CardinalityType
<1>5. ASSUME n > 0, n \notin S PROVE FALSE
  <2> HIDE DEF S
  <2>1. ASSUME NEW i \in S PROVE i \in 1..n-1
    <3>1. i \in 1..Len(l) /\ i # n /\ n \in 1..Len(l)
      BY <1>1, <1>2, <1>4, <1>5
    <3>2. ~(n < i)
      BY <1>2, <1>5, <3>1
    <3> QED BY <1>1, <3>1, <3>2
  <2>2. n - 1 \in Nat /\ S \subseteq 1..n-1
    BY <1>4, <1>5, <2>1
  <2>3. Cardinality(S) <= Cardinality(1..n-1)
    BY <1>3, <2>2, FS_Subset
  <2>4. Cardinality(1..n-1) = n - 1 /\ Cardinality(S) = n
    BY <1>3, <2>2 DEF S
  <2> QED BY <1>4, <2>3, <2>4
<1>6. ASSUME n < Len(l), n + 1 \in S PROVE FALSE
  <2> HIDE DEF S
  <2>1. ASSUME NEW i \in 1..n+1 PROVE i \in S
    <3>1. i \in 1..Len(l) /\ n + 1 \in 1..Len(l) /\ (i = n + 1 \/ i < n + 1)
      BY <1>1, <1>4, <1>6
    <3> QED BY <1>2, <1>6, <3>1
  <2>2. Cardinality(1..n+1) <= Cardinality(S)
    BY <1>4, <2>1, FS_Subset
  <2>3. Cardinality(1..n+1) = n + 1 /\ Cardinality(S) = n
    BY <1>3, <1>4 DEF S
  <2> QED BY <1>4, <2>2, <2>3
<1>7. n < Len(l) => n + 1 \in DOMAIN l /\ ~(l[n + 1].left <= d)
  BY <1>1, <1>4, <1>6
<1> QED BY <1>1, <1>4, <1>5, <1>7, FreertosAssumption

-----------------------------------------------------------------------------
(* Who holds the mutex, and where the threads are                           *)

Inserts(t) == t # "stop" /\ pc[t] \in {"insert", "notify"}

Placed ==
    /\ pc = [t \in Threads |-> pc[t]]
    /\ link = [t \in Threads |-> link[t]]
    /\ pc["task"] \in TaskPlaces
    /\ pc["stop"] \in StopPlaces
    /\ \A c \in Callers : pc[c] \in CallPlaces

\* A caller is inside the supplicant, and the task in the handler of a timeout, only
\* with the mutex.
Locked ==
    /\ mutex \in Callers \cup {"task", None}
    /\ \A c \in Callers : pc[c] # "idle" <=> mutex = c
    /\ mutex = "task" => pc["task"] \in TaskHolds
    /\ pc["task"] \in {"handler", "unlock"} => mutex = "task"

Linked == \A t \in Threads : IF Inserts(t) THEN link[t] \in Links ELSE link[t] = None

\* No caller is in the supplicant before it is ready; a timeout that runs, and
\* wpas_periodic while it registers itself, hold the mutex.
Lifecycle ==
    /\ pc["task"] \in {"init", "ready"} => sem = 0 /\ \A c \in Callers : pc[c] \in {"idle", "wait"}
    /\ fired # None => mutex = "task"
    /\ pc["task"] = "handler" => fired # None
    /\ pc["task"] = "insert" /\ link["task"].id = "PERIODIC" => mutex = "task"

Control == Placed /\ Locked /\ Linked /\ Lifecycle

\* A timeout that is being inserted still has its place.
PlacesHold ==
    \A t \in Threads : Inserts(t) /\ pc[t] = "insert" =>
        /\ link[t].id # fired
        /\ link[t].id \notin InList(list)
        /\ \E n \in 0..Len(list) : Place(list, link[t], n)

\* wpas_periodic is in the list, running, or being inserted, while the event loop runs.
PeriodicKept ==
    \/ pc["task"] \in {"init", "drain", "free", "exit", "returned"}
    \/ pc["task"] = "handler" /\ fired = "PERIODIC"
    \/ pc["task"] = "insert" /\ link["task"].id = "PERIODIC"
    \/ "PERIODIC" \in InList(list)

Listed == list \in Seq(Entries)

ListRules ==
    /\ list \in Seq(Entries)
    /\ Sorted(list)
    /\ fired \notin InList(list)
    /\ PlacesHold
    /\ PeriodicKept

Values ==
    /\ sleep \in 0..MaxDelay
    /\ note \subseteq {"DUMMY", "EVENT"} /\ flags \subseteq {"DUMMY", "EVENT"}
    /\ posted \in Nat /\ taken \in Nat /\ taken <= posted /\ posted - taken <= WS_NUM_MESSAGES
    /\ sem \in {0, 1}

\* Only one registration is half done.
Apart == \A c \in Callers : ~(pc[c] = "insert" /\ pc["task"] = "insert")

\* What keeps the task from sleeping past the first timeout.
Woken == "DUMMY" \in flags \/ \E c \in Callers : pc[c] = "notify" /\ Wakes(link[c])
Awake == pc["task"] = "wait" /\ list # <<>> => Head(list).left >= sleep \/ Woken

\* The timeouts as they are until an event handler and a caller cross.
Sound == Apart /\ ListRules /\ Awake /\ lost = {}

TimeoutInv == Control /\ Listed /\ Values /\ (raced \/ Sound)

LEMMA ThreadsDiffer ==
    /\ "task" \in Threads /\ "stop" \in Threads /\ Callers \subseteq Threads
    /\ "task" \notin Callers /\ "stop" \notin Callers /\ None \notin Callers
    /\ None # "task" /\ None # "stop" /\ None \notin Timeouts /\ None \notin Links
  BY FreertosAssumption DEF Threads, Timeouts, Links

\* Where the threads are after one of them has moved.
LEMMA Moved ==
    ASSUME Placed, NEW t \in Threads, NEW there, Goto(t, there)
    PROVE  /\ pc' = [u \in Threads |-> pc'[u]]
           /\ \A u \in Threads : pc'[u] = IF u = t THEN there ELSE pc[u]
  BY DEF Placed, Goto

\* The task moves.
LEMMA TaskGoes ==
    ASSUME Control, NEW there \in TaskPlaces, Goto("task", there),
           mutex' = mutex \/ {mutex, mutex'} = {None, "task"},
           mutex' = "task" => there \in TaskHolds,
           there \in {"handler", "unlock"} => mutex' = "task",
           link' = [t \in Threads |-> link'[t]],
           \A t \in Threads : t # "task" => link'[t] = link[t],
           IF there \in {"insert", "notify"} THEN link'["task"] \in Links ELSE link'["task"] = None,
           there \in {"init", "ready"} => pc["task"] = "init" /\ sem' = sem,
           fired' # None => mutex' = "task",
           there = "handler" => fired' # None,
           there = "insert" /\ link'["task"].id = "PERIODIC" => mutex' = "task"
    PROVE  Control'
<1>1. /\ pc' = [u \in Threads |-> pc'[u]]
      /\ pc'["task"] = there /\ pc'["stop"] = pc["stop"]
      /\ \A c \in Callers : pc'[c] = pc[c]
      /\ \A u \in Threads : u # "task" => pc'[u] = pc[u]
  BY Moved, ThreadsDiffer DEF Control
<1>2. Placed'
  BY <1>1 DEF Control, Placed
<1>3. Locked'
  BY <1>1, ThreadsDiffer DEF Control, Locked
<1>4. Linked'
  BY <1>1, ThreadsDiffer DEF Control, Linked, Inserts
<1>5. Lifecycle'
  BY <1>1 DEF Control, Lifecycle
<1> QED BY <1>2, <1>3, <1>4, <1>5 DEF Control

\* A caller moves.
LEMMA CallerGoes ==
    ASSUME Control, NEW c \in Callers, NEW there \in CallPlaces, Goto(c, there),
           mutex' = mutex \/ {mutex, mutex'} = {None, c},
           there # "idle" <=> mutex' = c,
           link' = [t \in Threads |-> link'[t]],
           \A t \in Threads : t # c => link'[t] = link[t],
           IF there \in {"insert", "notify"} THEN link'[c] \in Links ELSE link'[c] = None,
           pc["task"] \in {"init", "ready"} => sem' = sem /\ there \in {"idle", "wait"},
           fired' = fired
    PROVE  Control'
<1>1. /\ pc' = [u \in Threads |-> pc'[u]]
      /\ pc'["task"] = pc["task"] /\ pc'["stop"] = pc["stop"]
      /\ \A d \in Callers : pc'[d] = IF d = c THEN there ELSE pc[d]
      /\ \A u \in Threads : pc'[u] = IF u = c THEN there ELSE pc[u]
  BY Moved, ThreadsDiffer DEF Control
<1>2. Placed'
  BY <1>1 DEF Control, Placed
<1>3. Locked'
  BY <1>1, ThreadsDiffer DEF Control, Locked
<1>4. Linked'
  BY <1>1, ThreadsDiffer DEF Control, Linked, Inserts
<1>5. Lifecycle'
  BY <1>1, ThreadsDiffer DEF Control, Lifecycle
<1> QED BY <1>2, <1>3, <1>4, <1>5 DEF Control

\* A registration: the thread has found the place, which is one of the list.
LEMMA RegisterLinks ==
    ASSUME Control, Listed, NEW t \in Threads, NEW id \in Ids, NEW d \in 0..MaxDelay,
           Register(t, id, d)
    PROVE  /\ link' = [u \in Threads |-> link'[u]]
           /\ \A u \in Threads : u # t => link'[u] = link[u]
           /\ link'[t] \in Links
           /\ link'[t].id \in Ids /\ link'[t].id # fired /\ link'[t].id \notin InList(list)
           /\ ListRules => \E n \in 0..Len(list) : Place(list, link'[t], n)
<1>1. PICK n : n = Cardinality({i \in DOMAIN list : list[i].left <= d})
  OBVIOUS
<1>2. n \in 0..Len(list)
  BY <1>1, CountIs DEF Listed
<1> DEFINE e == [id |-> id, left |-> d, now |-> d = 0,
                 prev |-> IF n = 0 THEN None ELSE list[n].id,
                 next |-> IF n = Len(list) THEN None ELSE list[n + 1].id]
<1>3. link' = [link EXCEPT ![t] = e]
  BY <1>1 DEF Register
<1>4. id \in Timeouts /\ id # fired /\ id \notin InList(list)
  BY DEF Register, Free, Timeouts
<1>5. \A j \in 1..Len(list) : list[j].id \in Timeouts
  <2>1. \A j \in 1..Len(list) : list[j] \in Entries
    BY DEF Listed
  <2> QED BY <2>1 DEF Entries
<1>6. Len(list) \in Nat
  BY DEF Listed
<1>7. e.prev \in Timeouts \cup {None} /\ e.next \in Timeouts \cup {None}
  BY <1>2, <1>5, <1>6
<1>8. e \in Links
  BY <1>4, <1>7 DEF Links
<1>9. ASSUME ListRules PROVE Place(list, e, n)
  <2>1. /\ n > 0 => list[n].left <= d
        /\ n < Len(list) => d <= list[n + 1].left
    BY <1>1, <1>9, PlaceFound DEF ListRules
  <2> QED BY <2>1 DEF Place
<1> HIDE DEF e
<1>10. link'[t] = e /\ link' = [u \in Threads |-> link'[u]] /\ \A u \in Threads : u # t => link'[u] = link[u]
  BY <1>3 DEF Control, Placed
<1>11. e.id = id
  BY DEF e
<1> QED BY <1>2, <1>4, <1>8, <1>9, <1>10, <1>11

\* A thread that operates under the mutex keeps it.
LEMMA AfterOpIs ==
    ASSUME Control, NEW t \in Threads
    PROVE  /\ t \in Callers /\ pc[t] # "idle" => AfterOp(t) = "unlock"
           /\ t = "task" /\ mutex = "task" => AfterOp(t) = "unlock"
           /\ t = "task" /\ mutex # "task" => AfterOp(t) = "events"
  BY DEF Control, Locked, AfterOp

\* The moves of the task.
LEMMA TaskControl ==
    ASSUME Control, Listed, Task \/ TaskLock
    PROVE  Control'
<1> USE DEF TaskPlaces, TaskHolds
<1>0. /\ link = [t \in Threads |-> link[t]]
      /\ pc["task"] \in {"insert", "notify"} => link["task"] \in Links
      /\ pc["task"] \notin {"insert", "notify"} => link["task"] = None
      /\ mutex = "task" => pc["task"] \in TaskHolds
      /\ pc["task"] \in {"handler", "unlock"} => mutex = "task"
      /\ fired # None => mutex = "task"
      /\ pc["task"] = "handler" => fired # None
  BY ThreadsDiffer DEF Control, Placed, Linked, Inserts, Locked, Lifecycle
<1>1. CASE TaskInit
  BY <1>0, <1>1, TaskGoes DEF TaskInit, Move
<1>2. CASE TaskInitFails
  BY <1>0, <1>2, TaskGoes DEF TaskInitFails, Move
<1>3. CASE TaskReady
  BY <1>0, <1>3, TaskGoes DEF TaskReady, Move
<1>4. CASE TaskLoop
  BY <1>0, <1>4, TaskGoes DEF TaskLoop
<1>5. CASE TaskWait
  BY <1>0, <1>5, TaskGoes DEF TaskWait, Move
<1>6. CASE TaskTimers
  BY <1>0, <1>6, TaskGoes DEF TaskTimers
<1>7. CASE TaskLock
  <2>2. Head(list) \in Entries
    BY <1>7 DEF TaskLock, Listed
  <2>3. Head(list).id # None
    BY <2>2, ThreadsDiffer DEF Entries
  <2> QED BY <1>0, <1>7, <2>3, TaskGoes DEF TaskLock, Move
<1>8. CASE TaskHandler \/ TaskEvent
  <2>0. pc["task"] \in {"handler", "event"} /\ Operate("task")
    BY <1>8 DEF TaskHandler, TaskEvent
  <2>1. AfterOp("task") = IF mutex = "task" THEN "unlock" ELSE "events"
    BY DEF AfterOp
  <2>2. ASSUME NEW id \in Ids, NEW d \in 0..MaxDelay, Register("task", id, d) PROVE Control'
    <3>1. Goto("task", "insert") /\ fired' = fired /\ mutex' = mutex
      BY <2>0, <2>2 DEF Register, Operate
    <3>2. /\ link' = [u \in Threads |-> link'[u]]
          /\ \A u \in Threads : u # "task" => link'[u] = link[u]
          /\ link'["task"] \in Links /\ link'["task"].id # "PERIODIC"
      BY <2>2, RegisterLinks, ThreadsDiffer, FreertosAssumption
    <3> QED BY <1>0, <2>0, <3>1, <3>2, TaskGoes
  <2>3. CASE Goto("task", AfterOp("task")) /\ UNCHANGED <<link, fired>>
    BY <1>0, <2>0, <2>1, <2>3, TaskGoes DEF Operate
  <2> QED BY <2>0, <2>2, <2>3 DEF Operate, Cancel
<1>10. CASE TaskPeriodic
  <2> DEFINE e == [id |-> "PERIODIC", left |-> MaxDelay, now |-> FALSE,
                   prev |-> IF Len(list) = 0 THEN None ELSE list[Len(list)].id, next |-> None]
  <2>1. link' = [link EXCEPT !["task"] = e]
    BY <1>10 DEF TaskPeriodic
  <2>2. e.prev \in Timeouts \cup {None}
    <3>1. Len(list) \in Nat /\ \A j \in 1..Len(list) : list[j] \in Entries
      BY DEF Listed
    <3> QED BY <3>1 DEF Entries
  <2>3. e \in Links
    BY <2>2, FreertosAssumption DEF Links, Timeouts
  <2> HIDE DEF e
  <2>4. /\ link' = [u \in Threads |-> link'[u]]
        /\ \A u \in Threads : u # "task" => link'[u] = link[u]
        /\ link'["task"] \in Links
    BY <1>0, <2>1, <2>3, ThreadsDiffer
  <2> QED BY <1>0, <1>10, <2>4, TaskGoes DEF TaskPeriodic
<1>11. CASE TaskUnlock
  BY <1>0, <1>11, TaskGoes, ThreadsDiffer DEF TaskUnlock, Unlock, Move
<1>12. CASE TaskEvents
  BY <1>0, <1>12, TaskGoes DEF TaskEvents
<1>13. CASE TaskDeinit
  BY <1>0, <1>13, TaskGoes DEF TaskDeinit, Move
<1>14. CASE TaskDrain \/ TaskFree
  BY <1>0, <1>14, TaskGoes DEF TaskDrain, TaskFree, Move
<1>15. CASE TaskExit
  BY <1>0, <1>15, TaskGoes DEF TaskExit, Move
<1>16. CASE Insert("task")
  BY <1>0, <1>16, TaskGoes DEF Insert, Move, Control, Lifecycle
<1>17. CASE Notify("task")
  <2>1. AfterOp("task") = IF mutex = "task" THEN "unlock" ELSE "events"
    BY DEF AfterOp
  <2>2. /\ link' = [u \in Threads |-> link'[u]]
        /\ \A u \in Threads : u # "task" => link'[u] = link[u]
        /\ link'["task"] = None
    BY <1>0, <1>17, ThreadsDiffer DEF Notify
  <2> QED BY <1>0, <1>17, <2>1, <2>2, TaskGoes DEF Notify
<1> QED BY <1>1, <1>2, <1>3, <1>4, <1>5, <1>6, <1>7, <1>8, <1>10, <1>11, <1>12,
           <1>13, <1>14, <1>15, <1>16, <1>17 DEF Task

\* The moves of a caller.
LEMMA CallerControl ==
    ASSUME Control, Listed, Values, NEW c \in Callers, CallLock(c) \/ Caller(c)
    PROVE  Control'
<1> USE DEF CallPlaces
<1>0. /\ link = [t \in Threads |-> link[t]]
      /\ pc[c] \in {"insert", "notify"} => link[c] \in Links
      /\ pc[c] \notin {"insert", "notify"} => link[c] = None
      /\ pc[c] # "idle" <=> mutex = c
      /\ pc["task"] \in {"init", "ready"} => sem = 0 /\ pc[c] \in {"idle", "wait"}
      /\ c \in Threads /\ c # "stop"
  BY ThreadsDiffer DEF Control, Placed, Linked, Inserts, Locked, Lifecycle
<1>1. CASE CallLock(c)
  BY <1>0, <1>1, CallerGoes DEF CallLock, Move
<1>2. CASE CallWait(c)
  BY <1>0, <1>2, CallerGoes DEF CallWait, Move, SemaphoreWait
<1>3. CASE CallPost(c)
  BY <1>0, <1>3, CallerGoes DEF CallPost, Move
<1>4. CASE CallOperates(c)
  <2>1. AfterOp(c) = "unlock"
    BY <1>0, <1>4, AfterOpIs DEF CallOperates
  <2>2. ASSUME NEW id \in Ids, NEW d \in 0..MaxDelay, Register(c, id, d) PROVE Control'
    <3>1. Goto(c, "insert") /\ fired' = fired /\ mutex' = mutex
      BY <1>4, <2>2 DEF Register, CallOperates, Operate
    <3>2. /\ link' = [u \in Threads |-> link'[u]]
          /\ \A u \in Threads : u # c => link'[u] = link[u]
          /\ link'[c] \in Links
      BY <1>0, <2>2, RegisterLinks
    <3> QED BY <1>0, <1>4, <3>1, <3>2, CallerGoes DEF CallOperates
  <2>3. CASE Goto(c, AfterOp(c)) /\ UNCHANGED <<link, fired>>
    BY <1>0, <1>4, <2>1, <2>3, CallerGoes DEF CallOperates, Operate
  <2> QED BY <1>4, <2>2, <2>3 DEF CallOperates, Operate, Cancel
<1>5. CASE Insert(c)
  BY <1>0, <1>5, CallerGoes DEF Insert, Move
<1>6. CASE Notify(c)
  <2>1. AfterOp(c) = "unlock"
    BY <1>0, <1>6, AfterOpIs DEF Notify
  <2>2. /\ link' = [u \in Threads |-> link'[u]]
        /\ \A u \in Threads : u # c => link'[u] = link[u]
        /\ link'[c] = None
    BY <1>0, <1>6 DEF Notify
  <2> QED BY <1>0, <1>6, <2>1, <2>2, CallerGoes DEF Notify
<1>7. CASE CallUnlock(c)
  BY <1>0, <1>7, CallerGoes, ThreadsDiffer DEF CallUnlock, Unlock, Move
<1> QED BY <1>1, <1>2, <1>3, <1>4, <1>5, <1>6, <1>7 DEF Caller

\* stop_wpa_supplicant moves.
LEMMA StopControl ==
    ASSUME Control, Stop \/ Stopping
    PROVE  Control'
<1>1. /\ pc' = [u \in Threads |-> pc'[u]]
      /\ \A u \in Threads : u # "stop" => pc'[u] = pc[u]
      /\ pc'["stop"] \in StopPlaces
      /\ UNCHANGED <<link, mutex, fired>>
  BY ThreadsDiffer DEF Stop, Stopping, StopWait, StopTerminate, StopNotify, Move, Goto, Control, Placed,
                       StopPlaces
<1>2. pc'["task"] = pc["task"] /\ \A c \in Callers : pc'[c] = pc[c]
  BY <1>1, ThreadsDiffer
<1>3. pc["task"] \in {"init", "ready"} => sem' = 0
  BY DEF Stop, Stopping, StopWait, StopTerminate, StopNotify, SemaphoreWait, Control, Lifecycle
<1>4. Placed'
  BY <1>1, <1>2 DEF Control, Placed
<1>5. Locked'
  BY <1>1, <1>2 DEF Control, Locked
<1>6. Linked'
  BY <1>1 DEF Control, Linked, Inserts
<1>7. Lifecycle'
  BY <1>1, <1>2, <1>3 DEF Control, Lifecycle
<1> QED BY <1>4, <1>5, <1>6, <1>7 DEF Control

-----------------------------------------------------------------------------
(* The list                                                                 *)

\* Steps that leave the list alone, and in which no thread begins to insert.
LEMMA ListUntouched ==
    ASSUME Control, ListRules, UNCHANGED list, fired' \in {fired, None},
           \A t \in Threads : Inserts(t)' /\ pc'[t] = "insert" =>
               Inserts(t) /\ pc[t] = "insert" /\ link'[t] = link[t],
           PeriodicKept'
    PROVE  ListRules'
<1>1. list' \in Seq(Entries) /\ Sorted(list')
  BY DEF ListRules
<1>2. \A j \in 1..Len(list) : list[j].id \in Timeouts
  <2>1. \A j \in 1..Len(list) : list[j] \in Entries
    BY DEF ListRules
  <2> QED BY <2>1 DEF Entries
<1>3. DOMAIN list = 1..Len(list)
  BY DEF ListRules
<1>4. None \notin InList(list)
  BY <1>2, <1>3, ThreadsDiffer DEF InList
<1>5. fired' \notin InList(list)
  BY <1>4 DEF ListRules
<1>6. PlacesHold'
  <2> SUFFICES ASSUME NEW t \in Threads, Inserts(t)', pc'[t] = "insert"
               PROVE  /\ link'[t].id # fired'
                      /\ link'[t].id \notin InList(list)
                      /\ \E n \in 0..Len(list) : Place(list, link'[t], n)
    BY DEF PlacesHold
  <2>1. /\ link'[t] = link[t]
        /\ link[t].id # fired
        /\ link[t].id \notin InList(list)
        /\ \E n \in 0..Len(list) : Place(list, link[t], n)
    BY DEF ListRules, PlacesHold
  <2>2. link[t].id # None
    BY ThreadsDiffer DEF Control, Linked, Links
  <2> QED BY <2>1, <2>2
<1> QED BY <1>1, <1>5, <1>6 DEF ListRules

\* What a thread that inserts a timeout has found.
LEMMA InsertsLinks ==
    ASSUME Control, NEW t \in Threads, Inserts(t)
    PROVE  link[t] \in Links
  BY DEF Control, Linked

\* A thread that inserts a timeout is the only one.
LEMMA InsertsAlone ==
    ASSUME Control, Apart, NEW t \in Threads, NEW u \in Threads, Inserts(t), Inserts(u),
           pc[t] = "insert", pc[u] = "insert"
    PROVE  t = u
<1>1. t \in Callers \cup {"task"} /\ u \in Callers \cup {"task"}
  BY DEF Threads, Inserts
<1>2. t \in Callers => mutex = t
  BY DEF Control, Locked
<1>3. u \in Callers => mutex = u
  BY DEF Control, Locked
<1> QED BY <1>1, <1>2, <1>3 DEF Apart

\* A thread that comes to the list and crosses no other finds none inserting.
LEMMA NobodyElse ==
    ASSUME Control, Apart, NEW t \in Threads, ~Overlaps(t),
           t \in Callers \/ (t = "task" /\ pc["task"] \in {"handler", "event", "deinit"}),
           t \in Callers => pc[t] # "idle"
    PROVE  \A u \in Threads : u # t /\ Inserts(u) => pc[u] # "insert"
<1> SUFFICES ASSUME NEW u \in Threads, u # t, Inserts(u), pc[u] = "insert" PROVE FALSE
  OBVIOUS
<1>1. u \in Callers \cup {"task"}
  BY DEF Threads, Inserts
<1>2. CASE t = "task"
  <2>1. u \in Callers /\ mutex = u
    BY <1>1, <1>2 DEF Control, Locked
  <2>2. mutex # "task"
    BY <2>1, ThreadsDiffer
  <2>3. pc["task"] \in {"event", "deinit"}
    BY <1>2, <2>2, ThreadsDiffer DEF Control, Locked
  <2> QED BY <1>2, <2>1, <2>3 DEF Overlaps, Unlocked
<1>3. CASE t \in Callers
  <2>1. mutex = t /\ mutex # "task" /\ t # "task"
    BY <1>3, ThreadsDiffer DEF Control, Locked
  <2>2. u = "task"
    BY <1>1, <2>1 DEF Control, Locked
  <2>3. fired = None /\ link["task"].id # "PERIODIC"
    BY <2>1, <2>2 DEF Control, Lifecycle
  <2> QED BY <2>1, <2>2, <2>3 DEF Overlaps, Unlocked
<1> QED BY <1>2, <1>3

\* A thread has found the place of a timeout, which it will link next.
LEMMA RegisterList ==
    ASSUME Control, ListRules, Apart, NEW t \in Threads,
           NEW id \in Ids, NEW d \in 0..MaxDelay, Register(t, id, d), ~raced',
           t \in Callers \/ t = "task", t \in Callers => pc[t] # "idle",
           t = "task" => pc["task"] \in {"handler", "event"} /\ fired # "PERIODIC"
    PROVE  ListRules' /\ Apart'
<1>1. UNCHANGED <<list, fired>> /\ Goto(t, "insert") /\ ~Overlaps(t)
  BY DEF Register
<1>2. \A u \in Threads : pc'[u] = IF u = t THEN "insert" ELSE pc[u]
  BY <1>1, Moved DEF Control
<1>3. /\ \A u \in Threads : u # t => link'[u] = link[u]
      /\ link'[t].id # fired /\ link'[t].id \notin InList(list)
      /\ \E n \in 0..Len(list) : Place(list, link'[t], n)
  BY RegisterLinks DEF ListRules, Listed
<1>4. PlacesHold'
  <2> SUFFICES ASSUME NEW u \in Threads, Inserts(u)', pc'[u] = "insert"
               PROVE  /\ link'[u].id # fired
                      /\ link'[u].id \notin InList(list)
                      /\ \E n \in 0..Len(list) : Place(list, link'[u], n)
    BY <1>1 DEF PlacesHold
  <2>1. CASE u = t
    BY <1>3, <2>1
  <2>2. CASE u # t
    BY <1>2, <1>3, <2>2 DEF ListRules, PlacesHold, Inserts
  <2> QED BY <2>1, <2>2
<1>5. PeriodicKept'
  <2>1. CASE t = "task"
    BY <1>1, <2>1 DEF ListRules, PeriodicKept
  <2>2. CASE t # "task"
    BY <1>1, <1>2, <1>3, <2>2, ThreadsDiffer DEF ListRules, PeriodicKept
  <2> QED BY <2>1, <2>2
<1>6. \A u \in Threads : u # t /\ Inserts(u) => pc[u] # "insert"
  BY <1>1, NobodyElse
<1>7. Apart'
  <2> SUFFICES ASSUME NEW c \in Callers, pc'[c] = "insert", pc'["task"] = "insert" PROVE FALSE
    BY DEF Apart
  <2> QED BY <1>2, <1>6, ThreadsDiffer DEF Inserts
<1> QED BY <1>1, <1>4, <1>5, <1>7 DEF ListRules

\* Linking: nobody has touched the list since the place was found.
LEMMA InsertList ==
    ASSUME Control, ListRules, Apart, lost = {}, NEW t \in Threads, t # "stop", Insert(t)
    PROVE  /\ ListRules' /\ Apart' /\ lost' = {}
           /\ \E n \in 0..Len(list) : /\ Place(list, link[t], n)
                                      /\ Spliced(list, n, [id |-> link[t].id, left |-> link[t].left], list')
<1>1. pc[t] = "insert" /\ Goto(t, "notify") /\ UNCHANGED <<fired, link>>
  BY DEF Insert, Move
<1>2. Inserts(t) /\ link[t] \in Links
  BY <1>1, InsertsLinks DEF Inserts
<1>3. PICK n \in 0..Len(list) : Place(list, link[t], n)
  BY <1>1, <1>2 DEF ListRules, PlacesHold
<1>4. link[t].id # fired /\ link[t].id \notin InList(list)
  BY <1>1, <1>2 DEF ListRules, PlacesHold
<1>5. list \in Seq(Entries) /\ Sorted(list)
  BY DEF ListRules
<1>6. /\ ~Dangles(link[t].prev) /\ ~Dangles(link[t].next)
      /\ Spliced(list, n, [id |-> link[t].id, left |-> link[t].left], Inserted(link[t]))
  BY <1>2, <1>3, <1>5, InsertedIs
<1>7. list' = Inserted(link[t]) /\ lost' = lost \cup (InList(list) \ InList(list'))
  BY <1>6 DEF Insert
<1>8. Sorted(list') /\ InList(list') = InList(list) \cup {link[t].id}
  BY <1>2, <1>3, <1>4, <1>5, <1>6, <1>7, SplicedSorted
<1>9. lost' = {}
  BY <1>7, <1>8
<1>10. list' \in Seq(Entries)
  BY <1>6, <1>7 DEF Spliced
<1>11. \A u \in Threads : pc'[u] = IF u = t THEN "notify" ELSE pc[u]
  BY <1>1, Moved DEF Control
<1>12. PlacesHold'
  <2>1. ASSUME NEW u \in Threads, Inserts(u)', pc'[u] = "insert" PROVE FALSE
    <3>1. u # t /\ Inserts(u)
      BY <1>11, <2>1 DEF Inserts
    <3> QED BY <1>1, <1>2, <1>11, <2>1, <3>1, InsertsAlone
  <2> QED BY <2>1 DEF PlacesHold
<1>13. PeriodicKept'
  <2>1. CASE t = "task"
    BY <1>1, <1>8, <2>1 DEF ListRules, PeriodicKept
  <2>2. CASE t # "task"
    BY <1>1, <1>8, <1>11, <2>2, ThreadsDiffer DEF ListRules, PeriodicKept
  <2> QED BY <2>1, <2>2
<1>14. fired' \notin InList(list')
  BY <1>1, <1>4, <1>8 DEF ListRules
<1>15. Apart'
  BY <1>11, ThreadsDiffer DEF Apart
<1> QED BY <1>3, <1>6, <1>7, <1>8, <1>9, <1>10, <1>12, <1>13, <1>14, <1>15 DEF ListRules

\* Cancelling, by a thread that crosses no other.
LEMMA CancelList ==
    ASSUME Control, ListRules, Apart, NEW t \in Threads, NEW id \in Ids, Cancel(t, id), ~raced',
           t \in Callers \/ t = "task", t \in Callers => pc[t] # "idle",
           t = "task" => pc["task"] \in {"handler", "event"} /\ fired # "PERIODIC"
    PROVE  /\ ListRules' /\ Apart'
           /\ \E n \in 1..Len(list) : Without(list, n, list')
<1>1. list \in Seq(Entries) /\ Sorted(list) /\ DOMAIN list = 1..Len(list)
  BY DEF ListRules
<1>2. PICK n \in 1..Len(list) : list[n].id = id
  BY <1>1 DEF Cancel, InList
<1>3. list' = SubSeq(list, 1, n - 1) \o SubSeq(list, n + 1, Len(list))
  <2>1. Index(id) = n
    BY <1>1, <1>2, IndexIs
  <2> QED BY <2>1 DEF Cancel
<1>4. Without(list, n, list')
  BY <1>1, <1>3, CancelledIs
<1>5. Sorted(list') /\ InList(list') = InList(list) \ {id}
  BY <1>1, <1>2, <1>4, WithoutSorted
<1>6. list' \in Seq(Entries)
  BY <1>4 DEF Without
<1>7. AfterOp(t) \in {"unlock", "events"} /\ Goto(t, AfterOp(t)) /\ UNCHANGED <<link, fired>> /\ ~Overlaps(t)
  BY DEF Cancel, AfterOp
<1>8. \A u \in Threads : pc'[u] = IF u = t THEN AfterOp(t) ELSE pc[u]
  BY <1>7, Moved DEF Control
<1>9. PlacesHold'
  <2>1. \A u \in Threads : u # t /\ Inserts(u) => pc[u] # "insert"
    BY <1>7, NobodyElse
  <2>2. ASSUME NEW u \in Threads, Inserts(u)', pc'[u] = "insert" PROVE FALSE
    BY <1>7, <1>8, <2>1, <2>2 DEF Inserts
  <2> QED BY <2>2 DEF PlacesHold
<1>10. PeriodicKept'
  <2>1. id # "PERIODIC"
    BY FreertosAssumption
  <2>2. CASE t = "task"
    BY <1>5, <2>1, <2>2 DEF ListRules, PeriodicKept
  <2>3. CASE t # "task"
    BY <1>5, <1>7, <1>8, <2>1, <2>3, ThreadsDiffer DEF ListRules, PeriodicKept
  <2> QED BY <2>2, <2>3
<1>11. fired' \notin InList(list')
  BY <1>5, <1>7 DEF ListRules
<1>12. Apart'
  BY <1>7, <1>8, ThreadsDiffer DEF Apart
<1> QED BY <1>4, <1>5, <1>6, <1>9, <1>10, <1>11, <1>12 DEF ListRules

\* The task takes the first timeout out of the list to run it.
LEMMA LockList ==
    ASSUME Control, ListRules, TaskLock
    PROVE  ListRules'
<1>1. list \in Seq(Entries) /\ Sorted(list) /\ DOMAIN list = 1..Len(list)
  BY DEF ListRules
<1>2. "PERIODIC" \in InList(list)
  BY DEF TaskLock, Move, ListRules, PeriodicKept
<1>3. list # <<>>
  BY <1>2 DEF InList
<1>4. 1 \in 1..Len(list) /\ Head(list) = list[1] /\ Without(list, 1, list')
  BY <1>1, <1>3, TailIs DEF TaskLock
<1>5. Sorted(list') /\ InList(list') = InList(list) \ {fired'}
  BY <1>1, <1>4, WithoutSorted DEF TaskLock
<1>6. list' \in Seq(Entries)
  BY <1>4 DEF Without
<1>7. PlacesHold'
  <2>1. \A u \in Threads : pc'[u] = IF u = "task" THEN "handler" ELSE pc[u]
    BY Moved, ThreadsDiffer DEF TaskLock, Move, Control
  <2>2. ASSUME NEW u \in Threads, Inserts(u)' PROVE FALSE
    <3>1. Inserts(u)
      BY <2>1, <2>2 DEF Inserts
    <3>2. u \in Callers \/ u = "task"
      BY <3>1 DEF Threads, Inserts
    <3>3. u \in Callers => mutex = u
      BY <3>1 DEF Control, Locked, Inserts
    <3> QED BY <3>1, <3>2, <3>3, ThreadsDiffer DEF TaskLock, Move, Inserts
  <2> QED BY <2>2 DEF PlacesHold
<1>8. PeriodicKept'
  <2>1. pc'["task"] = "handler"
    BY Moved, ThreadsDiffer DEF TaskLock, Move, Control
  <2> QED BY <1>2, <1>5, <2>1 DEF PeriodicKept
<1> QED BY <1>5, <1>6, <1>7, <1>8 DEF ListRules

\* wpas_periodic registers itself, behind all others.
LEMMA PeriodicList ==
    ASSUME Control, ListRules, TaskPeriodic
    PROVE  ListRules'
<1>1. list \in Seq(Entries) /\ Len(list) \in Nat /\ \A j \in 1..Len(list) : list[j] \in Entries
  BY DEF ListRules
<1> DEFINE e == [id |-> "PERIODIC", left |-> MaxDelay, now |-> FALSE,
                 prev |-> IF Len(list) = 0 THEN None ELSE list[Len(list)].id, next |-> None]
<1>2. link' = [link EXCEPT !["task"] = e] /\ list' = list /\ fired = "PERIODIC" /\ fired' = None
  BY DEF TaskPeriodic
<1>3. Place(list, e, Len(list))
  <2>1. Len(list) > 0 => list[Len(list)].left \in 0..MaxDelay
    BY <1>1 DEF Entries
  <2> QED BY <1>1, <2>1, FreertosAssumption DEF Place
<1>4. e.id = "PERIODIC"
  OBVIOUS
<1> HIDE DEF e
<1>5. link'["task"] = e /\ \A u \in Threads : u # "task" => link'[u] = link[u]
  BY <1>2, ThreadsDiffer DEF Control, Placed
<1>6. \A u \in Threads : pc'[u] = IF u = "task" THEN "insert" ELSE pc[u]
  BY Moved, ThreadsDiffer DEF TaskPeriodic, Control
<1>7. PlacesHold'
  <2> SUFFICES ASSUME NEW u \in Threads, Inserts(u)', pc'[u] = "insert"
               PROVE  /\ link'[u].id # None
                      /\ link'[u].id \notin InList(list)
                      /\ \E n \in 0..Len(list) : Place(list, link'[u], n)
    BY <1>2 DEF PlacesHold
  <2>1. CASE u = "task"
    BY <1>1, <1>2, <1>3, <1>4, <1>5, <2>1, FreertosAssumption DEF ListRules
  <2>2. CASE u # "task"
    <3>1. u \in Callers /\ pc[u] = "insert"
      BY <1>6, <2>2 DEF Inserts, Threads
    <3>2. mutex = u
      BY <3>1 DEF Control, Locked
    <3>3. mutex = "task"
      BY DEF TaskPeriodic, Control, Locked
    <3> QED BY <2>2, <3>2, <3>3
  <2> QED BY <2>1, <2>2
<1>8. PeriodicKept'
  BY <1>4, <1>5, <1>6, ThreadsDiffer DEF PeriodicKept
<1>9. None \notin InList(list)
  BY <1>1, ThreadsDiffer DEF InList, Entries
<1> QED BY <1>2, <1>7, <1>8, <1>9 DEF ListRules

\* The list is made anew when nobody is at it.
LEMMA FreshList ==
    ASSUME Control, ListRules, TaskInit \/ TaskDeinit, ~raced'
    PROVE  ListRules'
<1>1. list' \in {<<>>, <<[id |-> "PERIODIC", left |-> MaxDelay]>>} /\ UNCHANGED <<link, fired>>
  BY DEF TaskInit, TaskDeinit
<1>2. [id |-> "PERIODIC", left |-> MaxDelay] \in Entries
  BY FreertosAssumption DEF Entries, Timeouts
<1>3. list' \in Seq(Entries) /\ Sorted(list')
  <2>1. list' \in Seq(Entries) /\ \A i, j \in DOMAIN list' : i = j
    <3>1. CASE list' = <<>>
      BY <3>1
    <3>2. CASE list' = <<[id |-> "PERIODIC", left |-> MaxDelay]>>
      <4>1. DOMAIN list' = 1..1
        BY <3>2
      <4> QED BY <1>2, <3>2, <4>1
    <3> QED BY <1>1, <3>1, <3>2
  <2>2. \A i, j \in DOMAIN list' : ~(i < j)
    BY <2>1
  <2> QED BY <2>1, <2>2 DEF Sorted
<1>4. fired = None
  BY DEF TaskInit, TaskDeinit, Move, Control, Locked, Lifecycle, TaskHolds
<1>5. fired' \notin InList(list')
  BY <1>1, <1>4, FreertosAssumption DEF InList
<1>6. \A u \in Threads : pc'[u] = IF u = "task" THEN pc'["task"] ELSE pc[u]
  BY Moved, ThreadsDiffer DEF TaskInit, TaskDeinit, Move, Control
<1>7. \A c \in Callers : pc[c] # "insert"
  BY DEF TaskInit, TaskDeinit, Move, Control, Lifecycle, Overlaps, Unlocked
<1>8. pc'["task"] \in {"ready", "drain"}
  BY Moved, ThreadsDiffer DEF TaskInit, TaskDeinit, Move, Control
<1>9. PlacesHold'
  BY <1>6, <1>7, <1>8 DEF PlacesHold, Inserts, Threads
<1>10. PeriodicKept'
  <2>1. CASE TaskInit
    <3>1. list' = <<[id |-> "PERIODIC", left |-> MaxDelay]>>
      BY <2>1 DEF TaskInit
    <3>2. 1 \in DOMAIN list' /\ list'[1].id = "PERIODIC"
      BY <3>1
    <3> QED BY <3>2 DEF PeriodicKept, InList
  <2>2. CASE TaskDeinit
    BY <2>2, Moved, ThreadsDiffer DEF TaskDeinit, Move, Control, PeriodicKept
  <2> QED BY <2>1, <2>2
<1> QED BY <1>3, <1>5, <1>9, <1>10 DEF ListRules

\* Time passes for all timeouts alike.
LEMMA LessIs ==
    /\ \A n \in 0..MaxDelay : Less(n) \in 0..MaxDelay
    /\ \A m, n \in 0..MaxDelay : m <= n => Less(m) <= Less(n)
  BY FreertosAssumption DEF Less

LEMMA TickIs ==
    ASSUME Control, Listed, Tick
    PROVE  /\ list' \in Seq(Entries) /\ Len(list') = Len(list) /\ Len(list) \in Nat
           /\ \A i \in 1..Len(list) : /\ list[i] \in Entries /\ list'[i] \in Entries
                                      /\ list'[i].id = list[i].id /\ list'[i].left = Less(list[i].left)
           /\ InList(list') = InList(list)
           /\ link' = [t \in Threads |-> link'[t]]
           /\ \A t \in Threads : link[t] = None => link'[t] = None
           /\ \A t \in Threads : link[t] \in Links =>
                 /\ link'[t] \in Links /\ link'[t].left = Less(link[t].left)
                 /\ link'[t].id = link[t].id /\ link'[t].now = link[t].now
                 /\ link'[t].prev = link[t].prev /\ link'[t].next = link[t].next
<1>1. DOMAIN list = 1..Len(list) /\ Len(list) \in Nat /\ \A i \in 1..Len(list) : list[i] \in Entries
  BY DEF Listed
<1>2. list' = [i \in 1..Len(list) |-> [list[i] EXCEPT !.left = Less(@)]]
  BY <1>1 DEF Tick
<1>3. ASSUME NEW i \in 1..Len(list)
      PROVE  /\ list'[i] \in Entries /\ list'[i].id = list[i].id /\ list'[i].left = Less(list[i].left)
  <2>1. list'[i] = [list[i] EXCEPT !.left = Less(@)]
    BY <1>2
  <2>2. list[i] \in Entries /\ Less(list[i].left) \in 0..MaxDelay
    BY <1>1, LessIs DEF Entries
  <2> QED BY <2>1, <2>2 DEF Entries
<1>4. list' \in Seq(Entries) /\ Len(list') = Len(list) /\ DOMAIN list' = 1..Len(list)
  <2>1. list' \in [1..Len(list) -> Entries]
    BY <1>2, <1>3
  <2> QED BY <1>1, <2>1
<1>5. InList(list') = InList(list)
  BY <1>1, <1>3, <1>4 DEF InList
<1>6. link' = [t \in Threads |-> IF link[t] = None THEN None ELSE [link[t] EXCEPT !.left = Less(@)]]
  BY DEF Tick
<1>7. ASSUME NEW t \in Threads, link[t] \in Links
      PROVE  /\ link'[t] \in Links /\ link'[t].left = Less(link[t].left)
             /\ link'[t].id = link[t].id /\ link'[t].now = link[t].now
             /\ link'[t].prev = link[t].prev /\ link'[t].next = link[t].next
  <2>1. link[t] # None
    BY <1>7, ThreadsDiffer
  <2>2. link'[t] = [link[t] EXCEPT !.left = Less(@)]
    BY <1>6, <2>1
  <2>3. Less(link[t].left) \in 0..MaxDelay
    BY <1>7, LessIs DEF Links
  <2> QED BY <1>7, <2>2, <2>3 DEF Links
<1>8. \A t \in Threads : link[t] = None => link'[t] = None
  BY <1>6
<1>9. link' = [t \in Threads |-> link'[t]]
  BY <1>6
<1> QED BY <1>1, <1>3, <1>4, <1>5, <1>7, <1>8, <1>9

LEMMA TickControl ==
    ASSUME Control, Listed, Tick
    PROVE  Control' /\ Listed'
<1>0. UNCHANGED <<pc, fired, sem, mutex>>
  BY DEF Tick
<1>1. Placed' /\ Locked'
  BY <1>0, TickIs DEF Control, Placed, Locked
<1>2. Linked'
  BY <1>0, TickIs DEF Control, Linked, Inserts
<1>3. Lifecycle'
  <2>1. pc["task"] = "insert" => link["task"] \in Links /\ "task" \in Threads
    BY InsertsLinks, ThreadsDiffer DEF Inserts
  <2>2. pc["task"] = "insert" => link'["task"].id = link["task"].id
    BY <2>1, TickIs
  <2> QED BY <1>0, <2>2 DEF Control, Lifecycle
<1> QED BY <1>1, <1>2, <1>3, TickIs DEF Control, Listed

LEMMA TickPreserves ==
    ASSUME Control, ListRules, Tick
    PROVE  ListRules'
<1>0. UNCHANGED <<pc, fired>> /\ Listed
  BY DEF Tick, ListRules, Listed
<1>2. /\ list' \in Seq(Entries) /\ Len(list') = Len(list) /\ Len(list) \in Nat
      /\ DOMAIN list = 1..Len(list) /\ DOMAIN list' = 1..Len(list)
      /\ InList(list') = InList(list)
  <2>1. list' \in Seq(Entries) /\ Len(list') = Len(list) /\ InList(list') = InList(list)
    BY <1>0, TickIs
  <2> QED BY <2>1 DEF ListRules
<1>3. \A i \in 1..Len(list) : /\ list[i].left \in 0..MaxDelay
                              /\ list'[i].id = list[i].id /\ list'[i].left = Less(list[i].left)
  BY <1>0, TickIs DEF Entries
<1>4. Sorted(list')
  <2> SUFFICES ASSUME NEW i \in 1..Len(list), NEW j \in 1..Len(list), i < j
               PROVE  list'[i].id # list'[j].id /\ list'[i].left <= list'[j].left
    BY <1>2 DEF Sorted
  <2>1. list[i].id # list[j].id /\ list[i].left <= list[j].left
    BY <1>2 DEF ListRules, Sorted
  <2> QED BY <1>3, <2>1, LessIs
<1>5. PlacesHold'
  <2> SUFFICES ASSUME NEW t \in Threads, Inserts(t)', pc'[t] = "insert"
               PROVE  /\ link'[t].id # fired'
                      /\ link'[t].id \notin InList(list')
                      /\ \E n \in 0..Len(list') : Place(list', link'[t], n)
    BY DEF PlacesHold
  <2>1. Inserts(t) /\ pc[t] = "insert"
    BY <1>0 DEF Inserts
  <2>2. link[t] \in Links
    BY <2>1, InsertsLinks
  <2>3. /\ link'[t].left = Less(link[t].left) /\ link[t].left \in 0..MaxDelay
        /\ link'[t].id = link[t].id
        /\ link'[t].prev = link[t].prev /\ link'[t].next = link[t].next
    BY <1>0, <2>2, TickIs DEF Links
  <2>4. link[t].id # fired /\ link[t].id \notin InList(list)
    BY <2>1 DEF ListRules, PlacesHold
  <2>5. PICK n \in 0..Len(list) : Place(list, link[t], n)
    BY <2>1 DEF ListRules, PlacesHold
  <2>6. Place(list', link'[t], n)
    <3>1. /\ n # 0 <=> n \in 1..Len(list)
          /\ n # Len(list) <=> n + 1 \in 1..Len(list)
          /\ n > 0 <=> n # 0
          /\ n < Len(list) <=> n # Len(list)
      <4>1. Len(list) \in Nat /\ n \in Nat /\ n <= Len(list)
        BY <1>2
      <4> QED BY <4>1
    <3>2. link'[t].prev = IF n = 0 THEN None ELSE list'[n].id
      <4>1. link[t].prev = IF n = 0 THEN None ELSE list[n].id
        BY <2>5 DEF Place
      <4> QED BY <1>3, <2>3, <3>1, <4>1
    <3>3. link'[t].next = IF n = Len(list') THEN None ELSE list'[n + 1].id
      <4>1. link[t].next = IF n = Len(list) THEN None ELSE list[n + 1].id
        BY <2>5 DEF Place
      <4> QED BY <1>2, <1>3, <2>3, <3>1, <4>1
    <3>4. ASSUME n > 0 PROVE list'[n].left <= link'[t].left
      <4>1. n \in 1..Len(list) /\ list[n].left <= link[t].left
        BY <2>5, <3>1, <3>4 DEF Place
      <4> QED BY <1>3, <2>3, <4>1, LessIs
    <3>5. ASSUME n < Len(list') PROVE link'[t].left <= list'[n + 1].left
      <4>1. n + 1 \in 1..Len(list) /\ link[t].left <= list[n + 1].left
        BY <1>2, <2>5, <3>1, <3>5 DEF Place
      <4> QED BY <1>3, <2>3, <4>1, LessIs
    <3> QED BY <3>2, <3>3, <3>4, <3>5 DEF Place
  <2> QED BY <1>0, <1>2, <2>3, <2>4, <2>6
<1>6. PeriodicKept'
  <2>1. pc["task"] = "insert" => link'["task"].id = link["task"].id
    <3>1. ASSUME pc["task"] = "insert" PROVE link["task"] \in Links
      BY <3>1, InsertsLinks, ThreadsDiffer DEF Inserts
    <3> QED BY <1>0, <3>1, TickIs, ThreadsDiffer
  <2> QED BY <1>0, <1>2, <2>1 DEF ListRules, PeriodicKept
<1> QED BY <1>0, <1>2, <1>4, <1>5, <1>6 DEF ListRules

-----------------------------------------------------------------------------
(* The sleep of the task                                                    *)

\* The wake-up is not lost before the task has seen it, and the first timeout does not come
\* nearer.
LEMMA SleepKept ==
    ASSUME Awake, ListRules, ListRules', Values,
           pc'["task"] = "wait" => pc["task"] = "wait" /\ sleep' = sleep /\ flags \subseteq flags',
           list' # <<>> => list # <<>> /\ Head(list').left >= Head(list).left,
           \A c \in Callers : pc[c] = "notify" /\ Wakes(link[c]) =>
               (pc'[c] = "notify" /\ link'[c] = link[c]) \/ "DUMMY" \in flags'
    PROVE  Awake'
<1> SUFFICES ASSUME pc'["task"] = "wait", list' # <<>>, ~(Head(list').left >= sleep')
             PROVE  Woken'
  BY DEF Awake, Woken
<1>1. Head(list).left \in 0..MaxDelay /\ Head(list').left \in 0..MaxDelay
  <2>1. Head(list) \in Entries /\ Head(list') \in Entries
    BY DEF ListRules
  <2> QED BY <2>1 DEF Entries
<1>2. ~(Head(list).left >= sleep)
  BY <1>1, FreertosAssumption DEF Values
<1>3. Woken
  BY <1>2 DEF Awake, Woken
<1> QED BY <1>3 DEF Woken, Wakes

\* The first of the list after an insertion is the new one, which then wakes the task, or
\* the one that was first.
LEMMA SleepInsert ==
    ASSUME Control, Awake, ListRules, ListRules', Values, NEW c \in Callers, Insert(c),
           NEW n \in 0..Len(list), Place(list, link[c], n),
           Spliced(list, n, [id |-> link[c].id, left |-> link[c].left], list')
    PROVE  Awake'
<1>1. \A u \in Threads : pc'[u] = IF u = c THEN "notify" ELSE pc[u]
  BY Moved, ThreadsDiffer DEF Control, Insert, Move
<1>2. pc[c] = "insert" /\ UNCHANGED <<link, sleep, flags>>
  BY DEF Insert, Move
<1>3. CASE n = 0
  <2>1. link[c].prev = None
    BY <1>3 DEF Place
  <2>2. pc'[c] = "notify" /\ Wakes(link'[c])
    BY <1>1, <1>2, <2>1, ThreadsDiffer DEF Wakes
  <2> QED BY <2>2 DEF Awake, Woken, Wakes
<1>4. CASE n # 0
  <2>1. Len(list) \in Nat /\ n \in 1..Len(list) /\ list' \in Seq(Entries) /\ Len(list') = Len(list) + 1
    BY <1>4 DEF ListRules, Spliced
  <2>2. list'[1] = list[1]
    BY <2>1 DEF Spliced
  <2>3. list # <<>> /\ list' # <<>> /\ Head(list') = list'[1] /\ Head(list) = list[1]
    BY <2>1 DEF ListRules
  <2>4. Head(list').left >= Head(list).left
    <3>1. Head(list) \in Entries
      BY <2>3 DEF ListRules
    <3>2. Head(list).left \in Nat
      BY <3>1 DEF Entries
    <3> QED BY <2>2, <2>3, <3>2
  <2>5. \A d \in Callers : pc[d] = "notify" => pc'[d] = "notify"
    BY <1>1, ThreadsDiffer
  <2>6. pc'["task"] = pc["task"]
    BY <1>1, ThreadsDiffer
  <2> QED BY <1>2, <2>3, <2>4, <2>5, <2>6, SleepKept
<1> QED BY <1>3, <1>4

\* Without one of its entries the list begins with what was first, or with what is due
\* no earlier.
LEMMA HeadLater ==
    ASSUME ListRules, NEW n \in 1..Len(list), Without(list, n, list'), list' # <<>>
    PROVE  list # <<>> /\ Head(list').left >= Head(list).left
<1>1. list \in Seq(Entries) /\ Len(list) \in Nat /\ DOMAIN list = 1..Len(list)
  BY DEF ListRules
<1>2. list' \in Seq(Entries) /\ Len(list') = Len(list) - 1
  BY DEF Without
<1>3. Len(list) >= 2
  BY <1>1, <1>2
<1>4. Head(list) = list[1] /\ Head(list') = list'[1] /\ list # <<>>
  BY <1>1, <1>2, <1>3
<1>5. 1 \in 1..Len(list)-1 /\ 2 \in 1..Len(list) /\ 1 \in 1..Len(list) /\ 1 + 1 = 2
  BY <1>1, <1>3
<1>6. list'[1] = list[1] \/ list'[1] = list[2]
  BY <1>5 DEF Without
<1>7. list[1].left <= list[2].left
  BY <1>1, <1>5 DEF ListRules, Sorted
<1>8. list[1].left \in Int /\ list[2].left \in Int
  <2>1. list[1] \in Entries /\ list[2] \in Entries
    BY <1>1, <1>5
  <2> QED BY <2>1 DEF Entries
<1> QED BY <1>4, <1>6, <1>7, <1>8

LEMMA SleepTick ==
    ASSUME Control, Awake, ListRules, Values, Tick
    PROVE  Awake'
<1> SUFFICES ASSUME pc'["task"] = "wait", list' # <<>>, ~Woken'
             PROVE  Head(list').left >= sleep'
  BY DEF Awake, Woken
<1>1. UNCHANGED <<pc, flags>> /\ sleep' = Less(sleep)
  BY DEF Tick
<1>2. ~Woken
  <2> SUFFICES ASSUME NEW c \in Callers, pc[c] = "notify", Wakes(link[c]) PROVE FALSE
    BY <1>1 DEF Woken
  <2>1. c \in Threads /\ Inserts(c)
    BY ThreadsDiffer DEF Inserts
  <2>2. link[c] \in Links
    BY <2>1, InsertsLinks
  <2>3. Wakes(link'[c])
    BY <2>1, <2>2, TickIs DEF Wakes, ListRules, Listed
  <2> QED BY <1>1, <2>3 DEF Woken, Wakes
<1>3. /\ list' \in Seq(Entries) /\ Len(list') = Len(list) /\ Len(list) \in Nat
      /\ \A i \in 1..Len(list) : /\ list[i] \in Entries /\ list'[i].left = Less(list[i].left)
  BY TickIs DEF ListRules, Listed
<1>4. list # <<>> /\ Head(list') = list'[1] /\ Head(list) = list[1] /\ 1 \in 1..Len(list)
  BY <1>3 DEF ListRules
<1>5. Head(list).left >= sleep
  BY <1>1, <1>2, <1>4 DEF Awake, Woken
<1>6. Head(list).left \in 0..MaxDelay /\ Head(list').left = Less(Head(list).left)
  BY <1>3, <1>4 DEF Entries
<1>7. sleep \in 0..MaxDelay
  BY DEF Values
<1>8. MaxDelay \in Nat
  BY FreertosAssumption
<1> QED BY <1>1, <1>5, <1>6, <1>7, <1>8 DEF Less

-----------------------------------------------------------------------------
(* All together                                                             *)

LEMMA ValuesPreserved ==
    ASSUME Values, Listed, [Next]_vars
    PROVE  Values'
<1>0. WS_NUM_MESSAGES \in Nat /\ posted \in Int /\ taken \in Int
  BY FreertosAssumption DEF Values
<1> USE FreertosAssumption DEF Values
<1>1. CASE TaskLoop
  <2>1. ASSUME list # <<>> PROVE Head(list).left \in 0..MaxDelay
    <3>1. Head(list) \in Entries
      BY <2>1 DEF Listed
    <3> QED BY <3>1 DEF Entries
  <2> QED BY <1>1, <2>1 DEF TaskLoop
<1>2. CASE TaskWait
  BY <1>2 DEF TaskWait, Noted
<1>3. CASE TaskEvents \/ TaskDrain
  <2>1. UNCHANGED <<sleep, note, flags, posted, sem>>
    BY <1>3 DEF TaskEvents, TaskDrain
  <2>2. \/ taken' = taken
        \/ taken' = taken + 1 /\ taken < posted
    BY <1>3 DEF TaskEvents, TaskDrain
  <2>3. taken' \in Nat /\ taken' <= posted /\ posted - taken' <= WS_NUM_MESSAGES
    <3> HIDE FreertosAssumption
    <3> QED BY <1>0, <2>2
  <2> HIDE FreertosAssumption
  <2> QED BY <2>1, <2>3
<1>4. CASE TaskReady \/ TaskExit
  BY <1>4 DEF TaskReady, TaskExit, Post
<1>5. CASE TaskInit \/ TaskInitFails \/ TaskTimers \/ TaskLock \/ TaskPeriodic \/ TaskUnlock
             \/ TaskDeinit \/ TaskFree
  BY <1>5 DEF TaskInit, TaskInitFails, TaskTimers, TaskLock, TaskPeriodic, TaskUnlock, TaskDeinit, TaskFree
<1>6. ASSUME NEW t \in Threads, Operate(t) PROVE Values'
  BY <1>6 DEF Operate, Register, Cancel
<1>7. ASSUME NEW t \in Threads, Insert(t) \/ Notify(t) PROVE Values'
  BY <1>7 DEF Insert, Notify
<1>8. CASE Stop \/ Stopping
  BY <1>8 DEF Stop, Stopping, StopWait, StopTerminate, StopNotify, SemaphoreWait
<1>9. CASE SendEvent \/ SendFlag
  <2>1. UNCHANGED <<sleep, note, taken, sem>> /\ flags' \subseteq flags \cup {"EVENT"}
    BY <1>9 DEF SendEvent, SendFlag
  <2>2. posted' = posted \/ (posted' = posted + 1 /\ posted - taken < WS_NUM_MESSAGES)
    BY <1>9 DEF SendEvent, SendFlag
  <2>3. posted' \in Nat /\ taken <= posted' /\ posted' - taken <= WS_NUM_MESSAGES
    <3> HIDE FreertosAssumption
    <3> QED BY <1>0, <2>2
  <2> HIDE FreertosAssumption
  <2> QED BY <2>1, <2>3
<1>10. CASE Tick
  BY <1>10, LessIs DEF Tick
<1>11. ASSUME NEW c \in Callers, CallLock(c) \/ CallWait(c) \/ CallPost(c) \/ CallUnlock(c) PROVE Values'
  BY <1>11 DEF CallLock, CallWait, CallPost, CallUnlock, SemaphoreWait, Post
<1>12. CASE UNCHANGED vars
  BY <1>12
<1>13. CASE Task
  BY <1>1, <1>2, <1>3, <1>4, <1>5, <1>6, <1>7, <1>13, ThreadsDiffer DEF Task, TaskHandler, TaskEvent
<1>14. CASE \E c \in Callers : CallLock(c) \/ Caller(c)
  BY <1>6, <1>7, <1>11, <1>14, ThreadsDiffer DEF Caller, CallOperates
<1> QED BY <1>5, <1>8, <1>9, <1>10, <1>12, <1>13, <1>14 DEF Next

\* Whatever becomes of the list, it is one of timeouts.
LEMMA IndexInside ==
    ASSUME Listed, NEW id \in InList(list)
    PROVE  Index(id) \in 1..Len(list)
<1>1. DOMAIN list = 1..Len(list)
  BY DEF Listed
<1>2. \E i \in DOMAIN list : list[i].id = id
  BY DEF InList
<1> QED BY <1>1, <1>2 DEF Index

LEMMA Singleton ==
    ASSUME NEW x \in Entries PROVE <<x>> \in Seq(Entries)
  OBVIOUS

LEMMA InsertedListed ==
    ASSUME Listed, NEW e \in Links, ~Dangles(e.prev), ~Dangles(e.next)
    PROVE  Inserted(e) \in Seq(Entries)
<1>0. Len(list) \in Nat /\ \A j \in 1..Len(list) : list[j] \in Entries
  BY DEF Listed
<1>1. ASSUME NEW m \in 1..Len(list), NEW n \in 1..Len(list) PROVE SubSeq(list, m, n) \in Seq(Entries)
  <2>1. \A j \in m..n : list[j] \in Entries
    BY <1>0
  <2> QED BY <1>0, <2>1, SubSeqProperties DEF Listed
<1>2. PICK b : b = IF e.prev = None THEN <<>> ELSE SubSeq(list, 1, Index(e.prev))
  OBVIOUS
<1>3. PICK a : a = IF e.next = None THEN <<>> ELSE SubSeq(list, Index(e.next), Len(list))
  OBVIOUS
<1>4. b \in Seq(Entries)
  <2>1. CASE e.prev = None
    BY <1>2, <2>1
  <2>2. CASE e.prev # None
    <3>1. Index(e.prev) \in 1..Len(list)
      BY <2>2, IndexInside DEF Dangles
    <3>2. 1 \in 1..Len(list)
      BY <1>0, <3>1
    <3> QED BY <1>1, <1>2, <2>2, <3>1, <3>2
  <2> QED BY <2>1, <2>2
<1>5. a \in Seq(Entries)
  <2>1. CASE e.next = None
    BY <1>3, <2>1
  <2>2. CASE e.next # None
    <3>1. Index(e.next) \in 1..Len(list)
      BY <2>2, IndexInside DEF Dangles
    <3>2. Len(list) \in 1..Len(list)
      BY <1>0, <3>1
    <3> QED BY <1>1, <1>3, <2>2, <3>1, <3>2
  <2> QED BY <2>1, <2>2
<1>6. PICK x \in Seq(Entries) : x = <<[id |-> e.id, left |-> e.left]>>
  <2>1. [id |-> e.id, left |-> e.left] \in Entries
    BY DEF Links, Entries
  <2> QED BY <2>1, Singleton
<1>7. Inserted(e) = b \o x \o a
  BY <1>2, <1>3, <1>6 DEF Inserted
<1> QED BY <1>4, <1>5, <1>6, <1>7

LEMMA ListedKept ==
    ASSUME Control, Listed, [Next]_vars
    PROVE  Listed'
<1>1. ASSUME NEW t \in Threads, t # "stop", Insert(t) PROVE Listed'
  <2>1. link[t] \in Links
    BY <1>1, InsertsLinks DEF Insert, Move, Inserts
  <2> QED BY <1>1, <2>1, InsertedListed DEF Insert, Listed
<1>2. ASSUME NEW t \in Threads, Operate(t) PROVE Listed'
  <2>1. ASSUME NEW id \in Ids, Cancel(t, id) PROVE Listed'
    <3>1. Index(id) \in 1..Len(list)
      BY <2>1, IndexInside DEF Cancel
    <3>2. list' = SubSeq(list, 1, Index(id) - 1) \o SubSeq(list, Index(id) + 1, Len(list))
      BY <2>1 DEF Cancel
    <3>3. Without(list, Index(id), list')
      BY <3>1, <3>2, CancelledIs DEF Listed
    <3> QED BY <3>3 DEF Without, Listed
  <2>2. CASE UNCHANGED list
    BY <2>2 DEF Listed
  <2> QED BY <1>2, <2>1, <2>2 DEF Operate, Register
<1>3. CASE TaskInit \/ TaskDeinit
  <2>1. [id |-> "PERIODIC", left |-> MaxDelay] \in Entries
    BY FreertosAssumption DEF Entries, Timeouts
  <2>2. CASE TaskInit
    BY <2>1, <2>2, Singleton DEF TaskInit, Listed
  <2>3. CASE TaskDeinit
    BY <2>3 DEF TaskDeinit, Listed
  <2> QED BY <1>3, <2>2, <2>3
<1>4. CASE TaskLock
  BY <1>4, TailIs DEF TaskLock, Without, Listed
<1>5. CASE Tick
  BY <1>5, TickControl
<1>6. CASE UNCHANGED list
  BY <1>6 DEF Listed
<1>7. CASE Task
  BY <1>1, <1>2, <1>3, <1>6, <1>7, ThreadsDiffer
     DEF Task, TaskInitFails, TaskReady, TaskLoop, TaskWait, TaskTimers, TaskHandler, TaskPeriodic,
         TaskUnlock, TaskEvents, TaskEvent, TaskDrain, TaskFree, TaskExit, Notify
<1>8. ASSUME NEW c \in Callers, CallLock(c) \/ Caller(c) PROVE Listed'
  BY <1>1, <1>2, <1>6, <1>8, ThreadsDiffer
     DEF CallLock, Caller, CallWait, CallPost, CallOperates, Notify, CallUnlock
<1>9. CASE Stop \/ Stopping \/ SendEvent \/ SendFlag
  BY <1>6, <1>9 DEF Stop, Stopping, StopWait, StopTerminate, StopNotify, SendEvent, SendFlag
<1> QED BY <1>4, <1>5, <1>6, <1>7, <1>8, <1>9 DEF Next

\* A step of the task that crosses no caller keeps the list.
LEMMA TaskListKept ==
    ASSUME Control, ListRules, Apart, lost = {}, Task \/ TaskLock, ~raced'
    PROVE  ListRules' /\ Apart' /\ lost' = {}
<1>0. ASSUME NEW there, Goto("task", there)
      PROVE  \A u \in Threads : pc'[u] = IF u = "task" THEN there ELSE pc[u]
  BY <1>0, Moved, ThreadsDiffer DEF Control
<1>1. ASSUME NEW there, Goto("task", there), there # "insert", UNCHANGED <<list, lost>>,
             fired' \in {fired, None},
             \A u \in Threads : u # "task" => link'[u] = link[u],
             there \in {"init", "drain", "free", "exit", "returned"} \/ "PERIODIC" \in InList(list)
      PROVE  ListRules' /\ Apart' /\ lost' = {}
  <2>1. \A u \in Threads : pc'[u] = IF u = "task" THEN there ELSE pc[u]
    BY <1>0, <1>1
  <2>2. \A t \in Threads : Inserts(t)' /\ pc'[t] = "insert" =>
               Inserts(t) /\ pc[t] = "insert" /\ link'[t] = link[t]
    BY <1>1, <2>1 DEF Inserts
  <2>3. PeriodicKept'
    BY <1>1, <2>1, ThreadsDiffer DEF PeriodicKept
  <2>4. Apart'
    BY <1>1, <2>1, ThreadsDiffer DEF Apart
  <2> QED BY <1>1, <2>2, <2>3, <2>4, ListUntouched
<1>2. pc["task"] \notin {"init", "drain", "free", "exit", "returned", "handler", "insert"} => "PERIODIC" \in InList(list)
  BY DEF ListRules, PeriodicKept
<1>3. CASE TaskInit \/ TaskDeinit
  <2>1. pc'["task"] # "insert"
    BY <1>0, <1>3, ThreadsDiffer DEF TaskInit, TaskDeinit, Move
  <2> QED BY <1>3, <2>1, FreshList DEF TaskInit, TaskDeinit, Apart
<1>4. CASE TaskInitFails
  BY <1>1, <1>4 DEF TaskInitFails, Move
<1>5. CASE TaskReady
  BY <1>1, <1>2, <1>5 DEF TaskReady, Move
<1>6. CASE TaskLoop
  BY <1>1, <1>2, <1>6 DEF TaskLoop
<1>7. CASE TaskWait
  BY <1>1, <1>2, <1>7 DEF TaskWait, Move
<1>8. CASE TaskTimers
  BY <1>1, <1>2, <1>8 DEF TaskTimers
<1>9. CASE TaskLock
  <2>1. pc'["task"] # "insert"
    BY <1>0, <1>9, ThreadsDiffer DEF TaskLock, Move
  <2> QED BY <1>9, <2>1, LockList DEF TaskLock, Apart
<1>10. CASE TaskHandler \/ TaskEvent
  <2>1. Operate("task") /\ AfterOp("task") \in {"unlock", "events"}
    BY <1>10 DEF TaskHandler, TaskEvent, AfterOp
  <2>2. pc["task"] \in {"handler", "event"} /\ fired # "PERIODIC" /\ "PERIODIC" \in InList(list)
    <3>1. CASE TaskHandler
      BY <3>1 DEF TaskHandler, ListRules, PeriodicKept
    <3>2. CASE TaskEvent
      <4>1. pc["task"] = "event"
        BY <3>2 DEF TaskEvent
      <4>2. fired = None
        BY <4>1 DEF Control, Locked, Lifecycle, TaskHolds
      <4> QED BY <1>2, <4>1, <4>2, FreertosAssumption
    <3> QED BY <1>10, <3>1, <3>2
  <2>3. ASSUME NEW id \in Ids, NEW d \in 0..MaxDelay, Register("task", id, d)
        PROVE  ListRules' /\ Apart' /\ lost' = {}
    BY <2>2, <2>3, RegisterList, ThreadsDiffer DEF Register
  <2>4. ASSUME NEW id \in Ids, Cancel("task", id) PROVE ListRules' /\ Apart' /\ lost' = {}
    BY <2>2, <2>4, CancelList, ThreadsDiffer DEF Cancel
  <2>5. CASE Goto("task", AfterOp("task")) /\ UNCHANGED timeouts
    BY <1>1, <2>1, <2>2, <2>5
  <2> QED BY <2>1, <2>3, <2>4, <2>5 DEF Operate
<1>12. CASE TaskPeriodic
  <2>1. mutex = "task"
    BY <1>12 DEF TaskPeriodic, Control, Locked
  <2>2. \A c \in Callers : pc[c] # "insert"
    BY <2>1, ThreadsDiffer DEF Control, Locked
  <2>3. \A c \in Callers : pc'[c] # "insert"
    BY <1>0, <1>12, <2>2, ThreadsDiffer DEF TaskPeriodic
  <2> QED BY <1>12, <2>3, PeriodicList DEF TaskPeriodic, Apart
<1>13. CASE TaskUnlock
  BY <1>1, <1>2, <1>13 DEF TaskUnlock, Unlock, Move
<1>14. CASE TaskEvents
  BY <1>1, <1>2, <1>14 DEF TaskEvents
<1>15. CASE TaskDrain \/ TaskFree
  BY <1>1, <1>15 DEF TaskDrain, TaskFree, Move
<1>16. CASE TaskExit
  BY <1>1, <1>16 DEF TaskExit, Move
<1>17. CASE Insert("task")
  BY <1>17, InsertList, ThreadsDiffer
<1>18. CASE Notify("task")
  <2>1. AfterOp("task") # "insert"
    BY DEF AfterOp
  <2>2. \A u \in Threads : u # "task" => link'[u] = link[u]
    BY <1>18 DEF Notify, Control, Placed
  <2> QED BY <1>1, <1>2, <1>18, <2>1, <2>2 DEF Notify
<1> QED BY <1>3, <1>4, <1>5, <1>6, <1>7, <1>8, <1>9, <1>10, <1>12,
           <1>13, <1>14, <1>15, <1>16, <1>17, <1>18 DEF Task

\* It sleeps no longer than until the first timeout.
LEMMA TaskSleeps ==
    ASSUME Control, ListRules, Task \/ TaskLock
    PROVE  Awake'
<1>1. CASE pc'["task"] # "wait"
  BY <1>1 DEF Awake
<1>2. CASE pc'["task"] = "wait"
  <2>1. pc["task"] = "loop"
    <3>1. ASSUME NEW there, Goto("task", there), there # "wait" PROVE FALSE
      BY <1>2, <3>1, Moved, ThreadsDiffer DEF Control
    <3>2. AfterOp("task") # "wait"
      BY DEF AfterOp
    <3> QED BY <3>1, <3>2
            DEF Task, TaskInit, TaskInitFails, TaskReady, TaskLoop, TaskWait, TaskTimers, TaskHandler,
                TaskPeriodic, TaskUnlock, TaskEvents, TaskEvent, TaskDeinit, TaskDrain, TaskFree, TaskExit,
                TaskLock,
                Insert, Notify, Move, Unlock, Operate, Register, Cancel
  <2>2. TaskLoop
    BY <2>1 DEF Task, TaskInit, TaskInitFails, TaskReady, TaskLoop, TaskWait, TaskTimers, TaskHandler,
                TaskPeriodic, TaskUnlock, TaskEvents, TaskEvent, TaskDeinit, TaskDrain, TaskFree, TaskExit,
                TaskLock,
                Insert, Notify, Move, Unlock
  <2>3. pc'["task"] = "deinit" \/ (list' = list /\ sleep' = Head(list).left)
    BY <2>2, Moved, ThreadsDiffer DEF TaskLoop, Control
  <2>4. list # <<>> => Head(list).left \in Nat
    <3>1. ASSUME list # <<>> PROVE Head(list) \in Entries
      BY <3>1 DEF ListRules
    <3> QED BY <3>1 DEF Entries
  <2> QED BY <1>2, <2>3, <2>4 DEF Awake
<1> QED BY <1>1, <1>2

\* A step of a caller that crosses no event handler.
LEMMA CallerKeeps ==
    ASSUME Control, Sound, Values, NEW c \in Callers, CallLock(c) \/ Caller(c), ~raced'
    PROVE  Sound'
<1>0. c \in Threads /\ c # "stop" /\ c # "task" /\ ListRules /\ Apart /\ Awake /\ lost = {} /\ Listed
  BY ThreadsDiffer DEF Sound, ListRules, Listed
<1>1. ASSUME NEW there, Goto(c, there), there # "insert", UNCHANGED <<list, lost, fired, sleep>>,
             flags \subseteq flags',
             link'["task"] = link["task"],
             \A u \in Threads : u # c => link'[u] = link[u],
             pc[c] = "notify" /\ Wakes(link[c]) => "DUMMY" \in flags'
      PROVE  Sound'
  <2>1. \A u \in Threads : pc'[u] = IF u = c THEN there ELSE pc[u]
    BY <1>0, <1>1, Moved DEF Control
  <2>2. \A t \in Threads : Inserts(t)' /\ pc'[t] = "insert" =>
               Inserts(t) /\ pc[t] = "insert" /\ link'[t] = link[t]
    BY <1>1, <2>1 DEF Inserts
  <2>3. pc'["task"] = pc["task"]
    BY <1>0, <2>1, ThreadsDiffer
  <2>4. PeriodicKept'
    BY <1>0, <1>1, <2>3 DEF ListRules, PeriodicKept
  <2>5. ListRules' /\ lost' = {}
    BY <1>0, <1>1, <2>2, <2>4, ListUntouched
  <2>6. \A d \in Callers : pc[d] = "notify" /\ Wakes(link[d]) =>
               (pc'[d] = "notify" /\ link'[d] = link[d]) \/ "DUMMY" \in flags'
    BY <1>1, <2>1, ThreadsDiffer
  <2>7. list' # <<>> => list # <<>> /\ Head(list').left >= Head(list).left
    <3> SUFFICES ASSUME list # <<>> PROVE Head(list).left >= Head(list).left
      BY <1>1
    <3>1. Head(list) \in Entries
      BY <1>0 DEF Listed
    <3>2. Head(list).left \in Int
      BY <3>1 DEF Entries
    <3> QED BY <3>2
  <2>8. Awake'
    BY <1>0, <1>1, <2>3, <2>5, <2>6, <2>7, SleepKept
  <2>9. Apart'
    BY <1>0, <1>1, <2>1, ThreadsDiffer DEF Apart
  <2> QED BY <2>5, <2>8, <2>9 DEF Sound
<1>2. CASE CallLock(c)
  BY <1>0, <1>1, <1>2 DEF CallLock, Move
<1>3. CASE CallWait(c)
  BY <1>0, <1>1, <1>3 DEF CallWait, Move
<1>4. CASE CallPost(c)
  BY <1>0, <1>1, <1>4 DEF CallPost, Move
<1>5. CASE CallOperates(c)
  <2>1. mutex = c /\ AfterOp(c) = "unlock" /\ ~Inserts(c) /\ pc[c] = "call"
    BY <1>0, <1>5, AfterOpIs DEF CallOperates, Control, Locked, Inserts
  <2>2. UNCHANGED <<sleep, mutex>>
    BY <1>5 DEF CallOperates, Operate
  <2>3. ASSUME NEW id \in Ids, NEW d \in 0..MaxDelay, Register(c, id, d)
        PROVE  Sound'
    <3>1. ListRules' /\ Apart' /\ lost' = {}
      BY <1>0, <2>1, <2>3, RegisterList DEF Register
    <3>2. UNCHANGED <<list, flags>>
      BY <2>3 DEF Register
    <3>3. /\ \A u \in Threads : pc'[u] = IF u = c THEN "insert" ELSE pc[u]
          /\ \A u \in Threads : u # c => link'[u] = link[u]
      BY <1>0, <2>3, Moved, RegisterLinks DEF Register, Control
    <3>4. list' # <<>> => list # <<>> /\ Head(list').left >= Head(list).left
      <4> SUFFICES ASSUME list # <<>> PROVE Head(list).left >= Head(list).left
        BY <3>2
      <4>1. Head(list) \in Entries
        BY <1>0 DEF Listed
      <4>2. Head(list).left \in Int
        BY <4>1 DEF Entries
      <4> QED BY <4>2
    <3>5. pc'["task"] = pc["task"]
      BY <1>0, <3>3, ThreadsDiffer
    <3>6. \A d_1 \in Callers : pc[d_1] = "notify" /\ Wakes(link[d_1]) =>
               (pc'[d_1] = "notify" /\ link'[d_1] = link[d_1]) \/ "DUMMY" \in flags'
      BY <2>1, <3>3, ThreadsDiffer
    <3>7. Awake'
      BY <1>0, <2>2, <3>1, <3>2, <3>4, <3>5, <3>6, SleepKept
    <3> QED BY <3>1, <3>2, <3>7 DEF Sound
  <2>4. ASSUME NEW id \in Ids, Cancel(c, id) PROVE Sound'
    <3>1. ListRules' /\ Apart' /\ \E n \in 1..Len(list) : Without(list, n, list')
      BY <1>0, <2>1, <2>4, CancelList
    <3>2. lost' = {} /\ UNCHANGED <<link, flags>> /\ Goto(c, "unlock")
      BY <1>0, <2>1, <2>4 DEF Cancel
    <3>3. \A u \in Threads : pc'[u] = IF u = c THEN "unlock" ELSE pc[u]
      BY <1>0, <3>2, Moved DEF Control
    <3>4. list' # <<>> => list # <<>> /\ Head(list').left >= Head(list).left
      BY <1>0, <3>1, HeadLater
    <3>5. pc'["task"] = pc["task"]
      BY <1>0, <3>3, ThreadsDiffer
    <3>6. \A d \in Callers : pc[d] = "notify" /\ Wakes(link[d]) =>
               (pc'[d] = "notify" /\ link'[d] = link[d]) \/ "DUMMY" \in flags'
      BY <2>1, <3>2, <3>3, ThreadsDiffer
    <3>7. Awake'
      BY <1>0, <2>2, <3>1, <3>2, <3>4, <3>5, <3>6, SleepKept
    <3> QED BY <3>1, <3>2, <3>7 DEF Sound
  <2>5. CASE Goto(c, AfterOp(c)) /\ UNCHANGED <<timeouts, flags>>
    BY <1>0, <1>1, <2>1, <2>2, <2>5
  <2> QED BY <1>5, <2>3, <2>4, <2>5 DEF CallOperates, Operate
<1>6. CASE Insert(c)
  <2>1. /\ ListRules' /\ Apart' /\ lost' = {}
        /\ \E n \in 0..Len(list) : /\ Place(list, link[c], n)
                                   /\ Spliced(list, n, [id |-> link[c].id, left |-> link[c].left], list')
    BY <1>0, <1>6, InsertList
  <2>2. Awake'
    BY <1>0, <1>6, <2>1, SleepInsert
  <2> QED BY <2>1, <2>2 DEF Sound
<1>7. CASE Notify(c)
  <2>1. AfterOp(c) = "unlock"
    BY <1>0, <1>7, AfterOpIs DEF Notify
  <2>2. /\ \A u \in Threads : u # c => link'[u] = link[u]
        /\ link'["task"] = link["task"]
    BY <1>0, <1>7, ThreadsDiffer DEF Notify, Control, Placed
  <2>3. flags \subseteq flags' /\ (Wakes(link[c]) => "DUMMY" \in flags')
    BY <1>7 DEF Notify
  <2> QED BY <1>1, <1>7, <2>1, <2>2, <2>3 DEF Notify
<1>8. CASE CallUnlock(c)
  BY <1>0, <1>1, <1>8 DEF CallUnlock, Unlock, Move
<1> QED BY <1>2, <1>3, <1>4, <1>5, <1>6, <1>7, <1>8 DEF Caller

\* Steps of stop_wpa_supplicant and of the driver leave the timeouts alone.
LEMMA OthersKeep ==
    ASSUME Control, Sound, Values, UNCHANGED <<timeouts, sleep>>, flags \subseteq flags',
           \A u \in Threads : u # "stop" => pc'[u] = pc[u]
    PROVE  Sound'
<1>0. ListRules /\ Apart /\ Awake /\ lost = {}
  BY DEF Sound
<1>1. pc'["task"] = pc["task"] /\ \A c \in Callers : pc'[c] = pc[c]
  BY ThreadsDiffer
<1>2. PeriodicKept'
  BY <1>0, <1>1 DEF ListRules, PeriodicKept
<1>3. \A t \in Threads : Inserts(t)' /\ pc'[t] = "insert" =>
               Inserts(t) /\ pc[t] = "insert" /\ link'[t] = link[t]
  BY DEF Inserts
<1>4. ListRules' /\ lost' = {}
  BY <1>0, <1>2, <1>3, ListUntouched
<1>5. list' # <<>> => list # <<>> /\ Head(list').left >= Head(list).left
  <2> SUFFICES ASSUME list # <<>> PROVE Head(list).left >= Head(list).left
    OBVIOUS
  <2>1. Head(list) \in Entries
    BY <1>0 DEF ListRules
  <2>2. Head(list).left \in Int
    BY <2>1 DEF Entries
  <2> QED BY <2>2
<1>6. Awake'
  BY <1>0, <1>1, <1>4, <1>5, SleepKept
<1>7. Apart'
  BY <1>0, <1>1 DEF Apart
<1> QED BY <1>4, <1>6, <1>7 DEF Sound

\* A thread that has crossed another has done so for good.
LEMMA RacedStays ==
    ASSUME [Next]_vars, raced
    PROVE  raced'
<1>1. ASSUME NEW t \in Threads, Operate(t) \/ Insert(t) \/ Notify(t) PROVE raced'
  BY <1>1 DEF Operate, Register, Cancel, Insert, Notify
<1>2. CASE Task \/ TaskLock
  BY <1>1, <1>2, ThreadsDiffer
     DEF Task, TaskInit, TaskInitFails, TaskReady, TaskLoop, TaskWait, TaskTimers, TaskHandler,
         TaskPeriodic, TaskUnlock, TaskEvents, TaskEvent, TaskDeinit, TaskDrain, TaskFree, TaskExit,
         TaskLock
<1>3. ASSUME NEW c \in Callers, CallLock(c) \/ Caller(c) PROVE raced'
  BY <1>1, <1>3, ThreadsDiffer DEF CallLock, Caller, CallWait, CallPost, CallOperates, CallUnlock
<1>4. CASE Stop \/ Stopping \/ SendEvent \/ SendFlag \/ Tick \/ UNCHANGED vars
  BY <1>4 DEF Stop, Stopping, StopWait, StopTerminate, StopNotify, SendEvent, SendFlag, Tick
<1> QED BY <1>2, <1>3, <1>4 DEF Next

LEMMA TimeoutInvPreserved ==
    ASSUME TimeoutInv, [Next]_vars
    PROVE  TimeoutInv'
<1>1. Control /\ Listed /\ Values
  BY DEF TimeoutInv
<1>2. Values' /\ Listed'
  BY <1>1, ValuesPreserved, ListedKept
<1>3. ASSUME ~raced' PROVE Sound
  BY <1>3, RacedStays DEF TimeoutInv
<1>4. CASE Task \/ TaskLock
  <2>1. ~raced' => Sound'
    BY <1>1, <1>3, <1>4, TaskListKept, TaskSleeps DEF Sound
  <2> QED BY <1>1, <1>2, <1>4, <2>1, TaskControl DEF TimeoutInv
<1>5. CASE \E c \in Callers : CallLock(c) \/ Caller(c)
  <2>1. ~raced' => Sound'
    BY <1>1, <1>3, <1>5, CallerKeeps
  <2> QED BY <1>1, <1>2, <1>5, <2>1, CallerControl DEF TimeoutInv
<1>6. CASE Stop \/ Stopping
  <2>1. UNCHANGED <<timeouts, sleep>> /\ flags \subseteq flags'
    BY <1>6 DEF Stop, Stopping, StopWait, StopTerminate, StopNotify
  <2>2. \A u \in Threads : u # "stop" => pc'[u] = pc[u]
    BY <1>1, <1>6 DEF Stop, Stopping, StopWait, StopTerminate, StopNotify, Move, Goto, Control, Placed
  <2>3. ~raced' => Sound'
    BY <1>1, <1>3, <2>1, <2>2, OthersKeep
  <2> QED BY <1>1, <1>2, <1>6, <2>3, StopControl DEF TimeoutInv
<1>7. CASE SendEvent \/ SendFlag \/ UNCHANGED vars
  <2>1. UNCHANGED <<pc, timeouts, sleep, sem, mutex>> /\ flags \subseteq flags'
    BY <1>7 DEF SendEvent, SendFlag
  <2>2. Control'
    BY <1>1, <2>1 DEF Control, Placed, Locked, Linked, Lifecycle, Inserts
  <2>3. ~raced' => Sound'
    BY <1>1, <1>3, <2>1, OthersKeep
  <2> QED BY <1>2, <2>2, <2>3 DEF TimeoutInv
<1>8. CASE Tick
  <2>1. UNCHANGED <<pc, lost>>
    BY <1>8 DEF Tick
  <2>2. ~raced' => Sound'
    BY <1>1, <1>3, <1>8, <2>1, TickPreserves, SleepTick DEF Sound, Apart
  <2> QED BY <1>1, <1>2, <1>8, <2>2, TickControl DEF TimeoutInv
<1> QED BY <1>4, <1>5, <1>6, <1>7, <1>8 DEF Next

LEMMA TimeoutInvInitially == Init => TimeoutInv
<1> SUFFICES ASSUME Init PROVE TimeoutInv
  OBVIOUS
<1>1. /\ pc = [t \in Threads |-> pc[t]] /\ link = [t \in Threads |-> link[t]]
      /\ pc["task"] = "init" /\ pc["stop"] = "idle" /\ \A c \in Callers : pc[c] = "idle"
      /\ \A t \in Threads : link[t] = None /\ pc[t] \in {"init", "idle"}
  BY ThreadsDiffer DEF Init
<1>2. Control
  BY <1>1, ThreadsDiffer DEF Init, Control, Placed, Locked, Linked, Lifecycle, Inserts, TaskPlaces,
                             StopPlaces, CallPlaces, TaskHolds
<1>3. ListRules /\ Listed
  <2>1. list = <<>> /\ list \in Seq(Entries) /\ DOMAIN list = {}
    BY DEF Init
  <2> QED BY <1>1, <2>1 DEF ListRules, Listed, Sorted, InList, PlacesHold, PeriodicKept
<1>4. Values /\ Awake /\ Apart /\ lost = {}
  BY <1>1, FreertosAssumption DEF Init, Values, Awake, Apart
<1> QED BY <1>2, <1>3, <1>4 DEF TimeoutInv, Sound

\* Until the task works on the list of timeouts while a caller does, which it can in an
\* event handler and when it ends, the list is in due order, without repetition, and
\* every timeout that is being inserted has its place in it.  After that it is still a
\* list of timeouts, and the mutex, the semaphore and the queue are not affected.
THEOREM TimeoutInvariant == Spec => []TimeoutInv
<1>1. TimeoutInv /\ [Next]_vars => TimeoutInv'
  BY TimeoutInvPreserved
<1> QED BY <1>1, TimeoutInvInitially, PTL DEF Spec

\* The only way in which a timeout drops out of the list is that an event handler, or
\* the end of the task, which do not hold wpa_supplicant_mutex, and a caller's
\* registration cross: whatever else callers, timeout handlers and event handlers do,
\* eloop_register_timeout and eloop_cancel_timeout lose none.
THEOREM TimeoutsNotLost == Spec => []NoneLost
<1>1. TimeoutInv => NoneLost
  BY DEF TimeoutInv, Sound, NoneLost
<1> QED BY <1>1, TimeoutInvariant, PTL

\* The task does not sleep past a timeout that an API thread registers while it waits,
\* unless an event handler and a caller have crossed.
THEOREM TaskWakesInTime == Spec => []NoOversleep
<1>1. TimeoutInv => NoOversleep
  BY DEF TimeoutInv, Sound, Awake, Woken, NoOversleep
<1> QED BY <1>1, TimeoutInvariant, PTL

\* The values of the variables, the bound of the event queue among them, whatever the
\* threads do to the list.
THEOREM FreertosTypes == Spec => []TypeOK
<1>1. TimeoutInv => TypeOK
  BY DEF TimeoutInv, Control, Locked, Listed, Values, TypeOK, Entries
<1> QED BY <1>1, TimeoutInvariant, PTL
=============================================================================
