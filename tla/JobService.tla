----------------------------- MODULE JobService -----------------------------
(***************************************************************************)
(* What the job API of the embox port promises its callers, with no memory *)
(* and no locks in it.  A thread calls wpa_embox_connect, _disconnect or   *)
(* _status and is answered exactly once.  The answer says what happened to *)
(* the request: "OK" means that the handler ran to its end, on the         *)
(* supplicant thread, before the answer; "EBUSY" and "ENOMEM" that it will *)
(* never run; "EAGAIN" that either it will never run or it was running at  *)
(* that moment and goes on without its caller (the orphan).  Handlers run  *)
(* one at a time.                                                          *)
(***************************************************************************)
CONSTANT Callers

VARIABLES
    call,      \* caller -> where its current call stands
    answer,    \* caller -> the answer to its last call
    orphan     \* TRUE while a handler runs whose caller has given up

vars == <<call, answer, orphan>>

CallStates == {"idle", "waiting", "running", "ran"}
Answers == {"none", "OK", "EBUSY", "EAGAIN", "ENOMEM"}

Init ==
    /\ call = [c \in Callers |-> "idle"]
    /\ answer = [c \in Callers |-> "none"]
    /\ orphan = FALSE

\* Some handler is executing on the supplicant thread.
Busy == orphan \/ \E c \in Callers : call[c] = "running"

Begin(c) ==
    /\ call[c] = "idle"
    /\ call' = [call EXCEPT ![c] = "waiting"]
    /\ answer' = [answer EXCEPT ![c] = "none"]
    /\ UNCHANGED orphan

\* The request is dropped before its handler started.
Refuse(c) ==
    /\ call[c] = "waiting"
    /\ call' = [call EXCEPT ![c] = "idle"]
    /\ \E a \in {"EBUSY", "EAGAIN", "ENOMEM"} : answer' = [answer EXCEPT ![c] = a]
    /\ UNCHANGED orphan

StartHandler(c) ==
    /\ call[c] = "waiting"
    /\ ~Busy
    /\ call' = [call EXCEPT ![c] = "running"]
    /\ UNCHANGED <<answer, orphan>>

FinishHandler(c) ==
    /\ call[c] = "running"
    /\ call' = [call EXCEPT ![c] = "ran"]
    /\ UNCHANGED <<answer, orphan>>

Return(c) ==
    /\ call[c] = "ran"
    /\ call' = [call EXCEPT ![c] = "idle"]
    /\ answer' = [answer EXCEPT ![c] = "OK"]
    /\ UNCHANGED orphan

GiveUp(c) ==
    /\ call[c] = "running"
    /\ call' = [call EXCEPT ![c] = "idle"]
    /\ answer' = [answer EXCEPT ![c] = "EAGAIN"]
    /\ orphan' = TRUE

FinishOrphan ==
    /\ orphan
    /\ orphan' = FALSE
    /\ UNCHANGED <<call, answer>>

Next ==
    \/ \E c \in Callers : \/ Begin(c) \/ Refuse(c) \/ StartHandler(c)
                          \/ FinishHandler(c) \/ Return(c) \/ GiveUp(c)
    \/ FinishOrphan

Spec == Init /\ [][Next]_vars
=============================================================================
