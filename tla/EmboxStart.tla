------------------------------ MODULE EmboxStart ------------------------------
(***************************************************************************)
(* Bring-up and shutdown of the embox port in supp_main_embox.c: any       *)
(* thread may call wpa_embox_start, which initialises the locks and the    *)
(* queue, spawns the supplicant thread and polls wpa_embox_ready; the      *)
(* thread sets and clears wpa_embox_global and wpa_embox_wpa_s.  None of   *)
(* these variables is protected by a lock.                                 *)
(***************************************************************************)
EXTENDS Naturals, FiniteSets

CONSTANTS
    Callers,      \* threads that call wpa_embox_start
    Threads,      \* bound: the supplicant threads that can be created
    None,         \* the NULL pointer
    MaxSpin       \* 3000, the polls of wpa_embox_ready

ASSUME StartAssumption == None \notin Threads /\ MaxSpin \in Nat

VARIABLES
    global,       \* wpa_embox_global, named by the thread that made it
    wpa_s,        \* wpa_embox_wpa_s, likewise
    ready,        \* wpa_embox_ready
    cpc, spin,    \* caller -> its place in wpa_embox_start, its polls
    answer,       \* caller -> what its last call returned
    tpc,          \* thread -> its place in wpa_embox_supplicant_thread
    overlap,      \* history: a call began while another was being made
    retried       \* history: a call began before the thread of one that gave up was to be seen

threadVars == <<global, wpa_s, tpc>>
callVars == <<cpc, spin, answer>>
vars == <<threadVars, ready, callVars, overlap, retried>>

Init ==
    /\ global = None
    /\ wpa_s = None
    /\ ready = FALSE
    /\ cpc = [c \in Callers |-> "idle"]
    /\ spin = [c \in Callers |-> 0]
    /\ answer = [c \in Callers |-> "none"]
    /\ tpc = [t \in Threads |-> "unborn"]
    /\ overlap = FALSE
    /\ retried = FALSE

At(c, place) == cpc' = [cpc EXCEPT ![c] = place]
Return(c, a) == At(c, "idle") /\ answer' = [answer EXCEPT ![c] = a]
Moves(t, place) == tpc' = [tpc EXCEPT ![t] = place]

-----------------------------------------------------------------------------
(* wpa_embox_start                                                          *)

\* Mutant: a supplicant that runs is not noticed.
MutRunning == FALSE

Running == global # None

Start(c) ==
    /\ cpc[c] = "idle"
    /\ \/ Running /\ Return(c, "0") /\ UNCHANGED <<overlap, retried>>
       \/ /\ ~Running
          /\ At(c, "up")
          /\ overlap' = (overlap \/ \E d \in Callers : cpc[d] # "idle")
          /\ retried' = (retried \/ \E t \in Threads : tpc[t] = "init")
          /\ UNCHANGED answer
    /\ spin' = [spin EXCEPT ![c] = 0]
    /\ UNCHANGED <<threadVars, ready>>

\* wlan_embox_ensure_up, then the locks and the queue are initialised.
BringUp(c) ==
    /\ cpc[c] = "up"
    /\ \/ Return(c, "-1") /\ UNCHANGED ready
       \/ At(c, "spawn") /\ ready' = FALSE /\ UNCHANGED answer
    /\ UNCHANGED <<threadVars, spin, overlap, retried>>

Spawn(c) ==
    /\ cpc[c] = "spawn"
    /\ \/ /\ \E t \in Threads : tpc[t] = "unborn" /\ Moves(t, "init")
          /\ At(c, "poll")
          /\ UNCHANGED answer
       \/ Return(c, "-1") /\ UNCHANGED tpc
    /\ UNCHANGED <<global, wpa_s, ready, spin, overlap, retried>>

\* Mutant: the polls are not counted.
MutPolled(c) == 0

Polled(c) == spin[c] + 1

PollAgain(c) ==
    /\ cpc[c] = "poll"
    /\ ~ready
    /\ spin[c] < MaxSpin
    /\ spin' = [spin EXCEPT ![c] = Polled(c)]
    /\ UNCHANGED <<threadVars, ready, cpc, answer, overlap, retried>>

PollEnds(c) ==
    /\ cpc[c] = "poll"
    /\ \/ ready /\ Return(c, "0")
       \/ ~ready /\ spin[c] >= MaxSpin /\ Return(c, "-1")
    /\ UNCHANGED <<threadVars, ready, spin, overlap, retried>>

-----------------------------------------------------------------------------
(* wpa_embox_supplicant_thread                                              *)

\* wpa_supplicant_init
SuppInit(t) ==
    /\ tpc[t] = "init"
    /\ \/ global' = t /\ Moves(t, "iface")
       \/ global' = None /\ Moves(t, "dead")
    /\ UNCHANGED <<wpa_s, ready, callVars, overlap, retried>>

\* wpa_supplicant_add_iface, or wpa_supplicant_deinit where it fails.
AddIface(t) ==
    /\ tpc[t] = "iface"
    /\ \/ wpa_s' = t /\ Moves(t, "ready") /\ UNCHANGED global
       \/ wpa_s' = None /\ Moves(t, "clear") /\ UNCHANGED global
    /\ UNCHANGED <<ready, callVars, overlap, retried>>

Ready(t) ==
    /\ tpc[t] = "ready"
    /\ ready' = TRUE
    /\ Moves(t, "run")
    /\ UNCHANGED <<global, wpa_s, callVars, overlap, retried>>

\* wpa_supplicant_run returns, the interface is removed and all is freed; both
\* pointers still name it.
RunEnds(t) ==
    /\ tpc[t] = "run"
    /\ Moves(t, "freed")
    /\ UNCHANGED <<global, wpa_s, ready, callVars, overlap, retried>>

\* Mutant: the interface pointer is left behind.
MutClearIface(t) ==
    /\ tpc[t] = "freed"
    /\ Moves(t, "clear")
    /\ UNCHANGED <<global, wpa_s, ready, callVars, overlap, retried>>

ClearIface(t) ==
    /\ tpc[t] = "freed"
    /\ wpa_s' = None
    /\ Moves(t, "clear")
    /\ UNCHANGED <<global, ready, callVars, overlap, retried>>

Exit(t) ==
    /\ tpc[t] = "clear"
    /\ global' = None
    /\ Moves(t, "dead")
    /\ UNCHANGED <<wpa_s, ready, callVars, overlap, retried>>

-----------------------------------------------------------------------------
CallStep(c) == BringUp(c) \/ Spawn(c) \/ PollAgain(c) \/ PollEnds(c)
ThreadStep(t) == SuppInit(t) \/ AddIface(t) \/ Ready(t) \/ RunEnds(t) \/ ClearIface(t) \/ Exit(t)

Next ==
    \/ \E c \in Callers : Start(c) \/ CallStep(c)
    \/ \E t \in Threads : ThreadStep(t)

Spec == Init /\ [][Next]_vars

\* A caller waits for nothing but its own ksleep.
FairSpec == Spec /\ \A c \in Callers : WF_vars(CallStep(c))

-----------------------------------------------------------------------------
(* Properties                                                               *)

Live == {t \in Threads : tpc[t] \notin {"unborn", "dead"}}

\* The header's promise: "spawn the supplicant thread; idempotent".
OneSupplicant == Cardinality(Live) <= 1

\* The promise is broken in two ways only: by a call that begins during another, and
\* by one that begins after another gave up, before the thread of that one is out of
\* wpa_supplicant_init.  A call that has given up does no harm by itself.
SerialStartIdempotent == ~overlap /\ ~retried => OneSupplicant

\* Without such calls the two pointers show the one live thread, a call that sees
\* wpa_embox_global cleared finds the interface gone too, and the thread whose event
\* loop runs, which is where jobs use the pointers, finds its own in them.  That
\* wpa_embox_wpa_s still names the interface after it was freed is seen by no job.
PointersOfLiveThread ==
    ~overlap /\ ~retried =>
        /\ {global, wpa_s} \subseteq Live \cup {None}
        /\ global = None => wpa_s = None
        /\ \A t \in Threads : tpc[t] = "run" => {global, wpa_s} = {t}

\* Every call of wpa_embox_start returns, whatever becomes of its thread.
StartReturns == \A c \in Callers : cpc[c] # "idle" ~> cpc[c] = "idle"
===============================================================================
