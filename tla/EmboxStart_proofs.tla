--------------------------- MODULE EmboxStart_proofs ---------------------------
(***************************************************************************)
(* Proofs about EmboxStart for any callers, threads and number of polls:   *)
(* what wpa_embox_start promises to calls that neither begin during        *)
(* another nor retry one that gave up while its thread is starting.        *)
(***************************************************************************)
EXTENDS EmboxStart, FiniteSetTheorems, TLAPS

USE StartAssumption DEF threadVars, callVars, vars

CallPlaces == {"idle", "up", "spawn", "poll"}
ThreadPlaces == {"unborn", "init", "iface", "ready", "run", "freed", "clear", "dead"}

TypeInv ==
    /\ cpc \in [Callers -> CallPlaces]
    /\ tpc \in [Threads -> ThreadPlaces]
    /\ ready \in BOOLEAN
    /\ overlap \in BOOLEAN
    /\ retried \in BOOLEAN

\* One call at a time; while it brings up the interface no thread lives.
OneStart ==
    /\ \A c, d \in Callers : cpc[c] # "idle" /\ cpc[d] # "idle" => c = d
    /\ \A c \in Callers : cpc[c] \in {"up", "spawn"} => Live = {}

\* One thread at a time, shown by the pointers from wpa_supplicant_init on, and from
\* wpa_supplicant_add_iface until the interface has been freed.
OneThread ==
    /\ \A t, u \in Live : t = u
    /\ \A t \in Threads : tpc[t] \in {"iface", "ready", "run", "freed", "clear"} <=> global = t
    /\ \A t \in Threads : tpc[t] \in {"ready", "run", "freed"} <=> wpa_s = t
    /\ {global, wpa_s} \subseteq Threads \cup {None}

StartInv == TypeInv /\ (~overlap /\ ~retried => OneStart /\ OneThread)

USE DEF Live, CallPlaces, ThreadPlaces, At, Return, Moves

LEMMA TypePreserved == TypeInv /\ [Next]_vars => TypeInv'
<1> SUFFICES ASSUME TypeInv, [Next]_vars PROVE TypeInv'
  OBVIOUS
<1> USE DEF TypeInv
<1>1. ASSUME NEW c \in Callers, Start(c) PROVE TypeInv'
  BY <1>1 DEF Start
<1>2. ASSUME NEW c \in Callers, BringUp(c) PROVE TypeInv'
  BY <1>2 DEF BringUp
<1>3. ASSUME NEW c \in Callers, Spawn(c) PROVE TypeInv'
  BY <1>3 DEF Spawn
<1>4. ASSUME NEW c \in Callers, PollAgain(c) \/ PollEnds(c) PROVE TypeInv'
  BY <1>4 DEF PollAgain, PollEnds
<1>5. ASSUME NEW t \in Threads, ThreadStep(t) PROVE TypeInv'
  BY <1>5 DEF ThreadStep, SuppInit, AddIface, Ready, RunEnds, ClearIface, Exit
<1>6. CASE UNCHANGED vars
  BY <1>6
<1> QED BY <1>1, <1>2, <1>3, <1>4, <1>5, <1>6 DEF Next, CallStep

\* A call that finds no supplicant: were one alive, it would still be in
\* wpa_supplicant_init, and this call the retry of one that gave up.
LEMMA StartPreserves ==
    ASSUME TypeInv, OneStart, OneThread, NEW c \in Callers, Start(c), ~overlap', ~retried'
    PROVE  OneStart' /\ OneThread'
<1>1. OneThread'
  BY DEF Start, OneThread
<1>2. CASE Running
  <2>1. cpc[c] = "idle" /\ cpc' = [cpc EXCEPT ![c] = "idle"] /\ UNCHANGED <<tpc, ready>>
    BY <1>2 DEF Start
  <2>2. UNCHANGED cpc
    BY <2>1 DEF TypeInv
  <2> QED BY <1>1, <2>1, <2>2 DEF OneStart
<1>3. CASE ~Running
  <2>1. cpc' = [cpc EXCEPT ![c] = "up"] /\ UNCHANGED <<tpc, ready>>
    BY <1>3 DEF Start
  <2>2. \A d \in Callers : cpc[d] = "idle"
    BY <1>3 DEF Start, TypeInv
  <2>3. Live = {}
    <3>1. \A t \in Threads : tpc[t] # "init"
      BY <1>3 DEF Start
    <3>2. \A t \in Threads : tpc[t] \notin {"iface", "ready", "run", "freed", "clear"}
      BY <1>3 DEF Running, OneThread
    <3> QED BY <3>1, <3>2 DEF TypeInv
  <2>4. Live' = {}
    BY <2>1, <2>3
  <2> QED BY <1>1, <2>1, <2>2, <2>4 DEF OneStart, TypeInv
<1> QED BY <1>1, <1>2, <1>3

LEMMA BringUpPreserves ==
    ASSUME TypeInv, OneStart, OneThread, NEW c \in Callers, BringUp(c)
    PROVE  OneStart' /\ OneThread'
<1>1. OneThread'
  BY DEF BringUp, OneThread
<1>2. Live = {} /\ Live' = {}
  BY DEF BringUp, OneStart
<1>3. cpc[c] = "up" /\ \E place \in {"idle", "spawn"} : cpc' = [cpc EXCEPT ![c] = place]
  BY DEF BringUp
<1>4. \A d \in Callers : cpc'[d] # "idle" => cpc[d] # "idle"
  BY <1>3 DEF TypeInv
<1> QED BY <1>1, <1>2, <1>4 DEF OneStart

\* The thread that is created is the only one, and its caller goes on to wait for it.
LEMMA SpawnPreserves ==
    ASSUME TypeInv, OneStart, OneThread, NEW c \in Callers, Spawn(c)
    PROVE  OneStart' /\ OneThread'
<1>1. Live = {} /\ \A d \in Callers : d # c => cpc[d] = "idle"
  BY DEF Spawn, OneStart, TypeInv
<1>2. CASE UNCHANGED tpc
  <2>1. cpc' = [cpc EXCEPT ![c] = "idle"] \/ cpc' = [cpc EXCEPT ![c] = "poll"]
    BY DEF Spawn
  <2> QED BY <1>1, <1>2, <2>1 DEF Spawn, OneStart, OneThread, TypeInv
<1>3. ASSUME NEW t \in Threads, tpc[t] = "unborn", tpc' = [tpc EXCEPT ![t] = "init"],
             cpc' = [cpc EXCEPT ![c] = "poll"]
      PROVE  OneStart' /\ OneThread'
  <2>1. Live' = {t}
    BY <1>1, <1>3 DEF TypeInv
  <2>2. OneStart'
    BY <1>1, <1>3, <2>1 DEF OneStart, TypeInv
  <2>3. OneThread'
    BY <1>3, <2>1 DEF OneThread, Spawn, TypeInv
  <2> QED BY <2>2, <2>3
<1> QED BY <1>2, <1>3 DEF Spawn

\* A call that returns leaves its thread to come up, if it has given up.
LEMMA PollPreserves ==
    ASSUME TypeInv, OneStart, OneThread, NEW c \in Callers, PollAgain(c) \/ PollEnds(c)
    PROVE  OneStart' /\ OneThread'
<1>1. OneThread'
  BY DEF PollAgain, PollEnds, OneThread
<1>2. UNCHANGED tpc /\ (UNCHANGED cpc \/ cpc' = [cpc EXCEPT ![c] = "idle"])
  BY DEF PollAgain, PollEnds
<1>3. \A d \in Callers : cpc'[d] # "idle" => cpc'[d] = cpc[d]
  BY <1>2 DEF TypeInv
<1> QED BY <1>1, <1>2, <1>3 DEF OneStart

\* A thread moves: it is the only one, and no call is about to make another.
LEMMA ThreadPreserves ==
    ASSUME TypeInv, OneStart, OneThread, NEW t \in Threads, ThreadStep(t)
    PROVE  OneStart' /\ OneThread'
<1>1. t \in Live /\ Live' \subseteq Live
  BY DEF ThreadStep, SuppInit, AddIface, Ready, RunEnds, ClearIface, Exit, TypeInv
<1>2. \A u \in Threads : u # t => tpc[u] \in {"unborn", "dead"} /\ tpc'[u] = tpc[u]
  BY <1>1 DEF OneThread, ThreadStep, SuppInit, AddIface, Ready, RunEnds, ClearIface, Exit, TypeInv
<1>3. tpc'[t] # "init" /\ tpc'[t] \in ThreadPlaces /\ UNCHANGED cpc
  BY DEF ThreadStep, SuppInit, AddIface, Ready, RunEnds, ClearIface, Exit, TypeInv
<1>4. \A c \in Callers : cpc[c] \notin {"up", "spawn"}
  BY <1>1 DEF OneStart
<1>5. OneStart'
  BY <1>2, <1>3, <1>4 DEF OneStart
<1>6. OneThread'
  <2>1. CASE SuppInit(t)
    BY <1>1, <1>2, <2>1 DEF SuppInit, OneThread, TypeInv
  <2>2. CASE AddIface(t)
    BY <1>1, <1>2, <2>2 DEF AddIface, OneThread, TypeInv
  <2>3. CASE Ready(t)
    BY <1>1, <1>2, <2>3 DEF Ready, OneThread, TypeInv
  <2>4. CASE RunEnds(t) \/ ClearIface(t)
    BY <1>1, <1>2, <2>4 DEF RunEnds, ClearIface, OneThread, TypeInv
  <2>5. CASE Exit(t)
    BY <1>1, <1>2, <2>5 DEF Exit, OneThread, TypeInv
  <2> QED BY <2>1, <2>2, <2>3, <2>4, <2>5 DEF ThreadStep
<1> QED BY <1>5, <1>6

\* Bring-up by calls that neither begin during another nor retry one that gave up too
\* early: one call, one thread, and the pointers that show it.
THEOREM StartInvariant == Spec => []StartInv
<1>1. Init => StartInv
  <2> SUFFICES ASSUME Init PROVE TypeInv /\ OneStart /\ OneThread
    BY DEF StartInv
  <2>1. TypeInv
    BY DEF Init, TypeInv
  <2>2. (\A c \in Callers : cpc[c] = "idle") /\ (\A t \in Threads : tpc[t] = "unborn")
    BY DEF Init
  <2>3. OneStart
    BY <2>2 DEF OneStart
  <2>4. OneThread
    BY <2>2 DEF Init, OneThread
  <2> QED BY <2>1, <2>3, <2>4
<1>2. StartInv /\ [Next]_vars => StartInv'
  <2> SUFFICES ASSUME StartInv, [Next]_vars, ~overlap', ~retried'
               PROVE  OneStart' /\ OneThread'
    BY TypePreserved DEF StartInv
  <2>1. TypeInv /\ OneStart /\ OneThread
    BY DEF StartInv, TypeInv, Next, Start, CallStep, BringUp, Spawn, PollAgain, PollEnds,
           ThreadStep, SuppInit, AddIface, Ready, RunEnds, ClearIface, Exit
  <2>2. ASSUME NEW c \in Callers, Start(c) \/ CallStep(c)
        PROVE  OneStart' /\ OneThread'
    BY <2>1, <2>2, StartPreserves, BringUpPreserves, SpawnPreserves, PollPreserves DEF CallStep
  <2>3. ASSUME NEW t \in Threads, ThreadStep(t)
        PROVE  OneStart' /\ OneThread'
    BY <2>1, <2>3, ThreadPreserves
  <2>4. CASE UNCHANGED vars
    BY <2>1, <2>4 DEF OneStart, OneThread
  <2> QED BY <2>2, <2>3, <2>4 DEF Next
<1> QED BY <1>1, <1>2, PTL DEF Spec

\* wpa_embox_start is idempotent for such calls: at most one supplicant thread lives.
THEOREM SerialStartsIdempotent == Spec => []SerialStartIdempotent
<1>1. StartInv => SerialStartIdempotent
  <2> SUFFICES ASSUME StartInv, ~overlap, ~retried PROVE Cardinality(Live) <= 1
    BY DEF SerialStartIdempotent, OneSupplicant
  <2>1. \A t, u \in Live : t = u
    BY DEF StartInv, OneThread
  <2>2. CASE Live = {}
    BY <2>2, FS_EmptySet
  <2>3. ASSUME NEW t \in Live PROVE Cardinality(Live) <= 1
    <3>1. Live = {t}
      BY <2>1, <2>3
    <3>2. Cardinality({t}) = 1
      BY FS_Singleton
    <3> HIDE DEF Live
    <3> QED BY <3>1, <3>2
  <2> QED BY <2>2, <2>3
<1> QED BY <1>1, StartInvariant, PTL

\* With such calls the pointers show a live thread or nothing, wpa_embox_wpa_s is cleared
\* before wpa_embox_global, and a running event loop finds its own thread in both.
THEOREM PointersShowLiveThread == Spec => []PointersOfLiveThread
<1>1. StartInv => PointersOfLiveThread
  BY DEF StartInv, OneThread, TypeInv, PointersOfLiveThread
<1> QED BY <1>1, StartInvariant, PTL
=============================================================================
