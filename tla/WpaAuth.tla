------------------------------- MODULE WpaAuth -------------------------------
(***************************************************************************)
(* The authenticator of src/ap/wpa_auth.c: for every station the state     *)
(* machine of the 4-way handshake (WPA_PTK) and that of the group key      *)
(* handshake (WPA_PTK_GROUP), and the one that replaces the group key, as  *)
(* a WPA2-PSK access point in the default configuration runs them (no      *)
(* extended key IDs, retries not disabled, PTK0 may be rekeyed).           *)
(*                                                                         *)
(* The daemon has one thread.  A handler runs when it is at rest, changes  *)
(* flags and calls wpa_sm_step, which takes the machines from state to     *)
(* state until nothing changes.  Every state entered is a step here; at    *)
(* says which machine is next and cur whose it is.                         *)
(*                                                                         *)
(* Nonces are numbered as they are drawn, 0 is the zero nonce; a PTK is    *)
(* the pair of its nonces.  A station is arbitrary: it sends any message   *)
(* with any counter, nonce and MIC.  Allocation is taken to succeed.       *)
(***************************************************************************)
EXTENDS Integers, FiniteSets

CONSTANTS
    Stations,
    SNonces,                     \* nonces of the stations
    NoKey, None,                 \* a key or frame that is not there; no station
    Confs,                       \* the configurations to consider, see Init
    Malformed,                   \* whether stations also send malformed frames
    MaxANonce                    \* bound: nonces drawn

ASSUME WpaAuthAssumption ==
    /\ IsFiniteSet(Stations)
    /\ None \notin Stations
    /\ SNonces \subseteq Nat \ {0}
    /\ MaxANonce \in Nat
    /\ Malformed \in BOOLEAN
    /\ LET keys == (1..MaxANonce) \X SNonces IN
       /\ NoKey \notin keys
       /\ NoKey \notin [type : {"2/4", "4/4", "2/2", "request_ptk", "request_gtk"}, mic : keys]
    /\ \A c \in Confs :
        /\ {c.wpa_pairwise_update_count, c.wpa_group_update_count, c.MaxGtk, c.MaxCtr}
             \subseteq Nat \ {0}
        /\ c.Events \subseteq
            {"request", "rekey_ptk", "reassoc", "disassoc", "remove", "wnm", "fail"}

VARIABLES
    sm,          \* struct wpa_state_machine of every station
    group,       \* struct wpa_group, with wpa_auth->conf; tx is the group key the driver has
    anonces,     \* the last ANonce drawn
    cur, at,     \* the station and the machine that wpa_sm_step is at
    changed,     \* sm->changed or group->changed
    then,        \* what the handler does after wpa_sm_step, and for whom
    todo,        \* the stations wpa_group_setkeys has still to update
    out          \* the frame that the step hands to the driver

vars == <<sm, group, anonces, cur, at, changed, then, todo, out>>

\* The configuration: how often frames are sent, and what may happen beside the
\* handshakes.  It also holds the bounds MaxGtk, of the group keys drawn, and MaxCtr,
\* of the frames sent before an update of the SNonce or the end of WNM sleep.
wpa_pairwise_update_count == group.conf.wpa_pairwise_update_count
wpa_group_update_count == group.conf.wpa_group_update_count
Events == group.conf.Events

PTKs == (1..MaxANonce) \X SNonces
Nothing == <<"nothing", None>>

\* RSNA_MAX_EAPOL_RETRIES
MaxPending == 4

\* Bound: GKeyDoneStations up to which stations wake up from WNM-Sleep Mode.
MaxCount == Cardinality(Stations)

\* Not started, everything zero.  key_replay and prev_key_replay are the counters
\* that are valid in them, ctr is that of the last frame; req holds the request
\* flags; rx is the frame of EAPOLKeyReceived, last the last_rx_eapol_key, which
\* outlives it; alt_SNonce is NoKey if it is not valid; tk is the key that the driver
\* has, NoKey when pairwise_set is false.
NewSm ==
    [started |-> FALSE, assoc |-> FALSE, req |-> {}, wpa_ptk_state |-> "INITIALIZE",
     wpa_ptk_group_state |-> "IDLE", TimeoutEvt |-> FALSE, TimeoutCtr |-> 0,
     GTimeoutCtr |-> 0, GUpdateStationKeys |-> FALSE, PtkGroupInit |-> FALSE,
     PTK |-> NoKey, tk |-> NoKey, ANonce |-> 0, SNonce |-> 0,
     alt_SNonce |-> NoKey, alt_replay_counter |-> 0, update_snonce |-> FALSE,
     ctr |-> 0, key_replay |-> {}, prev_key_replay |-> {}, req_replay_counter |-> 0,
     rx |-> NoKey, last |-> NoKey, MICVerified |-> FALSE, timers |-> 0, rekey_timer |-> FALSE,
     is_wnmsleep |-> FALSE]

\* The group machine has been initialised: GTK_INIT, then SETKEYSDONE.
Init ==
    /\ sm = [s \in Stations |-> NewSm]
    /\ group \in [state : {"SETKEYSDONE"}, GTKReKey : {FALSE}, GTK : {1}, tx : {1},
                  GKeyDoneStations : {0}, first_sta_seen : {FALSE},
                  reject_4way_hs_for_entropy : {FALSE}, conf : Confs]
    /\ anonces = 0
    /\ cur = None
    /\ at = "rest"
    /\ changed = FALSE
    /\ then = Nothing
    /\ todo = {}
    /\ out = NoKey

-----------------------------------------------------------------------------
(* Parts of the actions, on the record r of a station                       *)

\* The requests that WPA_PTK looks at in any state; each yields to those ahead.
Ahead == [Init |-> {}, Disconnect |-> {"Init"}, Deauth |-> {"Init", "Disconnect"},
          Auth |-> {"Init", "Disconnect", "Deauth"},
          ReAuth |-> {"Init", "Disconnect", "Deauth", "Auth"},
          PTK |-> {"Init", "Disconnect", "Deauth", "Auth", "ReAuth"}]
Due(r, q) == q \in r.req /\ r.req \cap Ahead[q] = {}
InState(r, st) == r.req = {} /\ r.wpa_ptk_state = st

\* wpa_remove_ptk
RemovePtk(r) == [r EXCEPT !.PTK = NoKey, !.tk = NoKey, !.rekey_timer = FALSE]

\* wpa_auth_sm_event for WPA_DEAUTH and WPA_DISASSOC, before its wpa_sm_step.
Deauth(r) == RemovePtk([r EXCEPT !.req = @ \cup {"Deauth"}])

\* wpa_sta_disconnect: ap_sta_disconnect marks the station and raises WPA_DEAUTH.
StaDisconnect(r) == Deauth([r EXCEPT !.assoc = FALSE])

\* The counters valid in key_replay once the next frame is sent: the last four.
Pending(r) == {c \in r.key_replay \cup {r.ctr + 1} : c + MaxPending > r.ctr + 1}

\* Mutant: the counter of the frames is not incremented.
MutSendEapol(r) == [r EXCEPT !.key_replay = Pending(r), !.timers = @ + 1]

\* Mutant: the frame is not timed.
MutSendUntimed(r) == [r EXCEPT !.ctr = r.ctr + 1, !.key_replay = Pending(r)]

\* wpa_send_eapol; the timer is registered even if the frame is not sent.
SendEapol(r) ==
    [r EXCEPT !.ctr = r.ctr + 1, !.key_replay = Pending(r), !.timers = @ + 1]

\* The frame sent to s with the counter of r: none with a MIC if PTK is not valid.
Frame(s, r, type) ==
    IF type # "1/4" /\ r.PTK = NoKey THEN NoKey
    ELSE [to |-> s, type |-> type, ctr |-> r.ctr, nonce |-> r.ANonce, mic |-> r.PTK,
          gtk |-> group.GTK]

\* Mutant: leaving the group rekeying does not count.
MutUndone(r) == group.GKeyDoneStations

\* GKeyDoneStations when the station with record r is no longer waited for.
Undone(r) == IF r.GUpdateStationKeys THEN group.GKeyDoneStations - 1 ELSE group.GKeyDoneStations

Received(r, types) == r.rx # NoKey /\ r.rx.type \in types
PairwiseReceived(r) == Received(r, {"2/4", "4/4"})

\* A machine of wpa_sm_step has its turn: its record becomes r, it sends f.
Turn(s, this, next, r, f, ch) ==
    /\ at = this
    /\ cur = s
    /\ sm' = [sm EXCEPT ![s] = r]
    /\ changed' = ch
    /\ at' = next
    /\ out' = f
    /\ UNCHANGED <<cur, then, todo>>

-----------------------------------------------------------------------------
(* SM_STEP(WPA_PTK), an action for every state it enters                    *)

\* WPA_PTK enters a state: the record becomes r, f is sent.
EnterPtk(s, r, f) == Turn(s, "ptk", "group", r, f, TRUE)

PtkInitialize(s) ==
    LET r == sm[s] IN
    /\ Due(r, "Init") \/ InState(r, "DISCONNECTED")
    /\ Turn(s, "ptk", "group",
            [RemovePtk(r) EXCEPT !.wpa_ptk_state = "INITIALIZE", !.GUpdateStationKeys = FALSE,
                                 !.TimeoutCtr = 0],
            NoKey, "Init" \notin r.req)
    /\ group' = [group EXCEPT !.GKeyDoneStations = Undone(r)]
    /\ UNCHANGED anonces

\* No PSK is found, or a retry limit is reached.
GivesUp(r) ==
    \/ InState(r, "INITPSK") /\ "fail" \in Events
    \/ /\ InState(r, "PTKSTART")
       /\ ~PairwiseReceived(r)
       /\ r.TimeoutCtr > wpa_pairwise_update_count
    \/ /\ InState(r, "PTKINITNEGOTIATING")
       /\ ~r.update_snonce
       /\ ~(PairwiseReceived(r) /\ r.MICVerified)
       /\ r.TimeoutCtr > wpa_pairwise_update_count

PtkDisconnect(s) ==
    LET r == sm[s] IN
    /\ Due(r, "Disconnect") \/ GivesUp(r)
    /\ EnterPtk(s, StaDisconnect([r EXCEPT !.req = @ \ {"Disconnect"},
                                           !.wpa_ptk_state = "DISCONNECT"]), NoKey)
    /\ UNCHANGED <<group, anonces>>

PtkDisconnected(s) ==
    LET r == sm[s] IN
    /\ Due(r, "Deauth") \/ InState(r, "DISCONNECT")
    /\ EnterPtk(s, [r EXCEPT !.req = @ \ {"Deauth"}, !.wpa_ptk_state = "DISCONNECTED"], NoKey)
    /\ UNCHANGED <<group, anonces>>

PtkAuthentication(s) ==
    LET r == sm[s] IN
    /\ Due(r, "Auth")
    /\ EnterPtk(s, [r EXCEPT !.req = @ \ {"Auth"}, !.wpa_ptk_state = "AUTHENTICATION",
                             !.PTK = NoKey], NoKey)
    /\ UNCHANGED <<group, anonces>>

\* wpa_group_ensure_init: before the first station the group key is drawn again,
\* perhaps without enough entropy (ready) or without success (ok).
EnsureInit(ready, ok) ==
    IF group.first_sta_seen THEN group
    ELSE [group EXCEPT !.GTK = @ + 1, !.tx = IF ok THEN group.GTK + 1 ELSE @,
                       !.first_sta_seen = ready /\ ok,
                       !.reject_4way_hs_for_entropy = ~(ready /\ ok)]

MayFail == IF "fail" \in Events THEN BOOLEAN ELSE {TRUE}

PtkAuthentication2(s) ==
    LET r == [sm[s] EXCEPT !.req = @ \ {"ReAuth"}, !.wpa_ptk_state = "AUTHENTICATION2"] IN
    /\ Due(sm[s], "ReAuth") \/ InState(sm[s], "AUTHENTICATION")
    /\ \E ready, ok \in MayFail : group' = EnsureInit(ready, ok)
    /\ \/ /\ anonces' = anonces + 1
          /\ EnterPtk(s, [r EXCEPT !.ANonce = anonces + 1, !.TimeoutCtr = 0], NoKey)
       \/ /\ "fail" \in Events
          /\ EnterPtk(s, [r EXCEPT !.req = @ \cup {"Disconnect"}], NoKey)
          /\ UNCHANGED anonces

PtkInitPsk(s) ==
    LET r == sm[s] IN
    /\ InState(r, "AUTHENTICATION2")
    /\ EnterPtk(s, [r EXCEPT !.wpa_ptk_state = "INITPSK", !.req_replay_counter = 0], NoKey)
    /\ UNCHANGED <<group, anonces>>

\* PTKSTART for a station whose record was r: send 1/4 unless that was tried often
\* enough.
EnterPtkStart(s, r) ==
    LET q == [r EXCEPT !.wpa_ptk_state = "PTKSTART", !.req = @ \ {"PTK"}, !.TimeoutEvt = FALSE,
                       !.alt_SNonce = NoKey, !.TimeoutCtr = @ + 1]
        p == SendEapol(q)
    IN IF q.TimeoutCtr > wpa_pairwise_update_count
       THEN EnterPtk(s, q, NoKey)
       ELSE EnterPtk(s, p, Frame(s, p, "1/4"))

PtkStart(s) ==
    LET r == sm[s] IN
    /\ \/ InState(r, "INITPSK")
       \/ /\ InState(r, "PTKSTART")
          /\ ~PairwiseReceived(r)
          /\ ~GivesUp(r)
          /\ r.TimeoutEvt
       \/ /\ InState(r, "PTKCALCNEGOTIATING")
          /\ ~r.MICVerified
          /\ ~PairwiseReceived(r)
          /\ r.TimeoutEvt
    /\ EnterPtkStart(s, r)
    /\ UNCHANGED <<group, anonces>>

\* PTKRequest: wpa_auth_sm_ptk_update draws a new ANonce, or fails and leaves the
\* request pending.
PtkUpdate(s) ==
    LET r == sm[s] IN
    /\ Due(r, "PTK")
    /\ \/ /\ anonces' = anonces + 1
          /\ EnterPtkStart(s, [r EXCEPT !.ANonce = anonces + 1, !.TimeoutCtr = 0])
       \/ /\ "fail" \in Events
          /\ EnterPtk(s, [r EXCEPT !.req = (@ \cup {"Disconnect"}) \ {"Deauth"},
                                   !.wpa_ptk_state = "DISCONNECTED"], NoKey)
          /\ UNCHANGED anonces
    /\ UNCHANGED group

\* PTKCALCNEGOTIATING: the PTK of the SNonce received verifies the last frame and is
\* taken, or an element differs and the station is disconnected, or the frame is
\* ignored.  A 4/4 has no element at all.
PtkCalcNegotiating(s) ==
    LET r == [sm[s] EXCEPT !.wpa_ptk_state = "PTKCALCNEGOTIATING", !.rx = NoKey,
                           !.update_snonce = FALSE]
        PTK == <<r.ANonce, r.SNonce>>
        verified == r.last # NoKey /\ r.last.mic = PTK
        accepted == verified /\ r.last.type # "4/4"
    IN /\ \/ InState(sm[s], "PTKSTART") /\ PairwiseReceived(sm[s])
          \/ /\ InState(sm[s], "PTKCALCNEGOTIATING")
             /\ ~sm[s].MICVerified
             /\ PairwiseReceived(sm[s])
          \/ InState(sm[s], "PTKINITNEGOTIATING") /\ sm[s].update_snonce
       /\ \/ /\ accepted
             /\ EnterPtk(s, [r EXCEPT !.timers = 0, !.MICVerified = TRUE, !.PTK = PTK], NoKey)
          \/ /\ verified
             /\ ~accepted \/ "fail" \in Events
             /\ EnterPtk(s, StaDisconnect(r), NoKey)
          \/ /\ ~verified \/ "fail" \in Events
             /\ EnterPtk(s, r, NoKey)
       /\ UNCHANGED <<group, anonces>>

PtkCalcNegotiating2(s) ==
    LET r == sm[s] IN
    /\ InState(r, "PTKCALCNEGOTIATING")
    /\ r.MICVerified
    /\ EnterPtk(s, [r EXCEPT !.wpa_ptk_state = "PTKCALCNEGOTIATING2", !.TimeoutCtr = 0], NoKey)
    /\ UNCHANGED <<group, anonces>>

PtkInitNegotiating(s) ==
    LET r == sm[s]
        q == [r EXCEPT !.wpa_ptk_state = "PTKINITNEGOTIATING", !.TimeoutEvt = FALSE,
                       !.TimeoutCtr = @ + 1]
        p == SendEapol(q)
    IN /\ \/ InState(r, "PTKCALCNEGOTIATING2")
          \/ /\ InState(r, "PTKINITNEGOTIATING")
             /\ ~r.update_snonce
             /\ ~(PairwiseReceived(r) /\ r.MICVerified)
             /\ ~GivesUp(r)
             /\ r.TimeoutEvt
       /\ IF q.TimeoutCtr > wpa_pairwise_update_count
          THEN EnterPtk(s, q, NoKey)
          ELSE EnterPtk(s, p, Frame(s, p, "3/4"))
       /\ UNCHANGED <<group, anonces>>

\* The driver takes the PTK and its rekeying timer starts, or it refuses it.
PtkInitDone(s) ==
    LET r == [sm[s] EXCEPT !.wpa_ptk_state = "PTKINITDONE", !.rx = NoKey] IN
    /\ InState(sm[s], "PTKINITNEGOTIATING")
    /\ ~sm[s].update_snonce
    /\ PairwiseReceived(sm[s])
    /\ sm[s].MICVerified
    /\ \/ EnterPtk(s, [r EXCEPT !.tk = r.PTK, !.rekey_timer = TRUE], NoKey)
       \/ "fail" \in Events /\ EnterPtk(s, StaDisconnect(r), NoKey)
    /\ UNCHANGED <<group, anonces>>

\* No state is entered.
PtkStays(r) ==
    \/ r.req = {} /\ r.wpa_ptk_state \in {"INITIALIZE", "PTKINITDONE"}
    \/ /\ InState(r, "PTKSTART")
       /\ ~PairwiseReceived(r)
       /\ ~GivesUp(r)
       /\ ~r.TimeoutEvt
    \/ /\ InState(r, "PTKCALCNEGOTIATING")
       /\ ~r.MICVerified
       /\ ~PairwiseReceived(r)
       /\ ~r.TimeoutEvt
    \/ /\ InState(r, "PTKINITNEGOTIATING")
       /\ ~r.update_snonce
       /\ ~(PairwiseReceived(r) /\ r.MICVerified)
       /\ ~GivesUp(r)
       /\ ~r.TimeoutEvt

PtkStay(s) ==
    /\ PtkStays(sm[s])
    /\ Turn(s, "ptk", "group", sm[s], NoKey, FALSE)
    /\ UNCHANGED <<group, anonces>>

PtkStep(s) ==
    \/ PtkInitialize(s) \/ PtkDisconnect(s) \/ PtkDisconnected(s) \/ PtkAuthentication(s)
    \/ PtkAuthentication2(s) \/ PtkInitPsk(s) \/ PtkStart(s) \/ PtkUpdate(s)
    \/ PtkCalcNegotiating(s) \/ PtkCalcNegotiating2(s) \/ PtkInitNegotiating(s)
    \/ PtkInitDone(s) \/ PtkStay(s)

-----------------------------------------------------------------------------
(* SM_STEP(WPA_PTK_GROUP)                                                   *)

EnterGroup(s, r, f) == Turn(s, "group", "gsm", r, f, TRUE)

ToIdle(r) == "Init" \in r.req \/ r.PtkGroupInit
InGroupState(r, st) == ~ToIdle(r) /\ r.wpa_ptk_group_state = st
GroupAnswered(r) == Received(r, {"2/2"}) /\ r.MICVerified
Exhausted(r) == r.GTimeoutCtr > wpa_group_update_count

GroupIdle(s) ==
    LET r == sm[s] IN
    /\ ToIdle(r) \/ InGroupState(r, "KEYERROR") \/ InGroupState(r, "REKEYESTABLISHED")
    /\ Turn(s, "group", "gsm", [r EXCEPT !.wpa_ptk_group_state = "IDLE", !.GTimeoutCtr = 0,
                                         !.PtkGroupInit = FALSE],
            NoKey, "Init" \notin r.req)
    /\ UNCHANGED group

\* At the retry limit it returns before TimeoutEvt is cleared.
RekeyNegotiating(s) ==
    LET r == sm[s]
        q == [r EXCEPT !.wpa_ptk_group_state = "REKEYNEGOTIATING", !.GTimeoutCtr = @ + 1]
        p == SendEapol([q EXCEPT !.TimeoutEvt = FALSE])
    IN /\ \/ InGroupState(r, "IDLE") /\ r.GUpdateStationKeys
          \/ /\ InGroupState(r, "REKEYNEGOTIATING")
             /\ ~GroupAnswered(r)
             /\ ~Exhausted(r)
             /\ r.TimeoutEvt
       /\ IF q.GTimeoutCtr > wpa_group_update_count
          THEN EnterGroup(s, q, NoKey)
          ELSE EnterGroup(s, p, Frame(s, p, "1/2"))
       /\ UNCHANGED group

RekeyEstablished(s) ==
    LET r == sm[s] IN
    /\ InGroupState(r, "REKEYNEGOTIATING")
    /\ GroupAnswered(r)
    /\ EnterGroup(s, [r EXCEPT !.wpa_ptk_group_state = "REKEYESTABLISHED", !.rx = NoKey,
                               !.GUpdateStationKeys = FALSE, !.GTimeoutCtr = 0], NoKey)
    /\ group' = [group EXCEPT !.GKeyDoneStations = Undone(r)]

KeyError(s) ==
    LET r == sm[s] IN
    /\ InGroupState(r, "REKEYNEGOTIATING")
    /\ ~GroupAnswered(r)
    /\ Exhausted(r)
    /\ EnterGroup(s, [r EXCEPT !.wpa_ptk_group_state = "KEYERROR", !.GUpdateStationKeys = FALSE,
                               !.req = @ \cup {"Disconnect"}], NoKey)
    /\ group' = [group EXCEPT !.GKeyDoneStations = Undone(r)]

GroupStays(r) ==
    \/ InGroupState(r, "IDLE") /\ ~r.GUpdateStationKeys
    \/ /\ InGroupState(r, "REKEYNEGOTIATING")
       /\ ~GroupAnswered(r)
       /\ ~Exhausted(r)
       /\ ~r.TimeoutEvt

GroupStay(s) ==
    /\ GroupStays(sm[s])
    /\ Turn(s, "group", "gsm", sm[s], NoKey, changed)
    /\ UNCHANGED group

GroupStep(s) ==
    /\ GroupIdle(s) \/ RekeyNegotiating(s) \/ RekeyEstablished(s) \/ KeyError(s) \/ GroupStay(s)
    /\ UNCHANGED anonces

-----------------------------------------------------------------------------
(* wpa_group_sm_step, called at the end of every turn of wpa_sm_step        *)
(* ("gsm") and in the loop of wpa_rekey_gtk ("rekey"), which both go on     *)
(* while something changes.                                                 *)

GoOn(ch) ==
    /\ at' = CASE ~ch -> "return" [] ch /\ at = "gsm" -> "ptk" [] ch /\ at = "rekey" -> "rekey"
    /\ changed' = FALSE
    /\ out' = NoKey
    /\ UNCHANGED <<anonces, cur, then>>

\* wpa_group_setkeysdone: give the group key to the driver; if it refuses, the group
\* has failed and every station is marked to be disconnected.
SetKeysDone ==
    /\ at \in {"gsm", "rekey"}
    /\ group.state = "SETKEYS"
    /\ group.GKeyDoneStations = 0
    /\ \/ /\ group' = [group EXCEPT !.state = "SETKEYSDONE", !.tx = group.GTK]
          /\ UNCHANGED sm
       \/ /\ "fail" \in Events
          /\ group' = [group EXCEPT !.state = "FATAL_FAILURE"]
          /\ sm' = [s \in Stations |->
                      IF sm[s].started THEN [sm[s] EXCEPT !.req = @ \cup {"Disconnect"}] ELSE sm[s]]
    /\ GoOn(TRUE)
    /\ UNCHANGED todo

\* Mutant: the count of an unfinished rekeying is kept.
MutRecount == group.GKeyDoneStations

\* An unfinished rekeying is counted from 0 again.
Recount == 0

\* wpa_group_setkeys: draw a group key; the loop over the stations follows.
SetKeys ==
    /\ at \in {"gsm", "rekey"}
    /\ group.GTKReKey
    /\ group.state = "SETKEYSDONE" \/ (group.state = "SETKEYS" /\ group.GKeyDoneStations # 0)
    /\ group' = [group EXCEPT !.state = "SETKEYS", !.GTKReKey = FALSE, !.GTK = @ + 1,
                              !.GKeyDoneStations = Recount]
    /\ todo' = Stations
    /\ at' = "update"
    /\ changed' = TRUE
    /\ out' = NoKey
    /\ UNCHANGED <<sm, anonces, cur, then>>

GroupSmStay ==
    /\ at \in {"gsm", "rekey"}
    /\ ~(group.state = "SETKEYS" /\ group.GKeyDoneStations = 0)
    /\ group.state # "FATAL_FAILURE" => ~group.GTKReKey
    /\ GoOn(changed)
    /\ UNCHANGED <<sm, group, todo>>

\* Mutant: a station that has no PTK yet is waited for as well.
MutMustUpdate(r) == ~r.is_wnmsleep

\* Not a station that is still in its 4-way handshake, nor one in WNM-Sleep Mode.
MustUpdate(r) == r.wpa_ptk_state = "PTKINITDONE" /\ ~r.is_wnmsleep

\* wpa_group_update_sta: it is counted and wpa_sm_step is called, or it is skipped.
UpdateSta(s) ==
    IF MustUpdate(sm[s])
    THEN /\ sm' = [sm EXCEPT ![s].GUpdateStationKeys = TRUE]
         /\ group' = [group EXCEPT !.GKeyDoneStations = @ + 1]
         /\ cur' = s
         /\ at' = "ptk"
         /\ changed' = FALSE
    ELSE /\ sm' = [sm EXCEPT ![s].GUpdateStationKeys =
                        IF sm[s].wpa_ptk_state = "PTKINITDONE" THEN @ ELSE FALSE]
         /\ UNCHANGED <<group, cur, at, changed>>

UpdateNext ==
    /\ at = "update"
    /\ \E s \in todo : UpdateSta(s) /\ todo' = todo \ {s}
    /\ out' = NoKey
    /\ UNCHANGED <<anonces, then>>

\* All stations are done: the caller of wpa_group_sm_step looks at changed, which
\* the wpa_sm_step of a station has cleared.
UpdateEnd ==
    /\ at = "update"
    /\ todo = {}
    /\ at' = IF changed THEN "rekey" ELSE "return"
    /\ changed' = FALSE
    /\ out' = NoKey
    /\ UNCHANGED <<sm, group, anonces, cur, then, todo>>

-----------------------------------------------------------------------------
(* wpa_sm_step returns                                                      *)

\* The handler goes on: the record of s becomes r, wpa_sm_step(s) is called.
StepOn(s, r, next) ==
    /\ sm' = [sm EXCEPT ![s] = r]
    /\ cur' = s
    /\ at' = "ptk"
    /\ then' = next
    /\ UNCHANGED <<group, anonces, changed, todo>>

\* wpa_auth_sta_associated, after WPA_ASSOC: the first time the machines are
\* initialised; later the counters are cleared and the station authenticates again.
StaAssociated(s) ==
    LET r == sm[s] IN
    IF r.started
    THEN StepOn(s, [r EXCEPT !.ctr = 0, !.key_replay = {}, !.req = @ \cup {"ReAuth"}], Nothing)
    ELSE StepOn(s, [r EXCEPT !.started = TRUE, !.req = @ \cup {"Init"}], <<"auth", s>>)

\* wpa_auth_sm_event(WPA_REAUTH): a pending group key update is cancelled.
Reauth(s) ==
    LET r == sm[s] IN
    /\ sm' = [sm EXCEPT ![s] = [RemovePtk(r) EXCEPT !.GUpdateStationKeys = FALSE,
                                  !.PtkGroupInit = @ \/ r.GUpdateStationKeys,
                                  !.req = @ \cup {"ReAuth"}]]
    /\ group' = [group EXCEPT !.GKeyDoneStations = Undone(r)]
    /\ cur' = s
    /\ at' = "ptk"
    /\ then' = Nothing
    /\ UNCHANGED <<anonces, changed, todo>>

\* wpa_auth_sta_deinit and wpa_free_sta_sm.
Free(s) ==
    /\ sm' = [sm EXCEPT ![s] = NewSm]
    /\ group' = [group EXCEPT !.GKeyDoneStations = Undone(sm[s])]

\* The next station of wpa_group_setkeys, or what the handler has left to do.
Return ==
    /\ at = "return"
    /\ out' = NoKey
    /\ \/ /\ todo # {}
          /\ at' = "update"
          /\ UNCHANGED <<sm, group, anonces, cur, changed, then, todo>>
       \/ /\ todo = {}
          /\ LET s == then[2] IN
             \/ /\ then[1] = "auth"
                /\ StepOn(s, [sm[s] EXCEPT !.req = (@ \ {"Init"}) \cup {"Auth"}], Nothing)
             \/ then[1] = "associated" /\ StaAssociated(s)
             \/ then[1] = "reauth" /\ Reauth(s)
             \/ then[1] = "step" /\ StepOn(s, sm[s], Nothing)
             \/ /\ then[1] \in {"free", "nothing"}
                /\ IF then[1] = "free" THEN Free(s) ELSE UNCHANGED <<sm, group>>
                /\ cur' = None
                /\ at' = "rest"
                /\ then' = Nothing
                /\ UNCHANGED <<anonces, changed, todo>>

-----------------------------------------------------------------------------
(* wpa_receive, for frame f with the record r of its sender                 *)

IsRequest(f) == f.type \in {"request_ptk", "request_gtk"}

\* Mutant: the SNonce is updated in every state.
MutNewSNonce(r, f) ==
    /\ f.type = "2/4"
    /\ f.ctr \notin r.key_replay
    /\ f.ctr \in r.prev_key_replay
    /\ f.nonce # r.SNonce

\* A 2/4 that answers another 1/4 of this handshake, with another SNonce.
NewSNonce(r, f) ==
    /\ f.type = "2/4"
    /\ f.ctr \notin r.key_replay
    /\ f.ctr \in r.prev_key_replay
    /\ r.wpa_ptk_state = "PTKINITNEGOTIATING"
    /\ f.nonce # r.SNonce

\* A 4/4 that answers the 3/4 sent before the SNonce was updated.
OldSNonce(r, f) ==
    /\ f.type = "4/4"
    /\ r.alt_SNonce # NoKey
    /\ r.wpa_ptk_state = "PTKINITNEGOTIATING"
    /\ f.ctr = r.alt_replay_counter

\* Mutant: the counter of an answer is not looked at.
MutExpected(r, f) == TRUE

\* The counter is one of a frame sent, or fresh in a request.
Expected(r, f) ==
    IF IsRequest(f) THEN f.ctr > r.req_replay_counter
    ELSE f.ctr \in r.key_replay \/ NewSNonce(r, f) \/ OldSNonce(r, f)

\* A message that the machines wait for; r is the record after Updating.
InOrder(r, f) ==
    CASE f.type = "2/4" -> \/ r.wpa_ptk_state \in {"PTKSTART", "PTKCALCNEGOTIATING"}
                           \/ r.wpa_ptk_state = "PTKINITNEGOTIATING" /\ r.update_snonce
      [] f.type = "4/4" -> r.wpa_ptk_state = "PTKINITNEGOTIATING" /\ r.PTK # NoKey
      [] f.type = "2/2" -> r.wpa_ptk_group_state = "REKEYNEGOTIATING" /\ r.PTK # NoKey
      [] OTHER -> TRUE

\* What an SNonce update leaves before the frame is verified.
Updating(r, f) ==
    IF NewSNonce(r, f)
    THEN [r EXCEPT !.update_snonce = TRUE, !.alt_SNonce = r.SNonce, !.alt_replay_counter = r.ctr]
    ELSE r

\* The MIC is verified here if there is a PTK, except in an SNonce update.
Verifies(r) == r.PTK # NoKey /\ ~r.update_snonce
AltPtk(r) == <<r.ANonce, r.alt_SNonce>>
AltMic(r, f) == f.type = "4/4" /\ r.alt_SNonce # NoKey /\ f.mic = AltPtk(r)
MicOk(r, f) == f.mic = r.PTK \/ AltMic(r, f)

\* Mutant: the PTK is not switched.
MutVerified(r, f) ==
    IF ~Verifies(r) THEN [r EXCEPT !.MICVerified = FALSE]
    ELSE [r EXCEPT !.MICVerified = TRUE, !.timers = 0]

\* wpa_try_alt_snonce switches to the earlier PTK; the timers are cancelled.
Verified(r, f) ==
    IF ~Verifies(r) THEN [r EXCEPT !.MICVerified = FALSE]
    ELSE [r EXCEPT !.MICVerified = TRUE, !.timers = 0,
                   !.PTK = f.mic,
                   !.alt_SNonce = IF f.mic = r.PTK THEN @ ELSE NoKey]

Stored(f) == [type |-> f.type, mic |-> f.mic]

\* The counters of the frames sent are used up; those after the one answered are
\* kept for an update of the SNonce.
Consumed(r, f) ==
    [r EXCEPT !.prev_key_replay = IF f.type = "2/4" THEN {c \in r.key_replay : c > f.ctr} ELSE {},
              !.key_replay = {}, !.rx = Stored(f), !.last = Stored(f), !.SNonce = f.nonce]

\* A handler starts: it leaves record r for s and calls wpa_sm_step(s).
Handle(s, r, next) == at = "rest" /\ out' = NoKey /\ StepOn(s, r, next)

ReceiveAnswer(s, f) ==
    LET r == Updating(sm[s], f) IN
    /\ ~IsRequest(f)
    /\ Expected(sm[s], f)
    /\ InOrder(r, f)
    /\ NewSNonce(sm[s], f) => sm[s].ctr < group.conf.MaxCtr
    /\ IF f.type = "2/4" /\ group.reject_4way_hs_for_entropy
       THEN Handle(s, StaDisconnect(r), Nothing)
       ELSE /\ Verifies(r) => MicOk(r, f)
            /\ Handle(s, Consumed(Verified(r, f), f), Nothing)

\* A request for a new PTK (also a report of a MIC failure), or for a new group key
\* unless one is on its way.
ReceiveRequest(s, f) ==
    LET r == [Verified(sm[s], f) EXCEPT !.req_replay_counter = f.ctr, !.rx = NoKey,
                                        !.last = Stored(f), !.SNonce = f.nonce] IN
    /\ "request" \in Events
    /\ IsRequest(f)
    /\ Expected(sm[s], f)
    /\ Verifies(sm[s])
    /\ MicOk(sm[s], f)
    /\ \/ /\ f.type = "request_ptk"
          /\ anonces < MaxANonce
          /\ Handle(s, [r EXCEPT !.req = @ \cup {"PTK"}, !.PTK = NoKey], Nothing)
       \/ /\ f.type = "request_gtk"
          /\ group.GKeyDoneStations # 0
          /\ Handle(s, r, Nothing)
       \/ /\ f.type = "request_gtk"
          /\ group.GKeyDoneStations = 0
          /\ group.GTK < group.conf.MaxGtk
          /\ at = "rest"
          /\ sm' = [sm EXCEPT ![s] = r]
          /\ group' = [group EXCEPT !.GTKReKey = TRUE]
          /\ at' = "rekey"
          /\ then' = <<"step", s>>
          /\ out' = NoKey
          /\ UNCHANGED <<anonces, cur, changed, todo>>

\* Dropped, but no longer is MICVerified set.
ReceiveUnverified(s, f) ==
    LET r == sm[s] IN
    /\ at = "rest"
    /\ IsRequest(f) => "request" \in Events
    /\ Expected(r, f)
    /\ InOrder(Updating(r, f), f)
    /\ ~(f.type = "2/4" /\ group.reject_4way_hs_for_entropy)
    /\ IF Verifies(Updating(r, f)) THEN ~MicOk(r, f) ELSE IsRequest(f)
    /\ sm' = [sm EXCEPT ![s].MICVerified = FALSE]
    /\ out' = NoKey
    /\ UNCHANGED <<group, anonces, cur, at, changed, then, todo>>

\* Dropped as Key Ack is set, or Key MIC is not.  Only an update of the SNonce leaves
\* something behind: it is to be made at the next wpa_sm_step, whatever causes that.
ReceiveMalformed(s, f) ==
    /\ Malformed
    /\ at = "rest"
    /\ sm[s].assoc
    /\ NewSNonce(sm[s], f)
    /\ ~group.reject_4way_hs_for_entropy
    /\ sm[s].ctr < group.conf.MaxCtr
    /\ sm' = [sm EXCEPT ![s] = Updating(sm[s], f)]
    /\ out' = NoKey
    /\ UNCHANGED <<group, anonces, cur, at, changed, then, todo>>

\* ieee802_1x_receive drops the frames of a station that is not associated.
Receive(s, f) ==
    /\ sm[s].assoc
    /\ ReceiveAnswer(s, f) \/ ReceiveRequest(s, f) \/ ReceiveUnverified(s, f)

Frames(r) ==
    [type : {"2/4", "4/4", "2/2", "request_ptk", "request_gtk"}, ctr : 1..r.ctr,
     nonce : SNonces \cup {0}, mic : PTKs]

-----------------------------------------------------------------------------
(* The other handlers                                                       *)

\* hostapd_notif_assoc and hostapd_new_assoc_sta: WPA_ASSOC, then WPA_REAUTH for a
\* station that was associated, else wpa_auth_sta_associated.
Associate(s) ==
    LET r == sm[s] IN
    /\ r.started => "reassoc" \in Events
    /\ anonces < MaxANonce
    /\ ~group.first_sta_seen => group.GTK < group.conf.MaxGtk
    /\ Handle(s, RemovePtk([r EXCEPT !.assoc = TRUE]),
              <<IF r.assoc THEN "reauth" ELSE "associated", s>>)

\* hostapd_notif_disassoc: WPA_DISASSOC, then the station is removed.
Disassociate(s) ==
    /\ "disassoc" \in Events
    /\ sm[s].started
    /\ Handle(s, Deauth([sm[s] EXCEPT !.assoc = FALSE]), <<"free", s>>)

\* ap_handle_timer removes a station without an event.
Remove(s) ==
    /\ "remove" \in Events
    /\ at = "rest"
    /\ sm[s].started
    /\ Free(s)
    /\ out' = NoKey
    /\ UNCHANGED <<anonces, cur, at, changed, then, todo>>

\* wpa_send_eapol_timeout
Timeout(s) ==
    /\ sm[s].timers > 0
    /\ Handle(s, [sm[s] EXCEPT !.timers = @ - 1, !.TimeoutEvt = TRUE], Nothing)

\* wpa_rekey_ptk
RekeyPtk(s) ==
    /\ "rekey_ptk" \in Events
    /\ sm[s].rekey_timer
    /\ anonces < MaxANonce
    /\ Handle(s, [sm[s] EXCEPT !.rekey_timer = FALSE, !.req = @ \cup {"PTK"}, !.PTK = NoKey],
              Nothing)

\* wpa_rekey_gtk
RekeyGtk ==
    /\ at = "rest"
    /\ group.GTK < group.conf.MaxGtk
    /\ group' = [group EXCEPT !.GTKReKey = TRUE]
    /\ at' = "rekey"
    /\ out' = NoKey
    /\ UNCHANGED <<sm, anonces, cur, changed, then, todo>>

\* wpa_set_wnmsleep; when it ends, wpa_wnmsleep_rekey_gtk updates the station.
WnmSleep(s) ==
    /\ "wnm" \in Events
    /\ at = "rest"
    /\ sm[s].assoc
    /\ sm' = [sm EXCEPT ![s].is_wnmsleep = TRUE]
    /\ out' = NoKey
    /\ UNCHANGED <<group, anonces, cur, at, changed, then, todo>>

WnmWake(s) ==
    LET r == [sm[s] EXCEPT !.is_wnmsleep = FALSE]
        must == r.wpa_ptk_state = "PTKINITDONE" IN
    /\ "wnm" \in Events
    /\ at = "rest"
    /\ sm[s].is_wnmsleep
    /\ group.GKeyDoneStations <= MaxCount
    /\ sm[s].ctr < group.conf.MaxCtr
    /\ out' = NoKey
    /\ sm' = [sm EXCEPT ![s] = [r EXCEPT !.GUpdateStationKeys = must]]
    /\ group' = [group EXCEPT !.GKeyDoneStations = IF must THEN @ + 1 ELSE @]
    /\ IF must THEN cur' = s /\ at' = "ptk" ELSE UNCHANGED <<cur, at>>
    /\ UNCHANGED <<anonces, changed, then, todo>>

-----------------------------------------------------------------------------
Step ==
    \/ \E s \in Stations : PtkStep(s) \/ GroupStep(s)
    \/ SetKeysDone \/ SetKeys \/ GroupSmStay \/ UpdateNext \/ UpdateEnd \/ Return

Handler ==
    \/ \E s \in Stations :
        \/ Associate(s) \/ Disassociate(s) \/ Remove(s) \/ RekeyPtk(s)
        \/ WnmSleep(s) \/ WnmWake(s) \/ Timeout(s)
        \/ \E f \in Frames(sm[s]) : Receive(s, f) \/ ReceiveMalformed(s, f)
    \/ RekeyGtk

\* Nothing happens: the daemon may be at rest for good.
Idle == at = "rest" /\ UNCHANGED vars

Next == Step \/ Handler \/ Idle

Spec == Init /\ [][Next]_vars

\* wpa_sm_step runs to its end, and a timer that is registered expires.
FairSpec == Spec /\ WF_vars(Step) /\ \A s \in Stations : WF_vars(Timeout(s))

-----------------------------------------------------------------------------
(* Properties                                                               *)

TypeOK ==
    /\ anonces \in 0..MaxANonce
    /\ group.GTK \in Nat
    /\ cur \in Stations \cup {None}
    /\ at \in {"rest", "ptk", "group", "gsm", "rekey", "update", "return"}
    /\ todo \subseteq Stations
    /\ \A s \in Stations :
        /\ {sm[s].PTK, sm[s].tk} \subseteq PTKs \cup {NoKey}
        /\ sm[s].timers \in Nat
        /\ sm[s].TimeoutCtr \in 0..(wpa_pairwise_update_count + 1)
        /\ sm[s].GTimeoutCtr \in 0..(wpa_group_update_count + 1)
        /\ sm[s].key_replay \subseteq 1..sm[s].ctr

\* GKeyDoneStations is the number of the stations marked with GUpdateStationKeys that
\* wpa_group_setkeys has been at, whatever becomes of them: answers, retry limits,
\* disconnections, reauthentications, removals.  Above it the new group key would
\* never be used, below it too early.
CountsWaiting ==
    group.GKeyDoneStations = Cardinality({s \in Stations \ todo : sm[s].GUpdateStationKeys})

\* A malformed 2/4 can leave an update of the SNonce, for the handshake it belongs to:
\* it is still under way, or the next one starts without a PTK and drops the update.
Left(r) ==
    /\ Malformed
    /\ r.wpa_ptk_state = "PTKINITNEGOTIATING" \/ r.PTK = NoKey

\* At rest nothing is left undone: no request is pending and no frame received is
\* unprocessed, which the next handshake would take for an answer of its own.  Only
\* a failed group leaves that behind, with its stations marked to be disconnected.
Settled ==
    at = "rest" /\ group.state # "FATAL_FAILURE" =>
        /\ ~group.GTKReKey
        /\ \A s \in Stations : /\ sm[s].req = {}
                              /\ sm[s].rx = NoKey
                              /\ sm[s].update_snonce => Left(sm[s])

\* The update that a malformed 2/4 leaves is made at a timeout, and the handshake of
\* the group key may take that timeout for its own.
TimeoutTaken(r) == Malformed /\ r.wpa_ptk_group_state = "REKEYNEGOTIATING"

\* PTKINITDONE is entered, and the PTK given to the driver, only with a 4/4 under
\* that very PTK: not with a 2/4, and not with an answer under the other PTK that an
\* update of the SNonce leaves.  Not so where TimeoutTaken: WPA_PTK is left in
\* PTKCALCNEGOTIATING with an old PTK and counters still valid, and a 2/4 under that
\* PTK takes it to PTKINITDONE.
InstallsConfirmed ==
    [][\A s \in Stations :
          /\ sm[s].wpa_ptk_state # "PTKINITDONE" /\ sm'[s].wpa_ptk_state = "PTKINITDONE"
          /\ ~TimeoutTaken(sm[s])
          => /\ sm[s].PTK # NoKey
             /\ sm[s].rx = [type |-> "4/4", mic |-> sm[s].PTK]]_vars

Negotiating(r) == r.wpa_ptk_state \in {"PTKSTART", "PTKCALCNEGOTIATING", "PTKINITNEGOTIATING"}

\* Every 4-way handshake in which frames are not repeated ends, with a PTK or without.
\* Not so, perhaps, where a request, or a 2/2 during a rekeying of the PTK, cancels the
\* timer of the frame last sent; nor where a station updates its SNonce for ever.
HandshakeEnds ==
    \A s \in Stations :
        /\ Negotiating(sm[s])
        /\ wpa_pairwise_update_count = 1
        /\ Events \cap {"request", "rekey_ptk"} = {}
        ~> ~Negotiating(sm[s])

\* Every rekeying of the group ends: its new key comes into use, or the group fails.
\* Not so, perhaps, where a request or a rekeying of the PTK takes the timer of 1/2,
\* a station awake again is counted twice, or the last one waited for is removed.
RekeyEnds ==
    group.state = "SETKEYS" /\ Events \cap {"request", "rekey_ptk", "remove", "wnm"} = {}
    ~> group.state # "SETKEYS"
==============================================================================
