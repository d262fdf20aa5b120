--------------------------- MODULE WpaAuth_proofs ---------------------------
(***************************************************************************)
(* The authenticator, for any stations, nonces, configurations and bounds: *)
(* it gives a PTK to the driver only after a 4/4 under that PTK, it counts *)
(* the stations that have still to take the new group key correctly (if    *)
(* none uses WNM-Sleep Mode), and at rest it has nothing left undone.      *)
(* It never counts a retry too many.  A malformed 2/4 makes an exception   *)
(* of both the first and the third, which Settled and InstallsConfirmed    *)
(* state: it leaves update_snonce set without a step of the machines.      *)
(*                                                                         *)
(* The argument is about one run of wpa_sm_step at a time.  AuthInv says   *)
(* what holds of a station at rest, and of the one station that steps, in  *)
(* front of each of the machines.  Where KeyRules hold, an answer that is  *)
(* verified while WPA_PTK is in PTKINITNEGOTIATING is a 4/4 under the PTK. *)
(* That needs the replay counters: a PTK that an update of the SNonce left *)
(* would verify a 2/4 as well, if some counter were still valid.           *)
(***************************************************************************)
EXTENDS WpaAuth, FiniteSetTheorems, TLAPS

-----------------------------------------------------------------------------
(* Control                                                                  *)

Stepping == at \in {"ptk", "group", "gsm"}
Active(s) == cur = s /\ Stepping

\* The members of struct wpa_state_machine and of struct wpa_group.
Members ==
    {"started", "assoc", "req", "wpa_ptk_state", "wpa_ptk_group_state", "TimeoutEvt",
     "TimeoutCtr", "GTimeoutCtr", "GUpdateStationKeys", "PtkGroupInit", "PTK", "tk",
     "ANonce", "SNonce", "alt_SNonce", "alt_replay_counter", "update_snonce", "ctr",
     "key_replay", "prev_key_replay", "req_replay_counter", "rx", "last", "MICVerified",
     "timers", "rekey_timer", "is_wnmsleep"}
GroupMembers ==
    {"state", "GTKReKey", "GTK", "tx", "GKeyDoneStations", "first_sta_seen",
     "reject_4way_hs_for_entropy", "conf"}
Has(r, members) == DOMAIN r = members /\ r = [m \in members |-> r[m]]

Shape ==
    /\ sm = [s \in Stations |-> sm[s]]
    /\ \A s \in Stations : Has(sm[s], Members)
    /\ Has(group, GroupMembers)
    /\ group.conf \in Confs
    /\ at \in {"rest", "ptk", "group", "gsm", "rekey", "update", "return"}
    /\ Stepping => cur \in Stations
    /\ then = Nothing \/ then \in {"auth", "associated", "reauth", "step", "free"} \X Stations

\* A group key is asked for only in the loop of wpa_rekey_gtk, which no wpa_sm_step is
\* around, and no station is initialised then.
Control ==
    /\ todo \subseteq Stations
    /\ at \in {"rest", "rekey"} => todo = {}
    /\ Stepping => cur \notin todo
    /\ at = "rest" => then = Nothing
    /\ at \in {"rekey", "update"} \/ todo # {} => then = Nothing \/ then[1] = "step"
    /\ group.GTKReKey => at = "rekey" \/ group.state = "FATAL_FAILURE"

-----------------------------------------------------------------------------
(* What holds of a station with record r                                    *)

Negotiation == {"PTKSTART", "PTKCALCNEGOTIATING", "PTKINITNEGOTIATING"}

\* The answer that lets WPA_PTK enter PTKINITDONE.
Confirmed(r) == r.PTK # NoKey /\ r.rx = [type |-> "4/4", mic |-> r.PTK]

\* No PTK, or no frame that an answer could be to.
Deaf(r) == r.PTK = NoKey \/ r.key_replay = {}

\* The handshake of the group key, still under way or failed, may have taken a timeout
\* that an update of the SNonce left undone was waiting for.
Shares(r) ==
    /\ Malformed
    /\ r.wpa_ptk_group_state = "REKEYNEGOTIATING" \/ "Disconnect" \in r.req

\* The SNonce is to be updated, so that the PTK is calculated again.
Updates(r) == r.wpa_ptk_state = "PTKINITNEGOTIATING" /\ r.update_snonce

\* Always.
KeyRules(r) ==
    /\ r.wpa_ptk_state = "PTKINITNEGOTIATING" =>
           IF r.update_snonce THEN Deaf(r) \/ Malformed
           ELSE PairwiseReceived(r) /\ r.MICVerified => Confirmed(r) \/ Shares(r)
    /\ r.wpa_ptk_state \in {"PTKCALCNEGOTIATING", "PTKCALCNEGOTIATING2"} => ~r.update_snonce
    /\ r.update_snonce => Updates(r) \/ r.PTK = NoKey
    /\ Updates(r) => r.assoc \/ "Deauth" \in r.req
    /\ r.wpa_ptk_state = "PTKCALCNEGOTIATING2" => ~PairwiseReceived(r) \/ Shares(r)
    /\ r.wpa_ptk_state = "PTKCALCNEGOTIATING" =>
           IF r.MICVerified THEN ~PairwiseReceived(r) \/ Shares(r)
           ELSE Deaf(r) \/ Shares(r) \/ (Malformed /\ r.TimeoutEvt)
    /\ r.wpa_ptk_state = "PTKSTART" /\ PairwiseReceived(r) => Deaf(r)
    /\ r.wpa_ptk_state \in {"AUTHENTICATION", "AUTHENTICATION2", "INITPSK"} => r.PTK = NoKey
    /\ r.req \cap {"Deauth", "ReAuth", "PTK"} # {} => r.PTK = NoKey
    /\ r.rx # NoKey => r.last = r.rx

\* A station is marked for the group key update at most until WPA_PTK_GROUP is reset.
MarkRules(r) ==
    /\ r.wpa_ptk_group_state \in {"KEYERROR", "REKEYESTABLISHED"} \/ ToIdle(r) =>
           ~r.GUpdateStationKeys
    /\ "Init" \in r.req => r.req \subseteq {"Init", "Disconnect"}

\* Nothing that WPA_PTK would go on with, but for a timeout or an update left undone.
Calm(r) ==
    /\ r.wpa_ptk_state \in {"INITIALIZE", "PTKINITDONE"} \cup Negotiation
    /\ r.wpa_ptk_state \in {"PTKSTART", "PTKCALCNEGOTIATING"} => ~PairwiseReceived(r)
    /\ r.wpa_ptk_state = "PTKINITNEGOTIATING" =>
           (r.update_snonce => Malformed) /\ ~(PairwiseReceived(r) /\ r.MICVerified)

Unverified(r) == r.wpa_ptk_state = "PTKCALCNEGOTIATING" => ~r.MICVerified
Untimed(r) == r.wpa_ptk_state \in Negotiation => ~r.TimeoutEvt
Unstarted(r) == r.wpa_ptk_group_state = "IDLE" /\ r.GUpdateStationKeys

\* An update left undone was made at a timeout, which is still there.
Late(r) ==
    /\ Malformed
    /\ r.wpa_ptk_state = "PTKCALCNEGOTIATING"
    /\ ~PairwiseReceived(r)

\* In front of WPA_PTK, of WPA_PTK_GROUP and of wpa_group_sm_step.
AtPtk(r) ==
    /\ r.wpa_ptk_state \in Negotiation /\ r.TimeoutEvt => (Calm(r) /\ Unverified(r)) \/ Late(r)
    /\ Unstarted(r) => r.wpa_ptk_state = "PTKINITDONE"
    /\ Updates(r) /\ r.req = {} =>
           (Deaf(r) \/ r.TimeoutEvt) /\ (PairwiseReceived(r) \/ Malformed)
    /\ r.PtkGroupInit => "ReAuth" \in r.req

AtGroup(r) ==
    /\ Untimed(r) \/ Late(r)
    /\ ~Updates(r)
    /\ Unstarted(r) => r.wpa_ptk_state \notin Negotiation \/ r.PTK = NoKey
    /\ r.wpa_ptk_state = "PTKCALCNEGOTIATING2" => (~r.TimeoutEvt \/ Malformed) /\ ~Unstarted(r)
    /\ "Init" \in r.req => r.wpa_ptk_state = "INITIALIZE"
    /\ r.PtkGroupInit => r.wpa_ptk_state \notin {"PTKCALCNEGOTIATING", "PTKCALCNEGOTIATING2",
                                                "PTKINITNEGOTIATING"}

AtGsm(r) ==
    /\ Untimed(r) \/ Late(r)
    /\ ~Updates(r)
    /\ ~Unstarted(r)
    /\ ~r.PtkGroupInit

\* WPA_PTK entered no state, or was initialised.
Stayed(r) ==
    /\ Calm(r)
    /\ Unverified(r)
    /\ Untimed(r)
    /\ r.req = {} \/ "Init" \in r.req

\* WPA_PTK_GROUP entered no state.
GroupStayed(r) == r.wpa_ptk_group_state \in {"IDLE", "REKEYNEGOTIATING"}

\* wpa_sm_step is not at work on station s.
Resting(s, r) ==
    /\ Calm(r)
    /\ Untimed(r)
    /\ GroupStayed(r)
    /\ ~Unstarted(r)
    /\ ~r.PtkGroupInit
    /\ then # <<"step", s>> => Unverified(r)
    /\ r.req \subseteq {"Disconnect"} \cup (IF then = <<"auth", s>> THEN {"Init"} ELSE {})

\* Between WPA_ASSOC and wpa_auth_sta_associated.
Associating(r) ==
    /\ r.PTK = NoKey
    /\ r.req \subseteq {"Disconnect", "Deauth"}
    /\ ~Updates(r)
    /\ \/ Calm(r) /\ Untimed(r) /\ Unverified(r)
       \/ r.wpa_ptk_state \in {"DISCONNECT", "DISCONNECTED"}

StationRules(s) ==
    LET r == sm[s] IN
    /\ KeyRules(r)
    /\ MarkRules(r)
    /\ IF Active(s)
       THEN /\ at = "ptk" => AtPtk(r)
            /\ at = "group" => AtGroup(r)
            /\ at = "gsm" => AtGsm(r)
            /\ at # "ptk" /\ ~changed => Stayed(r)
            /\ at = "gsm" /\ ~changed => GroupStayed(r)
       ELSE Resting(s, r)
    /\ then = <<"associated", s>> => Associating(r)
    /\ then = <<"step", s>> => ~r.update_snonce
    /\ "Init" \in r.req => then = <<"auth", s>>

-----------------------------------------------------------------------------
(* The frame received, while the group works                                *)

Works == group.state # "FATAL_FAILURE"

\* The frame that WPA_PTK, or WPA_PTK_GROUP, waits for.
PtkReply(r) ==
    /\ r.req = {}
    /\ PairwiseReceived(r)
    /\ \/ r.wpa_ptk_state = "PTKSTART"
       \/ r.wpa_ptk_state = "PTKCALCNEGOTIATING" /\ ~r.MICVerified
       \/ r.wpa_ptk_state = "PTKINITNEGOTIATING" /\ (r.update_snonce \/ r.MICVerified)

GroupReply(r) ==
    /\ InGroupState(r, "REKEYNEGOTIATING")
    /\ GroupAnswered(r)

\* An update of the SNonce is made, whatever frame is there.
Recalculates(r) == r.req = {} /\ Updates(r)

\* The group key handshake is not at its retry limit c.
Within(c, r) ==
    r.wpa_ptk_group_state = "REKEYNEGOTIATING" => ~(r.GTimeoutCtr > c.wpa_group_update_count)

\* A 2/4 verified with the PTK that such an update left takes WPA_PTK straight on to
\* PTKINITDONE, with nothing to stop it.
Straight(c, r) ==
    /\ Malformed
    /\ r.req = {}
    /\ PairwiseReceived(r)
    /\ r.MICVerified
    /\ ~r.TimeoutEvt
    /\ InGroupState(r, "REKEYNEGOTIATING")
    /\ Within(c, r)
    /\ r.wpa_ptk_state \in {"PTKCALCNEGOTIATING", "PTKCALCNEGOTIATING2", "PTKINITNEGOTIATING"}

FrameAtPtk(c, r) ==
    /\ r.rx # NoKey => PtkReply(r) \/ GroupReply(r) \/ Recalculates(r) \/ Straight(c, r)
    /\ r.update_snonce => Malformed \/ (PtkReply(r) /\ r.wpa_ptk_state = "PTKINITNEGOTIATING")

FrameAtGroup(c, r) ==
    /\ r.rx # NoKey => GroupReply(r) \/ Straight(c, r)
    /\ r.update_snonce => Malformed

FrameAtGsm(c, r) ==
    /\ r.rx # NoKey => Straight(c, r)
    /\ r.update_snonce => Malformed

NoFrame(c, r) ==
    /\ r.rx = NoKey
    /\ r.update_snonce => Malformed
    /\ Within(c, r)

\* A 2/4 has been accepted, so that there is entropy enough; or a 1/4 may have been sent.
Accepted(r) ==
    \/ r.wpa_ptk_state \in {"PTKCALCNEGOTIATING", "PTKCALCNEGOTIATING2", "PTKINITNEGOTIATING"}
    \/ PairwiseReceived(r)
    \/ r.PTK # NoKey
    \/ r.rekey_timer
    \/ "PTK" \in r.req
Invited(r) == r.wpa_ptk_state \in {"AUTHENTICATION2", "INITPSK", "PTKSTART"}

\* wpa_group_ensure_init has been called; it never both finds entropy and misses it.
Contradicts == group.first_sta_seen /\ group.reject_4way_hs_for_entropy
Ensured == group.first_sta_seen \/ group.reject_4way_hs_for_entropy

EntropyRules(r) ==
    /\ Accepted(r) => group.first_sta_seen
    /\ Invited(r) => Ensured

FrameRules(s) ==
    LET r == sm[s] IN
    /\ EntropyRules(r)
    /\ "Init" \in r.req => r.req = {"Init"}
    /\ IF Active(s)
       THEN /\ at = "ptk" => FrameAtPtk(group.conf, r)
            /\ at = "group" => FrameAtGroup(group.conf, r)
            /\ at = "gsm" => FrameAtGsm(group.conf, r)
            /\ at = "gsm" /\ ~changed => Within(group.conf, r)
       ELSE /\ NoFrame(group.conf, r)
            /\ r.req \subseteq (IF then = <<"auth", s>> THEN {"Init"} ELSE {})

AuthInv ==
    /\ Shape
    /\ Control
    /\ \A s \in Stations : StationRules(s)
    /\ Works => \A s \in Stations : FrameRules(s)
    /\ ~Contradicts

-----------------------------------------------------------------------------
(* A turn of WPA_PTK                                                        *)

\* Record q differs from r at most in the members of S.
Alike(q, r, S) == Has(q, Members) /\ \A m \in Members \ S : q[m] = r[m]

PtkBefore(r) ==
    /\ Has(r, Members)
    /\ KeyRules(r)
    /\ MarkRules(r)
    /\ AtPtk(r)

\* What a turn of WPA_PTK makes of record r: q, with ch for changed.
PtkAfter(r, q, ch) ==
    /\ Has(q, Members)
    /\ KeyRules(q)
    /\ MarkRules(q)
    /\ AtGroup(q)
    /\ ~ch => Stayed(q)
    /\ Associating(r) => Associating(q)
    /\ "Init" \in q.req => q.req = r.req
    /\ q.update_snonce => r.update_snonce
    /\ FrameAtPtk(group.conf, r) => FrameAtGroup(group.conf, q)
    /\ Accepted(q) => Accepted(r)
    /\ Invited(q) => Invited(r) \/ Accepted(r) \/ Ensured'
    /\ q.is_wnmsleep = r.is_wnmsleep /\ q.started = r.started
    /\ \/ q.GUpdateStationKeys = r.GUpdateStationKeys
       \/ q.GUpdateStationKeys = FALSE /\ group' = [group EXCEPT !.GKeyDoneStations = Undone(r)]
    /\ q.wpa_ptk_state = "PTKINITDONE" =>
           r.wpa_ptk_state = "PTKINITDONE" \/ Confirmed(r) \/ TimeoutTaken(r)

USE DEF Has

\* wpa_send_eapol
LEMMA SendKeeps ==
    ASSUME NEW r, Has(r, Members)
    PROVE  Alike(SendEapol(r), r, {"ctr", "key_replay", "timers"})
BY DEF SendEapol, Members, Alike

\* wpa_sta_disconnect
LEMMA DisconnectKeeps ==
    ASSUME NEW r, Has(r, Members)
    PROVE  LET q == StaDisconnect(r) IN
           /\ Alike(q, r, {"assoc", "req", "PTK", "tk", "rekey_timer"})
           /\ q.PTK = NoKey
           /\ ~q.rekey_timer
           /\ q.req = r.req \cup {"Deauth"}
BY DEF StaDisconnect, Deauth, RemovePtk, Members, Alike

\* Disconnected for good: the PTK is removed.
LEMMA PtkInitializeTurn ==
    ASSUME Shape, NEW s \in Stations, PtkBefore(sm[s]), PtkInitialize(s)
    PROVE  PtkAfter(sm[s], sm'[s], changed')
<1> DEFINE r == sm[s]
           q == sm'[s]
<1>1. /\ q = [RemovePtk(r) EXCEPT !.wpa_ptk_state = "INITIALIZE", !.GUpdateStationKeys = FALSE,
                                  !.TimeoutCtr = 0]
      /\ changed' = ("Init" \notin r.req)
      /\ group' = [group EXCEPT !.GKeyDoneStations = Undone(r)]
      /\ Due(r, "Init") \/ InState(r, "DISCONNECTED")
  BY DEF Shape, PtkInitialize, Turn
<1> SUFFICES ASSUME PtkBefore(r) PROVE PtkAfter(r, q, changed')
  OBVIOUS
<1> HIDE DEF r, q
<1>2. /\ Alike(q, r, {"wpa_ptk_state", "GUpdateStationKeys", "TimeoutCtr", "PTK", "tk",
                      "rekey_timer"})
      /\ q.wpa_ptk_state = "INITIALIZE" /\ q.GUpdateStationKeys = FALSE
      /\ q.PTK = NoKey /\ ~q.rekey_timer
  BY <1>1 DEF PtkBefore, RemovePtk, Members, Alike
<1>3. KeyRules(q) /\ MarkRules(q) /\ AtGroup(q)
  BY <1>2 DEF PtkBefore, KeyRules, MarkRules, AtGroup, Untimed, Updates, Unstarted, Negotiation,
     Alike, Members
<1>4. ~changed' => Stayed(q)
  BY <1>1, <1>2 DEF Stayed, Calm, Unverified, Untimed, Negotiation, Alike, Members
<1>5. Associating(r) => Associating(q)
  BY <1>2 DEF Updates, Associating, Calm, Untimed, Unverified, Negotiation, Alike, Members
<1>6. FrameAtPtk(group.conf, r) => FrameAtGroup(group.conf, q)
  BY <1>1, <1>2 DEF FrameAtPtk, FrameAtGroup, PtkReply, Recalculates, Updates, Straight, GroupReply,
     InGroupState, ToIdle, GroupAnswered, Received, Due, InState, Alike, Members
<1>7. /\ Accepted(q) => Accepted(r)
      /\ ~Invited(q)
  BY <1>2 DEF Accepted, Invited, PairwiseReceived, Received, Alike, Members
<1> QED BY <1>1, <1>2, <1>3, <1>4, <1>5, <1>6, <1>7 DEF PtkAfter, Alike, Members

\* The members that WPA_PTK writes outside of the 4-way handshake.
Writes ==
    {"wpa_ptk_state", "req", "assoc", "PTK", "tk", "rekey_timer", "TimeoutCtr", "ANonce",
     "req_replay_counter"}

\* WPA_PTK enters a state outside of the 4-way handshake, which no answer makes it do.
LEMMA PtkLeaves ==
    ASSUME NEW r, NEW q, PtkBefore(r),
           Alike(q, r, Writes),
           q.wpa_ptk_state \in {"DISCONNECT", "DISCONNECTED", "AUTHENTICATION",
                                "AUTHENTICATION2", "INITPSK"},
           \/ q.PTK = NoKey
           \/ /\ q.PTK = r.PTK
              /\ q.wpa_ptk_state = "DISCONNECTED"
              /\ q.req \subseteq r.req
              /\ r.update_snonce => r.PTK = NoKey,
           q.rekey_timer => r.rekey_timer,
           q.req \subseteq r.req \cup {"Deauth", "Disconnect"},
           "Init" \notin r.req, ~PtkReply(r), ~Recalculates(r), ~Straight(group.conf, r),
           Associating(r) => Associating(q),
           q.wpa_ptk_state = "INITPSK" => Invited(r),
           q.wpa_ptk_state = "AUTHENTICATION2" => Ensured'
    PROVE  PtkAfter(r, q, TRUE)
<1>1. KeyRules(q) /\ MarkRules(q) /\ AtGroup(q)
  BY DEF PtkBefore, KeyRules, MarkRules, ToIdle, AtGroup, Untimed, Updates, Unstarted, Negotiation,
     Alike, Members, Writes
<1>2. FrameAtPtk(group.conf, r) => FrameAtGroup(group.conf, q)
  BY DEF FrameAtPtk, FrameAtGroup, GroupReply, InGroupState, ToIdle, GroupAnswered, Received,
     Alike, Members, Writes
<1>3. Accepted(q) => Accepted(r)
  BY DEF Accepted, PairwiseReceived, Received, Alike, Members, Writes
<1> QED BY <1>1, <1>2, <1>3 DEF PtkAfter, Invited, Alike, Members, Writes

LEMMA PtkDisconnectTurn ==
    ASSUME Shape, NEW s \in Stations, PtkBefore(sm[s]), PtkDisconnect(s)
    PROVE  PtkAfter(sm[s], sm'[s], changed')
<1> DEFINE r == sm[s]
           q == sm'[s]
           p == [r EXCEPT !.req = @ \ {"Disconnect"}, !.wpa_ptk_state = "DISCONNECT"]
<1>1. /\ q = StaDisconnect(p)
      /\ changed' = TRUE
      /\ Due(r, "Disconnect") \/ GivesUp(r)
  BY DEF Shape, PtkDisconnect, EnterPtk, Turn
<1> SUFFICES ASSUME PtkBefore(r) PROVE PtkAfter(r, q, changed')
  OBVIOUS
<1> HIDE DEF r, q
<1>2. /\ Alike(p, r, {"req", "wpa_ptk_state"})
      /\ p.req = r.req \ {"Disconnect"}
      /\ p.wpa_ptk_state = "DISCONNECT"
  BY DEF PtkBefore, Members, Alike, Writes
<1> HIDE DEF p
<1>3. /\ Alike(q, r, Writes)
      /\ q.wpa_ptk_state = "DISCONNECT"
      /\ q.PTK = NoKey
      /\ ~q.rekey_timer
      /\ q.req = (r.req \ {"Disconnect"}) \cup {"Deauth"}
  BY <1>1, <1>2, DisconnectKeeps DEF Alike, Members, Writes
<1>4. "Init" \notin r.req /\ ~PtkReply(r) /\ ~Recalculates(r) /\ ~Straight(group.conf, r)
  BY <1>1 DEF Due, Ahead, GivesUp, InState, PtkReply, Recalculates, Updates, Straight
<1>5. Associating(r) => Associating(q)
  BY <1>3 DEF Updates, Associating
<1> QED BY <1>1, <1>3, <1>4, <1>5, PtkLeaves

LEMMA PtkDisconnectedTurn ==
    ASSUME Shape, NEW s \in Stations, PtkBefore(sm[s]), PtkDisconnected(s)
    PROVE  PtkAfter(sm[s], sm'[s], changed')
<1> DEFINE r == sm[s]
           q == sm'[s]
<1>1. /\ q = [r EXCEPT !.req = @ \ {"Deauth"}, !.wpa_ptk_state = "DISCONNECTED"]
      /\ changed' = TRUE
      /\ Due(r, "Deauth") \/ InState(r, "DISCONNECT")
  BY DEF Shape, PtkDisconnected, EnterPtk, Turn
<1> SUFFICES ASSUME PtkBefore(r) PROVE PtkAfter(r, q, changed')
  OBVIOUS
<1> HIDE DEF r, q
<1>2. /\ Alike(q, r, Writes)
      /\ q.PTK = r.PTK /\ q.rekey_timer = r.rekey_timer
      /\ q.wpa_ptk_state = "DISCONNECTED"
      /\ q.req = r.req \ {"Deauth"}
  BY <1>1 DEF PtkBefore, Members, Alike, Writes
<1>3. "Init" \notin r.req /\ ~PtkReply(r) /\ ~Recalculates(r) /\ ~Straight(group.conf, r)
  BY <1>1 DEF Due, Ahead, InState, PtkReply, Recalculates, Updates, Straight
<1>4. Associating(r) => Associating(q)
  BY <1>2 DEF Updates, Associating
<1>5. r.update_snonce => r.PTK = NoKey
  BY <1>1 DEF Updates, PtkBefore, KeyRules, Due, InState
<1> QED BY <1>1, <1>2, <1>3, <1>4, <1>5, PtkLeaves

LEMMA PtkAuthenticationTurn ==
    ASSUME Shape, NEW s \in Stations, PtkBefore(sm[s]), PtkAuthentication(s)
    PROVE  PtkAfter(sm[s], sm'[s], changed')
<1> DEFINE r == sm[s]
           q == sm'[s]
<1>1. /\ q = [r EXCEPT !.req = @ \ {"Auth"}, !.wpa_ptk_state = "AUTHENTICATION", !.PTK = NoKey]
      /\ changed' = TRUE
      /\ Due(r, "Auth")
  BY DEF Shape, PtkAuthentication, EnterPtk, Turn
<1> SUFFICES ASSUME PtkBefore(r) PROVE PtkAfter(r, q, changed')
  OBVIOUS
<1> HIDE DEF r, q
<1>2. /\ Alike(q, r, Writes)
      /\ q.rekey_timer = r.rekey_timer
      /\ q.wpa_ptk_state = "AUTHENTICATION"
      /\ q.req = r.req \ {"Auth"}
      /\ q.PTK = NoKey
  BY <1>1 DEF PtkBefore, Members, Alike, Writes
<1>3. "Init" \notin r.req /\ ~PtkReply(r) /\ ~Recalculates(r) /\ ~Straight(group.conf, r)
  BY <1>1 DEF Due, Ahead, PtkReply, Recalculates, Straight
<1>4. ~Associating(r)
  BY <1>1 DEF Associating, Due
<1> QED BY <1>1, <1>2, <1>3, <1>4, PtkLeaves

\* The group goes on, and has seen a station at least as well as before.
GroupKept ==
    /\ Has(group', GroupMembers)
    /\ group'.conf = group.conf
    /\ group'.state = group.state
    /\ group'.GTKReKey = group.GTKReKey
    /\ group.first_sta_seen => group'.first_sta_seen
    /\ Ensured => Ensured'
    /\ Contradicts' => Contradicts

\* wpa_group_ensure_init
LEMMA Ensures ==
    ASSUME Shape, NEW ready, NEW ok, group' = EnsureInit(ready, ok)
    PROVE  GroupKept /\ Ensured'
<1>1. CASE group.first_sta_seen
  BY <1>1 DEF EnsureInit, GroupKept, Contradicts, Ensured, Shape
<1>2. CASE ~group.first_sta_seen
  <2> DEFINE g == [group EXCEPT !.GTK = @ + 1, !.tx = IF ok THEN group.GTK + 1 ELSE @,
                                !.first_sta_seen = ready /\ ok,
                                !.reject_4way_hs_for_entropy = ~(ready /\ ok)]
  <2>1. group' = g
    BY <1>2 DEF EnsureInit
  <2>2. /\ Has(g, GroupMembers)
        /\ g.conf = group.conf /\ g.state = group.state /\ g.GTKReKey = group.GTKReKey
    BY DEF Shape, GroupMembers
  <2>3. CASE ready /\ ok
    <3>1. g.first_sta_seen /\ ~g.reject_4way_hs_for_entropy
      BY <2>3 DEF Shape, GroupMembers
    <3> QED BY <2>1, <2>2, <3>1 DEF GroupKept, Contradicts, Ensured
  <2>4. CASE ~(ready /\ ok)
    <3>1. ~g.first_sta_seen /\ g.reject_4way_hs_for_entropy
      BY <2>4 DEF Shape, GroupMembers
    <3> QED BY <1>2, <2>1, <2>2, <3>1 DEF GroupKept, Contradicts, Ensured
  <2> QED BY <2>3, <2>4
<1> QED BY <1>1, <1>2

LEMMA PtkAuthentication2Turn ==
    ASSUME Shape, NEW s \in Stations, PtkBefore(sm[s]), PtkAuthentication2(s)
    PROVE  PtkAfter(sm[s], sm'[s], changed')
<1> DEFINE r == sm[s]
           q == sm'[s]
           p == [r EXCEPT !.req = @ \ {"ReAuth"}, !.wpa_ptk_state = "AUTHENTICATION2"]
<1>1. /\ \/ \E n : q = [p EXCEPT !.ANonce = n, !.TimeoutCtr = 0]
         \/ q = [p EXCEPT !.req = @ \cup {"Disconnect"}]
      /\ changed' = TRUE
      /\ Due(r, "ReAuth") \/ InState(r, "AUTHENTICATION")
  BY DEF Shape, PtkAuthentication2, EnterPtk, Turn
<1>0. Ensured'
  BY Ensures DEF PtkAuthentication2
<1> SUFFICES ASSUME PtkBefore(r) PROVE PtkAfter(r, q, changed')
  OBVIOUS
<1> HIDE DEF r, q
<1>2. /\ Alike(p, r, {"req", "wpa_ptk_state"})
      /\ p.wpa_ptk_state = "AUTHENTICATION2"
      /\ p.req = r.req \ {"ReAuth"}
  BY DEF PtkBefore, Members, Alike, Writes
<1> HIDE DEF p
<1>3. /\ Alike(q, r, Writes)
      /\ q.PTK = r.PTK /\ q.rekey_timer = r.rekey_timer
      /\ q.wpa_ptk_state = "AUTHENTICATION2"
      /\ q.req \subseteq r.req \cup {"Disconnect"}
  <2>1. CASE q = [p EXCEPT !.req = @ \cup {"Disconnect"}]
    BY <1>2, <2>1 DEF Alike, Members, Writes
  <2>2. CASE \E n : q = [p EXCEPT !.ANonce = n, !.TimeoutCtr = 0]
    BY <1>2, <2>2 DEF Alike, Members, Writes
  <2> QED BY <1>1, <2>1, <2>2
<1>4. q.PTK = NoKey
  BY <1>1, <1>3 DEF PtkBefore, KeyRules, Due, InState, Alike, Members
<1>5. /\ "Init" \notin r.req
      /\ ~PtkReply(r) /\ ~Recalculates(r) /\ ~Straight(group.conf, r)
      /\ ~Associating(r)
  BY <1>1 DEF Due, Ahead, InState, PtkReply, Recalculates, Updates, Straight, Associating, Calm,
     Negotiation
<1> QED BY <1>0, <1>1, <1>3, <1>4, <1>5, PtkLeaves

LEMMA PtkInitPskTurn ==
    ASSUME Shape, NEW s \in Stations, PtkBefore(sm[s]), PtkInitPsk(s)
    PROVE  PtkAfter(sm[s], sm'[s], changed')
<1> DEFINE r == sm[s]
           q == sm'[s]
<1>1. /\ q = [r EXCEPT !.wpa_ptk_state = "INITPSK", !.req_replay_counter = 0]
      /\ changed' = TRUE
      /\ InState(r, "AUTHENTICATION2")
  BY DEF Shape, PtkInitPsk, EnterPtk, Turn
<1> SUFFICES ASSUME PtkBefore(r) PROVE PtkAfter(r, q, changed')
  OBVIOUS
<1> HIDE DEF r, q
<1>2. /\ Alike(q, r, Writes)
      /\ q.PTK = r.PTK /\ q.rekey_timer = r.rekey_timer /\ q.req = r.req
      /\ q.wpa_ptk_state = "INITPSK"
  BY <1>1 DEF PtkBefore, Members, Alike, Writes
<1>3. q.PTK = NoKey /\ q.rekey_timer = r.rekey_timer /\ q.req = r.req
  BY <1>1, <1>2 DEF PtkBefore, KeyRules, InState, Alike, Members
<1>4. /\ "Init" \notin r.req
      /\ ~PtkReply(r) /\ ~Recalculates(r) /\ ~Straight(group.conf, r)
      /\ ~Associating(r) /\ Invited(r)
  BY <1>1 DEF InState, PtkReply, Recalculates, Updates, Straight, Associating, Calm, Negotiation,
     Invited
<1> QED BY <1>1, <1>2, <1>3, <1>4, PtkLeaves

\* PTKSTART, for a station with record r.
LEMMA PtkStartWrites ==
    ASSUME Shape, NEW s \in Stations, NEW r, Has(r, Members), EnterPtkStart(s, r)
    PROVE  /\ Alike(sm'[s], r, {"wpa_ptk_state", "req", "TimeoutEvt", "alt_SNonce", "TimeoutCtr",
                                "ctr", "key_replay", "timers"})
           /\ sm'[s].wpa_ptk_state = "PTKSTART"
           /\ sm'[s].req = r.req \ {"PTK"}
           /\ ~sm'[s].TimeoutEvt
           /\ changed' = TRUE
<1> DEFINE q == sm'[s]
           p == [r EXCEPT !.wpa_ptk_state = "PTKSTART", !.req = @ \ {"PTK"}, !.TimeoutEvt = FALSE,
                          !.alt_SNonce = NoKey, !.TimeoutCtr = @ + 1]
<1>1. q \in {p, SendEapol(p)} /\ changed' = TRUE
  BY DEF Shape, EnterPtkStart, EnterPtk, Turn
<1> HIDE DEF q
<1>2. /\ Alike(p, r, {"wpa_ptk_state", "req", "TimeoutEvt", "alt_SNonce", "TimeoutCtr"})
      /\ p.wpa_ptk_state = "PTKSTART"
      /\ p.req = r.req \ {"PTK"}
      /\ ~p.TimeoutEvt
  BY DEF Alike, Members
<1> HIDE DEF p
<1>3. /\ Alike(q, r, {"wpa_ptk_state", "req", "TimeoutEvt", "alt_SNonce", "TimeoutCtr", "ctr",
                      "key_replay", "timers"})
      /\ q.wpa_ptk_state = "PTKSTART"
      /\ q.req = r.req \ {"PTK"}
      /\ ~q.TimeoutEvt
  BY <1>1, <1>2, SendKeeps DEF Alike, Members
<1> QED BY <1>1, <1>3 DEF q

\* WPA_PTK enters PTKSTART without an answer, or with one and without a PTK.
LEMMA PtkStarts ==
    ASSUME NEW r, NEW q, PtkBefore(r),
           Alike(q, r, {"wpa_ptk_state", "req", "TimeoutEvt", "alt_SNonce", "TimeoutCtr", "ctr",
                        "key_replay", "timers", "ANonce"}),
           q.wpa_ptk_state = "PTKSTART", q.req \subseteq r.req \ {"PTK"}, ~q.TimeoutEvt,
           ~PairwiseReceived(r) \/ r.PTK = NoKey,
           ~Unstarted(r) \/ r.PTK = NoKey,
           r.update_snonce => r.PTK = NoKey,
           r.req \cap {"Init", "ReAuth"} = {},
           ~PtkReply(r), ~Recalculates(r), ~Straight(group.conf, r), ~Associating(r),
           Invited(r) \/ Accepted(r)
    PROVE  PtkAfter(r, q, TRUE)
<1>1. KeyRules(q) /\ MarkRules(q) /\ AtGroup(q)
  BY DEF PtkBefore, KeyRules, MarkRules, ToIdle, AtGroup, Untimed, Updates, Unstarted, Negotiation,
     Alike, Members, PairwiseReceived, Received, Deaf
<1>2. FrameAtPtk(group.conf, r) => FrameAtGroup(group.conf, q)
  BY DEF FrameAtPtk, FrameAtGroup, GroupReply, InGroupState, ToIdle, GroupAnswered, Received,
     Alike, Members
<1>3. Accepted(q) => Accepted(r)
  BY DEF Accepted, PairwiseReceived, Received, Alike, Members
<1> QED BY <1>1, <1>2, <1>3 DEF PtkAfter, Alike, Members

LEMMA PtkStartTurn ==
    ASSUME Shape, NEW s \in Stations, PtkBefore(sm[s]), PtkStart(s)
    PROVE  PtkAfter(sm[s], sm'[s], changed')
<1> DEFINE r == sm[s]
           q == sm'[s]
<1>1. /\ Alike(q, r, {"wpa_ptk_state", "req", "TimeoutEvt", "alt_SNonce", "TimeoutCtr", "ctr",
                      "key_replay", "timers"})
      /\ q.wpa_ptk_state = "PTKSTART"
      /\ q.req = r.req \ {"PTK"}
      /\ ~q.TimeoutEvt
      /\ changed' = TRUE
  BY PtkStartWrites DEF PtkStart, PtkBefore
<1>2. \/ InState(r, "INITPSK")
      \/ /\ InState(r, "PTKSTART") \/ InState(r, "PTKCALCNEGOTIATING")
         /\ ~PairwiseReceived(r)
         /\ r.TimeoutEvt
  BY DEF PtkStart
<1> SUFFICES ASSUME PtkBefore(r) PROVE PtkAfter(r, q, changed')
  OBVIOUS
<1> HIDE DEF r, q
<1>3. /\ ~PairwiseReceived(r) \/ r.PTK = NoKey
      /\ ~Unstarted(r)
      /\ r.update_snonce => r.PTK = NoKey
      /\ r.req = {}
      /\ ~PtkReply(r) /\ ~Recalculates(r) /\ ~Straight(group.conf, r)
      /\ Invited(r) \/ Accepted(r)
  BY <1>2 DEF PtkBefore, KeyRules, AtPtk, InState, PtkReply, Recalculates, Updates, Straight, Invited,
     Accepted
<1>4. ~Associating(r)
  BY <1>2 DEF InState, Associating, Calm, Untimed, Negotiation
<1>5. Alike(q, r, {"wpa_ptk_state", "req", "TimeoutEvt", "alt_SNonce", "TimeoutCtr", "ctr",
                   "key_replay", "timers", "ANonce"})
  BY <1>1 DEF Alike, Members
<1> QED BY <1>1, <1>3, <1>4, <1>5, PtkStarts

LEMMA PtkUpdateTurn ==
    ASSUME Shape, NEW s \in Stations, PtkBefore(sm[s]), PtkUpdate(s)
    PROVE  PtkAfter(sm[s], sm'[s], changed')
<1> DEFINE r == sm[s]
           q == sm'[s]
<1>1. /\ r.req \cap {"Init", "ReAuth"} = {}
      /\ "PTK" \in r.req
      /\ r.PTK = NoKey
      /\ ~PtkReply(r) /\ ~Recalculates(r) /\ ~Straight(group.conf, r)
      /\ ~Associating(r)
      /\ Accepted(r)
  BY DEF PtkUpdate, Due, Ahead, PtkBefore, KeyRules, PtkReply, Recalculates, Straight, Associating,
     Accepted
<1>2. CASE EnterPtkStart(s, [r EXCEPT !.ANonce = anonces + 1, !.TimeoutCtr = 0])
  <2> DEFINE p == [r EXCEPT !.ANonce = anonces + 1, !.TimeoutCtr = 0]
  <2>1. Alike(p, r, {"ANonce", "TimeoutCtr"})
    BY DEF PtkBefore, Alike, Members
  <2>2. EnterPtkStart(s, p)
    BY <1>2
  <2> HIDE DEF p
  <2>3. /\ Alike(q, p, {"wpa_ptk_state", "req", "TimeoutEvt", "alt_SNonce", "TimeoutCtr", "ctr",
                        "key_replay", "timers"})
        /\ q.wpa_ptk_state = "PTKSTART"
        /\ q.req = p.req \ {"PTK"}
        /\ ~q.TimeoutEvt
        /\ changed' = TRUE
    BY <2>1, <2>2, PtkStartWrites DEF Alike
  <2> SUFFICES ASSUME PtkBefore(r) PROVE PtkAfter(r, q, changed')
    OBVIOUS
  <2> HIDE DEF r, q
  <2>4. /\ Alike(q, r, {"wpa_ptk_state", "req", "TimeoutEvt", "alt_SNonce", "TimeoutCtr", "ctr",
                        "key_replay", "timers", "ANonce"})
        /\ p.req = r.req
    BY <2>1, <2>3 DEF Alike, Members
  <2> QED BY <1>1, <2>3, <2>4, PtkStarts
<1>3. CASE EnterPtk(s, [r EXCEPT !.req = (@ \cup {"Disconnect"}) \ {"Deauth"},
                                 !.wpa_ptk_state = "DISCONNECTED"], NoKey)
  <2>1. /\ q = [r EXCEPT !.req = (@ \cup {"Disconnect"}) \ {"Deauth"},
                         !.wpa_ptk_state = "DISCONNECTED"]
        /\ changed' = TRUE
    BY <1>3 DEF Shape, EnterPtk, Turn
  <2> SUFFICES ASSUME PtkBefore(r) PROVE PtkAfter(r, q, changed')
    OBVIOUS
  <2> HIDE DEF r, q
  <2>2. /\ Alike(q, r, Writes)
        /\ q.PTK = r.PTK /\ q.rekey_timer = r.rekey_timer
        /\ q.wpa_ptk_state = "DISCONNECTED"
        /\ q.req \subseteq r.req \cup {"Disconnect"}
    BY <2>1 DEF PtkBefore, Members, Alike, Writes
  <2> QED BY <1>1, <2>1, <2>2, PtkLeaves
<1> QED BY <1>2, <1>3 DEF PtkUpdate

\* The answer is used up.  If it was not verified, no counter is left for another one to
\* be verified with the PTK that was there before.
LEMMA PtkCalcNegotiatingTurn ==
    ASSUME Shape, NEW s \in Stations, PtkBefore(sm[s]), PtkCalcNegotiating(s)
    PROVE  PtkAfter(sm[s], sm'[s], changed')
<1> DEFINE r == sm[s]
           q == sm'[s]
           p == [r EXCEPT !.wpa_ptk_state = "PTKCALCNEGOTIATING", !.rx = NoKey,
                          !.update_snonce = FALSE]
<1>1. /\ \/ \E k : q = [p EXCEPT !.timers = 0, !.MICVerified = TRUE, !.PTK = k]
         \/ q = StaDisconnect(p)
         \/ q = p
      /\ changed' = TRUE
  BY DEF Shape, PtkCalcNegotiating, EnterPtk, Turn
<1>2. /\ r.req = {}
      /\ \/ r.wpa_ptk_state = "PTKSTART" /\ PairwiseReceived(r)
         \/ r.wpa_ptk_state = "PTKCALCNEGOTIATING" /\ ~r.MICVerified /\ PairwiseReceived(r)
         \/ r.wpa_ptk_state = "PTKINITNEGOTIATING" /\ r.update_snonce
  BY DEF PtkCalcNegotiating, InState
<1> SUFFICES ASSUME PtkBefore(r) PROVE PtkAfter(r, q, changed')
  OBVIOUS
<1> HIDE DEF r, q
<1>3. /\ Alike(p, r, {"wpa_ptk_state", "rx", "update_snonce"})
      /\ p.wpa_ptk_state = "PTKCALCNEGOTIATING"
      /\ p.rx = NoKey
      /\ ~p.update_snonce
  BY DEF PtkBefore, Members, Alike
<1> HIDE DEF p
<1>4. /\ Alike(q, r, {"wpa_ptk_state", "rx", "update_snonce", "timers", "MICVerified", "PTK", "tk",
                      "assoc", "req", "rekey_timer"})
      /\ q.wpa_ptk_state = "PTKCALCNEGOTIATING"
      /\ q.rx = NoKey
      /\ ~q.update_snonce
      /\ q.rekey_timer => r.rekey_timer
      /\ q.req = {} \/ (q.req = {"Deauth"} /\ q.PTK = NoKey)
      /\ q.MICVerified \/ q.PTK = NoKey \/ (q.MICVerified = r.MICVerified /\ q.PTK = r.PTK)
  <2>1. CASE \E k : q = [p EXCEPT !.timers = 0, !.MICVerified = TRUE, !.PTK = k]
    <3>1. PICK k : q = [p EXCEPT !.timers = 0, !.MICVerified = TRUE, !.PTK = k]
      BY <2>1
    <3>2. /\ Alike(q, p, {"timers", "MICVerified", "PTK"})
          /\ q.MICVerified = TRUE
      BY <1>3, <3>1 DEF Alike, Members
    <3> QED BY <1>2, <1>3, <3>2 DEF Alike, Members
  <2>2. CASE q = StaDisconnect(p)
    BY <1>2, <1>3, <2>2, DisconnectKeeps DEF Alike, Members
  <2>3. CASE q = p
    BY <1>2, <1>3, <2>3 DEF Alike, Members
  <2> QED BY <1>1, <2>1, <2>2, <2>3
<1>5. /\ Deaf(r) \/ Shares(r) \/ (Malformed /\ r.TimeoutEvt)
      /\ r.TimeoutEvt => Malformed
      /\ ~Unstarted(r)
      /\ ~r.PtkGroupInit
  BY <1>2 DEF PtkBefore, KeyRules, AtPtk, Calm, Late, Updates, Negotiation
<1>6. KeyRules(q)
  BY <1>2, <1>4, <1>5 DEF Updates, KeyRules, Deaf, Shares, PairwiseReceived, Received, Alike, Members
<1>7. MarkRules(q) /\ AtGroup(q)
  BY <1>2, <1>4, <1>5 DEF PtkBefore, MarkRules, ToIdle, AtGroup, Untimed, Late, Updates, Unstarted,
     PairwiseReceived, Received, Alike, Members
<1>8. FrameAtGroup(group.conf, q) /\ ~Associating(r)
  BY <1>2, <1>4 DEF FrameAtGroup, Associating, Calm, Updates, Negotiation
<1>9. Accepted(r)
  BY <1>2 DEF Accepted
<1> QED BY <1>1, <1>4, <1>6, <1>7, <1>8, <1>9 DEF PtkAfter, Invited, Alike, Members

LEMMA PtkCalcNegotiating2Turn ==
    ASSUME Shape, NEW s \in Stations, PtkBefore(sm[s]), PtkCalcNegotiating2(s)
    PROVE  PtkAfter(sm[s], sm'[s], changed')
<1> DEFINE r == sm[s]
           q == sm'[s]
<1>1. /\ q = [r EXCEPT !.wpa_ptk_state = "PTKCALCNEGOTIATING2", !.TimeoutCtr = 0]
      /\ changed' = TRUE
      /\ InState(r, "PTKCALCNEGOTIATING")
      /\ r.MICVerified
  BY DEF Shape, PtkCalcNegotiating2, EnterPtk, Turn
<1> SUFFICES ASSUME PtkBefore(r) PROVE PtkAfter(r, q, changed')
  OBVIOUS
<1> HIDE DEF r, q
<1>2. /\ Alike(q, r, {"wpa_ptk_state", "TimeoutCtr"})
      /\ q.wpa_ptk_state = "PTKCALCNEGOTIATING2"
      /\ q.req = {}
  BY <1>1 DEF PtkBefore, InState, Members, Alike
<1>3. /\ ~PairwiseReceived(r) \/ Shares(r)
      /\ ~r.update_snonce
      /\ ~PtkReply(r) /\ ~Recalculates(r)
      /\ ~Associating(r) /\ Accepted(r)
  BY <1>1 DEF PtkBefore, KeyRules, InState, PtkReply, Recalculates, Updates, Associating, Unverified,
     Accepted
<1>4. KeyRules(q) /\ MarkRules(q) /\ AtGroup(q)
  <2>1. (~r.TimeoutEvt \/ Malformed) /\ ~Unstarted(r) /\ ~r.PtkGroupInit
    BY <1>1 DEF PtkBefore, AtPtk, Unverified, Late, Negotiation, InState
  <2>2. Shares(r) => Shares(q)
    BY <1>1, <1>2 DEF Shares, InState, Alike, Members
  <2> QED BY <1>2, <1>3, <2>1, <2>2 DEF PtkBefore, KeyRules, MarkRules, ToIdle, AtGroup, Untimed,
     Updates, Unstarted, Negotiation, Alike, Members, PairwiseReceived, Received
<1>5. FrameAtPtk(group.conf, r) => FrameAtGroup(group.conf, q)
  BY <1>1, <1>2, <1>3 DEF FrameAtPtk, FrameAtGroup, Straight, Within, GroupReply, InGroupState, InState,
     ToIdle, GroupAnswered, PairwiseReceived, Received, Alike, Members
<1> QED BY <1>1, <1>2, <1>3, <1>4, <1>5 DEF PtkAfter, Invited, Alike, Members

LEMMA PtkInitNegotiatingTurn ==
    ASSUME Shape, NEW s \in Stations, PtkBefore(sm[s]), PtkInitNegotiating(s)
    PROVE  PtkAfter(sm[s], sm'[s], changed')
<1> DEFINE r == sm[s]
           q == sm'[s]
           p == [r EXCEPT !.wpa_ptk_state = "PTKINITNEGOTIATING", !.TimeoutEvt = FALSE,
                          !.TimeoutCtr = @ + 1]
<1>1. q \in {p, SendEapol(p)} /\ changed' = TRUE
  BY DEF Shape, PtkInitNegotiating, EnterPtk, Turn
<1>2. /\ r.req = {}
      /\ \/ r.wpa_ptk_state = "PTKCALCNEGOTIATING2"
         \/ /\ r.wpa_ptk_state = "PTKINITNEGOTIATING"
            /\ ~r.update_snonce
            /\ ~(PairwiseReceived(r) /\ r.MICVerified)
            /\ r.TimeoutEvt
  BY DEF PtkInitNegotiating, InState
<1> SUFFICES ASSUME PtkBefore(r) PROVE PtkAfter(r, q, changed')
  OBVIOUS
<1> HIDE DEF r, q
<1>3. /\ Alike(p, r, {"wpa_ptk_state", "TimeoutEvt", "TimeoutCtr"})
      /\ p.wpa_ptk_state = "PTKINITNEGOTIATING"
      /\ ~p.TimeoutEvt
  BY DEF PtkBefore, Members, Alike
<1> HIDE DEF p
<1>4. /\ Alike(q, r, {"wpa_ptk_state", "TimeoutEvt", "TimeoutCtr", "ctr", "key_replay", "timers"})
      /\ q.wpa_ptk_state = "PTKINITNEGOTIATING"
      /\ ~q.TimeoutEvt
  BY <1>1, <1>3, SendKeeps DEF Alike, Members
<1>5. /\ PairwiseReceived(r) /\ r.MICVerified => Shares(r)
      /\ ~r.update_snonce
      /\ ~Unstarted(r)
      /\ ~r.PtkGroupInit
      /\ ~PtkReply(r) /\ ~Recalculates(r)
      /\ Accepted(r)
  BY <1>2 DEF PtkBefore, KeyRules, AtPtk, PtkReply, Recalculates, Updates, Accepted
<1>6. ~Associating(r)
  BY <1>2 DEF Associating, Calm, Untimed, Negotiation
<1>7. KeyRules(q) /\ MarkRules(q) /\ AtGroup(q)
  <2>1. Shares(r) => Shares(q)
    BY <1>4 DEF Shares, Alike, Members
  <2> QED BY <1>2, <1>4, <1>5, <2>1 DEF PtkBefore, KeyRules, MarkRules, ToIdle, AtGroup, Untimed,
     Updates, Unstarted, Alike, Members, PairwiseReceived, Received
<1>8. FrameAtPtk(group.conf, r) => FrameAtGroup(group.conf, q)
  BY <1>4, <1>5 DEF FrameAtPtk, FrameAtGroup, Straight, Within, GroupReply, InGroupState, ToIdle,
     GroupAnswered, PairwiseReceived, Received, Alike, Members
<1> QED BY <1>1, <1>4, <1>5, <1>6, <1>7, <1>8 DEF PtkAfter, Invited, Alike, Members

LEMMA PtkInitDoneTurn ==
    ASSUME Shape, NEW s \in Stations, PtkBefore(sm[s]), PtkInitDone(s)
    PROVE  PtkAfter(sm[s], sm'[s], changed')
<1> DEFINE r == sm[s]
           q == sm'[s]
           p == [r EXCEPT !.wpa_ptk_state = "PTKINITDONE", !.rx = NoKey]
<1>1. /\ \/ \E k : q = [p EXCEPT !.tk = k, !.rekey_timer = TRUE]
         \/ q = StaDisconnect(p)
      /\ changed' = TRUE
  BY DEF Shape, PtkInitDone, EnterPtk, Turn
<1>2. /\ r.req = {}
      /\ r.wpa_ptk_state = "PTKINITNEGOTIATING"
      /\ ~r.update_snonce
      /\ PairwiseReceived(r)
      /\ r.MICVerified
  BY DEF PtkInitDone, InState
<1> SUFFICES ASSUME PtkBefore(r) PROVE PtkAfter(r, q, changed')
  OBVIOUS
<1> HIDE DEF r, q
<1>3. /\ Alike(p, r, {"wpa_ptk_state", "rx"})
      /\ p.wpa_ptk_state = "PTKINITDONE"
      /\ p.rx = NoKey
  BY DEF PtkBefore, Members, Alike
<1> HIDE DEF p
<1>4. /\ Alike(q, r, {"wpa_ptk_state", "rx", "PTK", "tk", "assoc", "req", "rekey_timer"})
      /\ q.wpa_ptk_state = "PTKINITDONE"
      /\ q.rx = NoKey
      /\ q.req = {} \/ (q.req = {"Deauth"} /\ q.PTK = NoKey)
  <2>1. CASE \E k : q = [p EXCEPT !.tk = k, !.rekey_timer = TRUE]
    BY <1>2, <1>3, <2>1 DEF Alike, Members
  <2>2. CASE q = StaDisconnect(p)
    BY <1>2, <1>3, <2>2, DisconnectKeeps DEF Alike, Members
  <2> QED BY <1>1, <2>1, <2>2
<1>5. KeyRules(q) /\ MarkRules(q) /\ AtGroup(q)
  BY <1>2, <1>4 DEF PtkBefore, KeyRules, MarkRules, ToIdle, AtGroup, Untimed, Updates, Negotiation,
     Alike, Members
<1>6. FrameAtGroup(group.conf, q) /\ ~Associating(r) /\ Accepted(r)
  BY <1>2, <1>4 DEF FrameAtGroup, Associating, Calm, Negotiation, Accepted, Alike, Members
<1>7. Confirmed(r) \/ TimeoutTaken(r)
  BY <1>2 DEF PtkBefore, KeyRules, Shares, TimeoutTaken
<1> QED BY <1>1, <1>4, <1>5, <1>6, <1>7 DEF PtkAfter, Invited, Alike, Members

LEMMA PtkStayTurn ==
    ASSUME Shape, NEW s \in Stations, PtkBefore(sm[s]), PtkStay(s)
    PROVE  PtkAfter(sm[s], sm'[s], changed')
<1> DEFINE r == sm[s]
<1>1. sm'[s] = r /\ PtkStays(r)
  BY DEF Shape, PtkStay, Turn
<1> SUFFICES ASSUME PtkBefore(r) PROVE PtkAfter(r, r, changed')
  BY <1>1
<1> HIDE DEF r
<1>2. /\ r.req = {}
      /\ Calm(r) /\ Untimed(r) /\ Unverified(r)
      /\ ~PtkReply(r) /\ ~Updates(r) /\ ~Recalculates(r)
  BY <1>1 DEF PtkStays, InState, Calm, Untimed, Unverified, Negotiation, PtkReply, Updates, Recalculates
<1>3. Stayed(r) /\ AtGroup(r)
  BY <1>2 DEF PtkBefore, AtPtk, AtGroup, Stayed, Calm, Negotiation
<1>4. FrameAtPtk(group.conf, r) => FrameAtGroup(group.conf, r)
  BY <1>2 DEF FrameAtPtk, FrameAtGroup
<1> QED BY <1>3, <1>4 DEF PtkAfter, PtkBefore

\* A turn of WPA_PTK, whichever state it enters.
LEMMA PtkTurn ==
    ASSUME Shape, NEW s \in Stations, PtkBefore(sm[s]), PtkStep(s)
    PROVE  PtkAfter(sm[s], sm'[s], changed')
BY PtkInitializeTurn, PtkDisconnectTurn, PtkDisconnectedTurn, PtkAuthenticationTurn,
   PtkAuthentication2Turn, PtkInitPskTurn, PtkStartTurn, PtkUpdateTurn, PtkCalcNegotiatingTurn,
   PtkCalcNegotiating2Turn, PtkInitNegotiatingTurn, PtkInitDoneTurn, PtkStayTurn DEF PtkStep

-----------------------------------------------------------------------------
(* A turn of WPA_PTK_GROUP                                                  *)

GroupBefore(r, ch) ==
    /\ Has(r, Members)
    /\ KeyRules(r)
    /\ MarkRules(r)
    /\ AtGroup(r)
    /\ ~ch => Stayed(r)

\* What a turn of WPA_PTK_GROUP makes of record r: q, with ch for changed.
GroupAfter(r, q, ch) ==
    /\ Has(q, Members)
    /\ KeyRules(q)
    /\ MarkRules(q)
    /\ AtGsm(q)
    /\ ~ch => Stayed(q) /\ GroupStayed(q)
    /\ Associating(r) => Associating(q)
    /\ "Init" \in q.req => q.req = r.req
    /\ q.update_snonce => r.update_snonce
    /\ FrameAtGroup(group.conf, r) => FrameAtGsm(group.conf, q)
    /\ ~ch => Within(group.conf, q)
    /\ Accepted(q) => Accepted(r)
    /\ Invited(q) => Invited(r)
    /\ q.is_wnmsleep = r.is_wnmsleep /\ q.started = r.started
    /\ \/ q.GUpdateStationKeys = r.GUpdateStationKeys
       \/ q.GUpdateStationKeys = FALSE /\ group' = [group EXCEPT !.GKeyDoneStations = Undone(r)]
    /\ q.wpa_ptk_state = r.wpa_ptk_state

LEMMA GroupIdleTurn ==
    ASSUME Shape, NEW s \in Stations, GroupBefore(sm[s], changed), GroupIdle(s)
    PROVE  GroupAfter(sm[s], sm'[s], changed')
<1> DEFINE r == sm[s]
           q == sm'[s]
<1>1. /\ q = [r EXCEPT !.wpa_ptk_group_state = "IDLE", !.GTimeoutCtr = 0, !.PtkGroupInit = FALSE]
      /\ changed' = ("Init" \notin r.req)
      /\ ToIdle(r) \/ InGroupState(r, "KEYERROR") \/ InGroupState(r, "REKEYESTABLISHED")
  BY DEF Shape, GroupIdle, Turn
<1> SUFFICES ASSUME GroupBefore(r, changed) PROVE GroupAfter(r, q, changed')
  OBVIOUS
<1> HIDE DEF r, q
<1>2. /\ Alike(q, r, {"wpa_ptk_group_state", "GTimeoutCtr", "PtkGroupInit"})
      /\ q.wpa_ptk_group_state = "IDLE"
      /\ ~q.PtkGroupInit
  BY <1>1 DEF GroupBefore, Members, Alike
<1>3. ~r.GUpdateStationKeys
  BY <1>1 DEF GroupBefore, MarkRules, InGroupState
<1>4. KeyRules(q)
  <2>1. Shares(r) => \/ Shares(q)
                     \/ r.wpa_ptk_state \notin {"PTKCALCNEGOTIATING", "PTKCALCNEGOTIATING2",
                                                "PTKINITNEGOTIATING"}
    BY <1>1, <1>2 DEF GroupBefore, AtGroup, ToIdle, InGroupState, Shares, Alike, Members
  <2> QED BY <1>2, <2>1 DEF GroupBefore, KeyRules, Deaf, Confirmed, Updates, PairwiseReceived, Received,
     Alike, Members
<1>5. MarkRules(q) /\ AtGsm(q)
  BY <1>2, <1>3 DEF GroupBefore, MarkRules, AtGroup, AtGsm, Untimed, Late, Updates, Unstarted,
     PairwiseReceived, Received, Alike, Members
<1>6. ~changed' => Stayed(q) /\ GroupStayed(q) /\ Within(group.conf, q)
  BY <1>1, <1>2 DEF GroupBefore, AtGroup, Stayed, GroupStayed, Calm, Unverified, Untimed, Negotiation,
     Within, Alike, Members
<1>7. Associating(r) => Associating(q)
  BY <1>2 DEF Associating, Calm, Untimed, Unverified, Updates, PairwiseReceived, Received, Alike, Members
<1>8. FrameAtGroup(group.conf, r) => FrameAtGsm(group.conf, q)
  BY <1>1, <1>2 DEF FrameAtGroup, FrameAtGsm, Straight, GroupReply, InGroupState, Alike, Members
<1>9. /\ Accepted(q) => Accepted(r)
      /\ Invited(q) => Invited(r)
  BY <1>2 DEF Accepted, Invited, PairwiseReceived, Received, Alike, Members
<1> QED BY <1>2, <1>4, <1>5, <1>6, <1>7, <1>8, <1>9 DEF GroupAfter, Alike, Members

\* A frame is sent only where no PTK, or no state of WPA_PTK, makes an answer to it
\* matter to the 4-way handshake.
LEMMA RekeyNegotiatingTurn ==
    ASSUME Shape, NEW s \in Stations, GroupBefore(sm[s], changed), RekeyNegotiating(s)
    PROVE  GroupAfter(sm[s], sm'[s], changed')
<1> DEFINE r == sm[s]
           q == sm'[s]
           p == [r EXCEPT !.wpa_ptk_group_state = "REKEYNEGOTIATING", !.GTimeoutCtr = @ + 1]
           o == [p EXCEPT !.TimeoutEvt = FALSE]
<1>1. q \in {p, SendEapol(o)} /\ changed' = TRUE
  BY DEF Shape, RekeyNegotiating, EnterGroup, Turn
<1>2. \/ InGroupState(r, "IDLE") /\ r.GUpdateStationKeys
      \/ InGroupState(r, "REKEYNEGOTIATING") /\ ~GroupAnswered(r) /\ r.TimeoutEvt
  BY DEF RekeyNegotiating
<1> SUFFICES ASSUME GroupBefore(r, changed) PROVE GroupAfter(r, q, changed')
  OBVIOUS
<1> HIDE DEF r, q
<1>3. /\ Alike(p, r, {"wpa_ptk_group_state", "GTimeoutCtr"})
      /\ p.wpa_ptk_group_state = "REKEYNEGOTIATING"
  BY DEF GroupBefore, Members, Alike
<1> HIDE DEF p
<1>4. /\ Alike(o, r, {"wpa_ptk_group_state", "GTimeoutCtr", "TimeoutEvt"})
      /\ o.wpa_ptk_group_state = "REKEYNEGOTIATING"
      /\ ~o.TimeoutEvt
  BY <1>3 DEF Alike, Members
<1> HIDE DEF o
<1>5. /\ Alike(q, r, {"wpa_ptk_group_state", "GTimeoutCtr", "TimeoutEvt", "ctr", "key_replay",
                      "timers"})
      /\ q.wpa_ptk_group_state = "REKEYNEGOTIATING"
      /\ q.TimeoutEvt => r.TimeoutEvt
  BY <1>1, <1>3, <1>4, SendKeeps DEF Alike, Members
<1>6. /\ r.wpa_ptk_state \in Negotiation => r.PTK = NoKey \/ Late(r)
      /\ ~ToIdle(r)
  BY <1>2 DEF GroupBefore, AtGroup, Untimed, Unstarted, InGroupState
<1>7. KeyRules(q)
  <2>1. /\ Shares(r) => Shares(q)
        /\ Late(r) => Shares(q)
    BY <1>5 DEF Shares, Late
  <2> QED BY <1>5, <1>6, <2>1 DEF GroupBefore, KeyRules, Deaf, Confirmed, Updates, Late,
     PairwiseReceived, Received, Negotiation, Alike, Members
<1>8. MarkRules(q) /\ AtGsm(q)
  BY <1>5, <1>6 DEF GroupBefore, MarkRules, ToIdle, AtGroup, AtGsm, Untimed, Late, Updates, Unstarted,
     PairwiseReceived, Received, Alike, Members
<1>9. Associating(r) => Associating(q)
  BY <1>5 DEF Associating, Calm, Untimed, Unverified, Updates, PairwiseReceived, Received, Alike, Members
<1>10. FrameAtGroup(group.conf, r) => FrameAtGsm(group.conf, q)
  BY <1>2, <1>5 DEF FrameAtGroup, FrameAtGsm, Straight, GroupReply, InGroupState, Alike, Members
<1>11. /\ Accepted(q) => Accepted(r)
       /\ Invited(q) => Invited(r)
  BY <1>5 DEF Accepted, Invited, PairwiseReceived, Received, Alike, Members
<1> QED BY <1>1, <1>5, <1>7, <1>8, <1>9, <1>10, <1>11 DEF GroupAfter, Alike, Members

LEMMA RekeyEstablishedTurn ==
    ASSUME Shape, NEW s \in Stations, GroupBefore(sm[s], changed), RekeyEstablished(s)
    PROVE  GroupAfter(sm[s], sm'[s], changed')
<1> DEFINE r == sm[s]
           q == sm'[s]
<1>1. /\ q = [r EXCEPT !.wpa_ptk_group_state = "REKEYESTABLISHED", !.rx = NoKey,
                       !.GUpdateStationKeys = FALSE, !.GTimeoutCtr = 0]
      /\ changed' = TRUE
      /\ group' = [group EXCEPT !.GKeyDoneStations = Undone(r)]
      /\ ~ToIdle(r)
      /\ r.MICVerified
  BY DEF Shape, RekeyEstablished, InGroupState, GroupAnswered, EnterGroup, Turn
<1> SUFFICES ASSUME GroupBefore(r, changed) PROVE GroupAfter(r, q, changed')
  OBVIOUS
<1> HIDE DEF r, q
<1>2. /\ Alike(q, r, {"wpa_ptk_group_state", "rx", "GUpdateStationKeys", "GTimeoutCtr"})
      /\ q.wpa_ptk_group_state = "REKEYESTABLISHED"
      /\ q.rx = NoKey
      /\ q.GUpdateStationKeys = FALSE
  BY <1>1 DEF GroupBefore, Members, Alike
<1>3. KeyRules(q)
  BY <1>1, <1>2 DEF GroupBefore, KeyRules, Deaf, Updates, PairwiseReceived, Received, Alike, Members
<1>4. MarkRules(q) /\ AtGsm(q)
  BY <1>1, <1>2 DEF GroupBefore, MarkRules, ToIdle, AtGroup, AtGsm, Untimed, Late, Updates, Unstarted,
     PairwiseReceived, Received, Alike, Members
<1>5. Associating(r) => Associating(q)
  BY <1>2 DEF Associating, Calm, Untimed, Unverified, Updates, PairwiseReceived, Received, Alike, Members
<1>6. FrameAtGroup(group.conf, r) => FrameAtGsm(group.conf, q)
  BY <1>2 DEF FrameAtGroup, FrameAtGsm, Alike, Members
<1>7. /\ Accepted(q) => Accepted(r)
      /\ Invited(q) => Invited(r)
  BY <1>2 DEF Accepted, Invited, PairwiseReceived, Received, Alike, Members
<1> QED BY <1>1, <1>2, <1>3, <1>4, <1>5, <1>6, <1>7 DEF GroupAfter, Alike, Members

LEMMA KeyErrorTurn ==
    ASSUME Shape, NEW s \in Stations, GroupBefore(sm[s], changed), KeyError(s)
    PROVE  GroupAfter(sm[s], sm'[s], changed')
<1> DEFINE r == sm[s]
           q == sm'[s]
<1>1. /\ q = [r EXCEPT !.wpa_ptk_group_state = "KEYERROR", !.GUpdateStationKeys = FALSE,
                       !.req = @ \cup {"Disconnect"}]
      /\ changed' = TRUE
      /\ group' = [group EXCEPT !.GKeyDoneStations = Undone(r)]
      /\ ~ToIdle(r) /\ ~GroupAnswered(r) /\ Exhausted(r)
  BY DEF Shape, KeyError, InGroupState, EnterGroup, Turn
<1> SUFFICES ASSUME GroupBefore(r, changed) PROVE GroupAfter(r, q, changed')
  OBVIOUS
<1> HIDE DEF r, q
<1>2. /\ Alike(q, r, {"wpa_ptk_group_state", "GUpdateStationKeys", "req"})
      /\ q.wpa_ptk_group_state = "KEYERROR"
      /\ q.GUpdateStationKeys = FALSE
      /\ q.req = r.req \cup {"Disconnect"}
  BY <1>1 DEF GroupBefore, Members, Alike
<1>3. KeyRules(q)
  <2>1. Shares(r) => Shares(q)
    BY <1>2 DEF Shares
  <2> QED BY <1>2, <2>1 DEF GroupBefore, KeyRules, Deaf, Confirmed, Updates, PairwiseReceived, Received,
     Alike, Members
<1>4. MarkRules(q) /\ AtGsm(q)
  BY <1>1, <1>2 DEF GroupBefore, MarkRules, ToIdle, AtGroup, AtGsm, Untimed, Late, Updates, Unstarted,
     PairwiseReceived, Received, Alike, Members
<1>5. Associating(r) => Associating(q)
  BY <1>2 DEF Associating, Calm, Untimed, Unverified, Updates, PairwiseReceived, Received, Alike, Members
<1>6. FrameAtGroup(group.conf, r) => FrameAtGsm(group.conf, q)
  BY <1>1, <1>2 DEF FrameAtGroup, FrameAtGsm, Straight, Within, Exhausted, wpa_group_update_count,
     InGroupState, GroupReply, Alike, Members
<1>7. /\ Accepted(q) => Accepted(r)
      /\ Invited(q) => Invited(r)
  BY <1>2 DEF Accepted, Invited, PairwiseReceived, Received, Alike, Members
<1> QED BY <1>1, <1>2, <1>3, <1>4, <1>5, <1>6, <1>7 DEF GroupAfter, ToIdle, Alike, Members

LEMMA GroupStayTurn ==
    ASSUME Shape, NEW s \in Stations, GroupBefore(sm[s], changed), GroupStay(s)
    PROVE  GroupAfter(sm[s], sm'[s], changed')
<1> DEFINE r == sm[s]
<1>1. sm'[s] = r /\ changed' = changed /\ GroupStays(r)
  BY DEF Shape, GroupStay, Turn
<1> SUFFICES ASSUME GroupBefore(r, changed) PROVE GroupAfter(r, r, changed)
  BY <1>1
<1> HIDE DEF r
<1>2. AtGsm(r) /\ GroupStayed(r) /\ Within(group.conf, r)
  BY <1>1 DEF GroupBefore, AtGroup, AtGsm, GroupStays, GroupStayed, InGroupState, ToIdle, Unstarted,
     Within, Exhausted, wpa_group_update_count
<1>3. FrameAtGroup(group.conf, r) => FrameAtGsm(group.conf, r)
  BY <1>1 DEF FrameAtGroup, FrameAtGsm, GroupReply, GroupStays, InGroupState
<1> QED BY <1>2, <1>3 DEF GroupAfter, GroupBefore

\* A turn of WPA_PTK_GROUP, whichever state it enters.
LEMMA GroupTurn ==
    ASSUME Shape, NEW s \in Stations, GroupBefore(sm[s], changed), GroupStep(s)
    PROVE  GroupAfter(sm[s], sm'[s], changed')
BY GroupIdleTurn, RekeyNegotiatingTurn, RekeyEstablishedTurn, KeyErrorTurn, GroupStayTurn
   DEF GroupStep

-----------------------------------------------------------------------------
(* The turns leave the other stations alone                                 *)

Kept(s) ==
    /\ cur = s /\ cur' = s /\ then' = then /\ todo' = todo
    /\ sm' = [x \in Stations |-> sm'[x]]
    /\ \A x \in Stations : x # s => sm'[x] = sm[x]

LEMMA PtkMoves ==
    ASSUME Shape, NEW s \in Stations, PtkStep(s)
    PROVE  at = "ptk" /\ at' = "group" /\ Kept(s)
<1>1. CASE PtkInitialize(s)
  BY <1>1 DEF PtkInitialize, Turn, Shape, Kept
<1>2. CASE PtkDisconnect(s) \/ PtkDisconnected(s) \/ PtkAuthentication(s)
  BY <1>2 DEF PtkDisconnect, PtkDisconnected, PtkAuthentication, EnterPtk, Turn, Shape, Kept
<1>3. CASE PtkAuthentication2(s) \/ PtkInitPsk(s)
  BY <1>3 DEF PtkAuthentication2, PtkInitPsk, EnterPtk, Turn, Shape, Kept
<1>4. CASE PtkStart(s) \/ PtkUpdate(s)
  BY <1>4 DEF PtkStart, PtkUpdate, EnterPtkStart, EnterPtk, Turn, Shape, Kept
<1>5. CASE PtkCalcNegotiating(s) \/ PtkCalcNegotiating2(s)
  BY <1>5 DEF PtkCalcNegotiating, PtkCalcNegotiating2, EnterPtk, Turn, Shape, Kept
<1>6. CASE PtkInitNegotiating(s) \/ PtkInitDone(s)
  BY <1>6 DEF PtkInitNegotiating, PtkInitDone, EnterPtk, Turn, Shape, Kept
<1>7. CASE PtkStay(s)
  BY <1>7 DEF PtkStay, Turn, Shape, Kept
<1> QED BY <1>1, <1>2, <1>3, <1>4, <1>5, <1>6, <1>7 DEF PtkStep

LEMMA PtkKeepsGroup ==
    ASSUME AuthInv, NEW s \in Stations, PtkStep(s)
    PROVE  GroupKept
<1>1. CASE PtkInitialize(s)
  BY <1>1 DEF PtkInitialize, AuthInv, Shape, GroupKept, Contradicts, Ensured, GroupMembers
<1>2. CASE PtkAuthentication2(s)
  BY <1>2, Ensures DEF PtkAuthentication2, AuthInv
<1>3. CASE group' = group
  BY <1>3 DEF AuthInv, Shape, GroupKept, Contradicts, Ensured
<1> QED BY <1>1, <1>2, <1>3 DEF PtkStep, PtkDisconnect, PtkDisconnected, PtkAuthentication,
           PtkInitPsk, PtkStart, PtkUpdate, PtkCalcNegotiating, PtkCalcNegotiating2,
           PtkInitNegotiating, PtkInitDone, PtkStay

LEMMA GroupMoves ==
    ASSUME AuthInv, NEW s \in Stations, GroupStep(s)
    PROVE  at = "group" /\ at' = "gsm" /\ Kept(s) /\ GroupKept
<1>1. at = "group" /\ at' = "gsm" /\ Kept(s)
  BY DEF GroupStep, GroupIdle, RekeyNegotiating, RekeyEstablished, KeyError, GroupStay, EnterGroup,
     Turn, AuthInv, Shape, Kept
<1>2. ASSUME group' = group PROVE GroupKept
  BY <1>2 DEF AuthInv, Shape, GroupKept, Contradicts, Ensured
<1>3. ASSUME group' = [group EXCEPT !.GKeyDoneStations = Undone(sm[s])] PROVE GroupKept
  BY <1>3 DEF AuthInv, Shape, GroupKept, Contradicts, Ensured, GroupMembers
<1> QED BY <1>1, <1>2, <1>3 DEF GroupStep, GroupIdle, RekeyNegotiating, RekeyEstablished, KeyError,
           GroupStay

-----------------------------------------------------------------------------
(* AuthInv is preserved: wpa_sm_step                                        *)

LEMMA PtkPreserves ==
    ASSUME AuthInv, NEW s \in Stations, PtkStep(s)
    PROVE  AuthInv'
<1>1. at = "ptk" /\ at' = "group" /\ Kept(s) /\ GroupKept
  BY PtkMoves, PtkKeepsGroup DEF AuthInv
<1>2. Active(s) /\ Active(s)' /\ \A x \in Stations : x # s => ~Active(x) /\ ~Active(x)'
  BY <1>1 DEF Kept, Active, Stepping
<1>3. StationRules(s)
  BY DEF AuthInv
<1>4. PtkBefore(sm[s])
  BY <1>1, <1>2, <1>3 DEF AuthInv, Shape, PtkBefore, StationRules
<1>5. PtkAfter(sm[s], sm'[s], changed')
  BY <1>4, PtkTurn DEF AuthInv
<1>6. Shape'
  BY <1>1, <1>5 DEF AuthInv, Shape, Kept, GroupKept, PtkAfter, Stepping
<1>7. Control'
  BY <1>1 DEF AuthInv, Control, Kept, GroupKept, Stepping
<1>8. ASSUME NEW x \in Stations PROVE StationRules(x)'
  <2>1. CASE x = s
    <3>1. then = <<"associated", s>> => Associating(sm'[s])
      BY <1>3, <1>5 DEF StationRules, PtkAfter
    <3>2. /\ "Init" \in sm'[s].req => then = <<"auth", s>>
          /\ then = <<"step", s>> => ~sm'[s].update_snonce
      BY <1>3, <1>5 DEF StationRules, PtkAfter
    <3> QED BY <1>1, <1>2, <1>5, <2>1, <3>1, <3>2 DEF StationRules, PtkAfter, Kept
  <2>2. CASE x # s
    <3>1. StationRules(x)
      BY DEF AuthInv
    <3> QED BY <1>1, <1>2, <2>2, <3>1 DEF StationRules, Kept, Resting
  <2> QED BY <2>1, <2>2
<1>9. ASSUME Works', NEW x \in Stations PROVE FrameRules(x)'
  <2>1. FrameRules(x) /\ FrameRules(s)
    BY <1>1, <1>9 DEF AuthInv, Works, GroupKept
  <2>2. CASE x = s
    <3>1. FrameAtGroup(group.conf, sm'[s])
      BY <1>1, <1>2, <1>5, <2>1 DEF FrameRules, PtkAfter
    <3>2. EntropyRules(sm[s])' 
      BY <1>1, <1>5, <2>1 DEF FrameRules, EntropyRules, PtkAfter, GroupKept, Ensured
    <3>3. "Init" \in sm'[s].req => sm'[s].req = {"Init"}
      BY <1>5, <2>1 DEF FrameRules, PtkAfter
    <3> QED BY <1>1, <1>2, <2>2, <3>1, <3>2, <3>3 DEF FrameRules, GroupKept
  <2>3. CASE x # s
    <3>1. sm'[x] = sm[x]
      BY <1>1, <2>3 DEF Kept
    <3>2. EntropyRules(sm[x])'
      BY <1>1, <2>1, <3>1 DEF FrameRules, EntropyRules, GroupKept, Ensured
    <3> QED BY <1>1, <1>2, <2>1, <2>3, <3>1, <3>2 DEF FrameRules, Kept, GroupKept
  <2> QED BY <2>2, <2>3
<1> QED BY <1>1, <1>6, <1>7, <1>8, <1>9 DEF AuthInv, GroupKept

LEMMA GroupPreserves ==
    ASSUME AuthInv, NEW s \in Stations, GroupStep(s)
    PROVE  AuthInv'
<1>1. at = "group" /\ at' = "gsm" /\ Kept(s) /\ GroupKept
  BY GroupMoves
<1>2. Active(s) /\ Active(s)' /\ \A x \in Stations : x # s => ~Active(x) /\ ~Active(x)'
  BY <1>1 DEF Kept, Active, Stepping
<1>3. StationRules(s)
  BY DEF AuthInv
<1>4. GroupBefore(sm[s], changed)
  BY <1>1, <1>2, <1>3 DEF AuthInv, Shape, GroupBefore, StationRules
<1>5. GroupAfter(sm[s], sm'[s], changed')
  BY <1>4, GroupTurn DEF AuthInv
<1>6. Shape'
  BY <1>1, <1>5 DEF AuthInv, Shape, Kept, GroupKept, GroupAfter, Stepping
<1>7. Control'
  BY <1>1 DEF AuthInv, Control, Kept, GroupKept, Stepping
<1>8. ASSUME NEW x \in Stations PROVE StationRules(x)'
  <2>1. CASE x = s
    <3>1. then = <<"associated", s>> => Associating(sm'[s])
      BY <1>3, <1>5 DEF StationRules, GroupAfter
    <3>2. /\ "Init" \in sm'[s].req => then = <<"auth", s>>
          /\ then = <<"step", s>> => ~sm'[s].update_snonce
      BY <1>3, <1>5 DEF StationRules, GroupAfter
    <3> QED BY <1>1, <1>2, <1>5, <2>1, <3>1, <3>2 DEF StationRules, GroupAfter, Kept
  <2>2. CASE x # s
    <3>1. StationRules(x)
      BY DEF AuthInv
    <3> QED BY <1>1, <1>2, <2>2, <3>1 DEF StationRules, Kept, Resting
  <2> QED BY <2>1, <2>2
<1>9. ASSUME Works', NEW x \in Stations PROVE FrameRules(x)'
  <2>1. FrameRules(x) /\ FrameRules(s)
    BY <1>1, <1>9 DEF AuthInv, Works, GroupKept
  <2>2. CASE x = s
    <3>1. /\ FrameAtGsm(group.conf, sm'[s])
          /\ ~changed' => Within(group.conf, sm'[s])
      BY <1>1, <1>2, <1>5, <2>1 DEF FrameRules, GroupAfter
    <3>2. EntropyRules(sm[s])'
      BY <1>1, <1>5, <2>1 DEF FrameRules, EntropyRules, GroupAfter, GroupKept, Ensured
    <3>3. "Init" \in sm'[s].req => sm'[s].req = {"Init"}
      BY <1>5, <2>1 DEF FrameRules, GroupAfter
    <3> QED BY <1>1, <1>2, <2>2, <3>1, <3>2, <3>3 DEF FrameRules, GroupKept
  <2>3. CASE x # s
    <3>1. sm'[x] = sm[x]
      BY <1>1, <2>3 DEF Kept
    <3>2. EntropyRules(sm[x])'
      BY <1>1, <2>1, <3>1 DEF FrameRules, EntropyRules, GroupKept, Ensured
    <3> QED BY <1>1, <1>2, <2>1, <2>3, <3>1, <3>2 DEF FrameRules, Kept, GroupKept
  <2> QED BY <2>2, <2>3
<1> QED BY <1>1, <1>6, <1>7, <1>8, <1>9 DEF AuthInv, GroupKept

-----------------------------------------------------------------------------
(* AuthInv is preserved: wpa_group_sm_step                                  *)

\* What is said of stations does not change when none steps before or after.
LEMMA NobodySteps ==
    ASSUME AuthInv, sm' = sm, then' = then, ~Stepping, ~Stepping',
           Works' => Works,
           group'.conf = group.conf,
           group'.first_sta_seen = group.first_sta_seen,
           group'.reject_4way_hs_for_entropy = group.reject_4way_hs_for_entropy
    PROVE  /\ \A x \in Stations : StationRules(x)'
           /\ Works' => \A x \in Stations : FrameRules(x)'
           /\ ~Contradicts'
<1>1. \A x \in Stations : ~Active(x) /\ ~Active(x)'
  BY DEF Active
<1>2. ASSUME NEW x \in Stations PROVE StationRules(x)'
  BY <1>1 DEF AuthInv, StationRules, Resting
<1>3. ASSUME Works', NEW x \in Stations PROVE FrameRules(x)'
  BY <1>1, <1>3 DEF AuthInv, FrameRules, EntropyRules, Ensured
<1> QED BY <1>2, <1>3 DEF AuthInv, Contradicts

\* wpa_group_setkeys: it is not called from wpa_sm_step.
LEMMA SetKeysPreserves ==
    ASSUME AuthInv, SetKeys
    PROVE  AuthInv'
<1>1. at = "rekey" /\ at' = "update" /\ sm' = sm /\ then' = then /\ todo' = Stations
  BY DEF SetKeys, AuthInv, Control
<1>2. /\ Has(group', GroupMembers)
      /\ group'.conf = group.conf
      /\ group'.state = "SETKEYS"
      /\ ~group'.GTKReKey
      /\ group'.first_sta_seen = group.first_sta_seen
      /\ group'.reject_4way_hs_for_entropy = group.reject_4way_hs_for_entropy
  BY DEF SetKeys, AuthInv, Shape, GroupMembers
<1>3. Shape' /\ Control'
  BY <1>1, <1>2 DEF AuthInv, Shape, Control, Stepping
<1>4. Works
  BY DEF SetKeys, Works
<1>5. ~Stepping /\ ~Stepping'
  BY <1>1 DEF Stepping
<1> QED BY <1>1, <1>2, <1>3, <1>4, <1>5, NobodySteps DEF AuthInv

\* The end of the loop over the stations.
LEMMA UpdateEndPreserves ==
    ASSUME AuthInv, UpdateEnd
    PROVE  AuthInv'
<1>1. /\ at = "update" /\ at' \in {"rekey", "return"} /\ todo = {}
      /\ sm' = sm /\ group' = group /\ then' = then /\ todo' = todo
  BY DEF UpdateEnd
<1>2. Shape' /\ Control'
  BY <1>1 DEF AuthInv, Shape, Control, Stepping
<1>3. ~Stepping /\ ~Stepping' /\ (Works' => Works)
  BY <1>1 DEF Stepping, Works
<1> QED BY <1>1, <1>2, <1>3, NobodySteps DEF AuthInv

\* Nothing to do for the group: wpa_sm_step goes on, or ends with the station at rest.
LEMMA GroupSmStayPreserves ==
    ASSUME AuthInv, GroupSmStay
    PROVE  AuthInv'
<1>1. /\ sm' = sm /\ group' = group /\ then' = then /\ todo' = todo /\ cur' = cur
      /\ \/ at = "gsm" /\ at' = IF changed THEN "ptk" ELSE "return"
         \/ at = "rekey" /\ at' = IF changed THEN "rekey" ELSE "return"
      /\ Works => ~group.GTKReKey
  BY DEF GroupSmStay, GoOn, Works
<1>2. Shape' /\ Control'
  BY <1>1 DEF AuthInv, Shape, Control, Stepping, Works
<1>3. CASE at = "rekey"
  <2>1. ~Stepping /\ ~Stepping' /\ (Works' => Works)
    BY <1>1, <1>3 DEF Stepping, Works
  <2> QED BY <1>1, <1>2, <2>1, NobodySteps DEF AuthInv
<1>4. CASE at = "gsm"
  <2>1. ASSUME NEW x \in Stations PROVE StationRules(x)'
    <3>1. StationRules(x)
      BY DEF AuthInv
    <3>2. CASE ~Active(x)
      <4>1. ~Active(x)'
        BY <1>1, <1>4, <3>2 DEF Active, Stepping
      <4> QED BY <1>1, <3>1, <3>2, <4>1 DEF StationRules, Resting
    <3>3. CASE Active(x) /\ changed
      <4>1. Active(x)' /\ at' = "ptk"
        BY <1>1, <1>4, <3>3 DEF Active, Stepping
      <4>2. AtPtk(sm[x])
        BY <1>4, <3>1, <3>3 DEF StationRules, AtGsm, AtPtk, Untimed, Unstarted
      <4> QED BY <1>1, <3>1, <4>1, <4>2 DEF StationRules
    <3>4. CASE Active(x) /\ ~changed
      <4>1. ~Active(x)'
        BY <1>1, <1>4, <3>4 DEF Active, Stepping
      <4>2. Resting(x, sm[x])
        BY <1>4, <3>1, <3>4 DEF StationRules, AtGsm, Stayed, Resting, MarkRules
      <4> QED BY <1>1, <3>1, <4>1, <4>2 DEF StationRules, Resting
    <3> QED BY <3>2, <3>3, <3>4
  <2>2. ASSUME Works', NEW x \in Stations PROVE FrameRules(x)'
    <3>1. FrameRules(x) /\ StationRules(x)
      BY <1>1, <2>2 DEF AuthInv, Works
    <3>2. EntropyRules(sm[x])'
      BY <1>1, <1>4, <3>1 DEF FrameRules, EntropyRules, Ensured
    <3>3. CASE ~Active(x)
      <4>1. ~Active(x)'
        BY <1>1, <1>4, <3>3 DEF Active, Stepping
      <4> QED BY <1>1, <3>1, <3>2, <3>3, <4>1 DEF FrameRules
    <3>4. CASE Active(x) /\ changed
      <4>1. Active(x)' /\ at' = "ptk"
        BY <1>1, <1>4, <3>4 DEF Active, Stepping
      <4> QED BY <1>1, <1>4, <3>1, <3>2, <3>4, <4>1 DEF FrameRules, FrameAtPtk, FrameAtGsm
    <3>5. CASE Active(x) /\ ~changed
      <4>1. ~Active(x)'
        BY <1>1, <1>4, <3>5 DEF Active, Stepping
      <4>2. sm[x].req \subseteq (IF then = <<"auth", x>> THEN {"Init"} ELSE {})
        BY <1>4, <3>1, <3>5 DEF StationRules, FrameRules, Stayed
      <4>3. NoFrame(group.conf, sm[x])
        <5>1. FrameAtGsm(group.conf, sm[x]) /\ Within(group.conf, sm[x]) /\ Stayed(sm[x])
          BY <1>4, <3>1, <3>5 DEF FrameRules, StationRules
        <5>2. ~Straight(group.conf, sm[x])
          BY <5>1 DEF Stayed, Calm, Unverified, Negotiation, Straight
        <5> QED BY <5>1, <5>2 DEF FrameAtGsm, NoFrame
      <4> QED BY <1>1, <3>1, <3>2, <4>1, <4>2, <4>3 DEF FrameRules
    <3> QED BY <3>3, <3>4, <3>5
  <2> QED BY <1>1, <1>2, <2>1, <2>2 DEF AuthInv, Contradicts
<1> QED BY <1>1, <1>3, <1>4

\* The group fails: stations are marked to be disconnected, in whatever state they are.
LEMMA MarkDisconnect ==
    ASSUME NEW s, NEW r, NEW q, Alike(q, r, {"req"}),
           q.req = r.req \/ q.req = r.req \cup {"Disconnect"}
    PROVE  /\ KeyRules(r) => KeyRules(q)
           /\ MarkRules(r) => MarkRules(q)
           /\ AtGsm(r) => AtPtk(q)
           /\ Resting(s, r) => Resting(s, q)
           /\ Associating(r) => Associating(q)
           /\ "Init" \in q.req => "Init" \in r.req
           /\ q.update_snonce = r.update_snonce
<1>1. KeyRules(r) => KeyRules(q)
  <2>1. Shares(r) => Shares(q)
    BY DEF Shares, Alike, Members
  <2> QED BY <2>1 DEF KeyRules, Deaf, Confirmed, Updates, PairwiseReceived, Received, Alike, Members
<1>2. MarkRules(r) => MarkRules(q)
  BY DEF MarkRules, ToIdle, Alike, Members
<1>3. AtGsm(r) => AtPtk(q)
  BY DEF AtGsm, AtPtk, Untimed, Late, Updates, Unstarted, PairwiseReceived, Received, Alike, Members
<1>4. Calm(r) => Calm(q)
  BY DEF Calm, PairwiseReceived, Received, Alike, Members
<1>5. (Untimed(r) => Untimed(q)) /\ (Unverified(r) => Unverified(q))
  BY DEF Untimed, Unverified, Alike, Members
<1>6. Resting(s, r) => Resting(s, q)
  BY <1>4, <1>5 DEF Resting, GroupStayed, Unstarted, Alike, Members
<1>7. Associating(r) => Associating(q)
  BY <1>4, <1>5 DEF Associating, Updates, Alike, Members
<1> QED BY <1>1, <1>2, <1>3, <1>6, <1>7 DEF Alike, Members

LEMMA SetKeysDonePreserves ==
    ASSUME AuthInv, SetKeysDone
    PROVE  AuthInv'
<1>1. /\ then' = then /\ todo' = todo /\ cur' = cur
      /\ \/ at = "gsm" /\ at' = "ptk"
         \/ at = "rekey" /\ at' = "rekey"
      /\ Works
      /\ sm' = sm \/ sm' = [x \in Stations |->
                              IF sm[x].started THEN [sm[x] EXCEPT !.req = @ \cup {"Disconnect"}]
                              ELSE sm[x]]
      /\ Works' => sm' = sm
  <2>1. /\ then' = then /\ todo' = todo /\ cur' = cur
        /\ \/ at = "gsm" /\ at' = "ptk"
           \/ at = "rekey" /\ at' = "rekey"
        /\ Works
    <3>1. at \in {"gsm", "rekey"} /\ Works /\ todo' = todo /\ GoOn(TRUE)
      BY DEF SetKeysDone, Works
    <3>2. at = "gsm" => at' = "ptk"
      BY <3>1 DEF GoOn
    <3>3. at = "rekey" => at' = "rekey"
      BY <3>1 DEF GoOn
    <3> QED BY <3>1, <3>2, <3>3 DEF GoOn
  <2>2. CASE sm' = sm
    BY <2>1, <2>2
  <2>3. CASE /\ group' = [group EXCEPT !.state = "FATAL_FAILURE"]
             /\ sm' = [x \in Stations |->
                         IF sm[x].started THEN [sm[x] EXCEPT !.req = @ \cup {"Disconnect"}]
                         ELSE sm[x]]
    <3>1. ~Works'
      BY <2>3 DEF AuthInv, Shape, GroupMembers, Works
    <3> QED BY <2>1, <2>3, <3>1
  <2> QED BY <2>2, <2>3 DEF SetKeysDone
<1>2. /\ Has(group', GroupMembers)
      /\ group'.conf = group.conf
      /\ group'.GTKReKey = group.GTKReKey
      /\ group'.first_sta_seen = group.first_sta_seen
      /\ group'.reject_4way_hs_for_entropy = group.reject_4way_hs_for_entropy
  BY DEF SetKeysDone, AuthInv, Shape, GroupMembers
<1>3. ASSUME NEW x \in Stations
      PROVE  /\ Alike(sm'[x], sm[x], {"req"})
             /\ sm'[x].req = sm[x].req \/ sm'[x].req = sm[x].req \cup {"Disconnect"}
  BY <1>1 DEF AuthInv, Shape, Alike, Members
<1>4. Shape'
  BY <1>1, <1>2, <1>3 DEF AuthInv, Shape, Alike, Stepping
<1>5. Control'
  BY <1>1, <1>2 DEF AuthInv, Control, Stepping, Works
<1>6. \A x \in Stations : Active(x)' = Active(x)
  BY <1>1 DEF Active, Stepping
<1>7. ASSUME NEW x \in Stations PROVE StationRules(x)'
  <2>1. StationRules(x)
    BY DEF AuthInv
  <2>2. /\ KeyRules(sm'[x]) /\ MarkRules(sm'[x])
        /\ Active(x) => AtPtk(sm'[x])
        /\ ~Active(x) => Resting(x, sm'[x])
        /\ then = <<"associated", x>> => Associating(sm'[x])
        /\ "Init" \in sm'[x].req => then = <<"auth", x>>
        /\ then = <<"step", x>> => ~sm'[x].update_snonce
    BY <1>1, <1>3, <2>1, MarkDisconnect DEF StationRules, Active, Stepping
  <2>3. Active(x) => at' = "ptk"
    BY <1>1 DEF Active, Stepping
  <2> QED BY <1>1, <1>6, <2>2, <2>3 DEF StationRules, Resting
<1>8. ASSUME Works', NEW x \in Stations PROVE FrameRules(x)'
  <2>1. FrameRules(x) /\ sm'[x] = sm[x]
    BY <1>1, <1>8 DEF AuthInv
  <2>2. EntropyRules(sm[x])'
    BY <1>2, <2>1 DEF FrameRules, EntropyRules, Ensured
  <2>3. Active(x) => at' = "ptk" /\ FrameAtPtk(group.conf, sm[x])
    BY <1>1, <2>1 DEF Active, Stepping, FrameRules, FrameAtPtk, FrameAtGsm
  <2> QED BY <1>1, <1>2, <1>6, <2>1, <2>2, <2>3 DEF FrameRules
<1> QED BY <1>2, <1>4, <1>5, <1>7, <1>8 DEF AuthInv, Contradicts

-----------------------------------------------------------------------------
(* AuthInv is preserved: a station starts to step                           *)

\* What the handler has left to do is not about another station.
Thens(s) ==
    \/ then' = then
    \/ /\ then = Nothing \/ then[2] = s
       /\ then' = Nothing \/ then' \in {"auth", "associated", "reauth", "step", "free"} \X {s}

\* A handler, a continuation of it, or wpa_group_setkeys leaves record q for station s
\* and calls wpa_sm_step.
Starts(s, q) ==
    /\ sm' = [sm EXCEPT ![s] = q]
    /\ cur' = s
    /\ at' = "ptk"
    /\ s \notin todo' /\ todo' \subseteq todo
    /\ todo' # {} => then' = Nothing \/ then'[1] = "step"
    /\ Thens(s)
    /\ Has(group', GroupMembers)
    /\ group'.conf = group.conf
    /\ group'.state = group.state
    /\ group'.GTKReKey = group.GTKReKey
    /\ group'.first_sta_seen = group.first_sta_seen
    /\ group'.reject_4way_hs_for_entropy = group.reject_4way_hs_for_entropy

LEMMA StartPreserves ==
    ASSUME AuthInv, NEW s \in Stations, NEW q, at \in {"rest", "return", "update"}, Starts(s, q),
           PtkBefore(q),
           then' = <<"associated", s>> => Associating(q),
           then' = <<"step", s>> => ~q.update_snonce,
           "Init" \in q.req => then' = <<"auth", s>>,
           Works => EntropyRules(q) /\ FrameAtPtk(group.conf, q) /\ ("Init" \in q.req => q.req = {"Init"})
    PROVE  AuthInv'
<1>1. /\ sm' = [x \in Stations |-> sm'[x]] /\ sm'[s] = q
      /\ \A x \in Stations : x # s => sm'[x] = sm[x]
  BY DEF Starts, AuthInv, Shape
<1>2. Active(s)' /\ \A x \in Stations : ~Active(x) /\ (x # s => ~Active(x)')
  BY DEF Starts, Active, Stepping
<1>3. \A x \in Stations : x # s => /\ then' = <<"step", x>> <=> then = <<"step", x>>
                                   /\ then' = <<"auth", x>> <=> then = <<"auth", x>>
                                   /\ then' = <<"associated", x>> <=> then = <<"associated", x>>
  BY DEF Starts, Thens, AuthInv, Shape, Nothing
<1>4. Shape'
  BY <1>1 DEF AuthInv, Shape, Starts, Thens, Stepping, PtkBefore
<1>5. Control'
  BY DEF AuthInv, Control, Starts, Thens, Stepping
<1>6. ASSUME NEW x \in Stations PROVE StationRules(x)'
  <2>1. CASE x = s
    BY <1>1, <1>2, <2>1 DEF StationRules, Starts, PtkBefore
  <2>2. CASE x # s
    <3>1. StationRules(x)
      BY DEF AuthInv
    <3> QED BY <1>1, <1>2, <1>3, <2>2, <3>1 DEF StationRules, Resting
  <2> QED BY <2>1, <2>2
<1>7. ASSUME Works', NEW x \in Stations PROVE FrameRules(x)'
  <2>1. Works /\ FrameRules(x)
    BY <1>7 DEF AuthInv, Works, Starts
  <2>2. CASE x = s
    <3>1. EntropyRules(sm[s])'
      BY <1>1, <2>1 DEF EntropyRules, Ensured, Starts
    <3> QED BY <1>1, <1>2, <2>1, <2>2, <3>1 DEF FrameRules, Starts
  <2>3. CASE x # s
    <3>1. EntropyRules(sm[x])'
      BY <1>1, <2>1, <2>3 DEF FrameRules, EntropyRules, Ensured, Starts
    <3> QED BY <1>1, <1>2, <1>3, <2>1, <2>3, <3>1 DEF FrameRules, Starts
  <2> QED BY <2>2, <2>3
<1> QED BY <1>4, <1>5, <1>6, <1>7 DEF AuthInv, Contradicts, Starts

-----------------------------------------------------------------------------
(* AuthInv is preserved: a station steps no more, or its record changes at  *)
(* rest                                                                     *)

LEMMA SettlePreserves ==
    ASSUME AuthInv, NEW s \in Stations, ~Stepping, ~Stepping', Thens(s),
           \A x \in Stations : x # s => sm'[x] = sm[x],
           StationRules(s)',
           Works' => Works /\ FrameRules(s)',
           group'.conf = group.conf,
           group'.first_sta_seen = group.first_sta_seen,
           group'.reject_4way_hs_for_entropy = group.reject_4way_hs_for_entropy
    PROVE  /\ \A x \in Stations : StationRules(x)'
           /\ Works' => \A x \in Stations : FrameRules(x)'
           /\ ~Contradicts'
<1>1. \A x \in Stations : ~Active(x) /\ ~Active(x)'
  BY DEF Active
<1>2. \A x \in Stations : x # s => /\ then' = <<"step", x>> <=> then = <<"step", x>>
                                   /\ then' = <<"auth", x>> <=> then = <<"auth", x>>
                                   /\ then' = <<"associated", x>> <=> then = <<"associated", x>>
  BY DEF Thens, AuthInv, Shape, Nothing
<1>3. ASSUME NEW x \in Stations, x # s PROVE StationRules(x)'
  <2>1. StationRules(x)
    BY DEF AuthInv
  <2> QED BY <1>1, <1>2, <1>3, <2>1 DEF StationRules, Resting
<1>4. ASSUME Works', NEW x \in Stations, x # s PROVE FrameRules(x)'
  <2>1. FrameRules(x)
    BY <1>4 DEF AuthInv
  <2>2. EntropyRules(sm[x])'
    BY <1>4, <2>1 DEF FrameRules, EntropyRules, Ensured
  <2> QED BY <1>1, <1>2, <1>4, <2>1, <2>2 DEF FrameRules
<1> QED BY <1>3, <1>4 DEF AuthInv, Contradicts

\* The record of a station that is not known.
LEMMA NewSmRules ==
    /\ Has(NewSm, Members)
    /\ KeyRules(NewSm) /\ MarkRules(NewSm)
    /\ Calm(NewSm) /\ Untimed(NewSm) /\ GroupStayed(NewSm) /\ Unverified(NewSm)
    /\ ~Unstarted(NewSm) /\ ~NewSm.PtkGroupInit
    /\ NewSm.req = {} /\ NewSm.assoc = FALSE
    /\ NoFrame(group.conf, NewSm) /\ ~Accepted(NewSm) /\ ~Invited(NewSm)
<1>1. Has(NewSm, Members)
  BY DEF NewSm, Members
<1>2. /\ NewSm.req = {} /\ NewSm.rx = NoKey /\ NewSm.PTK = NoKey
      /\ NewSm.wpa_ptk_state = "INITIALIZE" /\ NewSm.wpa_ptk_group_state = "IDLE"
      /\ NewSm.PtkGroupInit = FALSE /\ NewSm.GUpdateStationKeys = FALSE
      /\ NewSm.update_snonce = FALSE /\ NewSm.rekey_timer = FALSE /\ NewSm.assoc = FALSE
  BY DEF NewSm
<1> HIDE DEF NewSm
<1>3. KeyRules(NewSm) /\ MarkRules(NewSm)
  BY <1>2 DEF KeyRules, Updates, MarkRules, ToIdle
<1>4. Calm(NewSm) /\ Untimed(NewSm) /\ GroupStayed(NewSm) /\ Unverified(NewSm) /\ ~Unstarted(NewSm)
  BY <1>2 DEF Calm, Untimed, GroupStayed, Unverified, Unstarted, Negotiation
<1> QED BY <1>1, <1>2, <1>3, <1>4 DEF NoFrame, Within, Accepted, Invited, PairwiseReceived, Received

\* wpa_free_sta_sm, at the end of a handler or between two.
LEMMA FreePreserves ==
    ASSUME AuthInv, NEW s \in Stations, Free(s), ~Stepping,
           todo' = todo, todo = {}, at' = "rest", then' = Nothing, then = Nothing \/ then[2] = s,
           group.GTKReKey => ~Works
    PROVE  AuthInv'
<1>1. /\ sm' = [x \in Stations |-> sm'[x]] /\ sm'[s] = NewSm
      /\ \A x \in Stations : x # s => sm'[x] = sm[x]
  BY DEF Free, AuthInv, Shape
<1>2. /\ Has(group', GroupMembers)
      /\ group'.conf = group.conf /\ group'.state = group.state
      /\ group'.GTKReKey = group.GTKReKey
      /\ group'.first_sta_seen = group.first_sta_seen
      /\ group'.reject_4way_hs_for_entropy = group.reject_4way_hs_for_entropy
  BY DEF Free, AuthInv, Shape, GroupMembers
<1>3. ~Stepping' /\ Thens(s)
  BY DEF Stepping, Thens
<1>4. Shape' /\ Control'
  BY <1>1, <1>2, <1>3, NewSmRules DEF AuthInv, Shape, Control, Stepping, Works
<1>5. ~Active(s)'
  BY <1>3 DEF Active
<1>6. StationRules(s)'
  BY <1>1, <1>5, NewSmRules DEF StationRules, Resting, Nothing
<1>7. FrameRules(s)'
  BY <1>1, <1>2, <1>5, NewSmRules DEF FrameRules, EntropyRules
<1> QED BY <1>1, <1>2, <1>3, <1>4, <1>6, <1>7, SettlePreserves DEF AuthInv, Works

-----------------------------------------------------------------------------
(* AuthInv is preserved: wpa_group_update_sta                               *)

\* A station that has its PTK is marked for the group key update.
LEMMA Marked ==
    ASSUME NEW s, NEW r, NEW q, Alike(q, r, {"GUpdateStationKeys", "is_wnmsleep"}),
           r.wpa_ptk_state = "PTKINITDONE", KeyRules(r), MarkRules(r), Resting(s, r),
           "Init" \notin r.req
    PROVE  /\ PtkBefore(q)
           /\ NoFrame(group.conf, r) => FrameAtPtk(group.conf, q)
           /\ EntropyRules(r) => EntropyRules(q)
<1>1. KeyRules(q) /\ AtPtk(q)
  BY DEF KeyRules, AtPtk, Updates, Resting, Negotiation, Alike, Members
<1>2. MarkRules(q)
  BY DEF MarkRules, ToIdle, Resting, GroupStayed, Alike, Members
<1>3. NoFrame(group.conf, r) => FrameAtPtk(group.conf, q)
  BY DEF NoFrame, FrameAtPtk, Alike, Members
<1>4. EntropyRules(r) => EntropyRules(q)
  BY DEF EntropyRules, Accepted, Invited, PairwiseReceived, Received, Alike, Members
<1> QED BY <1>1, <1>2, <1>3, <1>4 DEF PtkBefore, Alike

\* At rest the mark of a station is cleared, or its WNM-Sleep Mode changes.
LEMMA Unmarked ==
    ASSUME NEW s, NEW r, NEW q, Alike(q, r, {"GUpdateStationKeys", "is_wnmsleep"}),
           q.GUpdateStationKeys => r.GUpdateStationKeys
    PROVE  /\ KeyRules(r) => KeyRules(q)
           /\ MarkRules(r) => MarkRules(q)
           /\ Resting(s, r) => Resting(s, q)
           /\ Associating(r) => Associating(q)
           /\ NoFrame(group.conf, r) => NoFrame(group.conf, q)
           /\ EntropyRules(r) => EntropyRules(q)
           /\ q.req = r.req
           /\ q.update_snonce = r.update_snonce
<1>1. KeyRules(r) => KeyRules(q)
  BY DEF KeyRules, Deaf, Shares, Updates, Confirmed, PairwiseReceived, Received, Alike, Members
<1>2. MarkRules(r) => MarkRules(q)
  BY DEF MarkRules, ToIdle, Alike, Members
<1>3. Calm(r) => Calm(q)
  BY DEF Calm, PairwiseReceived, Received, Alike, Members
<1>4. (Untimed(r) => Untimed(q)) /\ (Unverified(r) => Unverified(q))
  BY DEF Untimed, Unverified, Alike, Members
<1>5. Resting(s, r) => Resting(s, q)
  BY <1>3, <1>4 DEF Resting, GroupStayed, Unstarted, Alike, Members
<1>6. Associating(r) => Associating(q)
  BY <1>3, <1>4 DEF Associating, Updates, Alike, Members
<1>7. NoFrame(group.conf, r) => NoFrame(group.conf, q)
  BY DEF NoFrame, Within, Alike, Members
<1>8. EntropyRules(r) => EntropyRules(q)
  BY DEF EntropyRules, Accepted, Invited, PairwiseReceived, Received, Alike, Members
<1> QED BY <1>1, <1>2, <1>5, <1>6, <1>7, <1>8 DEF Alike, Members

\* The same, for the whole of AuthInv.
LEMMA UnmarkPreserves ==
    ASSUME AuthInv, NEW s \in Stations, ~Stepping,
           sm' = [sm EXCEPT ![s] = sm'[s]],
           Alike(sm'[s], sm[s], {"GUpdateStationKeys", "is_wnmsleep"}),
           sm'[s].GUpdateStationKeys => sm[s].GUpdateStationKeys,
           group' = group, at' = at, then' = then, todo' \subseteq todo
    PROVE  AuthInv'
<1>1. /\ sm' = [x \in Stations |-> sm'[x]]
      /\ \A x \in Stations : x # s => sm'[x] = sm[x]
  BY DEF AuthInv, Shape
<1>2. ~Stepping' /\ Thens(s) /\ ~Active(s) /\ ~Active(s)'
  BY DEF Stepping, Thens, Active
<1>3. Shape' /\ Control'
  BY <1>1, <1>2 DEF AuthInv, Shape, Control, Stepping, Alike
<1>4. StationRules(s)'
  <2>1. StationRules(s)
    BY DEF AuthInv
  <2>2. /\ KeyRules(sm'[s]) /\ MarkRules(sm'[s]) /\ Resting(s, sm'[s])
        /\ Associating(sm[s]) => Associating(sm'[s])
        /\ sm'[s].req = sm[s].req /\ sm'[s].update_snonce = sm[s].update_snonce
    BY <1>2, <2>1, Unmarked DEF StationRules
  <2> QED BY <1>2, <2>1, <2>2 DEF StationRules, Resting
<1>5. Works' => Works /\ FrameRules(s)'
  <2>1. SUFFICES ASSUME Works PROVE FrameRules(s)'
    BY DEF Works
  <2>2. FrameRules(s)
    BY <2>1 DEF AuthInv
  <2>3. NoFrame(group.conf, sm'[s]) /\ EntropyRules(sm'[s]) /\ sm'[s].req = sm[s].req
    BY <1>2, <2>2, Unmarked DEF FrameRules
  <2> QED BY <1>2, <2>2, <2>3 DEF FrameRules, EntropyRules, Ensured
<1> QED BY <1>1, <1>2, <1>3, <1>4, <1>5, SettlePreserves DEF AuthInv

LEMMA UpdateNextPreserves ==
    ASSUME AuthInv, UpdateNext
    PROVE  AuthInv'
<1>1. PICK s \in todo : UpdateSta(s) /\ todo' = todo \ {s}
  BY DEF UpdateNext
<1>2. s \in Stations /\ at = "update" /\ then' = then /\ ~Stepping /\ ~Active(s)
  BY DEF UpdateNext, AuthInv, Control, Stepping, Active
<1>3. (then = Nothing \/ then[1] = "step") /\ StationRules(s)
  BY <1>2 DEF AuthInv, Control
<1>4. then # <<"auth", s>> /\ then # <<"associated", s>>
  BY <1>3 DEF Nothing
<1>5. Has(sm[s], Members) /\ KeyRules(sm[s]) /\ MarkRules(sm[s]) /\ Resting(s, sm[s])
      /\ "Init" \notin sm[s].req
  BY <1>2, <1>3, <1>4 DEF AuthInv, Shape, StationRules
<1>6. CASE MustUpdate(sm[s])
  <2> DEFINE q == [sm[s] EXCEPT !.GUpdateStationKeys = TRUE]
  <2>1. /\ sm' = [sm EXCEPT ![s] = q]
        /\ group' = [group EXCEPT !.GKeyDoneStations = @ + 1]
        /\ cur' = s /\ at' = "ptk"
    BY <1>1, <1>6 DEF UpdateSta
  <2>2. Starts(s, q)
    BY <1>1, <1>2, <1>3, <2>1 DEF Starts, Thens, AuthInv, Shape, Control, GroupMembers
  <2>3. Alike(q, sm[s], {"GUpdateStationKeys", "is_wnmsleep"}) /\ sm[s].wpa_ptk_state = "PTKINITDONE"
    BY <1>5, <1>6 DEF MustUpdate, Alike, Members
  <2> HIDE DEF q
  <2>4. /\ PtkBefore(q) /\ q.req = sm[s].req /\ q.update_snonce = sm[s].update_snonce
        /\ NoFrame(group.conf, sm[s]) => FrameAtPtk(group.conf, q)
        /\ EntropyRules(sm[s]) => EntropyRules(q)
    BY <1>5, <2>3, Marked DEF Alike, Members
  <2>5. Works => EntropyRules(q) /\ FrameAtPtk(group.conf, q)
    BY <1>2, <2>4 DEF AuthInv, FrameRules
  <2>6. then' = <<"step", s>> => ~q.update_snonce
    BY <1>2, <1>3, <2>4 DEF StationRules
  <2> QED BY <1>2, <1>4, <1>5, <2>2, <2>4, <2>5, <2>6, StartPreserves
<1>7. CASE ~MustUpdate(sm[s])
  <2> DEFINE q == [sm[s] EXCEPT !.GUpdateStationKeys =
                      IF sm[s].wpa_ptk_state = "PTKINITDONE" THEN @ ELSE FALSE]
  <2>1. sm' = [sm EXCEPT ![s] = q] /\ group' = group /\ at' = at
    BY <1>1, <1>7 DEF UpdateSta
  <2>2. sm'[s] = q
    BY <1>2, <2>1 DEF AuthInv, Shape
  <2>3. /\ Alike(q, sm[s], {"GUpdateStationKeys", "is_wnmsleep"})
        /\ q.GUpdateStationKeys => sm[s].GUpdateStationKeys
    BY <1>5 DEF Alike, Members
  <2> HIDE DEF q
  <2> QED BY <1>1, <1>2, <2>1, <2>2, <2>3, UnmarkPreserves
<1> QED BY <1>6, <1>7

-----------------------------------------------------------------------------
(* AuthInv is preserved: what a handler has left to do                      *)

\* A station that has not been initialised has the record it was created with.
Untouched(s) ==
    /\ Alike(sm[s], NewSm, {"assoc"})
    /\ sm[s].assoc => then = <<"associated", s>>
    /\ then # <<"auth", s>> /\ then # <<"reauth", s>>

Fresh == \A s \in Stations : sm[s].started \/ Untouched(s)

\* The members that a handler may write before a request.
Requests ==
    {"started", "assoc", "req", "PTK", "tk", "rekey_timer", "ctr", "key_replay",
     "GUpdateStationKeys", "PtkGroupInit"}

\* A station at rest gets requests, and its PTK may be removed.
LEMMA Requested ==
    ASSUME NEW s, NEW r, NEW q, Alike(q, r, Requests), KeyRules(r), Resting(s, r),
           \/ q.PTK = NoKey
           \/ /\ q.PTK = r.PTK /\ q.key_replay = r.key_replay
              /\ {"Deauth", "ReAuth", "PTK"} \cap q.req = {}
              /\ q.req # {} \/ ~r.update_snonce,
           "Disconnect" \in r.req => "Disconnect" \in q.req,
           r.assoc => q.assoc \/ "Deauth" \in q.req,
           q.PtkGroupInit => "ReAuth" \in q.req,
           q.rekey_timer => r.rekey_timer,
           "PTK" \in q.req => Accepted(r),
           "Init" \in q.req => q.req \subseteq {"Init", "Disconnect"},
           q.GUpdateStationKeys => r.GUpdateStationKeys,
           ToIdle(q) => ~q.GUpdateStationKeys
    PROVE  /\ PtkBefore(q)
           /\ /\ Unverified(r)
              /\ ~r.assoc
              /\ q.PTK = NoKey
              /\ q.req \subseteq {"Disconnect"}
              => Associating(q)
           /\ NoFrame(group.conf, r) => FrameAtPtk(group.conf, q)
           /\ EntropyRules(r) => EntropyRules(q)
<1>1. Calm(q)
  BY DEF Resting, Calm, PairwiseReceived, Received, Alike, Members, Requests
<1>2. Untimed(q) /\ (Unverified(r) => Unverified(q))
  BY DEF Resting, Untimed, Unverified, Alike, Members, Requests
<1>3. KeyRules(q)
  <2>1. Updates(r) => r.assoc
    BY DEF KeyRules, Resting
  <2>2. r.wpa_ptk_state = "PTKCALCNEGOTIATING" /\ ~r.MICVerified => Deaf(q) \/ Shares(q)
    BY DEF KeyRules, Resting, Untimed, Negotiation, Deaf, Shares, Alike, Members, Requests
  <2> QED BY <1>1, <2>1, <2>2 DEF KeyRules, Calm, Deaf, Updates, Negotiation, Alike, Members, Requests
<1>4. MarkRules(q)
  BY DEF MarkRules, Resting, GroupStayed, Alike, Members, Requests
<1>5. AtPtk(q)
  BY <1>1, <1>2 DEF AtPtk, Untimed, Calm, Updates, Deaf, Resting, Unstarted, Alike, Members, Requests
<1>6. NoFrame(group.conf, r) => FrameAtPtk(group.conf, q)
  BY DEF NoFrame, FrameAtPtk, Alike, Members, Requests
<1>7. EntropyRules(r) => EntropyRules(q)
  BY DEF EntropyRules, Accepted, Invited, PairwiseReceived, Received, Alike, Members, Requests
<1>8. ~r.assoc => ~Updates(q)
  BY DEF KeyRules, Resting, Updates, Alike, Members, Requests
<1> QED BY <1>1, <1>2, <1>3, <1>4, <1>5, <1>6, <1>7, <1>8 DEF PtkBefore, Associating, Alike

\* The same, for the whole of AuthInv: wpa_sm_step is called.
LEMMA RequestPreserves ==
    ASSUME AuthInv, NEW s \in Stations, NEW q, at \in {"rest", "return"}, Starts(s, q),
           Alike(q, sm[s], Requests),
           \/ q.PTK = NoKey
           \/ /\ q.PTK = sm[s].PTK /\ q.key_replay = sm[s].key_replay
              /\ {"Deauth", "ReAuth", "PTK"} \cap q.req = {}
              /\ q.req # {} \/ ~sm[s].update_snonce,
           "Disconnect" \in sm[s].req => "Disconnect" \in q.req,
           sm[s].assoc => q.assoc \/ "Deauth" \in q.req,
           q.PtkGroupInit => "ReAuth" \in q.req,
           then' # <<"step", s>>,
           q.rekey_timer => sm[s].rekey_timer,
           "PTK" \in q.req => Accepted(sm[s]),
           then' = <<"associated", s>> => /\ ~sm[s].assoc
                                          /\ q.PTK = NoKey
                                          /\ q.req = sm[s].req
                                          /\ then = Nothing,
           "Init" \in q.req => /\ q.req = sm[s].req \cup {"Init"}
                               /\ then' = <<"auth", s>>
                               /\ then # <<"auth", s>>,
           q.GUpdateStationKeys => sm[s].GUpdateStationKeys,
           ToIdle(q) => ~q.GUpdateStationKeys
    PROVE  AuthInv'
<1>1. ~Active(s)
  BY DEF Active, Stepping
<1>2. StationRules(s)
  BY DEF AuthInv
<1>3. KeyRules(sm[s]) /\ MarkRules(sm[s]) /\ Resting(s, sm[s])
  BY <1>1, <1>2 DEF StationRules
<1>4. "Init" \in q.req => q.req \subseteq {"Init", "Disconnect"}
  BY <1>3 DEF Resting
<1>5. /\ PtkBefore(q)
      /\ /\ Unverified(sm[s])
         /\ ~sm[s].assoc
         /\ q.PTK = NoKey
         /\ q.req \subseteq {"Disconnect"}
         => Associating(q)
      /\ NoFrame(group.conf, sm[s]) => FrameAtPtk(group.conf, q)
      /\ EntropyRules(sm[s]) => EntropyRules(q)
  BY <1>3, <1>4, Requested
<1>6. then' = <<"associated", s>> => Associating(q)
  BY <1>3, <1>5 DEF Resting, Nothing
<1>7. Works => EntropyRules(q) /\ FrameAtPtk(group.conf, q) /\ ("Init" \in q.req => q.req = {"Init"})
  BY <1>1, <1>5 DEF AuthInv, FrameRules
<1> QED BY <1>5, <1>6, <1>7, StartPreserves

\* The continuation of a handler is for a station, whose turn it is not.
LEMMA Continues ==
    ASSUME AuthInv, at = "return", todo = {}, then # Nothing
    PROVE  /\ then[2] \in Stations /\ then = <<then[1], then[2]>>
           /\ then[1] \in {"auth", "associated", "reauth", "step", "free"}
           /\ ~Active(then[2]) /\ Resting(then[2], sm[then[2]])
           /\ Has(sm[then[2]], Members)
<1>1. /\ then[2] \in Stations /\ then = <<then[1], then[2]>>
      /\ then[1] \in {"auth", "associated", "reauth", "step", "free"}
  BY DEF AuthInv, Shape
<1>2. ~Active(then[2])
  BY DEF Active, Stepping
<1> QED BY <1>1, <1>2 DEF AuthInv, Shape, StationRules

\* StepOn calls wpa_sm_step.
LEMMA StepOnStarts ==
    ASSUME AuthInv, NEW s \in Stations, NEW r, NEW next, StepOn(s, r, next), todo = {},
           then = Nothing \/ then[2] = s,
           next = Nothing \/ next \in {"auth", "associated", "reauth", "step", "free"} \X {s}
    PROVE  Starts(s, r) /\ then' = next
BY DEF StepOn, Starts, Thens, AuthInv, Shape, Control

\* wpa_sm_step returns to wpa_group_setkeys.
LEMMA ReturnToUpdate ==
    ASSUME AuthInv, at = "return", todo # {}, at' = "update",
           UNCHANGED <<sm, group, anonces, cur, changed, then, todo>>
    PROVE  AuthInv'
<1>1. Shape' /\ Control'
  BY DEF AuthInv, Shape, Control, Stepping
<1>2. ~Stepping /\ ~Stepping' /\ (Works' => Works)
  BY DEF Stepping, Works
<1> QED BY <1>1, <1>2, NobodySteps DEF AuthInv

\* wpa_auth_sta_associated, after WPA_ASSOC.
LEMMA StaAssociatedPreserves ==
    ASSUME AuthInv, Fresh, NEW s \in Stations, at = "return", todo = {},
           then = <<"associated", s>>, StaAssociated(s)
    PROVE  AuthInv'
<1>1. Has(sm[s], Members) /\ Resting(s, sm[s]) /\ sm[s].PTK = NoKey
  <2>1. ~Active(s) /\ StationRules(s)
    BY DEF Active, Stepping, AuthInv
  <2> QED BY <2>1 DEF AuthInv, Shape, StationRules, Associating
<1>2. sm[s].req \subseteq {"Disconnect"} /\ ~sm[s].PtkGroupInit
  BY <1>1 DEF Resting
<1>3. CASE sm[s].started
  <2> DEFINE q == [sm[s] EXCEPT !.ctr = 0, !.key_replay = {}, !.req = @ \cup {"ReAuth"}]
  <2>1. Starts(s, q) /\ then' = Nothing
    BY <1>3, StepOnStarts DEF StaAssociated, Nothing
  <2>2. /\ Alike(q, sm[s], Requests) /\ q.PTK = NoKey /\ q.req = sm[s].req \cup {"ReAuth"}
        /\ q.rekey_timer = sm[s].rekey_timer /\ q.PtkGroupInit = sm[s].PtkGroupInit
        /\ q.GUpdateStationKeys = sm[s].GUpdateStationKeys /\ q.assoc = sm[s].assoc
    BY <1>1 DEF Alike, Members, Requests
  <2> HIDE DEF q
  <2>3. ~ToIdle(q) /\ "PTK" \notin q.req /\ "Init" \notin q.req
    BY <1>2, <2>2 DEF ToIdle
  <2> QED BY <1>2, <2>1, <2>2, <2>3, RequestPreserves DEF Nothing
<1>4. CASE ~sm[s].started
  <2> DEFINE q == [sm[s] EXCEPT !.started = TRUE, !.req = @ \cup {"Init"}]
  <2>1. Starts(s, q) /\ then' = <<"auth", s>>
    BY <1>4, StepOnStarts DEF StaAssociated
  <2>2. /\ Alike(q, sm[s], Requests) /\ q.PTK = NoKey /\ q.req = sm[s].req \cup {"Init"}
        /\ q.rekey_timer = sm[s].rekey_timer /\ q.PtkGroupInit = sm[s].PtkGroupInit
        /\ q.GUpdateStationKeys = sm[s].GUpdateStationKeys /\ q.assoc = sm[s].assoc
    BY <1>1 DEF Alike, Members, Requests
  <2> HIDE DEF q
  <2>3. ~q.GUpdateStationKeys
    BY <1>4, <2>2 DEF Fresh, Untouched, Alike, Members, NewSm
  <2>4. "PTK" \notin q.req
    BY <1>2, <2>2
  <2> QED BY <1>2, <2>1, <2>2, <2>3, <2>4, RequestPreserves
<1> QED BY <1>3, <1>4

\* WPA_REAUTH
LEMMA ReauthPreserves ==
    ASSUME AuthInv, NEW s \in Stations, at = "return", todo = {},
           then = <<"reauth", s>>, Reauth(s)
    PROVE  AuthInv'
<1> DEFINE p == RemovePtk(sm[s])
           q == [p EXCEPT !.GUpdateStationKeys = FALSE,
                          !.PtkGroupInit = @ \/ sm[s].GUpdateStationKeys,
                          !.req = @ \cup {"ReAuth"}]
<1>1. Has(sm[s], Members) /\ Resting(s, sm[s])
  BY Continues DEF Nothing
<1>2. sm' = [sm EXCEPT ![s] = q]
  BY DEF Reauth
<1>3. Alike(p, sm[s], {"PTK", "tk", "rekey_timer"}) /\ p.PTK = NoKey /\ ~p.rekey_timer
  BY <1>1 DEF RemovePtk, Alike, Members
<1> HIDE DEF p
<1>4. /\ Alike(q, sm[s], Requests) /\ q.PTK = NoKey /\ q.req = sm[s].req \cup {"ReAuth"}
      /\ ~q.rekey_timer /\ ~q.GUpdateStationKeys /\ q.assoc = sm[s].assoc
  BY <1>3 DEF Alike, Members, Requests
<1> HIDE DEF q
<1>5. Starts(s, q) /\ then' = Nothing
  BY <1>2 DEF Reauth, Starts, Thens, AuthInv, Shape, Control, GroupMembers
<1>6. "PTK" \notin q.req /\ "Init" \notin q.req
  BY <1>1, <1>4 DEF Resting
<1> QED BY <1>4, <1>5, <1>6, RequestPreserves DEF Nothing

LEMMA ReturnPreserves ==
    ASSUME AuthInv, Fresh, Return
    PROVE  AuthInv'
<1> DEFINE s == then[2]
<1>1. at = "return"
  BY DEF Return
<1>2. CASE todo # {}
  BY <1>1, <1>2, ReturnToUpdate DEF Return
<1>3. CASE todo = {} /\ then = Nothing
  <2>1. UNCHANGED <<sm, group, todo>> /\ at' = "rest" /\ then' = Nothing
    BY <1>3 DEF Return, Nothing
  <2>2. Shape' /\ Control'
    BY <1>1, <1>3, <2>1 DEF AuthInv, Shape, Control, Stepping
  <2>3. ~Stepping /\ ~Stepping' /\ (Works' => Works)
    BY <1>1, <2>1 DEF Stepping, Works
  <2> QED BY <1>3, <2>1, <2>2, <2>3, NobodySteps DEF AuthInv
<1>4. CASE todo = {} /\ then # Nothing
  <2>1. /\ s \in Stations /\ then = <<then[1], s>>
        /\ then[1] \in {"auth", "associated", "reauth", "step", "free"}
        /\ Resting(s, sm[s]) /\ Has(sm[s], Members)
    BY <1>1, <1>4, Continues
  <2> HIDE DEF s
  <2>2. CASE then[1] = "auth"
    <3> DEFINE q == [sm[s] EXCEPT !.req = (@ \ {"Init"}) \cup {"Auth"}]
    <3>1. Starts(s, q) /\ then' = Nothing
      BY <1>4, <2>1, <2>2, StepOnStarts DEF Return, s
    <3>2. /\ Alike(q, sm[s], Requests)
          /\ q.req = (sm[s].req \ {"Init"}) \cup {"Auth"}
          /\ q.PTK = sm[s].PTK /\ q.key_replay = sm[s].key_replay
          /\ q.rekey_timer = sm[s].rekey_timer /\ q.PtkGroupInit = sm[s].PtkGroupInit
          /\ q.GUpdateStationKeys = sm[s].GUpdateStationKeys /\ q.assoc = sm[s].assoc
      BY <2>1 DEF Alike, Members, Requests
    <3> HIDE DEF q
    <3>3. q.req \subseteq {"Disconnect", "Auth"} /\ ~ToIdle(q) /\ ~q.PtkGroupInit
      BY <2>1, <3>2 DEF Resting, ToIdle
    <3> QED BY <1>1, <2>1, <3>1, <3>2, <3>3, RequestPreserves DEF Nothing
  <2>3. CASE then[1] = "associated"
    BY <1>1, <1>4, <2>1, <2>3, StaAssociatedPreserves DEF Return, s
  <2>4. CASE then[1] = "reauth"
    BY <1>1, <1>4, <2>1, <2>4, ReauthPreserves DEF Return, s
  <2>5. CASE then[1] = "step"
    <3>1. Starts(s, sm[s]) /\ then' = Nothing
      BY <1>4, <2>1, <2>5, StepOnStarts DEF Return, s
    <3>2. /\ sm[s].req \subseteq {"Disconnect"} /\ ~ToIdle(sm[s]) /\ ~sm[s].PtkGroupInit
          /\ ~sm[s].update_snonce
      BY <2>1, <2>5 DEF Resting, ToIdle, AuthInv, StationRules
    <3>3. Alike(sm[s], sm[s], Requests)
      BY <2>1 DEF Alike
    <3> QED BY <1>1, <2>1, <3>1, <3>2, <3>3, RequestPreserves DEF Nothing
  <2>6. CASE then[1] = "free"
    <3>1. Free(s) /\ at' = "rest" /\ then' = Nothing /\ todo' = todo
      BY <1>4, <2>6 DEF Return, s
    <3>2. ~Stepping /\ then[2] = s /\ (group.GTKReKey => ~Works)
      BY <1>1 DEF Stepping, s, AuthInv, Control, Works
    <3> QED BY <1>4, <2>1, <3>1, <3>2, FreePreserves
  <2> QED BY <2>1, <2>2, <2>3, <2>4, <2>5, <2>6
<1> QED BY <1>2, <1>3, <1>4

-----------------------------------------------------------------------------
(* AuthInv is preserved: the handlers                                       *)

LEMMA AtRest ==
    ASSUME AuthInv, at = "rest", NEW s \in Stations
    PROVE  /\ then = Nothing /\ todo = {} /\ ~Stepping /\ ~Active(s)
           /\ group.GTKReKey => ~Works
           /\ Has(sm[s], Members) /\ KeyRules(sm[s]) /\ MarkRules(sm[s])
           /\ Resting(s, sm[s]) /\ Unverified(sm[s])
           /\ sm[s].req \subseteq {"Disconnect"} /\ ~ToIdle(sm[s])
           /\ Works => NoFrame(group.conf, sm[s]) /\ sm[s].req = {} /\ EntropyRules(sm[s])
<1>1. /\ then = Nothing /\ todo = {} /\ ~Stepping /\ ~Active(s)
      /\ group.GTKReKey => ~Works
  BY DEF AuthInv, Control, Stepping, Active, Works
<1>2. Has(sm[s], Members) /\ StationRules(s) /\ (Works => FrameRules(s))
  BY DEF AuthInv, Shape
<1>3. then # <<"step", s>> /\ then # <<"auth", s>>
  BY <1>1 DEF Nothing
<1>4. KeyRules(sm[s]) /\ MarkRules(sm[s]) /\ Resting(s, sm[s])
  BY <1>1, <1>2 DEF StationRules
<1>5. Unverified(sm[s]) /\ sm[s].req \subseteq {"Disconnect"} /\ ~ToIdle(sm[s])
  BY <1>3, <1>4 DEF Resting, ToIdle
<1>6. Works => NoFrame(group.conf, sm[s]) /\ sm[s].req = {} /\ EntropyRules(sm[s])
  BY <1>1, <1>2, <1>3 DEF FrameRules
<1> QED BY <1>1, <1>2, <1>4, <1>5, <1>6

\* A handler calls wpa_sm_step.
LEMMA HandleStarts ==
    ASSUME AuthInv, NEW s \in Stations, NEW r, NEW next, Handle(s, r, next),
           next = Nothing \/ next \in {"auth", "associated", "reauth", "step", "free"} \X {s}
    PROVE  at = "rest" /\ Starts(s, r) /\ then' = next
<1>1. at = "rest" /\ StepOn(s, r, next)
  BY DEF Handle
<1> QED BY <1>1, AtRest, StepOnStarts

\* WPA_ASSOC, WPA_DISASSOC and the rekeying of the PTK.
LEMMA AssociatePreserves ==
    ASSUME AuthInv, NEW s \in Stations, Associate(s)
    PROVE  AuthInv'
<1> DEFINE q == RemovePtk([sm[s] EXCEPT !.assoc = TRUE])
           next == <<IF sm[s].assoc THEN "reauth" ELSE "associated", s>>
<1>1. at = "rest" /\ Starts(s, q) /\ then' = next
  BY HandleStarts DEF Associate
<1>2. /\ Has(sm[s], Members) /\ ~ToIdle(sm[s]) /\ then = Nothing
      /\ sm[s].req \subseteq {"Disconnect"}
  BY <1>1, AtRest
<1>3. /\ Alike(q, sm[s], Requests) /\ q.PTK = NoKey /\ q.req = sm[s].req /\ ~q.rekey_timer
      /\ q.GUpdateStationKeys = sm[s].GUpdateStationKeys
      /\ q.PtkGroupInit = sm[s].PtkGroupInit /\ q.assoc = TRUE
  BY <1>2 DEF RemovePtk, Alike, Members, Requests
<1>4. (next = <<"associated", s>> => ~sm[s].assoc) /\ next # <<"step", s>>
  OBVIOUS
<1> HIDE DEF q, next
<1>5. "PTK" \notin q.req /\ "Init" \notin q.req /\ ~ToIdle(q) /\ ~q.PtkGroupInit
  BY <1>2, <1>3 DEF ToIdle
<1> QED BY <1>1, <1>2, <1>3, <1>4, <1>5, RequestPreserves

LEMMA DisassociatePreserves ==
    ASSUME AuthInv, NEW s \in Stations, Disassociate(s)
    PROVE  AuthInv'
<1> DEFINE q == Deauth([sm[s] EXCEPT !.assoc = FALSE])
<1>1. at = "rest" /\ Starts(s, q) /\ then' = <<"free", s>>
  BY HandleStarts DEF Disassociate
<1>2. /\ Has(sm[s], Members) /\ ~ToIdle(sm[s]) /\ sm[s].req \subseteq {"Disconnect"}
  BY <1>1, AtRest
<1>3. /\ Alike(q, sm[s], Requests) /\ q.PTK = NoKey /\ q.req = sm[s].req \cup {"Deauth"}
      /\ ~q.rekey_timer
      /\ q.GUpdateStationKeys = sm[s].GUpdateStationKeys
      /\ q.PtkGroupInit = sm[s].PtkGroupInit
  BY <1>2 DEF Deauth, RemovePtk, Alike, Members, Requests
<1> HIDE DEF q
<1>4. "PTK" \notin q.req /\ "Init" \notin q.req /\ ~ToIdle(q) /\ ~q.PtkGroupInit
  BY <1>2, <1>3 DEF ToIdle
<1> QED BY <1>1, <1>2, <1>3, <1>4, RequestPreserves

LEMMA RekeyPtkPreserves ==
    ASSUME AuthInv, NEW s \in Stations, RekeyPtk(s)
    PROVE  AuthInv'
<1> DEFINE q == [sm[s] EXCEPT !.rekey_timer = FALSE, !.req = @ \cup {"PTK"}, !.PTK = NoKey]
<1>1. at = "rest" /\ Starts(s, q) /\ then' = Nothing /\ sm[s].rekey_timer
  BY HandleStarts DEF RekeyPtk
<1>2. /\ Has(sm[s], Members) /\ ~ToIdle(sm[s]) /\ sm[s].req \subseteq {"Disconnect"}
  BY <1>1, AtRest
<1>3. /\ Alike(q, sm[s], Requests) /\ q.PTK = NoKey /\ q.req = sm[s].req \cup {"PTK"}
      /\ ~q.rekey_timer
      /\ q.GUpdateStationKeys = sm[s].GUpdateStationKeys
      /\ q.PtkGroupInit = sm[s].PtkGroupInit /\ q.assoc = sm[s].assoc
  BY <1>2 DEF Alike, Members, Requests
<1> HIDE DEF q
<1>4. Accepted(sm[s]) /\ "Init" \notin q.req /\ ~ToIdle(q) /\ ~q.PtkGroupInit
  BY <1>1, <1>2, <1>3 DEF ToIdle, Accepted
<1> QED BY <1>1, <1>2, <1>3, <1>4, RequestPreserves DEF Nothing

\* wpa_send_eapol_timeout
LEMMA TimeoutPreserves ==
    ASSUME AuthInv, NEW s \in Stations, Timeout(s)
    PROVE  AuthInv'
<1> DEFINE r == sm[s]
           q == [r EXCEPT !.timers = @ - 1, !.TimeoutEvt = TRUE]
<1>1. at = "rest" /\ Starts(s, q) /\ then' = Nothing
  BY HandleStarts DEF Timeout
<1>2. /\ Has(r, Members) /\ KeyRules(r) /\ MarkRules(r) /\ Resting(s, r) /\ Unverified(r)
      /\ ~ToIdle(r)
      /\ Works => NoFrame(group.conf, r) /\ EntropyRules(r)
  BY <1>1, AtRest
<1> HIDE DEF r
<1>3. Alike(q, r, {"timers", "TimeoutEvt"}) /\ q.TimeoutEvt = TRUE
  BY <1>2 DEF Alike, Members
<1> HIDE DEF q
<1>4. KeyRules(q)
  BY <1>2, <1>3 DEF KeyRules, Deaf, Shares, Updates, Confirmed, Resting, Untimed, Negotiation,
     PairwiseReceived, Received, Alike, Members
<1>5. MarkRules(q)
  BY <1>2, <1>3 DEF MarkRules, ToIdle, Alike, Members
<1>6. Calm(q) /\ Unverified(q)
  BY <1>2, <1>3 DEF Resting, Calm, Unverified, PairwiseReceived, Received, Alike, Members
<1>7. AtPtk(q)
  BY <1>2, <1>3, <1>6 DEF AtPtk, Updates, Resting, Calm, Unstarted, ToIdle, Alike, Members
<1>8. Works => FrameAtPtk(group.conf, q)
  BY <1>2, <1>3 DEF NoFrame, FrameAtPtk, Alike, Members
<1>9. Works => EntropyRules(q)
  BY <1>2, <1>3 DEF EntropyRules, Accepted, Invited, PairwiseReceived, Received, Alike, Members
<1>10. "Init" \notin q.req
  BY <1>2, <1>3 DEF ToIdle, Alike, Members
<1>11. PtkBefore(q)
  BY <1>3, <1>4, <1>5, <1>7 DEF PtkBefore, Alike
<1> QED BY <1>1, <1>8, <1>9, <1>10, <1>11, StartPreserves DEF Nothing

\* The handlers that do not call wpa_sm_step.
LEMMA RemovePreserves ==
    ASSUME AuthInv, NEW s \in Stations, Remove(s)
    PROVE  AuthInv'
<1>1. at = "rest" /\ at' = "rest" /\ Free(s) /\ then' = then /\ todo' = todo
  BY DEF Remove
<1> QED BY <1>1, AtRest, FreePreserves

LEMMA WnmSleepPreserves ==
    ASSUME AuthInv, NEW s \in Stations, WnmSleep(s)
    PROVE  AuthInv'
<1> DEFINE q == [sm[s] EXCEPT !.is_wnmsleep = TRUE]
<1>1. /\ at = "rest" /\ sm' = [sm EXCEPT ![s] = q]
      /\ group' = group /\ at' = at /\ then' = then /\ todo' = todo
  BY DEF WnmSleep
<1>2. sm'[s] = q
  BY <1>1 DEF AuthInv, Shape
<1>3. ~Stepping /\ Has(sm[s], Members)
  BY <1>1, AtRest
<1>4. /\ Alike(q, sm[s], {"GUpdateStationKeys", "is_wnmsleep"})
      /\ q.GUpdateStationKeys = sm[s].GUpdateStationKeys
  BY <1>3 DEF Alike, Members
<1> HIDE DEF q
<1> QED BY <1>1, <1>2, <1>3, <1>4, UnmarkPreserves

LEMMA WnmWakePreserves ==
    ASSUME AuthInv, NEW s \in Stations, WnmWake(s)
    PROVE  AuthInv'
<1> DEFINE r == sm[s]
           p == [r EXCEPT !.is_wnmsleep = FALSE]
           must == p.wpa_ptk_state = "PTKINITDONE"
           q == [p EXCEPT !.GUpdateStationKeys = must]
<1>1. /\ at = "rest" /\ sm' = [sm EXCEPT ![s] = q]
      /\ group' = [group EXCEPT !.GKeyDoneStations = IF must THEN @ + 1 ELSE @]
      /\ IF must THEN cur' = s /\ at' = "ptk" ELSE UNCHANGED <<cur, at>>
      /\ then' = then /\ todo' = todo
  BY DEF WnmWake
<1>2. sm'[s] = q
  BY <1>1 DEF AuthInv, Shape
<1>3. /\ Has(r, Members) /\ KeyRules(r) /\ MarkRules(r) /\ Resting(s, r) /\ ~ToIdle(r)
      /\ Works => NoFrame(group.conf, r) /\ EntropyRules(r)
      /\ ~Stepping /\ then = Nothing /\ todo = {}
  BY <1>1, AtRest
<1>4. Alike(p, r, {"is_wnmsleep"})
  BY <1>3 DEF Alike, Members
<1>5. must = (r.wpa_ptk_state = "PTKINITDONE")
  BY <1>4 DEF Alike, Members
<1> HIDE DEF p, must
<1>6. Alike(q, r, {"GUpdateStationKeys", "is_wnmsleep"}) /\ q.GUpdateStationKeys = must
  BY <1>4 DEF Alike, Members
<1> HIDE DEF q
<1>7. CASE must
  <2>1. Starts(s, q)
    BY <1>1, <1>3, <1>7 DEF Starts, Thens, AuthInv, Shape, GroupMembers
  <2>2. PtkBefore(q) /\ (Works => FrameAtPtk(group.conf, q) /\ EntropyRules(q)) /\ q.req = r.req
    BY <1>3, <1>5, <1>6, <1>7, Marked DEF ToIdle, Alike, Members
  <2>3. "Init" \notin q.req
    BY <1>3, <2>2 DEF ToIdle
  <2> QED BY <1>1, <1>3, <2>1, <2>2, <2>3, StartPreserves DEF Nothing
<1>8. CASE ~must
  <2>1. group' = group /\ at' = at
    BY <1>1, <1>8 DEF AuthInv, Shape
  <2> QED BY <1>1, <1>2, <1>3, <1>6, <1>8, <2>1, UnmarkPreserves
<1> QED BY <1>7, <1>8

LEMMA RekeyGtkPreserves ==
    ASSUME AuthInv, RekeyGtk
    PROVE  AuthInv'
<1>1. /\ at = "rest" /\ at' = "rekey" /\ sm' = sm /\ then' = then /\ todo' = todo
      /\ Has(group', GroupMembers)
      /\ group'.conf = group.conf /\ group'.state = group.state
      /\ group'.first_sta_seen = group.first_sta_seen
      /\ group'.reject_4way_hs_for_entropy = group.reject_4way_hs_for_entropy
  BY DEF RekeyGtk, AuthInv, Shape, GroupMembers
<1>2. Shape' /\ Control'
  BY <1>1 DEF AuthInv, Shape, Control, Stepping
<1>3. ~Stepping /\ ~Stepping' /\ (Works' => Works)
  BY <1>1 DEF Stepping, Works
<1> QED BY <1>1, <1>2, <1>3, NobodySteps DEF AuthInv

-----------------------------------------------------------------------------
(* AuthInv is preserved: wpa_receive                                        *)

\* A frame is of one of these types, and its MIC is one of a key; its counter and its
\* nonce may be anything.
Reply(f) ==
    /\ f.type \in {"2/4", "4/4", "2/2", "request_ptk", "request_gtk"}
    /\ f.mic \in PTKs

LEMMA FrameOf ==
    ASSUME NEW f, Reply(f)
    PROVE  /\ f.type \in {"2/4", "4/4", "2/2", "request_ptk", "request_gtk"}
           /\ f.mic # NoKey
           /\ [type |-> f.type, mic |-> f.mic] # NoKey
BY WpaAuthAssumption DEF Reply, PTKs

LEMMA FramesReply ==
    ASSUME NEW r, NEW f \in Frames(r)
    PROVE  Reply(f)
BY DEF Frames, Reply

\* What Updating, Verified and Consumed make of a record.
LEMMA UpdatingKeeps ==
    ASSUME NEW r, NEW f, Has(r, Members)
    PROVE  LET q == Updating(r, f) IN
           /\ Alike(q, r, {"update_snonce", "alt_SNonce", "alt_replay_counter"})
           /\ NewSNonce(r, f) => q.update_snonce = TRUE
           /\ ~NewSNonce(r, f) => q = r
BY DEF Updating, Alike, Members

LEMMA VerifiedKeeps ==
    ASSUME NEW r, NEW f, Has(r, Members)
    PROVE  LET q == Verified(r, f) IN
           /\ Alike(q, r, {"MICVerified", "timers", "PTK", "alt_SNonce"})
           /\ q.MICVerified <=> Verifies(r)
           /\ q.PTK = IF Verifies(r) THEN f.mic ELSE r.PTK
<1>1. CASE Verifies(r)
  BY <1>1 DEF Verified, Alike, Members
<1>2. CASE ~Verifies(r)
  BY <1>2 DEF Verified, Alike, Members
<1> QED BY <1>1, <1>2

LEMMA ConsumedKeeps ==
    ASSUME NEW r, NEW f, Has(r, Members)
    PROVE  LET q == Consumed(r, f) IN
           /\ Alike(q, r, {"prev_key_replay", "key_replay", "rx", "last", "SNonce"})
           /\ q.key_replay = {}
           /\ q.rx = [type |-> f.type, mic |-> f.mic]
           /\ q.last = q.rx
BY DEF Consumed, Stored, Alike, Members

\* The members that an answer changes.
Answers ==
    {"update_snonce", "alt_SNonce", "alt_replay_counter", "MICVerified", "timers", "PTK",
     "prev_key_replay", "key_replay", "rx", "last", "SNonce"}

\* An answer that is taken.
LEMMA Answered ==
    ASSUME NEW s, NEW r, NEW f, Has(r, Members), KeyRules(r), MarkRules(r), Resting(s, r),
           Unverified(r), ~ToIdle(r), r.req \subseteq {"Disconnect"}, r.assoc,
           f.type \in {"2/4", "4/4", "2/2"}, f.mic # NoKey, [type |-> f.type, mic |-> f.mic] # NoKey,
           Expected(r, f), InOrder(Updating(r, f), f), ~Contradicts,
           ~(f.type = "2/4" /\ group.reject_4way_hs_for_entropy)
    PROVE  LET q == Consumed(Verified(Updating(r, f), f), f) IN
           /\ PtkBefore(q)
           /\ q.req = r.req
           /\ NoFrame(group.conf, r) /\ r.req = {} => FrameAtPtk(group.conf, q)
           /\ EntropyRules(r) => EntropyRules(q)
<1> DEFINE u == Updating(r, f)
           v == Verified(u, f)
           q == Consumed(v, f)
<1>1. /\ Alike(u, r, {"update_snonce", "alt_SNonce", "alt_replay_counter"})
      /\ NewSNonce(r, f) => u.update_snonce = TRUE
      /\ ~NewSNonce(r, f) => u = r
  BY UpdatingKeeps
<1>2. /\ Alike(v, u, {"MICVerified", "timers", "PTK", "alt_SNonce"})
      /\ v.MICVerified <=> Verifies(u)
      /\ v.PTK = IF Verifies(u) THEN f.mic ELSE u.PTK
  BY <1>1, VerifiedKeeps DEF Alike
<1>3. /\ Alike(q, v, {"prev_key_replay", "key_replay", "rx", "last", "SNonce"})
      /\ q.key_replay = {}
      /\ q.rx = [type |-> f.type, mic |-> f.mic]
      /\ q.last = q.rx
  BY <1>2, ConsumedKeeps DEF Alike
<1>0. InOrder(u, f)
  OBVIOUS
<1> HIDE DEF u, v, q
<1>4. /\ Alike(q, r, Answers)
      /\ q.update_snonce = u.update_snonce
      /\ q.MICVerified <=> Verifies(u)
      /\ q.PTK = IF Verifies(u) THEN f.mic ELSE r.PTK
  BY <1>1, <1>2, <1>3 DEF Alike, Members, Answers
<1>5. q.rx # NoKey /\ q.rx.type = f.type /\ q.rx.mic = f.mic
  BY <1>3
<1>6. Verifies(u) <=> r.PTK # NoKey /\ ~u.update_snonce
  BY <1>1 DEF Verifies, Alike, Members
<1>7. r.wpa_ptk_state = "PTKINITNEGOTIATING" /\ r.update_snonce => Malformed
  BY DEF Resting, Calm
<1>8. r.wpa_ptk_state = "PTKCALCNEGOTIATING" =>
        /\ ~r.update_snonce /\ u = r
        /\ f.type = "2/4" => r.PTK = NoKey \/ Shares(r)
        /\ f.type # "4/4"
  BY <1>0, <1>1 DEF KeyRules, Unverified, Deaf, Resting, Untimed, Negotiation, Expected, IsRequest,
     NewSNonce, OldSNonce, InOrder
<1>9. PairwiseReceived(q) <=> f.type \in {"2/4", "4/4"}
  BY <1>5 DEF PairwiseReceived, Received
<1>10. r.wpa_ptk_state \in {"INITIALIZE", "PTKINITDONE"} \cup Negotiation
  BY DEF Resting, Calm
<1>11. q.wpa_ptk_state = r.wpa_ptk_state /\ q.req = r.req /\ q.TimeoutEvt = r.TimeoutEvt
       /\ q.wpa_ptk_group_state = r.wpa_ptk_group_state
       /\ q.GUpdateStationKeys = r.GUpdateStationKeys /\ q.PtkGroupInit = r.PtkGroupInit
       /\ q.assoc = r.assoc /\ q.GTimeoutCtr = r.GTimeoutCtr
       /\ u.wpa_ptk_state = r.wpa_ptk_state /\ u.PTK = r.PTK
       /\ u.wpa_ptk_group_state = r.wpa_ptk_group_state
  BY <1>1, <1>4 DEF Alike, Members, Answers
<1>12. KeyRules(q)
  <2>1. ASSUME q.wpa_ptk_state = "PTKINITNEGOTIATING", ~q.update_snonce, PairwiseReceived(q),
               q.MICVerified
        PROVE  Confirmed(q)
    <3>1. f.type = "4/4"
      BY <1>0, <1>4, <1>9, <1>11, <2>1 DEF InOrder
    <3> QED BY <1>3, <1>4, <2>1, <3>1 DEF Confirmed
  <2>2. q.wpa_ptk_state = "PTKCALCNEGOTIATING" => ~q.update_snonce
    BY <1>4, <1>8, <1>11
  <2>3. q.wpa_ptk_state = "PTKCALCNEGOTIATING" /\ q.MICVerified => ~PairwiseReceived(q) \/ Shares(q)
    BY <1>4, <1>6, <1>8, <1>9, <1>11 DEF Shares
  <2>4. Deaf(q)
    BY <1>3 DEF Deaf
  <2>5. q.req \cap {"Deauth", "ReAuth", "PTK"} = {}
    BY <1>11
  <2>6. q.wpa_ptk_state \notin {"PTKCALCNEGOTIATING2", "AUTHENTICATION", "AUTHENTICATION2", "INITPSK"}
    BY <1>10, <1>11 DEF Negotiation
  <2>7. q.update_snonce => Updates(q) \/ q.PTK = NoKey
    BY <1>1, <1>4, <1>6, <1>11 DEF KeyRules, Updates, NewSNonce
  <2>8. q.assoc /\ q.last = q.rx
    BY <1>3, <1>11
  <2> QED BY <2>1, <2>2, <2>3, <2>4, <2>5, <2>6, <2>7, <2>8 DEF KeyRules
<1>13. MarkRules(q)
  BY <1>11 DEF MarkRules, ToIdle
<1>14. AtPtk(q)
  <2>1. Updates(q) => PairwiseReceived(q) \/ Malformed
    BY <1>1, <1>4, <1>7, <1>9, <1>11 DEF Updates, NewSNonce
  <2>2. Deaf(q) /\ ~q.PtkGroupInit
    BY <1>3, <1>11 DEF Deaf, ToIdle
  <2> QED BY <1>11, <2>1, <2>2 DEF AtPtk, Resting, Untimed, Unstarted
<1>15. NoFrame(group.conf, r) /\ r.req = {} => FrameAtPtk(group.conf, q)
  <2> SUFFICES ASSUME NoFrame(group.conf, r), r.req = {} PROVE FrameAtPtk(group.conf, q)
    OBVIOUS
  <2>1. f.type = "2/4" => PtkReply(q) \/ Straight(group.conf, q)
    <3>1. CASE r.wpa_ptk_state = "PTKCALCNEGOTIATING" /\ q.MICVerified /\ f.type = "2/4"
      <4>1. Shares(r)
        BY <1>4, <1>6, <1>8, <3>1
      <4>2. Malformed /\ InGroupState(q, "REKEYNEGOTIATING")
        BY <1>11, <4>1 DEF Shares, InGroupState, ToIdle
      <4>3. Within(group.conf, q) /\ ~q.TimeoutEvt
        BY <1>11, <3>1 DEF NoFrame, Within, Resting, Untimed, Negotiation
      <4> QED BY <1>9, <1>11, <3>1, <4>2, <4>3 DEF Straight
    <3>2. CASE ~(r.wpa_ptk_state = "PTKCALCNEGOTIATING" /\ q.MICVerified)
      BY <1>0, <1>4, <1>9, <1>11, <3>2 DEF PtkReply, InOrder
    <3> QED BY <3>1, <3>2
  <2>2. f.type = "4/4" => PtkReply(q)
    BY <1>0, <1>4, <1>6, <1>9, <1>11 DEF PtkReply, InOrder
  <2>3. f.type = "2/2" => GroupReply(q) \/ Recalculates(q)
    <3>1. CASE u.update_snonce
      <4>1. f.type = "2/2" => r.update_snonce /\ r.PTK # NoKey
        BY <1>0, <1>1, <1>11, <3>1 DEF InOrder, NewSNonce
      <4> QED BY <1>4, <1>11, <3>1, <4>1 DEF KeyRules, Updates, Recalculates
    <3>2. CASE ~u.update_snonce
      <4>1. f.type = "2/2" => q.MICVerified /\ r.wpa_ptk_group_state = "REKEYNEGOTIATING"
        BY <1>0, <1>4, <1>6, <1>11, <3>2 DEF InOrder
      <4> QED BY <1>5, <1>11, <4>1 DEF GroupReply, InGroupState, GroupAnswered, ToIdle, Received
    <3> QED BY <3>1, <3>2
  <2>4. q.update_snonce => NewSNonce(r, f) \/ Malformed
    BY <1>1, <1>4 DEF NoFrame
  <2>5. NewSNonce(r, f) => PtkReply(q) /\ q.wpa_ptk_state = "PTKINITNEGOTIATING"
    BY <1>1, <1>4, <1>9, <1>11 DEF PtkReply, NewSNonce
  <2> QED BY <2>1, <2>2, <2>3, <2>4, <2>5 DEF FrameAtPtk
<1>16. EntropyRules(r) => EntropyRules(q)
  <2> SUFFICES ASSUME EntropyRules(r) PROVE EntropyRules(q)
    OBVIOUS
  <2>1. q.rekey_timer = r.rekey_timer
    BY <1>4 DEF Alike, Members, Answers
  <2>2. q.PTK # NoKey => r.PTK # NoKey
    BY <1>4, <1>6
  <2>3. PairwiseReceived(q) => group.first_sta_seen
    <3>1. f.type = "4/4" => Accepted(r)
      BY <1>0, <1>11 DEF InOrder, Accepted
    <3>2. f.type = "2/4" => Accepted(r) \/ r.wpa_ptk_state = "PTKSTART"
      BY <1>0, <1>11 DEF InOrder, Accepted
    <3>3. r.wpa_ptk_state = "PTKSTART" => Ensured
      BY DEF EntropyRules, Invited
    <3> QED BY <1>9, <3>1, <3>2, <3>3 DEF EntropyRules, Ensured
  <2> QED BY <1>11, <2>1, <2>2, <2>3 DEF EntropyRules, Accepted, Invited
<1> QED BY <1>4, <1>11, <1>12, <1>13, <1>14, <1>15, <1>16 DEF PtkBefore, Alike, q, v, u

LEMMA ReceiveAnswerPreserves ==
    ASSUME AuthInv, NEW s \in Stations, NEW f, Reply(f), sm[s].assoc,
           ReceiveAnswer(s, f)
    PROVE  AuthInv'
<1> DEFINE r == sm[s]
           u == Updating(r, f)
<1>1. /\ f.type \in {"2/4", "4/4", "2/2"} /\ Expected(r, f) /\ InOrder(u, f)
      /\ IF f.type = "2/4" /\ group.reject_4way_hs_for_entropy
         THEN Handle(s, StaDisconnect(u), Nothing)
         ELSE Handle(s, Consumed(Verified(u, f), f), Nothing)
  BY FrameOf DEF ReceiveAnswer, IsRequest
<1>2. at = "rest"
  BY <1>1 DEF Handle
<1>3. /\ Has(r, Members) /\ KeyRules(r) /\ MarkRules(r) /\ Resting(s, r) /\ Unverified(r)
      /\ r.req \subseteq {"Disconnect"} /\ ~ToIdle(r) /\ r.assoc
      /\ Works => NoFrame(group.conf, r) /\ r.req = {} /\ EntropyRules(r)
  BY <1>2, AtRest
<1> HIDE DEF r
<1>4. CASE f.type = "2/4" /\ group.reject_4way_hs_for_entropy
  <2> DEFINE q == StaDisconnect(u)
  <2>1. Starts(s, q) /\ then' = Nothing
    BY <1>1, <1>4, HandleStarts
  <2>2. /\ Alike(u, r, {"update_snonce", "alt_SNonce", "alt_replay_counter"})
        /\ ~NewSNonce(r, f) => u = r
    BY <1>3, UpdatingKeeps
  <2> HIDE DEF u
  <2>3. /\ Alike(q, u, {"assoc", "req", "PTK", "tk", "rekey_timer"})
        /\ q.PTK = NoKey /\ ~q.rekey_timer /\ q.req = u.req \cup {"Deauth"}
    BY <2>2, DisconnectKeeps DEF Alike
  <2> HIDE DEF q
  <2>4. /\ Alike(q, r, Answers \cup Requests)
        /\ q.req = r.req \cup {"Deauth"}
        /\ q.update_snonce = u.update_snonce /\ q.rx = r.rx /\ q.last = r.last
        /\ q.MICVerified = r.MICVerified
        /\ q.GUpdateStationKeys = r.GUpdateStationKeys /\ q.PtkGroupInit = r.PtkGroupInit
        /\ r.wpa_ptk_state # "PTKINITNEGOTIATING" => q.update_snonce = r.update_snonce
    BY <2>2, <2>3 DEF Alike, Members, Answers, Requests, NewSNonce
  <2>5. KeyRules(q)
    <3>1. r.wpa_ptk_state \in {"INITIALIZE", "PTKINITDONE"} \cup Negotiation
      BY <1>3 DEF Resting, Calm
    <3>2. r.wpa_ptk_state = "PTKINITNEGOTIATING" => ~(PairwiseReceived(r) /\ r.MICVerified)
      BY <1>3 DEF Resting, Calm
    <3>3. Deaf(q) /\ PairwiseReceived(q) = PairwiseReceived(r) /\ q.wpa_ptk_state = r.wpa_ptk_state
      BY <2>3, <2>4 DEF Deaf, PairwiseReceived, Received, Alike, Members, Answers, Requests
    <3> QED BY <1>3, <2>3, <2>4, <3>1, <3>2, <3>3 DEF KeyRules, Unverified, Updates, Negotiation
  <2>6. MarkRules(q) /\ "Init" \notin q.req
    BY <1>3, <2>4 DEF MarkRules, ToIdle, Alike, Members, Answers, Requests
  <2>7. AtPtk(q)
    BY <1>3, <2>4 DEF AtPtk, ToIdle, Resting, Untimed, Unstarted, Alike, Members, Answers, Requests
  <2>8. Works => FrameAtPtk(group.conf, q)
    <3> SUFFICES ASSUME Works PROVE FrameAtPtk(group.conf, q)
      OBVIOUS
    <3>1. ~NewSNonce(r, f)
      BY <1>3, <1>4 DEF NewSNonce, EntropyRules, Accepted, AuthInv, Contradicts
    <3> QED BY <1>3, <2>2, <2>4, <3>1 DEF FrameAtPtk, NoFrame
  <2>9. Works => EntropyRules(q)
    BY <1>3, <2>3, <2>4 DEF EntropyRules, Accepted, Invited, PairwiseReceived, Received, Alike, Members,
       Answers, Requests
  <2>10. PtkBefore(q)
    BY <2>4, <2>5, <2>6, <2>7 DEF PtkBefore, Alike
  <2> QED BY <1>2, <2>1, <2>6, <2>8, <2>9, <2>10, StartPreserves DEF Nothing
<1>5. CASE ~(f.type = "2/4" /\ group.reject_4way_hs_for_entropy)
  <2> DEFINE q == Consumed(Verified(u, f), f)
  <2>1. Starts(s, q) /\ then' = Nothing
    BY <1>1, <1>5, HandleStarts
  <2>2. ~Contradicts /\ f.mic # NoKey /\ [type |-> f.type, mic |-> f.mic] # NoKey
    BY FrameOf DEF AuthInv
  <2>3. /\ PtkBefore(q)
        /\ q.req = r.req
        /\ NoFrame(group.conf, r) /\ r.req = {} => FrameAtPtk(group.conf, q)
        /\ EntropyRules(r) => EntropyRules(q)
    BY <1>1, <1>3, <1>5, <2>2, Answered
  <2> HIDE DEF q
  <2> QED BY <1>2, <1>3, <2>1, <2>3, StartPreserves DEF Nothing, ToIdle
<1> QED BY <1>4, <1>5

\* A request is taken: record q, in front of wpa_sm_step or of wpa_group_sm_step.
LEMMA Asked ==
    ASSUME NEW s, NEW r, NEW q, Has(r, Members), KeyRules(r), MarkRules(r), Resting(s, r),
           ~ToIdle(r), r.req \subseteq {"Disconnect"}, r.PTK # NoKey, ~r.update_snonce,
           Alike(q, r, Answers \cup {"req_replay_counter", "req"}),
           q.MICVerified, q.rx = NoKey, q.update_snonce = r.update_snonce,
           q.req = r.req \/ (q.req = r.req \cup {"PTK"} /\ q.PTK = NoKey)
    PROVE  /\ PtkBefore(q)
           /\ Calm(q) /\ Untimed(q) /\ GroupStayed(q) /\ ~Unstarted(q) /\ ~ToIdle(q)
           /\ NoFrame(group.conf, r) => NoFrame(group.conf, q) /\ FrameAtPtk(group.conf, q)
           /\ EntropyRules(r) => EntropyRules(q)
<1>1. /\ q.wpa_ptk_state = r.wpa_ptk_state /\ q.TimeoutEvt = r.TimeoutEvt
      /\ q.wpa_ptk_group_state = r.wpa_ptk_group_state
      /\ q.GUpdateStationKeys = r.GUpdateStationKeys /\ q.PtkGroupInit = r.PtkGroupInit
      /\ q.rekey_timer = r.rekey_timer /\ q.GTimeoutCtr = r.GTimeoutCtr
  BY DEF Alike, Members, Answers
<1>2. ~PairwiseReceived(q)
  BY DEF PairwiseReceived, Received
<1>3. Calm(q)
  BY <1>1, <1>2 DEF Resting, Calm
<1>4. Untimed(q) /\ GroupStayed(q) /\ ~Unstarted(q) /\ ~ToIdle(q)
  BY <1>1 DEF Resting, Untimed, GroupStayed, Unstarted, ToIdle
<1>5. KeyRules(q)
  BY <1>1, <1>2, <1>3 DEF KeyRules, Calm, Updates, Negotiation
<1>6. MarkRules(q)
  BY <1>1, <1>4 DEF MarkRules, GroupStayed, ToIdle
<1>7. AtPtk(q)
  BY <1>1, <1>4 DEF AtPtk, Untimed, Updates, ToIdle
<1>8. NoFrame(group.conf, r) => NoFrame(group.conf, q) /\ FrameAtPtk(group.conf, q)
  BY <1>1 DEF NoFrame, FrameAtPtk, Within
<1>9. EntropyRules(r) => EntropyRules(q)
  BY <1>1 DEF EntropyRules, Accepted, Invited
<1> QED BY <1>3, <1>4, <1>5, <1>6, <1>7, <1>8, <1>9 DEF PtkBefore, Alike

LEMMA ReceiveRequestPreserves ==
    ASSUME AuthInv, NEW s \in Stations, NEW f, Reply(f), ReceiveRequest(s, f)
    PROVE  AuthInv'
<1> DEFINE r == sm[s]
           v == Verified(r, f)
           p == [v EXCEPT !.req_replay_counter = f.ctr, !.rx = NoKey, !.last = Stored(f),
                    !.SNonce = f.nonce]
           q == [p EXCEPT !.req = @ \cup {"PTK"}, !.PTK = NoKey]
<1>1. /\ Verifies(r)
      /\ \/ Handle(s, q, Nothing)
         \/ Handle(s, p, Nothing)
         \/ /\ at = "rest" /\ sm' = [sm EXCEPT ![s] = p]
            /\ group' = [group EXCEPT !.GTKReKey = TRUE]
            /\ at' = "rekey" /\ then' = <<"step", s>> /\ todo' = todo
  BY DEF ReceiveRequest
<1>2. at = "rest"
  BY <1>1 DEF Handle
<1>3. /\ Has(r, Members) /\ KeyRules(r) /\ MarkRules(r) /\ Resting(s, r)
      /\ r.req \subseteq {"Disconnect"} /\ ~ToIdle(r)
      /\ Works => NoFrame(group.conf, r) /\ r.req = {} /\ EntropyRules(r)
      /\ then = Nothing /\ todo = {} /\ ~Stepping
  BY <1>2, AtRest
<1>4. /\ Alike(v, r, {"MICVerified", "timers", "PTK", "alt_SNonce"})
      /\ v.MICVerified /\ v.PTK = f.mic /\ r.PTK # NoKey /\ ~r.update_snonce
  BY <1>1, <1>3, VerifiedKeeps DEF Verifies
<1> HIDE DEF v
<1>5. /\ Alike(p, r, Answers \cup {"req_replay_counter", "req"})
      /\ p.MICVerified /\ p.rx = NoKey /\ p.update_snonce = r.update_snonce /\ p.req = r.req
  BY <1>4 DEF Alike, Members, Answers
<1>6. /\ Alike(q, r, Answers \cup {"req_replay_counter", "req"})
      /\ q.MICVerified /\ q.rx = NoKey /\ q.update_snonce = r.update_snonce
      /\ q.req = r.req \cup {"PTK"} /\ q.PTK = NoKey
  BY <1>4 DEF Alike, Members, Answers
<1> HIDE DEF p, q
<1>7. ASSUME NEW x, x = q \/ x = p, Handle(s, x, Nothing) PROVE AuthInv'
  <2>1. Starts(s, x) /\ then' = Nothing
    BY <1>7, HandleStarts
  <2>2. /\ PtkBefore(x) /\ "Init" \notin x.req
        /\ Works => FrameAtPtk(group.conf, x) /\ EntropyRules(x)
    BY <1>3, <1>4, <1>5, <1>6, <1>7, Asked DEF ToIdle
  <2> QED BY <1>2, <2>1, <2>2, StartPreserves DEF Nothing
<1>8. CASE /\ sm' = [sm EXCEPT ![s] = p]
           /\ group' = [group EXCEPT !.GTKReKey = TRUE]
           /\ at' = "rekey" /\ then' = <<"step", s>> /\ todo' = todo
  <2>1. /\ sm' = [x \in Stations |-> sm'[x]] /\ sm'[s] = p
        /\ \A x \in Stations : x # s => sm'[x] = sm[x]
    BY <1>8 DEF AuthInv, Shape
  <2>2. /\ Has(group', GroupMembers)
        /\ group'.conf = group.conf /\ group'.state = group.state
        /\ group'.first_sta_seen = group.first_sta_seen
        /\ group'.reject_4way_hs_for_entropy = group.reject_4way_hs_for_entropy
    BY <1>8 DEF AuthInv, Shape, GroupMembers
  <2>3. ~Stepping' /\ ~Active(s)' /\ Thens(s)
    BY <1>3, <1>8 DEF Stepping, Active, Thens
  <2>4. Shape' /\ Control'
    BY <1>3, <1>5, <1>8, <2>1, <2>2, <2>3 DEF AuthInv, Shape, Control, Stepping, Alike
  <2>5. /\ PtkBefore(p)
        /\ Calm(p) /\ Untimed(p) /\ GroupStayed(p) /\ ~Unstarted(p) /\ ~ToIdle(p)
        /\ Works => NoFrame(group.conf, p) /\ EntropyRules(p)
    BY <1>3, <1>4, <1>5, Asked
  <2>6. StationRules(s)'
    <3>1. KeyRules(p) /\ MarkRules(p) /\ ~p.PtkGroupInit /\ "Init" \notin p.req
      BY <2>5 DEF PtkBefore, ToIdle
    <3>2. p.req \subseteq {"Disconnect"}
      BY <1>3, <1>5
    <3> QED BY <1>4, <1>5, <1>8, <2>1, <2>3, <2>5, <3>1, <3>2 DEF StationRules, Resting
  <2>7. Works' => Works /\ FrameRules(s)'
    <3>1. Works' => Works
      BY <2>2 DEF Works
    <3>2. Works => FrameRules(s)'
      BY <1>3, <1>5, <2>1, <2>2, <2>3, <2>5 DEF FrameRules, EntropyRules, Ensured
    <3> QED BY <3>1, <3>2
  <2> QED BY <1>3, <2>1, <2>2, <2>3, <2>4, <2>6, <2>7, SettlePreserves DEF AuthInv
<1> QED BY <1>1, <1>7, <1>8

\* The frame is dropped.
LEMMA ReceiveUnverifiedPreserves ==
    ASSUME AuthInv, NEW s \in Stations, NEW f, ReceiveUnverified(s, f)
    PROVE  AuthInv'
<1> DEFINE r == sm[s]
           q == [r EXCEPT !.MICVerified = FALSE]
<1>1. /\ at = "rest" /\ sm' = [sm EXCEPT ![s] = q]
      /\ group' = group /\ at' = at /\ then' = then /\ todo' = todo
  BY DEF ReceiveUnverified
<1>2. /\ sm' = [x \in Stations |-> sm'[x]] /\ sm'[s] = q
      /\ \A x \in Stations : x # s => sm'[x] = sm[x]
  BY <1>1 DEF AuthInv, Shape
<1>3. /\ Has(r, Members) /\ KeyRules(r) /\ MarkRules(r) /\ Resting(s, r) /\ Unverified(r)
      /\ r.req \subseteq {"Disconnect"} /\ ~ToIdle(r)
      /\ Works => NoFrame(group.conf, r) /\ r.req = {} /\ EntropyRules(r)
      /\ then = Nothing /\ todo = {} /\ ~Stepping
  BY <1>1, AtRest
<1> HIDE DEF r
<1>4. Alike(q, r, {"MICVerified"}) /\ ~q.MICVerified
  BY <1>3 DEF Alike, Members
<1> HIDE DEF q
<1>5. ~Stepping' /\ ~Active(s)' /\ Thens(s)
  BY <1>1, <1>3 DEF Stepping, Active, Thens
<1>6. Shape' /\ Control'
  BY <1>1, <1>2, <1>4, <1>5 DEF AuthInv, Shape, Control, Stepping, Alike
<1>7. Calm(q) /\ Untimed(q) /\ GroupStayed(q) /\ Unverified(q)
  BY <1>3, <1>4 DEF Resting, Calm, Untimed, GroupStayed, Unverified, PairwiseReceived, Received, Alike,
     Members
<1>8. ~Unstarted(q) /\ ~ToIdle(q) /\ q.req = r.req /\ ~q.PtkGroupInit
  BY <1>3, <1>4 DEF Resting, Unstarted, ToIdle, Alike, Members
<1>9. KeyRules(q)
  BY <1>3, <1>4 DEF KeyRules, Unverified, Deaf, Shares, Updates, PairwiseReceived, Received, Alike,
     Members
<1>10. MarkRules(q)
  BY <1>3, <1>4 DEF MarkRules, ToIdle, Alike, Members
<1>11. StationRules(s)'
  BY <1>1, <1>2, <1>3, <1>5, <1>7, <1>8, <1>9, <1>10 DEF StationRules, Resting, Nothing, ToIdle
<1>12. Works' => Works /\ FrameRules(s)'
  <2> SUFFICES ASSUME Works PROVE FrameRules(s)'
    BY <1>1 DEF Works
  <2>1. NoFrame(group.conf, q)
    BY <1>3, <1>4 DEF NoFrame, Within, Alike, Members
  <2>2. EntropyRules(q)
    BY <1>3, <1>4 DEF EntropyRules, Accepted, Invited, PairwiseReceived, Received, Alike, Members
  <2> QED BY <1>1, <1>2, <1>3, <1>5, <1>8, <2>1, <2>2 DEF FrameRules, EntropyRules, Ensured
<1> QED BY <1>1, <1>2, <1>3, <1>5, <1>6, <1>11, <1>12, SettlePreserves DEF AuthInv

\* The frame is dropped, and the update of the SNonce is left.
LEMMA ReceiveMalformedPreserves ==
    ASSUME AuthInv, NEW s \in Stations, NEW f, ReceiveMalformed(s, f)
    PROVE  AuthInv'
<1> DEFINE r == sm[s]
           q == Updating(r, f)
<1>1. /\ at = "rest" /\ sm' = [sm EXCEPT ![s] = q]
      /\ group' = group /\ at' = at /\ then' = then /\ todo' = todo
      /\ Malformed /\ r.assoc /\ NewSNonce(r, f)
  BY DEF ReceiveMalformed
<1>2. /\ sm' = [x \in Stations |-> sm'[x]] /\ sm'[s] = q
      /\ \A x \in Stations : x # s => sm'[x] = sm[x]
  BY <1>1 DEF AuthInv, Shape
<1>3. /\ Has(r, Members) /\ KeyRules(r) /\ MarkRules(r) /\ Resting(s, r) /\ Unverified(r)
      /\ r.req \subseteq {"Disconnect"} /\ ~ToIdle(r)
      /\ Works => NoFrame(group.conf, r) /\ r.req = {} /\ EntropyRules(r)
      /\ then = Nothing /\ todo = {} /\ ~Stepping
  BY <1>1, AtRest
<1> HIDE DEF r
<1>4. /\ Alike(q, r, {"update_snonce", "alt_SNonce", "alt_replay_counter"})
      /\ r.wpa_ptk_state = "PTKINITNEGOTIATING" /\ q.update_snonce = TRUE
  BY <1>1, <1>3, UpdatingKeeps DEF NewSNonce
<1> HIDE DEF q
<1>5. ~Stepping' /\ ~Active(s)' /\ Thens(s)
  BY <1>1, <1>3 DEF Stepping, Active, Thens
<1>6. Shape' /\ Control'
  BY <1>1, <1>2, <1>4, <1>5 DEF AuthInv, Shape, Control, Stepping, Alike
<1>7. Calm(q) /\ Untimed(q) /\ GroupStayed(q) /\ Unverified(q)
  BY <1>1, <1>3, <1>4 DEF Resting, Calm, Untimed, GroupStayed, Unverified, PairwiseReceived, Received,
     Alike, Members
<1>8. ~Unstarted(q) /\ ~ToIdle(q) /\ q.req = r.req /\ ~q.PtkGroupInit
  BY <1>3, <1>4 DEF Resting, Unstarted, ToIdle, Alike, Members
<1>9. KeyRules(q)
  BY <1>1, <1>3, <1>4 DEF KeyRules, Updates, Alike, Members
<1>10. MarkRules(q)
  BY <1>3, <1>4 DEF MarkRules, ToIdle, Alike, Members
<1>11. StationRules(s)'
  BY <1>1, <1>2, <1>3, <1>5, <1>7, <1>8, <1>9, <1>10 DEF StationRules, Resting, Nothing, ToIdle
<1>12. Works' => Works /\ FrameRules(s)'
  <2> SUFFICES ASSUME Works PROVE FrameRules(s)'
    BY <1>1 DEF Works
  <2>1. NoFrame(group.conf, q)
    BY <1>1, <1>3, <1>4 DEF NoFrame, Within, Alike, Members
  <2>2. EntropyRules(q)
    BY <1>3, <1>4 DEF EntropyRules, Accepted, Invited, PairwiseReceived, Received, Alike, Members
  <2> QED BY <1>1, <1>2, <1>3, <1>5, <1>8, <2>1, <2>2 DEF FrameRules, EntropyRules, Ensured
<1> QED BY <1>1, <1>2, <1>3, <1>5, <1>6, <1>11, <1>12, SettlePreserves DEF AuthInv

-----------------------------------------------------------------------------
(* Fresh is preserved                                                       *)

LEMMA FreshOthers ==
    ASSUME Shape, Fresh, NEW s \in Stations, Thens(s),
           \A x \in Stations : x # s => sm'[x] = sm[x],
           sm'[s].started \/ Untouched(s)'
    PROVE  Fresh'
<1>1. ASSUME NEW x \in Stations, x # s, ~sm[x].started PROVE Untouched(x)'
  <2>1. Untouched(x)
    BY <1>1 DEF Fresh
  <2>2. CASE then' = then
    BY <1>1, <2>1, <2>2 DEF Untouched
  <2>3. CASE then = Nothing \/ then[2] = s
    <3>1. then # <<"associated", x>>
      BY <1>1, <2>3 DEF Nothing
    <3>2. then' # <<"auth", x>> /\ then' # <<"reauth", x>>
      BY <1>1, <2>1 DEF Thens, Nothing, Untouched
    <3> QED BY <1>1, <2>1, <3>1, <3>2 DEF Untouched
  <2> QED BY <2>2, <2>3 DEF Thens
<1> QED BY <1>1 DEF Fresh

LEMMA UntouchedIs ==
    ASSUME NEW s, Untouched(s)
    PROVE  /\ Has(sm[s], Members)
           /\ sm[s].started = FALSE /\ sm[s].req = {}
           /\ sm[s].wpa_ptk_state = "INITIALIZE" /\ sm[s].wpa_ptk_group_state = "IDLE"
           /\ sm[s].GUpdateStationKeys = FALSE /\ sm[s].PtkGroupInit = FALSE
           /\ sm[s].PTK = NoKey /\ sm[s].tk = NoKey /\ sm[s].timers = 0 /\ sm[s].ctr = 0
           /\ sm[s].rekey_timer = FALSE /\ sm[s].is_wnmsleep = FALSE
BY DEF Untouched, Alike, Members, NewSm

\* The machines of a station that has not been initialised stay where they are.
LEMMA FreshPtk ==
    ASSUME AuthInv, Fresh, NEW s \in Stations, PtkStep(s)
    PROVE  Fresh'
<1>1. Kept(s) /\ Shape
  BY PtkMoves DEF AuthInv
<1>2. CASE Untouched(s)
  <2>1. sm[s].req = {} /\ sm[s].wpa_ptk_state = "INITIALIZE"
    BY <1>2, UntouchedIs
  <2>2. PtkStay(s)
    BY <2>1 DEF PtkStep, PtkInitialize, PtkDisconnect, PtkDisconnected, PtkAuthentication,
       PtkAuthentication2, PtkInitPsk, PtkStart, PtkUpdate, PtkCalcNegotiating, PtkCalcNegotiating2,
       PtkInitNegotiating, PtkInitDone, Due, InState, GivesUp
  <2>3. sm'[s] = sm[s]
    BY <1>1, <2>2 DEF PtkStay, Turn, Shape
  <2> QED BY <1>1, <1>2, <2>3, FreshOthers DEF Kept, Thens, Untouched
<1>3. CASE sm[s].started
  <2>1. at = "ptk" /\ cur = s /\ StationRules(s)
    BY PtkMoves DEF AuthInv, Kept
  <2>2. PtkBefore(sm[s])
    BY <2>1 DEF AuthInv, Shape, PtkBefore, StationRules, Active, Stepping
  <2>3. sm'[s].started
    BY <1>3, <2>2, PtkTurn DEF AuthInv, PtkAfter
  <2> QED BY <1>1, <2>3, FreshOthers DEF Kept, Thens
<1> QED BY <1>2, <1>3 DEF Fresh

LEMMA FreshGroup ==
    ASSUME AuthInv, Fresh, NEW s \in Stations, GroupStep(s)
    PROVE  Fresh'
<1>1. Kept(s) /\ Shape
  BY GroupMoves DEF AuthInv
<1>2. CASE Untouched(s)
  <2>1. /\ sm[s].req = {} /\ sm[s].wpa_ptk_group_state = "IDLE"
        /\ sm[s].GUpdateStationKeys = FALSE /\ sm[s].PtkGroupInit = FALSE
    BY <1>2, UntouchedIs
  <2>2. GroupStay(s)
    BY <2>1 DEF GroupStep, GroupIdle, RekeyNegotiating, RekeyEstablished, KeyError, InGroupState, ToIdle
  <2>3. sm'[s] = sm[s]
    BY <1>1, <2>2 DEF GroupStay, Turn, Shape
  <2> QED BY <1>1, <1>2, <2>3, FreshOthers DEF Kept, Thens, Untouched
<1>3. CASE sm[s].started
  <2>1. at = "group" /\ cur = s /\ StationRules(s)
    BY GroupMoves DEF AuthInv, Kept
  <2>2. GroupBefore(sm[s], changed)
    BY <2>1 DEF AuthInv, Shape, GroupBefore, StationRules, Active, Stepping
  <2>3. sm'[s].started
    BY <1>1, <1>3, <2>2, GroupTurn DEF GroupAfter
  <2> QED BY <1>1, <2>3, FreshOthers DEF Kept, Thens
<1> QED BY <1>2, <1>3 DEF Fresh

LEMMA FreshUpdate ==
    ASSUME AuthInv, Fresh, UpdateNext
    PROVE  Fresh'
<1>1. PICK s \in todo : UpdateSta(s)
  BY DEF UpdateNext
<1>2. s \in Stations /\ then' = then /\ Has(sm[s], Members) /\ Shape
  BY DEF UpdateNext, AuthInv, Control, Shape
<1>3. \A x \in Stations : x # s => sm'[x] = sm[x]
  BY <1>1, <1>2 DEF UpdateSta, Shape
<1>4. CASE Untouched(s)
  <2>1. /\ sm[s].wpa_ptk_state = "INITIALIZE" /\ sm[s].GUpdateStationKeys = FALSE
    BY <1>4, UntouchedIs
  <2>2. sm' = [sm EXCEPT ![s].GUpdateStationKeys = FALSE]
    BY <1>1, <2>1 DEF UpdateSta, MustUpdate
  <2>3. Alike(sm'[s], sm[s], {})
    BY <1>2, <2>1, <2>2 DEF Shape, Alike, Members
  <2>4. Untouched(s)'
    BY <1>2, <1>4, <2>3 DEF Untouched, Alike, Members
  <2> QED BY <1>2, <1>3, <2>4, FreshOthers DEF Thens
<1>5. CASE sm[s].started
  <2>1. PICK b : sm' = [sm EXCEPT ![s] = [sm[s] EXCEPT !.GUpdateStationKeys = b]]
    BY <1>1 DEF UpdateSta
  <2>2. sm'[s].started
    BY <1>2, <1>5, <2>1 DEF Shape, Members
  <2> QED BY <1>2, <1>3, <2>2, FreshOthers DEF Thens
<1> QED BY <1>2, <1>4, <1>5 DEF Fresh

LEMMA FreshReturn ==
    ASSUME AuthInv, Fresh, Return
    PROVE  Fresh'
<1>1. at = "return" /\ Shape
  BY DEF Return, AuthInv
<1>2. CASE sm' = sm /\ then' = then
  BY <1>2 DEF Fresh, Untouched
<1>3. CASE todo = {} /\ then # Nothing
  <2>1. PICK s \in Stations :
        /\ then = <<then[1], s>> /\ then[2] = s /\ Has(sm[s], Members)
        /\ then[1] \in {"auth", "associated", "reauth", "step", "free"}
    BY <1>1, <1>3, Continues
  <2>2. CASE then[1] = "auth"
    <3>1. sm' = [sm EXCEPT ![s] = [sm[s] EXCEPT !.req = (@ \ {"Init"}) \cup {"Auth"}]] /\ then' = Nothing
      BY <1>3, <2>1, <2>2 DEF Return, StepOn
    <3>2. sm[s].started
      BY <2>1, <2>2 DEF Fresh, Untouched
    <3>3. sm'[s].started
      BY <1>1, <2>1, <3>1, <3>2 DEF Shape, Members
    <3> QED BY <1>1, <2>1, <3>1, <3>3, FreshOthers DEF Thens, Shape
  <2>3. CASE then[1] = "associated"
    <3>1. StaAssociated(s)
      BY <1>3, <2>1, <2>3 DEF Return
    <3>2. CASE sm[s].started
      <4>1. /\ sm' = [sm EXCEPT ![s] = [sm[s] EXCEPT !.ctr = 0, !.key_replay = {},
                                                    !.req = @ \cup {"ReAuth"}]]
            /\ then' = Nothing
        BY <3>1, <3>2 DEF StaAssociated, StepOn
      <4>2. sm'[s].started
        BY <1>1, <2>1, <3>2, <4>1 DEF Shape, Members
      <4> QED BY <1>1, <2>1, <4>1, <4>2, FreshOthers DEF Thens, Shape
    <3>3. CASE ~sm[s].started
      <4>1. /\ sm' = [sm EXCEPT ![s] = [sm[s] EXCEPT !.started = TRUE, !.req = @ \cup {"Init"}]]
            /\ then' = <<"auth", s>>
        BY <3>1, <3>3 DEF StaAssociated, StepOn
      <4>2. sm'[s].started
        BY <1>1, <2>1, <4>1 DEF Shape, Members
      <4> QED BY <1>1, <2>1, <4>1, <4>2, FreshOthers DEF Thens, Shape
    <3> QED BY <3>2, <3>3
  <2>4. CASE then[1] = "reauth"
    <3>1. /\ sm' = [sm EXCEPT ![s] = [RemovePtk(sm[s]) EXCEPT !.GUpdateStationKeys = FALSE,
                                        !.PtkGroupInit = @ \/ sm[s].GUpdateStationKeys,
                                        !.req = @ \cup {"ReAuth"}]]
          /\ then' = Nothing
      BY <1>3, <2>1, <2>4 DEF Return, Reauth
    <3>2. sm[s].started
      BY <2>1, <2>4 DEF Fresh, Untouched
    <3>3. sm'[s].started
      BY <1>1, <2>1, <3>1, <3>2 DEF Shape, Members, RemovePtk
    <3> QED BY <1>1, <2>1, <3>1, <3>3, FreshOthers DEF Thens, Shape
  <2>5. CASE then[1] = "step"
    <3>1. sm' = sm /\ then' = Nothing
      BY <1>1, <1>3, <2>1, <2>5 DEF Return, StepOn, Shape
    <3>2. sm'[s].started \/ Untouched(s)'
      <4>1. then # <<"associated", s>> /\ then' # <<"auth", s>> /\ then' # <<"reauth", s>>
        BY <2>1, <2>5, <3>1 DEF Nothing
      <4> QED BY <2>1, <3>1, <4>1 DEF Fresh, Untouched
    <3> QED BY <1>1, <2>1, <3>1, <3>2, FreshOthers DEF Thens
  <2>6. CASE then[1] = "free"
    <3>1. sm' = [sm EXCEPT ![s] = NewSm] /\ then' = Nothing
      BY <1>3, <2>1, <2>6 DEF Return, Free
    <3>2. sm'[s] = NewSm /\ \A x \in Stations : x # s => sm'[x] = sm[x]
      BY <1>1, <2>1, <3>1 DEF Shape
    <3>3. Untouched(s)'
      BY <3>1, <3>2, NewSmRules DEF Untouched, Alike, Nothing
    <3> QED BY <1>1, <2>1, <3>1, <3>2, <3>3, FreshOthers DEF Thens
  <2> QED BY <2>1, <2>2, <2>3, <2>4, <2>5, <2>6
<1>4. CASE todo = {} /\ then = Nothing
  BY <1>2, <1>4 DEF Return, Nothing
<1>5. CASE todo # {}
  BY <1>2, <1>5 DEF Return
<1> QED BY <1>3, <1>4, <1>5

\* A handler for a station that has been initialised.
LEMMA FreshHandler ==
    ASSUME AuthInv, Fresh, NEW s \in Stations, at = "rest", sm[s].started,
           sm' = [sm EXCEPT ![s] = sm'[s]], sm'[s].started \/ sm'[s] = NewSm,
           then' = Nothing \/ then' \in {"auth", "associated", "reauth", "step", "free"} \X {s},
           sm'[s] = NewSm => then' = Nothing
    PROVE  Fresh'
<1>1. Shape /\ Thens(s)
  BY AtRest DEF AuthInv, Thens
<1>2. sm'[s] = NewSm => Untouched(s)'
  BY NewSmRules DEF Untouched, Alike, Nothing
<1> QED BY <1>1, <1>2, FreshOthers DEF Shape

LEMMA FreshMalformed ==
    ASSUME AuthInv, Fresh, NEW s \in Stations, NEW f, ReceiveMalformed(s, f)
    PROVE  Fresh'
<1>1. /\ at = "rest" /\ sm' = [sm EXCEPT ![s] = Updating(sm[s], f)] /\ then' = then
      /\ sm[s].wpa_ptk_state = "PTKINITNEGOTIATING"
  BY DEF ReceiveMalformed, NewSNonce
<1>2. Has(sm[s], Members) /\ Shape
  BY DEF AuthInv, Shape
<1>3. sm[s].started
  BY <1>1, UntouchedIs DEF Fresh
<1>4. Updating(sm[s], f).started
  <2> DEFINE u == Updating(sm[s], f)
  <2>1. Alike(u, sm[s], {"update_snonce", "alt_SNonce", "alt_replay_counter"})
    BY <1>2, UpdatingKeeps
  <2> HIDE DEF u
  <2>2. u.started
    BY <1>3, <2>1 DEF Alike, Members
  <2> QED BY <2>2 DEF u
<1>5. /\ sm'[s] = Updating(sm[s], f)
      /\ \A x \in Stations : x # s => sm'[x] = sm[x]
  BY <1>1, <1>2 DEF Shape
<1> QED BY <1>1, <1>2, <1>4, <1>5, FreshOthers DEF Thens

LEMMA FreshReceive ==
    ASSUME AuthInv, Fresh, NEW s \in Stations, NEW f, Reply(f), Receive(s, f)
    PROVE  Fresh'
<1> DEFINE r == sm[s]
           u == Updating(r, f)
<1>1. at = "rest" /\ (then' = Nothing \/ then' = <<"step", s>>)
  <2>1. at = "rest"
    BY DEF Receive, ReceiveAnswer, ReceiveRequest, ReceiveUnverified, Handle
  <2> QED BY <2>1, AtRest DEF Receive, ReceiveAnswer, ReceiveRequest, ReceiveUnverified, Handle, StepOn
<1>2. Has(r, Members) /\ Shape
  BY DEF AuthInv, Shape
<1>0. CASE ~r.started
  <2>1. Untouched(s)
    BY <1>0 DEF Fresh
  <2>2. /\ r.key_replay = {} /\ r.PTK = NoKey /\ r.wpa_ptk_state = "INITIALIZE"
        /\ r.MICVerified = FALSE
    BY <2>1 DEF Untouched, Alike, Members, NewSm
  <2>3. ~ReceiveAnswer(s, f)
    BY <2>2 DEF ReceiveAnswer, Expected, NewSNonce, OldSNonce
  <2>4. ~ReceiveRequest(s, f)
    BY <2>2 DEF ReceiveRequest, Verifies
  <2>5. sm' = [sm EXCEPT ![s] = [r EXCEPT !.MICVerified = FALSE]] /\ then' = then
    BY <2>3, <2>4 DEF Receive, ReceiveUnverified
  <2>6. [r EXCEPT !.MICVerified = FALSE] = r
    BY <1>2, <2>2
  <2>7. sm' = sm
    BY <1>2, <2>5, <2>6 DEF Shape
  <2> QED BY <2>5, <2>7 DEF Fresh, Untouched
<1> SUFFICES ASSUME r.started PROVE Fresh'
  BY <1>0
<1>3. r.started
  OBVIOUS
<1>4. \E q : sm' = [sm EXCEPT ![s] = q] /\ q.started
  <2>1. Alike(u, r, {"update_snonce", "alt_SNonce", "alt_replay_counter"})
    BY <1>2, UpdatingKeeps
  <2>2. ASSUME ReceiveAnswer(s, f)
        PROVE  \E q : sm' = [sm EXCEPT ![s] = q] /\ q.started
    <3>1. CASE Handle(s, StaDisconnect(u), Nothing)
      <4>1. StaDisconnect(u).started
        BY <1>3, <2>1, DisconnectKeeps DEF Alike, Members
      <4> QED BY <3>1, <4>1 DEF Handle, StepOn
    <3>2. CASE Handle(s, Consumed(Verified(u, f), f), Nothing)
      <4>1. Alike(Verified(u, f), u, {"MICVerified", "timers", "PTK", "alt_SNonce"})
        BY <2>1, VerifiedKeeps DEF Alike
      <4>2. Has(Verified(u, f), Members) /\ Verified(u, f).started
        BY <1>3, <2>1, <4>1 DEF Alike, Members
      <4>3. Alike(Consumed(Verified(u, f), f), Verified(u, f),
                  {"prev_key_replay", "key_replay", "rx", "last", "SNonce"})
        BY <4>2, ConsumedKeeps
      <4>4. Consumed(Verified(u, f), f).started
        BY <4>2, <4>3 DEF Alike, Members
      <4> QED BY <3>2, <4>4 DEF Handle, StepOn
    <3> QED BY <2>2, <3>1, <3>2 DEF ReceiveAnswer
  <2>3. ASSUME ReceiveRequest(s, f)
        PROVE  \E q : sm' = [sm EXCEPT ![s] = q] /\ q.started
    <3> DEFINE v == Verified(r, f)
               p == [v EXCEPT !.req_replay_counter = f.ctr, !.rx = NoKey, !.last = Stored(f),
                              !.SNonce = f.nonce]
               w == [p EXCEPT !.req = @ \cup {"PTK"}, !.PTK = NoKey]
    <3>1. sm' = [sm EXCEPT ![s] = p] \/ sm' = [sm EXCEPT ![s] = w]
      BY <2>3 DEF ReceiveRequest, Handle, StepOn
    <3>2. Alike(v, r, {"MICVerified", "timers", "PTK", "alt_SNonce"})
      BY <1>2, VerifiedKeeps
    <3> HIDE DEF v
    <3>3. p.started /\ w.started
      BY <1>3, <3>2 DEF Alike, Members
    <3> HIDE DEF p, w
    <3> QED BY <3>1, <3>3
  <2>4. ASSUME ReceiveUnverified(s, f)
        PROVE  \E q : sm' = [sm EXCEPT ![s] = q] /\ q.started
    <3> DEFINE w == [r EXCEPT !.MICVerified = FALSE]
    <3>1. sm' = [sm EXCEPT ![s] = w]
      BY <2>4 DEF ReceiveUnverified
    <3>2. w.started
      BY <1>2, <1>3 DEF Members
    <3> HIDE DEF w
    <3> QED BY <3>1, <3>2
  <2> QED BY <2>2, <2>3, <2>4 DEF Receive
<1>5. sm'[s].started /\ sm' = [sm EXCEPT ![s] = sm'[s]]
  BY <1>2, <1>4 DEF Shape
<1>6. sm'[s] # NewSm
  BY <1>5 DEF NewSm
<1> QED BY <1>1, <1>3, <1>5, <1>6, FreshHandler

LEMMA FreshAssociate ==
    ASSUME AuthInv, Fresh, NEW s \in Stations, Associate(s)
    PROVE  Fresh'
<1> DEFINE p == [sm[s] EXCEPT !.assoc = TRUE]
           q == RemovePtk(p)
<1>1. /\ at = "rest" /\ sm' = [sm EXCEPT ![s] = q]
      /\ then' = <<IF sm[s].assoc THEN "reauth" ELSE "associated", s>>
  BY DEF Associate, Handle, StepOn
<1>2. Has(sm[s], Members) /\ Shape /\ then = Nothing
  BY <1>1, AtRest DEF AuthInv
<1>3. /\ Alike(q, sm[s], {"assoc", "PTK", "tk", "rekey_timer"})
      /\ q.PTK = NoKey /\ q.tk = NoKey /\ q.rekey_timer = FALSE
  BY <1>2 DEF RemovePtk, Alike, Members
<1>4. sm'[s] = q
  BY <1>1, <1>2 DEF Shape
<1> HIDE DEF q
<1>5. CASE sm[s].started
  <2>1. q.started
    BY <1>3, <1>5 DEF Alike, Members
  <2>2. q # NewSm
    BY <2>1 DEF NewSm
  <2> QED BY <1>1, <1>4, <1>5, <2>1, <2>2, FreshHandler
<1>6. CASE Untouched(s)
  <2>1. ~sm[s].assoc
    BY <1>2, <1>6 DEF Untouched, Nothing
  <2>2. NewSm.PTK = NoKey /\ NewSm.tk = NoKey /\ NewSm.rekey_timer = FALSE
    BY DEF NewSm
  <2>3. Alike(q, NewSm, {"assoc"})
    BY <1>3, <1>6, <2>2 DEF Untouched, Alike, Members
  <2>4. Untouched(s)'
    BY <1>1, <1>4, <2>1, <2>3 DEF Untouched
  <2> QED BY <1>1, <1>2, <2>4, FreshOthers DEF Thens, Shape
<1> QED BY <1>5, <1>6 DEF Fresh

\* The other handlers.
LEMMA FreshOtherHandlers ==
    ASSUME AuthInv, Fresh, NEW s \in Stations,
           \/ Disassociate(s) \/ Remove(s) \/ RekeyPtk(s) \/ WnmSleep(s) \/ WnmWake(s) \/ Timeout(s)
    PROVE  Fresh'
<1>1. /\ at = "rest"
      /\ then' = Nothing \/ then' = <<"free", s>>
      /\ Remove(s) => then' = Nothing
  <2>1. at = "rest"
    BY DEF Disassociate, Remove, RekeyPtk, WnmSleep, WnmWake, Timeout, Handle
  <2> QED BY <2>1, AtRest DEF Disassociate, Remove, RekeyPtk, WnmSleep, WnmWake, Timeout, Handle, StepOn
<1>2. Has(sm[s], Members) /\ Shape /\ then = Nothing
  BY <1>1, AtRest DEF AuthInv
<1>3. sm[s].started
  <2>1. CASE Untouched(s)
    <3>1. /\ sm[s].started = FALSE /\ sm[s].timers = 0 /\ sm[s].rekey_timer = FALSE
          /\ sm[s].is_wnmsleep = FALSE
      BY <2>1, UntouchedIs
    <3>2. ~sm[s].assoc
      BY <1>2, <2>1 DEF Untouched, Nothing
    <3> QED BY <3>1, <3>2 DEF Disassociate, Remove, RekeyPtk, WnmSleep, WnmWake, Timeout
  <2> QED BY <2>1 DEF Fresh
<1>4. ASSUME NEW q, sm' = [sm EXCEPT ![s] = q], q.started PROVE Fresh'
  <2>1. sm'[s] = q
    BY <1>2, <1>4 DEF Shape
  <2>2. q # NewSm
    BY <1>4 DEF NewSm
  <2>3. sm' = [sm EXCEPT ![s] = sm'[s]] /\ sm'[s].started /\ sm'[s] # NewSm
    BY <1>4, <2>1, <2>2
  <2> QED BY <1>1, <1>3, <2>3, FreshHandler
<1>5. CASE Disassociate(s)
  <2>1. Deauth([sm[s] EXCEPT !.assoc = FALSE]).started
    BY <1>2, <1>3 DEF Deauth, RemovePtk, Members
  <2> QED BY <1>4, <1>5, <2>1 DEF Disassociate, Handle, StepOn
<1>6. CASE Remove(s)
  <2>1. sm' = [sm EXCEPT ![s] = NewSm]
    BY <1>6 DEF Remove, Free
  <2>2. sm'[s] = NewSm
    BY <1>2, <2>1 DEF Shape
  <2> QED BY <1>1, <1>3, <1>6, <2>1, <2>2, FreshHandler
<1>7. CASE RekeyPtk(s)
  <2>1. [sm[s] EXCEPT !.rekey_timer = FALSE, !.req = @ \cup {"PTK"}, !.PTK = NoKey].started
    BY <1>2, <1>3 DEF Members
  <2> QED BY <1>4, <1>7, <2>1 DEF RekeyPtk, Handle, StepOn
<1>8. CASE WnmSleep(s)
  <2>1. [sm[s] EXCEPT !.is_wnmsleep = TRUE].started
    BY <1>2, <1>3 DEF Members
  <2> QED BY <1>4, <1>8, <2>1 DEF WnmSleep
<1>9. CASE WnmWake(s)
  <2> DEFINE p == [sm[s] EXCEPT !.is_wnmsleep = FALSE]
             q == [p EXCEPT !.GUpdateStationKeys = (p.wpa_ptk_state = "PTKINITDONE")]
  <2>1. q.started
    BY <1>2, <1>3 DEF Members
  <2>2. sm' = [sm EXCEPT ![s] = q]
    BY <1>9 DEF WnmWake
  <2> HIDE DEF q
  <2> QED BY <1>4, <2>1, <2>2
<1>10. CASE Timeout(s)
  <2>1. [sm[s] EXCEPT !.timers = @ - 1, !.TimeoutEvt = TRUE].started
    BY <1>2, <1>3 DEF Members
  <2> QED BY <1>4, <1>10, <2>1 DEF Timeout, Handle, StepOn
<1> QED BY <1>5, <1>6, <1>7, <1>8, <1>9, <1>10

LEMMA FreshSetKeysDone ==
    ASSUME AuthInv, Fresh, SetKeysDone
    PROVE  Fresh'
<1>1. then' = then
  BY DEF SetKeysDone, GoOn
<1>2. ASSUME NEW s \in Stations PROVE sm'[s].started \/ Untouched(s)'
  <2>1. Has(sm[s], Members)
    BY DEF AuthInv, Shape
  <2>2. CASE sm' = sm
    BY <1>1, <2>2 DEF Fresh, Untouched
  <2>3. CASE sm' = [x \in Stations |->
                      IF sm[x].started THEN [sm[x] EXCEPT !.req = @ \cup {"Disconnect"}] ELSE sm[x]]
    <3>1. CASE sm[s].started
      BY <2>1, <2>3, <3>1 DEF Members
    <3>2. CASE ~sm[s].started
      <4>1. sm'[s] = sm[s] /\ Untouched(s)
        BY <2>3, <3>2 DEF Fresh
      <4> QED BY <1>1, <4>1 DEF Untouched
    <3> QED BY <3>1, <3>2
  <2> QED BY <2>2, <2>3 DEF SetKeysDone
<1> QED BY <1>2 DEF Fresh

-----------------------------------------------------------------------------
(* Every step preserves the invariant                                       *)

\* A step as in Next, but for the frame received, which may have any counter and nonce.
Moves ==
    \/ Step \/ RekeyGtk \/ Idle
    \/ \E s \in Stations :
        \/ Associate(s) \/ Disassociate(s) \/ Remove(s) \/ RekeyPtk(s)
        \/ WnmSleep(s) \/ WnmWake(s) \/ Timeout(s)
        \/ \E f : Reply(f) /\ (Receive(s, f) \/ ReceiveMalformed(s, f))

LEMMA NextMoves ==
    ASSUME Next
    PROVE  Moves
BY FramesReply DEF Next, Handler, Moves

LEMMA MovesPreserve ==
    ASSUME AuthInv, Fresh, Moves \/ UNCHANGED vars
    PROVE  AuthInv' /\ Fresh'
<1>1. CASE UNCHANGED vars
  <2>1. AuthInv'
    <3>1. Shape' /\ Control'
      BY <1>1 DEF AuthInv, vars, Shape, Control, Stepping
    <3>2. ASSUME NEW s \in Stations PROVE StationRules(s)'
      BY <1>1 DEF AuthInv, vars, StationRules, Active, Stepping, Resting
    <3>3. ASSUME Works', NEW s \in Stations PROVE FrameRules(s)'
      BY <1>1, <3>3 DEF AuthInv, vars, FrameRules, Active, Stepping, EntropyRules, Ensured, Works
    <3> QED BY <1>1, <3>1, <3>2, <3>3 DEF AuthInv, vars, Contradicts
  <2>2. Fresh'
    BY <1>1 DEF Fresh, Untouched, vars
  <2> QED BY <2>1, <2>2
<1>2. ASSUME NEW s \in Stations, PtkStep(s) \/ GroupStep(s) PROVE AuthInv' /\ Fresh'
  BY <1>2, PtkPreserves, GroupPreserves, FreshPtk, FreshGroup
<1>3. CASE SetKeysDone
  BY <1>3, SetKeysDonePreserves, FreshSetKeysDone
<1>4. CASE SetKeys \/ GroupSmStay \/ UpdateEnd
  <2>1. sm' = sm /\ then' = then
    BY <1>4 DEF SetKeys, GroupSmStay, UpdateEnd, GoOn
  <2>2. Fresh'
    BY <2>1 DEF Fresh, Untouched
  <2> QED BY <1>4, <2>2, SetKeysPreserves, GroupSmStayPreserves, UpdateEndPreserves
<1>5. CASE UpdateNext \/ Return
  BY <1>5, UpdateNextPreserves, FreshUpdate, ReturnPreserves, FreshReturn
<1>6. ASSUME NEW s \in Stations,
             \/ Associate(s) \/ Disassociate(s) \/ Remove(s) \/ RekeyPtk(s)
             \/ WnmSleep(s) \/ WnmWake(s) \/ Timeout(s)
             \/ \E f : Reply(f) /\ (Receive(s, f) \/ ReceiveMalformed(s, f))
      PROVE  AuthInv' /\ Fresh'
  <2>1. CASE Associate(s)
    BY <2>1, AssociatePreserves, FreshAssociate
  <2>2. CASE Disassociate(s) \/ Remove(s) \/ RekeyPtk(s) \/ WnmSleep(s) \/ WnmWake(s) \/ Timeout(s)
    BY <2>2, DisassociatePreserves, RemovePreserves, RekeyPtkPreserves, WnmSleepPreserves,
       WnmWakePreserves, TimeoutPreserves, FreshOtherHandlers
  <2>3. ASSUME NEW f, Reply(f), Receive(s, f) PROVE AuthInv' /\ Fresh'
    BY <2>3, ReceiveAnswerPreserves, ReceiveRequestPreserves, ReceiveUnverifiedPreserves, FreshReceive
       DEF Receive
  <2>4. ASSUME NEW f, ReceiveMalformed(s, f) PROVE AuthInv' /\ Fresh'
    BY <2>4, ReceiveMalformedPreserves, FreshMalformed
  <2> QED BY <1>6, <2>1, <2>2, <2>3, <2>4
<1>7. CASE RekeyGtk
  <2>1. sm' = sm /\ then' = then
    BY <1>7 DEF RekeyGtk
  <2>2. Fresh'
    BY <2>1 DEF Fresh, Untouched
  <2> QED BY <1>7, <2>2, RekeyGtkPreserves
<1> QED BY <1>1, <1>2, <1>3, <1>4, <1>5, <1>6, <1>7 DEF Moves, Step, Idle

LEMMA NextPreserves ==
    ASSUME AuthInv, Fresh, [Next]_vars
    PROVE  AuthInv' /\ Fresh'
BY NextMoves, MovesPreserve

LEMMA InitHolds ==
    ASSUME Init
    PROVE  AuthInv /\ Fresh
<1>1. \A s \in Stations : sm[s] = NewSm
  BY DEF Init
<1>2. /\ sm = [s \in Stations |-> NewSm] /\ at = "rest" /\ then = Nothing /\ todo = {} /\ cur = None
      /\ group \in [state : {"SETKEYSDONE"}, GTKReKey : {FALSE}, GTK : {1}, tx : {1},
                    GKeyDoneStations : {0}, first_sta_seen : {FALSE},
                    reject_4way_hs_for_entropy : {FALSE}, conf : Confs]
  BY DEF Init
<1>3. /\ Has(group, GroupMembers) /\ group.conf \in Confs /\ group.GTKReKey = FALSE
      /\ group.first_sta_seen = FALSE
  BY <1>2 DEF GroupMembers
<1>4. Shape
  BY <1>1, <1>2, <1>3, NewSmRules DEF Shape, Stepping
<1>5. Control
  BY <1>2, <1>3 DEF Control, Stepping
<1>6. ASSUME NEW s \in Stations PROVE StationRules(s) /\ FrameRules(s)
  <2>1. ~Active(s)
    BY <1>2 DEF Active, Stepping
  <2> QED BY <1>1, <1>2, <2>1, NewSmRules DEF StationRules, Resting, FrameRules, EntropyRules, Nothing
<1>7. Fresh
  BY <1>1, <1>2, NewSmRules DEF Fresh, Untouched, Alike, Nothing
<1> QED BY <1>3, <1>4, <1>5, <1>6, <1>7 DEF AuthInv, Contradicts

\* What holds in every state: of the machines' control, of a station at rest and of the
\* one that wpa_sm_step is at.
THEOREM AuthInvariant == Spec => [](AuthInv /\ Fresh)
<1>1. Init => AuthInv /\ Fresh
  BY InitHolds
<1>2. AuthInv /\ Fresh /\ [Next]_vars => (AuthInv /\ Fresh)'
  BY NextPreserves
<1> QED BY <1>1, <1>2, PTL DEF Spec

\* wpa_sm_step leaves nothing undone: at rest no request is pending, and no frame is
\* left in EAPOLKeyReceived that the next handshake would take for its answer.  An
\* update of the SNonce is left only by a malformed 2/4, for the handshake under way or
\* without a PTK, so that no later handshake makes it.
THEOREM NothingLeftUndone == Spec => []Settled
<1>1. AuthInv => Settled
  <2> SUFFICES ASSUME AuthInv, at = "rest", Works PROVE Settled
    BY DEF Settled, Works
  <2>1. ~group.GTKReKey
    BY DEF AuthInv, Control, Works
  <2>2. ASSUME NEW s \in Stations
        PROVE  sm[s].req = {} /\ sm[s].rx = NoKey /\ (sm[s].update_snonce => Left(sm[s]))
    BY AtRest DEF NoFrame, KeyRules, Updates, Left
  <2> QED BY <2>1, <2>2 DEF Settled
<1> QED BY <1>1, AuthInvariant, PTL

-----------------------------------------------------------------------------
(* What is done outside of the turns leaves the machines where they are     *)

\* The record of station s changes, but not what the machines have come to.
Spares(s) ==
    /\ sm' = [sm EXCEPT ![s] = sm'[s]]
    /\ sm'[s].wpa_ptk_state = sm[s].wpa_ptk_state
    /\ sm'[s].GUpdateStationKeys = sm[s].GUpdateStationKeys
    /\ sm'[s].is_wnmsleep = sm[s].is_wnmsleep
    /\ todo' = todo /\ group'.GKeyDoneStations = group.GKeyDoneStations

LEMMA SparesBy ==
    ASSUME Shape, NEW s \in Stations, NEW q, NEW S, sm' = [sm EXCEPT ![s] = q],
           Alike(q, sm[s], S), S \cap {"wpa_ptk_state", "GUpdateStationKeys", "is_wnmsleep"} = {},
           todo' = todo, group'.GKeyDoneStations = group.GKeyDoneStations
    PROVE  Spares(s)
<1>1. sm'[s] = q
  BY DEF Shape
<1>2. {"wpa_ptk_state", "GUpdateStationKeys", "is_wnmsleep"} \subseteq Members \ S
  BY DEF Members
<1> QED BY <1>1, <1>2 DEF Spares, Alike

\* Members that a continuation, a handler or wpa_receive may write.
Others == {"started", "assoc", "req", "PTK", "tk", "rekey_timer", "timers", "TimeoutEvt", "ctr",
           "req_replay_counter"} \cup Answers

LEMMA ReturnSpares ==
    ASSUME AuthInv, Return
    PROVE  /\ todo' = todo
           /\ \/ sm' = sm /\ group' = group
              \/ \E s \in Stations : Spares(s) \/ Reauth(s) \/ Free(s)
<1>1. at = "return" /\ Shape
  BY DEF Return, AuthInv
<1>2. todo' = todo
  BY DEF Return, StepOn, StaAssociated, Reauth
<1>3. CASE todo = {} /\ then # Nothing
  <2>1. PICK s \in Stations : then = <<then[1], s>> /\ then[2] = s /\ Has(sm[s], Members)
    BY <1>1, <1>3, Continues
  <2>2. CASE StepOn(s, [sm[s] EXCEPT !.req = (@ \ {"Init"}) \cup {"Auth"}], Nothing)
    <3>1. Alike([sm[s] EXCEPT !.req = (@ \ {"Init"}) \cup {"Auth"}], sm[s], {"req"})
      BY <2>1 DEF Alike, Members
    <3> QED BY <1>1, <1>2, <2>2, <3>1, SparesBy DEF StepOn
  <2>3. CASE StaAssociated(s)
    <3> DEFINE p == [sm[s] EXCEPT !.ctr = 0, !.key_replay = {}, !.req = @ \cup {"ReAuth"}]
               q == [sm[s] EXCEPT !.started = TRUE, !.req = @ \cup {"Init"}]
    <3>1. /\ sm' = [sm EXCEPT ![s] = p] \/ sm' = [sm EXCEPT ![s] = q]
          /\ group' = group
      BY <2>3 DEF StaAssociated, StepOn
    <3>2. Alike(p, sm[s], {"ctr", "key_replay", "req"}) /\ Alike(q, sm[s], {"started", "req"})
      BY <2>1 DEF Alike, Members
    <3> HIDE DEF p, q
    <3>3. Spares(s)
      BY <1>1, <1>2, <3>1, <3>2, SparesBy
    <3> QED BY <1>2, <3>3
  <2>4. CASE StepOn(s, sm[s], Nothing)
    BY <1>1, <1>2, <2>4 DEF StepOn, Shape
  <2> QED BY <1>2, <1>3, <2>1, <2>2, <2>3, <2>4 DEF Return
<1> QED BY <1>2, <1>3 DEF Return, Nothing

LEMMA ReceiveSpares ==
    ASSUME AuthInv, NEW s \in Stations, NEW f, Receive(s, f)
    PROVE  Spares(s)
<1> DEFINE r == sm[s]
           u == Updating(r, f)
<1>1. Has(r, Members) /\ Shape /\ Has(group, GroupMembers)
  BY DEF AuthInv, Shape
<1>2. CASE ReceiveAnswer(s, f)
  <2>1. Alike(u, r, {"update_snonce", "alt_SNonce", "alt_replay_counter"})
    BY <1>1, UpdatingKeeps
  <2>2. Alike(Verified(u, f), u, {"MICVerified", "timers", "PTK", "alt_SNonce"})
    BY <2>1, VerifiedKeeps DEF Alike
  <2>3. Alike(Consumed(Verified(u, f), f), Verified(u, f),
              {"prev_key_replay", "key_replay", "rx", "last", "SNonce"})
    <3>1. Has(Verified(u, f), Members)
      BY <2>2 DEF Alike
    <3> QED BY <3>1, ConsumedKeeps
  <2>4. Alike(Consumed(Verified(u, f), f), r, Others)
    BY <2>1, <2>2, <2>3 DEF Alike, Members, Others, Answers
  <2>5. Alike(StaDisconnect(u), r, Others)
    BY <2>1, DisconnectKeeps DEF Alike, Members, Others, Answers
  <2>6. /\ \/ sm' = [sm EXCEPT ![s] = StaDisconnect(u)]
           \/ sm' = [sm EXCEPT ![s] = Consumed(Verified(u, f), f)]
        /\ group' = group /\ todo' = todo
    BY <1>2 DEF ReceiveAnswer, Handle, StepOn
  <2> QED BY <1>1, <2>4, <2>5, <2>6, SparesBy DEF Others, Answers
<1>3. CASE ReceiveRequest(s, f)
  <2> DEFINE v == Verified(r, f)
             p == [v EXCEPT !.req_replay_counter = f.ctr, !.rx = NoKey, !.last = Stored(f),
                              !.SNonce = f.nonce]
             q == [p EXCEPT !.req = @ \cup {"PTK"}, !.PTK = NoKey]
  <2>1. /\ sm' = [sm EXCEPT ![s] = p] \/ sm' = [sm EXCEPT ![s] = q]
        /\ group' = group \/ group' = [group EXCEPT !.GTKReKey = TRUE]
        /\ todo' = todo
    BY <1>3 DEF ReceiveRequest, Handle, StepOn
  <2>2. Alike(v, r, {"MICVerified", "timers", "PTK", "alt_SNonce"})
    BY <1>1, VerifiedKeeps
  <2> HIDE DEF v
  <2>3. Alike(p, r, Others) /\ Alike(q, r, Others)
    BY <2>2 DEF Alike, Members, Others, Answers
  <2> HIDE DEF p, q
  <2>4. group'.GKeyDoneStations = group.GKeyDoneStations
    BY <1>1, <2>1 DEF GroupMembers
  <2> QED BY <1>1, <2>1, <2>3, <2>4, SparesBy DEF Others, Answers
<1>4. CASE ReceiveUnverified(s, f)
  <2>1. sm' = [sm EXCEPT ![s] = [r EXCEPT !.MICVerified = FALSE]] /\ group' = group /\ todo' = todo
    BY <1>4 DEF ReceiveUnverified
  <2>2. Alike([r EXCEPT !.MICVerified = FALSE], r, {"MICVerified"})
    BY <1>1 DEF Alike, Members
  <2> QED BY <1>1, <2>1, <2>2, SparesBy
<1> QED BY <1>2, <1>3, <1>4 DEF Receive

LEMMA MalformedSpares ==
    ASSUME AuthInv, NEW s \in Stations, NEW f, ReceiveMalformed(s, f)
    PROVE  Spares(s)
<1>1. /\ sm' = [sm EXCEPT ![s] = Updating(sm[s], f)]
      /\ group' = group /\ todo' = todo
  BY DEF ReceiveMalformed
<1>2. Has(sm[s], Members) /\ Shape
  BY DEF AuthInv, Shape
<1>3. Alike(Updating(sm[s], f), sm[s], {"update_snonce", "alt_SNonce", "alt_replay_counter"})
  BY <1>2, UpdatingKeeps
<1> QED BY <1>1, <1>2, <1>3, SparesBy

LEMMA HandlersSpare ==
    ASSUME AuthInv, NEW s \in Stations,
           Associate(s) \/ Disassociate(s) \/ RekeyPtk(s) \/ Timeout(s)
    PROVE  Spares(s)
<1> DEFINE o == RemovePtk([sm[s] EXCEPT !.assoc = TRUE])
           p == Deauth([sm[s] EXCEPT !.assoc = FALSE])
           q == [sm[s] EXCEPT !.rekey_timer = FALSE, !.req = @ \cup {"PTK"}, !.PTK = NoKey]
           t == [sm[s] EXCEPT !.timers = @ - 1, !.TimeoutEvt = TRUE]
<1>1. Has(sm[s], Members) /\ Shape
  BY DEF AuthInv, Shape
<1>2. /\ \/ sm' = [sm EXCEPT ![s] = o] \/ sm' = [sm EXCEPT ![s] = p]
         \/ sm' = [sm EXCEPT ![s] = q] \/ sm' = [sm EXCEPT ![s] = t]
      /\ group' = group /\ todo' = todo
  BY DEF Associate, Disassociate, RekeyPtk, Timeout, Handle, StepOn
<1>3. Alike(o, sm[s], Others) /\ Alike(p, sm[s], Others)
  BY <1>1 DEF RemovePtk, Deauth, Alike, Members, Others
<1>4. Alike(q, sm[s], Others) /\ Alike(t, sm[s], Others)
  BY <1>1 DEF Alike, Members, Others
<1> HIDE DEF o, p, q, t
<1> QED BY <1>1, <1>2, <1>3, <1>4, SparesBy DEF Others, Answers

-----------------------------------------------------------------------------
(* PTKINITDONE is entered by WPA_PTK alone                                  *)

\* A station that enters PTKINITDONE has had a 4/4 under its PTK.
LEMMA EntersConfirmed ==
    ASSUME AuthInv, Next, NEW x \in Stations,
           sm[x].wpa_ptk_state # "PTKINITDONE", sm'[x].wpa_ptk_state = "PTKINITDONE"
    PROVE  Confirmed(sm[x]) \/ TimeoutTaken(sm[x])
<1> DEFINE StateKept == sm'[x].wpa_ptk_state \in {sm[x].wpa_ptk_state, "INITIALIZE"}
<1> SUFFICES ASSUME ~StateKept PROVE Confirmed(sm[x]) \/ TimeoutTaken(sm[x])
  OBVIOUS
<1>1. ASSUME NEW s \in Stations, PtkStep(s) PROVE Confirmed(sm[x]) \/ TimeoutTaken(sm[x])
  <2>1. at = "ptk" /\ Kept(s) /\ StationRules(s)
    BY <1>1, PtkMoves DEF AuthInv
  <2>2. PtkBefore(sm[s])
    BY <2>1 DEF AuthInv, Shape, PtkBefore, StationRules, Active, Stepping, Kept
  <2>3. PtkAfter(sm[s], sm'[s], changed')
    BY <1>1, <2>2, PtkTurn DEF AuthInv
  <2> QED BY <2>1, <2>3 DEF Kept, PtkAfter
<1>2. ASSUME NEW s \in Stations, GroupStep(s) PROVE FALSE
  <2>1. at = "group" /\ Kept(s) /\ StationRules(s)
    BY <1>2, GroupMoves DEF AuthInv
  <2>2. GroupBefore(sm[s], changed)
    BY <2>1 DEF AuthInv, Shape, GroupBefore, StationRules, Active, Stepping, Kept
  <2>3. GroupAfter(sm[s], sm'[s], changed')
    BY <1>2, <2>2, GroupTurn DEF AuthInv
  <2> QED BY <2>1, <2>3 DEF Kept, GroupAfter
<1>3. sm' # sm
  OBVIOUS
<1>4. ~(SetKeys \/ GroupSmStay \/ UpdateEnd \/ RekeyGtk \/ Idle)
  BY <1>3 DEF SetKeys, GroupSmStay, UpdateEnd, RekeyGtk, Idle, vars
<1>5. CASE SetKeysDone
  <2>1. Has(sm[x], Members)
    BY DEF AuthInv, Shape
  <2>2. sm'[x] = sm[x] \/ sm'[x] = [sm[x] EXCEPT !.req = @ \cup {"Disconnect"}]
    BY <1>3, <1>5 DEF SetKeysDone
  <2> QED BY <2>1, <2>2 DEF Members
<1>6. ASSUME NEW s \in Stations, NEW q, sm' = [sm EXCEPT ![s] = q],
             q.wpa_ptk_state \in {sm[s].wpa_ptk_state, "INITIALIZE"}
      PROVE  FALSE
  <2>1. sm'[x] = IF x = s THEN q ELSE sm[x]
    BY <1>6 DEF AuthInv, Shape
  <2> QED BY <1>6, <2>1
<1>7. ASSUME NEW s \in Stations, Free(s) \/ Reauth(s) \/ WnmSleep(s) \/ WnmWake(s) PROVE FALSE
  <2> DEFINE r == sm[s]
             p == RemovePtk(r)
             q == [p EXCEPT !.GUpdateStationKeys = FALSE,
                            !.PtkGroupInit = @ \/ r.GUpdateStationKeys,
                            !.req = @ \cup {"ReAuth"}]
             t == [r EXCEPT !.is_wnmsleep = TRUE]
             o == [r EXCEPT !.is_wnmsleep = FALSE]
             w == [o EXCEPT !.GUpdateStationKeys = (o.wpa_ptk_state = "PTKINITDONE")]
  <2>1. \/ sm' = [sm EXCEPT ![s] = NewSm] \/ sm' = [sm EXCEPT ![s] = q]
        \/ sm' = [sm EXCEPT ![s] = t] \/ sm' = [sm EXCEPT ![s] = w]
    BY <1>7 DEF Free, Reauth, WnmSleep, WnmWake
  <2>2. Has(r, Members)
    BY DEF AuthInv, Shape
  <2>3. NewSm.wpa_ptk_state = "INITIALIZE"
    BY DEF NewSm
  <2>4. q.wpa_ptk_state = r.wpa_ptk_state
    BY <2>2 DEF RemovePtk, Members
  <2>5. t.wpa_ptk_state = r.wpa_ptk_state /\ w.wpa_ptk_state = r.wpa_ptk_state
    BY <2>2 DEF Members
  <2> HIDE DEF q, t, w
  <2> QED BY <1>6, <2>1, <2>3, <2>4, <2>5
<1>8. CASE UpdateNext
  <2>1. PICK s \in todo : UpdateSta(s)
    BY <1>8 DEF UpdateNext
  <2>2. s \in Stations /\ Has(sm[s], Members)
    BY DEF AuthInv, Control, Shape
  <2>3. PICK b : sm' = [sm EXCEPT ![s] = [sm[s] EXCEPT !.GUpdateStationKeys = b]]
    BY <2>1 DEF UpdateSta
  <2>4. [sm[s] EXCEPT !.GUpdateStationKeys = b].wpa_ptk_state = sm[s].wpa_ptk_state
    BY <2>2 DEF Members
  <2> QED BY <1>6, <2>2, <2>3, <2>4
<1>9. ASSUME NEW s \in Stations, Spares(s) PROVE FALSE
  BY <1>6, <1>9 DEF Spares
<1>10. CASE Return
  BY <1>3, <1>7, <1>9, <1>10, ReturnSpares
<1>11. ASSUME NEW s \in Stations,
              \/ Associate(s) \/ Disassociate(s) \/ Remove(s) \/ RekeyPtk(s)
              \/ WnmSleep(s) \/ WnmWake(s) \/ Timeout(s)
              \/ \E f \in Frames(sm[s]) : Receive(s, f) \/ ReceiveMalformed(s, f)
       PROVE  FALSE
  BY <1>7, <1>9, <1>11, ReceiveSpares, MalformedSpares, HandlersSpare DEF Remove
<1> QED BY <1>1, <1>2, <1>4, <1>5, <1>8, <1>10, <1>11 DEF Next, Step, Handler

\* The authenticator installs a PTK only when the station has confirmed it: no 2/4, no
\* answer under the other PTK of an SNonce update and none of an earlier handshake
\* takes WPA_PTK to PTKINITDONE, except where the group handshake of a station that has
\* sent a malformed 2/4 takes the timeout (TimeoutTaken).
THEOREM OnlyConfirmedInstalled == Spec => InstallsConfirmed
<1>1. AuthInv /\ [Next]_vars =>
        [\A s \in Stations :
            /\ sm[s].wpa_ptk_state # "PTKINITDONE" /\ sm'[s].wpa_ptk_state = "PTKINITDONE"
            /\ ~TimeoutTaken(sm[s])
            => /\ sm[s].PTK # NoKey
               /\ sm[s].rx = [type |-> "4/4", mic |-> sm[s].PTK]]_vars
  BY EntersConfirmed DEF Confirmed
<1> QED BY <1>1, AuthInvariant, PTL DEF Spec, InstallsConfirmed

-----------------------------------------------------------------------------
(* The stations waited for                                                  *)

\* Those marked that wpa_group_setkeys has been at.
Waiting == {s \in Stations \ todo : sm[s].GUpdateStationKeys}

\* Without WNM-Sleep Mode.
Counting ==
    /\ group.GKeyDoneStations = Cardinality(Waiting)
    /\ \A s \in Stations : sm[s].is_wnmsleep = FALSE

LEMMA WaitingFinite ==
    ASSUME NEW S, S \subseteq Stations
    PROVE  IsFiniteSet(S) /\ Cardinality(S) \in Nat
<1>1. IsFiniteSet(S)
  BY WpaAuthAssumption, FS_Subset
<1> QED BY <1>1, FS_CardinalityType

\* The mark of station s stays, or is taken away and no longer counted.
Recounts(s) ==
    /\ todo' = todo
    /\ s \notin todo
    /\ \A x \in Stations : x # s => sm'[x] = sm[x]
    /\ sm'[s].is_wnmsleep = FALSE
    /\ \/ /\ sm'[s].GUpdateStationKeys = sm[s].GUpdateStationKeys
          /\ group'.GKeyDoneStations = group.GKeyDoneStations
       \/ /\ sm'[s].GUpdateStationKeys = FALSE
          /\ group'.GKeyDoneStations = Undone(sm[s])

LEMMA RecountsKeep ==
    ASSUME Counting, NEW s \in Stations, Recounts(s)
    PROVE  Counting'
<1>1. \A x \in Stations : sm'[x].is_wnmsleep = FALSE
  BY DEF Recounts, Counting
<1>2. CASE /\ sm'[s].GUpdateStationKeys = sm[s].GUpdateStationKeys
           /\ group'.GKeyDoneStations = group.GKeyDoneStations
  <2>1. Waiting' = Waiting
    BY <1>2 DEF Waiting, Recounts
  <2> QED BY <1>1, <1>2, <2>1 DEF Counting
<1>3. CASE /\ sm'[s].GUpdateStationKeys = FALSE
           /\ group'.GKeyDoneStations = Undone(sm[s])
  <2>1. Waiting' = Waiting \ {s}
    BY <1>3 DEF Waiting, Recounts
  <2>2. sm[s].GUpdateStationKeys <=> s \in Waiting
    BY DEF Waiting, Recounts
  <2>3. IsFiniteSet(Waiting) /\ Cardinality(Waiting) \in Nat
    BY WaitingFinite DEF Waiting
  <2>4. Cardinality(Waiting') = IF s \in Waiting THEN Cardinality(Waiting) - 1 ELSE Cardinality(Waiting)
    BY <2>1, <2>3, FS_RemoveElement
  <2> QED BY <1>1, <1>3, <2>2, <2>4 DEF Counting, Undone
<1> QED BY <1>2, <1>3 DEF Recounts

LEMMA SparesKeep ==
    ASSUME AuthInv, Counting, NEW s \in Stations, todo = {}, Spares(s)
    PROVE  Counting'
<1>1. \A x \in Stations : x # s => sm'[x] = sm[x]
  BY DEF Spares, AuthInv, Shape
<1>2. Recounts(s)
  BY <1>1 DEF Recounts, Spares, Counting
<1> QED BY <1>2, RecountsKeep

LEMMA TurnsKeep ==
    ASSUME AuthInv, Counting, NEW s \in Stations, PtkStep(s) \/ GroupStep(s)
    PROVE  Counting'
<1>1. Kept(s) /\ at \in {"ptk", "group"} /\ Has(group, GroupMembers) /\ Has(sm[s], Members)
  BY PtkMoves, GroupMoves DEF AuthInv, Shape
<1>2. s \notin todo /\ StationRules(s)
  BY <1>1 DEF AuthInv, Control, Kept, Stepping
<1>3. /\ sm'[s].is_wnmsleep = sm[s].is_wnmsleep
      /\ \/ sm'[s].GUpdateStationKeys = sm[s].GUpdateStationKeys
         \/ /\ sm'[s].GUpdateStationKeys = FALSE
            /\ group' = [group EXCEPT !.GKeyDoneStations = Undone(sm[s])]
  <2>1. CASE PtkStep(s)
    <3>1. at = "ptk"
      BY <2>1, PtkMoves DEF AuthInv
    <3>2. PtkBefore(sm[s])
      BY <1>1, <1>2, <3>1 DEF PtkBefore, StationRules, Active, Stepping, Kept
    <3> QED BY <2>1, <3>2, PtkTurn DEF AuthInv, PtkAfter
  <2>2. CASE GroupStep(s)
    <3>1. at = "group"
      BY <2>2, GroupMoves
    <3>2. GroupBefore(sm[s], changed)
      BY <1>1, <1>2, <3>1 DEF GroupBefore, StationRules, Active, Stepping, Kept
    <3> QED BY <2>2, <3>2, GroupTurn DEF AuthInv, GroupAfter
  <2> QED BY <2>1, <2>2
<1>4. \/ group'.GKeyDoneStations = group.GKeyDoneStations
      \/ /\ sm'[s].GUpdateStationKeys = FALSE
         /\ group'.GKeyDoneStations = Undone(sm[s])
  <2>1. CASE group' = group
    BY <2>1
  <2>2. CASE PtkInitialize(s)
    <3> DEFINE p == RemovePtk(sm[s])
               q == [p EXCEPT !.wpa_ptk_state = "INITIALIZE", !.GUpdateStationKeys = FALSE,
                              !.TimeoutCtr = 0]
    <3>1. sm' = [sm EXCEPT ![s] = q] /\ group' = [group EXCEPT !.GKeyDoneStations = Undone(sm[s])]
      BY <2>2 DEF PtkInitialize, Turn
    <3>2. q.GUpdateStationKeys = FALSE
      BY <1>1 DEF RemovePtk, Members
    <3> HIDE DEF q
    <3> QED BY <1>1, <3>1, <3>2 DEF AuthInv, Shape, GroupMembers
  <2>3. CASE PtkAuthentication2(s)
    BY <1>1, <2>3 DEF PtkAuthentication2, EnsureInit, GroupMembers
  <2>4. CASE RekeyEstablished(s) \/ KeyError(s)
    <3> DEFINE p == [sm[s] EXCEPT !.wpa_ptk_group_state = "REKEYESTABLISHED", !.rx = NoKey,
                                  !.GUpdateStationKeys = FALSE, !.GTimeoutCtr = 0]
               q == [sm[s] EXCEPT !.wpa_ptk_group_state = "KEYERROR", !.GUpdateStationKeys = FALSE,
                                  !.req = @ \cup {"Disconnect"}]
    <3>1. /\ sm' = [sm EXCEPT ![s] = p] \/ sm' = [sm EXCEPT ![s] = q]
          /\ group' = [group EXCEPT !.GKeyDoneStations = Undone(sm[s])]
      BY <2>4 DEF RekeyEstablished, KeyError, EnterGroup, Turn
    <3>2. p.GUpdateStationKeys = FALSE /\ q.GUpdateStationKeys = FALSE
      BY <1>1 DEF Members
    <3> HIDE DEF p, q
    <3> QED BY <1>1, <3>1, <3>2 DEF AuthInv, Shape, GroupMembers
  <2> QED BY <2>1, <2>2, <2>3, <2>4 DEF PtkStep, PtkDisconnect, PtkDisconnected, PtkAuthentication,
             PtkInitPsk, PtkStart, PtkUpdate, PtkCalcNegotiating, PtkCalcNegotiating2,
             PtkInitNegotiating, PtkInitDone, PtkStay, GroupStep, GroupIdle, RekeyNegotiating, GroupStay
<1>5. Recounts(s)
  <2>1. group' = [group EXCEPT !.GKeyDoneStations = Undone(sm[s])] =>
          group'.GKeyDoneStations = Undone(sm[s])
    BY <1>1 DEF GroupMembers
  <2> QED BY <1>1, <1>2, <1>3, <1>4, <2>1 DEF Recounts, Kept, Counting
<1> QED BY <1>5, RecountsKeep

\* wpa_group_setkeys and wpa_group_update_sta: s is counted when it is marked.
LEMMA UpdateKeeps ==
    ASSUME AuthInv, Counting, UpdateNext
    PROVE  Counting'
<1>1. PICK s \in todo : UpdateSta(s) /\ todo' = todo \ {s}
  BY DEF UpdateNext
<1>2. s \in Stations /\ Has(sm[s], Members) /\ Shape /\ todo \subseteq Stations
  BY DEF AuthInv, Control, Shape
<1>3. IsFiniteSet(Waiting) /\ Cardinality(Waiting) \in Nat /\ s \notin Waiting
  BY WaitingFinite DEF Waiting
<1>4. CASE MustUpdate(sm[s])
  <2> DEFINE q == [sm[s] EXCEPT !.GUpdateStationKeys = TRUE]
  <2>1. sm' = [sm EXCEPT ![s] = q] /\ group' = [group EXCEPT !.GKeyDoneStations = @ + 1]
    BY <1>1, <1>4 DEF UpdateSta
  <2>2. q.GUpdateStationKeys = TRUE /\ q.is_wnmsleep = sm[s].is_wnmsleep
    BY <1>2 DEF Members
  <2> HIDE DEF q
  <2>3. sm'[s] = q /\ \A x \in Stations : x # s => sm'[x] = sm[x]
    BY <1>2, <2>1 DEF Shape
  <2>4. Waiting' = Waiting \cup {s}
    BY <1>1, <1>2, <2>2, <2>3 DEF Waiting
  <2>5. Cardinality(Waiting') = Cardinality(Waiting) + 1
    BY <1>3, <2>4, FS_AddElement
  <2>6. group'.GKeyDoneStations = group.GKeyDoneStations + 1
    BY <1>2, <2>1 DEF Shape, GroupMembers
  <2>7. \A x \in Stations : sm'[x].is_wnmsleep = FALSE
    BY <2>2, <2>3 DEF Counting
  <2> QED BY <2>5, <2>6, <2>7 DEF Counting
<1>5. CASE ~MustUpdate(sm[s])
  <2> DEFINE q == [sm[s] EXCEPT !.GUpdateStationKeys = FALSE]
  <2>1. sm' = [sm EXCEPT ![s] = q] /\ group' = group
    BY <1>1, <1>2, <1>5 DEF UpdateSta, MustUpdate, Counting
  <2>2. q.GUpdateStationKeys = FALSE /\ q.is_wnmsleep = sm[s].is_wnmsleep
    BY <1>2 DEF Members
  <2> HIDE DEF q
  <2>3. sm'[s] = q /\ \A x \in Stations : x # s => sm'[x] = sm[x]
    BY <1>2, <2>1 DEF Shape
  <2>4. Waiting' = Waiting
    BY <1>1, <1>2, <2>2, <2>3 DEF Waiting
  <2>5. \A x \in Stations : sm'[x].is_wnmsleep = FALSE
    BY <2>2, <2>3 DEF Counting
  <2> QED BY <2>1, <2>4, <2>5 DEF Counting
<1> QED BY <1>4, <1>5

LEMMA FreeKeeps ==
    ASSUME AuthInv, Counting, NEW s \in Stations, todo = {}, todo' = todo, Free(s) \/ Reauth(s)
    PROVE  Counting'
<1> DEFINE p == RemovePtk(sm[s])
           q == [p EXCEPT !.GUpdateStationKeys = FALSE,
                          !.PtkGroupInit = @ \/ sm[s].GUpdateStationKeys,
                          !.req = @ \cup {"ReAuth"}]
<1>1. /\ sm' = [sm EXCEPT ![s] = NewSm] \/ sm' = [sm EXCEPT ![s] = q]
      /\ group' = [group EXCEPT !.GKeyDoneStations = Undone(sm[s])]
  BY DEF Free, Reauth
<1>2. Has(sm[s], Members) /\ Shape
  BY DEF AuthInv, Shape
<1>3. q.GUpdateStationKeys = FALSE /\ q.is_wnmsleep = sm[s].is_wnmsleep
  BY <1>2 DEF RemovePtk, Members
<1> HIDE DEF q
<1>4. NewSm.GUpdateStationKeys = FALSE /\ NewSm.is_wnmsleep = FALSE
  BY DEF NewSm
<1>5. /\ sm'[s].GUpdateStationKeys = FALSE /\ sm'[s].is_wnmsleep = FALSE
      /\ \A x \in Stations : x # s => sm'[x] = sm[x]
  BY <1>1, <1>2, <1>3, <1>4 DEF Shape, Counting
<1>6. group'.GKeyDoneStations = Undone(sm[s])
  BY <1>1, <1>2 DEF Shape, GroupMembers
<1>7. Recounts(s)
  BY <1>5, <1>6 DEF Recounts
<1> QED BY <1>7, RecountsKeep

LEMMA SetKeysKeeps ==
    ASSUME AuthInv, Counting, SetKeys \/ SetKeysDone
    PROVE  Counting'
<1>1. CASE SetKeys
  <2>1. sm' = sm /\ todo' = Stations
    BY <1>1 DEF SetKeys
  <2>2. group'.GKeyDoneStations = 0
    BY <1>1 DEF SetKeys, Recount, AuthInv, Shape, GroupMembers
  <2>3. Waiting' = {}
    BY <2>1 DEF Waiting
  <2> QED BY <2>1, <2>2, <2>3, FS_EmptySet DEF Counting
<1>2. CASE SetKeysDone
  <2>1. todo' = todo
    BY <1>2 DEF SetKeysDone
  <2>2. group'.GKeyDoneStations = group.GKeyDoneStations
    BY <1>2 DEF SetKeysDone, AuthInv, Shape, GroupMembers
  <2>3. ASSUME NEW s \in Stations
        PROVE  /\ sm'[s].GUpdateStationKeys = sm[s].GUpdateStationKeys
               /\ sm'[s].is_wnmsleep = sm[s].is_wnmsleep
    <3>1. Has(sm[s], Members)
      BY DEF AuthInv, Shape
    <3>2. sm'[s] = sm[s] \/ sm'[s] = [sm[s] EXCEPT !.req = @ \cup {"Disconnect"}]
      BY <1>2 DEF SetKeysDone
    <3> QED BY <3>1, <3>2 DEF Members
  <2>4. Waiting' = Waiting
    BY <2>1, <2>3 DEF Waiting
  <2> QED BY <2>2, <2>3, <2>4 DEF Counting
<1> QED BY <1>1, <1>2

LEMMA CountingKept ==
    ASSUME \A c \in Confs : "wnm" \notin c.Events,
           AuthInv, Counting, [Next]_vars
    PROVE  Counting'
<1>1. ASSUME sm' = sm, todo' = todo, group'.GKeyDoneStations = group.GKeyDoneStations
      PROVE  Counting'
  BY <1>1 DEF Counting, Waiting
<1>2. CASE UNCHANGED vars \/ Idle \/ GroupSmStay \/ UpdateEnd
  BY <1>1, <1>2 DEF vars, Idle, GroupSmStay, UpdateEnd
<1>3. CASE RekeyGtk
  <2>1. group'.GKeyDoneStations = group.GKeyDoneStations
    BY <1>3 DEF RekeyGtk, AuthInv, Shape, GroupMembers
  <2> QED BY <1>1, <1>3, <2>1 DEF RekeyGtk
<1>4. ASSUME NEW s \in Stations, PtkStep(s) \/ GroupStep(s) PROVE Counting'
  BY <1>4, TurnsKeep
<1>5. CASE SetKeysDone \/ SetKeys \/ UpdateNext
  BY <1>5, SetKeysKeeps, UpdateKeeps
<1>6. CASE Return
  <2>1. CASE todo = {}
    BY <1>1, <1>6, <2>1, ReturnSpares, SparesKeep, FreeKeeps
  <2>2. CASE todo # {}
    BY <1>1, <1>6, <2>2 DEF Return
  <2> QED BY <2>1, <2>2
<1>7. ASSUME NEW s \in Stations,
             \/ Associate(s) \/ Disassociate(s) \/ Remove(s) \/ RekeyPtk(s)
             \/ WnmSleep(s) \/ WnmWake(s) \/ Timeout(s)
             \/ \E f \in Frames(sm[s]) : Receive(s, f) \/ ReceiveMalformed(s, f)
      PROVE  Counting'
  <2>1. ~WnmSleep(s) /\ ~WnmWake(s)
    BY DEF WnmSleep, WnmWake, Events, AuthInv, Shape
  <2>2. at = "rest"
    BY <1>7 DEF Associate, Disassociate, Remove, RekeyPtk, WnmSleep, WnmWake, Timeout, Handle,
       Receive, ReceiveAnswer, ReceiveRequest, ReceiveUnverified, ReceiveMalformed
  <2>3. todo = {}
    BY <2>2, AtRest
  <2>4. CASE Remove(s)
    BY <2>3, <2>4, FreeKeeps DEF Remove
  <2> QED BY <1>7, <2>1, <2>3, <2>4, HandlersSpare, ReceiveSpares, MalformedSpares, SparesKeep
<1> QED BY <1>2, <1>3, <1>4, <1>5, <1>6, <1>7 DEF Next, Step, Handler

\* Where no station uses WNM-Sleep Mode, GKeyDoneStations is at every moment the number
\* of stations that the group key update waits for, whatever becomes of them.
THEOREM CountIsExact ==
    ASSUME \A c \in Confs : "wnm" \notin c.Events
    PROVE  Spec => []CountsWaiting
<1>1. Init => Counting
  <2> SUFFICES ASSUME Init PROVE Counting
    OBVIOUS
  <2>1. /\ \A s \in Stations : sm[s].GUpdateStationKeys = FALSE /\ sm[s].is_wnmsleep = FALSE
        /\ group.GKeyDoneStations = 0
    BY DEF Init, NewSm
  <2>2. Waiting = {}
    BY <2>1 DEF Waiting
  <2> QED BY <2>1, <2>2, FS_EmptySet DEF Counting
<1>2. AuthInv /\ Counting /\ [Next]_vars => Counting'
  BY CountingKept
<1>3. Counting => CountsWaiting
  BY DEF Counting, Waiting, CountsWaiting
<1> QED BY <1>1, <1>2, <1>3, AuthInvariant, PTL DEF Spec

-----------------------------------------------------------------------------
(* Types                                                                    *)

\* An ANonce is to be drawn.
Asking(r) == r.req \cap {"Auth", "ReAuth", "PTK"} # {} \/ r.wpa_ptk_state = "AUTHENTICATION"
Starting == then[1] \in {"auth", "associated", "reauth"}

\* Keys, counters and timers.
Values(r) ==
    /\ r.PTK \in PTKs \cup {NoKey} /\ r.tk \in PTKs \cup {NoKey}
    /\ r.last # NoKey => r.last.mic \in PTKs
    /\ r.timers \in Nat
    /\ r.ctr \in Nat
    /\ r.key_replay \subseteq 1..r.ctr

\* The frames that have been sent, in configuration c.
Retries(c, r) ==
    /\ r.TimeoutCtr \in 0..(c.wpa_pairwise_update_count + 1)
    /\ r.GTimeoutCtr \in 0..(c.wpa_group_update_count + 1)
    /\ r.wpa_ptk_group_state = "IDLE" => r.GTimeoutCtr = 0
    /\ r.wpa_ptk_state \in {"INITPSK", "PTKCALCNEGOTIATING2"} => r.TimeoutCtr = 0
    /\ r.wpa_ptk_state = "AUTHENTICATION2" => "Disconnect" \in r.req \/ r.TimeoutCtr = 0
    /\ r.wpa_ptk_state = "PTKCALCNEGOTIATING" => r.TimeoutCtr <= c.wpa_pairwise_update_count
    /\ \/ r.wpa_ptk_state = "PTKSTART" /\ PairwiseReceived(r)
       \/ r.wpa_ptk_state = "PTKINITNEGOTIATING" /\ r.update_snonce
       => "Disconnect" \in r.req \/ r.TimeoutCtr <= c.wpa_pairwise_update_count

\* WPA_PTK does not give up.
Limited(c, r) ==
    r.wpa_ptk_state \in {"PTKSTART", "PTKINITNEGOTIATING"} =>
        "Disconnect" \in r.req \/ r.TimeoutCtr <= c.wpa_pairwise_update_count

\* There is an ANonce to be drawn, and one only.
Affords(r) ==
    Asking(r) => /\ ~Starting
                 /\ anonces < MaxANonce
                 /\ "ReAuth" \in r.req => "PTK" \notin r.req

TypeRules(s) ==
    /\ Values(sm[s])
    /\ Retries(group.conf, sm[s])
    /\ (Active(s) /\ (at = "ptk" \/ changed)) \/ Limited(group.conf, sm[s])
    /\ Affords(sm[s])

TypeInv ==
    /\ anonces \in 0..MaxANonce
    /\ group.GTK \in Nat
    /\ cur \in Stations \cup {None}
    /\ Starting => anonces < MaxANonce
    /\ \A s \in Stations : TypeRules(s)

\* What a turn of WPA_PTK makes of record r: q, and perhaps an ANonce.
TypedTurn(c, r, q) ==
    /\ Values(q)
    /\ Retries(c, q)
    /\ \/ /\ anonces' = anonces
          /\ q.req \cap {"Auth", "ReAuth", "PTK"} \subseteq r.req
          /\ q.wpa_ptk_state = "AUTHENTICATION" => Asking(r)
       \/ anonces' = anonces + 1 /\ Asking(r) /\ ~Asking(q)

\* What the provers need of a configuration.
Conf(c) ==
    /\ c.wpa_pairwise_update_count \in Nat \ {0}
    /\ c.wpa_group_update_count \in Nat \ {0}

LEMMA ConfIs ==
    ASSUME Shape
    PROVE  Conf(group.conf)
BY WpaAuthAssumption DEF Shape, Conf

\* wpa_send_eapol: the new counter is the highest.
LEMMA SendValues ==
    ASSUME NEW r, Has(r, Members), Values(r)
    PROVE  LET q == SendEapol(r) IN
           /\ Values(q)
           /\ Alike(q, r, {"ctr", "key_replay", "timers"})
<1> DEFINE q == SendEapol(r)
<1>1. Alike(q, r, {"ctr", "key_replay", "timers"})
  BY SendKeeps
<1>2. q.ctr = r.ctr + 1 /\ q.key_replay = Pending(r) /\ q.timers = r.timers + 1
  BY DEF SendEapol, Members
<1> HIDE DEF q
<1>3. q.PTK = r.PTK /\ q.tk = r.tk /\ q.last = r.last
  BY <1>1 DEF Alike, Members
<1>4. Pending(r) \subseteq 1..(r.ctr + 1)
  BY DEF Pending, Values
<1>5. Values(q)
  BY <1>2, <1>3, <1>4 DEF Values
<1> QED BY <1>1, <1>5 DEF q

\* Where WPA_PTK enters a state outside of the 4-way handshake.
LEMMA LeavingTurn ==
    ASSUME NEW c, NEW r, NEW q, Has(r, Members), Values(r), Retries(c, r), Conf(c),
           Alike(q, r, Writes \cup {"GUpdateStationKeys"}),
           q.wpa_ptk_state \notin {"PTKSTART", "PTKCALCNEGOTIATING", "PTKCALCNEGOTIATING2",
                                   "PTKINITNEGOTIATING"},
           q.PTK \in {r.PTK, NoKey}, q.tk \in {r.tk, r.PTK, NoKey},
           q.TimeoutCtr \in {r.TimeoutCtr, 0},
           \/ q.wpa_ptk_state \notin {"AUTHENTICATION2", "INITPSK"}
           \/ q.wpa_ptk_state = "AUTHENTICATION2" /\ "Disconnect" \in q.req
           \/ q.TimeoutCtr = 0
    PROVE  Values(q) /\ Retries(c, q)
<1>1. /\ q.last = r.last /\ q.timers = r.timers /\ q.ctr = r.ctr /\ q.key_replay = r.key_replay
      /\ q.GTimeoutCtr = r.GTimeoutCtr /\ q.wpa_ptk_group_state = r.wpa_ptk_group_state
  BY DEF Alike, Members, Writes
<1>2. Values(q)
  BY <1>1 DEF Values
<1>3. q.TimeoutCtr \in 0..(c.wpa_pairwise_update_count + 1)
  BY DEF Retries, Conf
<1>4. Retries(c, q)
  BY <1>1, <1>3 DEF Retries
<1> QED BY <1>2, <1>4

LEMMA TypedDisconnects ==
    ASSUME Shape, NEW s \in Stations, Values(sm[s]), Retries(group.conf, sm[s]),
           PtkInitialize(s) \/ PtkDisconnect(s) \/ PtkDisconnected(s) \/ PtkAuthentication(s)
    PROVE  TypedTurn(group.conf, sm[s], sm'[s])
<1> DEFINE r == sm[s]
           q == sm'[s]
           a == [RemovePtk(r) EXCEPT !.wpa_ptk_state = "INITIALIZE", !.GUpdateStationKeys = FALSE,
                                     !.TimeoutCtr = 0]
           o == [r EXCEPT !.req = @ \ {"Disconnect"}, !.wpa_ptk_state = "DISCONNECT"]
           b == StaDisconnect(o)
           d == [r EXCEPT !.req = @ \ {"Deauth"}, !.wpa_ptk_state = "DISCONNECTED"]
           e == [r EXCEPT !.req = @ \ {"Auth"}, !.wpa_ptk_state = "AUTHENTICATION", !.PTK = NoKey]
<1>1. /\ q \in {a, b, d} \/ (q = e /\ "Auth" \in r.req)
      /\ anonces' = anonces
  BY DEF Shape, PtkInitialize, PtkDisconnect, PtkDisconnected, PtkAuthentication, EnterPtk, Turn, Due
<1>2. Has(r, Members) /\ Conf(group.conf)
  BY ConfIs DEF Shape
<1> SUFFICES ASSUME Values(r), Retries(group.conf, r) PROVE TypedTurn(group.conf, r, q)
  OBVIOUS
<1> HIDE DEF r
<1>3. /\ Alike(a, r, Writes \cup {"GUpdateStationKeys"}) /\ a.wpa_ptk_state = "INITIALIZE"
      /\ a.req = r.req /\ a.PTK = NoKey /\ a.tk = NoKey /\ a.TimeoutCtr = 0
  BY <1>2 DEF RemovePtk, Alike, Members, Writes
<1>4. /\ Alike(o, r, {"req", "wpa_ptk_state"}) /\ o.wpa_ptk_state = "DISCONNECT"
      /\ o.req = r.req \ {"Disconnect"}
  BY <1>2 DEF Alike, Members
<1> HIDE DEF a, o
<1>5. /\ Alike(b, o, {"assoc", "req", "PTK", "tk", "rekey_timer"})
      /\ b.req = o.req \cup {"Deauth"} /\ b.PTK = NoKey /\ b.tk = NoKey
  BY <1>4 DEF StaDisconnect, Deauth, RemovePtk, Alike, Members
<1> HIDE DEF b
<1>6. /\ Alike(b, r, Writes \cup {"GUpdateStationKeys"}) /\ b.wpa_ptk_state = "DISCONNECT"
      /\ b.req \cap {"Auth", "ReAuth", "PTK"} \subseteq r.req
      /\ b.PTK = NoKey /\ b.tk = NoKey /\ b.TimeoutCtr = r.TimeoutCtr
  BY <1>4, <1>5 DEF Alike, Members, Writes
<1>7. /\ Alike(d, r, Writes \cup {"GUpdateStationKeys"}) /\ d.wpa_ptk_state = "DISCONNECTED"
      /\ d.req \subseteq r.req /\ d.PTK = r.PTK /\ d.tk = r.tk /\ d.TimeoutCtr = r.TimeoutCtr
  BY <1>2 DEF Alike, Members, Writes
<1>8. /\ Alike(e, r, Writes \cup {"GUpdateStationKeys"}) /\ e.wpa_ptk_state = "AUTHENTICATION"
      /\ e.req \subseteq r.req /\ e.PTK = NoKey /\ e.tk = r.tk /\ e.TimeoutCtr = r.TimeoutCtr
  BY <1>2 DEF Alike, Members, Writes
<1> HIDE DEF d, e
<1>9. Values(q) /\ Retries(group.conf, q)
  <2>1. /\ Alike(q, r, Writes \cup {"GUpdateStationKeys"})
        /\ q.wpa_ptk_state \in {"INITIALIZE", "DISCONNECT", "DISCONNECTED", "AUTHENTICATION"}
        /\ q.PTK \in {r.PTK, NoKey} /\ q.tk \in {r.tk, NoKey}
        /\ q.TimeoutCtr \in {r.TimeoutCtr, 0}
    BY <1>1, <1>3, <1>6, <1>7, <1>8
  <2> QED BY <1>2, <2>1, LeavingTurn
<1> QED BY <1>1, <1>3, <1>6, <1>7, <1>8, <1>9 DEF TypedTurn, Asking

LEMMA TypedAuthenticates ==
    ASSUME Shape, NEW s \in Stations, Values(sm[s]), Retries(group.conf, sm[s]), Affords(sm[s]),
           PtkAuthentication2(s) \/ PtkInitPsk(s)
    PROVE  TypedTurn(group.conf, sm[s], sm'[s])
<1> DEFINE r == sm[s]
           q == sm'[s]
           p == [r EXCEPT !.req = @ \ {"ReAuth"}, !.wpa_ptk_state = "AUTHENTICATION2"]
           a == [p EXCEPT !.ANonce = anonces + 1, !.TimeoutCtr = 0]
           b == [p EXCEPT !.req = @ \cup {"Disconnect"}]
           d == [r EXCEPT !.wpa_ptk_state = "INITPSK", !.req_replay_counter = 0]
<1>1. \/ /\ Due(r, "ReAuth") \/ InState(r, "AUTHENTICATION")
         /\ (q = a /\ anonces' = anonces + 1) \/ (q = b /\ anonces' = anonces)
      \/ InState(r, "AUTHENTICATION2") /\ q = d /\ anonces' = anonces
  BY DEF Shape, PtkAuthentication2, PtkInitPsk, EnterPtk, Turn
<1>2. Has(r, Members) /\ Conf(group.conf)
  BY ConfIs DEF Shape
<1> SUFFICES ASSUME Values(r), Retries(group.conf, r), Affords(r) PROVE TypedTurn(group.conf, r, q)
  OBVIOUS
<1> HIDE DEF r
<1>3. /\ Alike(p, r, {"req", "wpa_ptk_state"}) /\ p.wpa_ptk_state = "AUTHENTICATION2"
      /\ p.req = r.req \ {"ReAuth"}
  BY <1>2 DEF Alike, Members
<1> HIDE DEF p
<1>4. /\ Alike(a, r, Writes \cup {"GUpdateStationKeys"}) /\ a.wpa_ptk_state = "AUTHENTICATION2"
      /\ a.req = r.req \ {"ReAuth"} /\ a.PTK = r.PTK /\ a.tk = r.tk /\ a.TimeoutCtr = 0
  BY <1>3 DEF Alike, Members, Writes
<1>5. /\ Alike(b, r, Writes \cup {"GUpdateStationKeys"}) /\ b.wpa_ptk_state = "AUTHENTICATION2"
      /\ b.req = (r.req \ {"ReAuth"}) \cup {"Disconnect"} /\ b.PTK = r.PTK /\ b.tk = r.tk
      /\ b.TimeoutCtr = r.TimeoutCtr
  BY <1>3 DEF Alike, Members, Writes
<1>6. /\ Alike(d, r, Writes \cup {"GUpdateStationKeys"}) /\ d.wpa_ptk_state = "INITPSK"
      /\ d.req = r.req /\ d.PTK = r.PTK /\ d.tk = r.tk /\ d.TimeoutCtr = r.TimeoutCtr
  BY <1>2 DEF Alike, Members, Writes
<1> HIDE DEF a, b, d
<1>7. CASE (Due(r, "ReAuth") \/ InState(r, "AUTHENTICATION")) /\ q = a /\ anonces' = anonces + 1
  <2>1. Asking(r) /\ ~Asking(a)
    BY <1>4, <1>7 DEF Asking, Affords, Due, Ahead, InState
  <2>2. Values(q) /\ Retries(group.conf, q)
    BY <1>2, <1>4, <1>7, LeavingTurn
  <2> QED BY <1>7, <2>1, <2>2 DEF TypedTurn
<1>8. CASE q = b /\ anonces' = anonces
  <2>1. Values(q) /\ Retries(group.conf, q)
    BY <1>2, <1>5, <1>8, LeavingTurn
  <2> QED BY <1>5, <1>8, <2>1 DEF TypedTurn
<1>9. CASE InState(r, "AUTHENTICATION2") /\ q = d /\ anonces' = anonces
  <2>1. d.TimeoutCtr = 0
    BY <1>6, <1>9 DEF Retries, InState
  <2>2. Values(q) /\ Retries(group.conf, q)
    BY <1>2, <1>6, <1>9, <2>1, LeavingTurn
  <2> QED BY <1>6, <1>9, <2>2 DEF TypedTurn
<1> QED BY <1>1, <1>7, <1>8, <1>9

\* PTKSTART, for a station with record r that has not tried too often.
LEMMA TypedStarts ==
    ASSUME Shape, NEW s \in Stations, NEW r, Has(r, Members), Values(r),
           Retries(group.conf, r), r.TimeoutCtr <= wpa_pairwise_update_count,
           r.TimeoutCtr # 0 => ~PairwiseReceived(r), EnterPtkStart(s, r)
    PROVE  LET q == sm'[s] IN
           /\ Values(q)
           /\ Retries(group.conf, q)
           /\ q.req = r.req \ {"PTK"}
           /\ q.wpa_ptk_state = "PTKSTART"
<1> DEFINE q == sm'[s]
           c == group.conf
           p == [r EXCEPT !.wpa_ptk_state = "PTKSTART", !.req = @ \ {"PTK"}, !.TimeoutEvt = FALSE,
                          !.alt_SNonce = NoKey, !.TimeoutCtr = @ + 1]
<1>1. q \in {p, SendEapol(p)}
  BY DEF Shape, EnterPtkStart, EnterPtk, Turn
<1>2. Conf(c) /\ r.TimeoutCtr <= c.wpa_pairwise_update_count
  BY ConfIs DEF wpa_pairwise_update_count
<1>3. /\ Alike(p, r, {"wpa_ptk_state", "req", "TimeoutEvt", "alt_SNonce", "TimeoutCtr"})
      /\ p.wpa_ptk_state = "PTKSTART"
      /\ p.req = r.req \ {"PTK"}
      /\ p.TimeoutCtr = r.TimeoutCtr + 1
  BY DEF Alike, Members
<1> HIDE DEF p, q, c
<1>4. Has(p, Members) /\ Values(p)
  BY <1>3 DEF Values, Alike, Members
<1>5. Values(q) /\ (q = p \/ Alike(q, p, {"ctr", "key_replay", "timers"}))
  BY <1>1, <1>4, SendValues
<1>6. /\ q.wpa_ptk_state = "PTKSTART" /\ q.req = r.req \ {"PTK"} /\ q.rx = r.rx /\ q.last = r.last
      /\ q.TimeoutCtr = r.TimeoutCtr + 1 /\ q.GTimeoutCtr = r.GTimeoutCtr
      /\ q.wpa_ptk_group_state = r.wpa_ptk_group_state
  BY <1>3, <1>5 DEF Alike, Members
<1>7. PairwiseReceived(q) => r.TimeoutCtr = 0
  BY <1>6 DEF PairwiseReceived, Received
<1>8. Retries(c, q)
  <2>1. Retries(c, r)
    BY DEF c
  <2>2. q.TimeoutCtr \in 0..(c.wpa_pairwise_update_count + 1)
    BY <1>2, <1>6, <2>1 DEF Retries, Conf
  <2>3. PairwiseReceived(q) => q.TimeoutCtr <= c.wpa_pairwise_update_count
    BY <1>2, <1>6, <1>7 DEF Conf
  <2> QED BY <1>6, <2>1, <2>2, <2>3 DEF Retries
<1> QED BY <1>5, <1>6, <1>8 DEF q, c

LEMMA TypedStart ==
    ASSUME Shape, NEW s \in Stations, Values(sm[s]), Retries(group.conf, sm[s]), PtkStart(s)
    PROVE  TypedTurn(group.conf, sm[s], sm'[s])
<1> DEFINE r == sm[s]
           q == sm'[s]
<1>1. /\ \/ InState(r, "INITPSK")
         \/ InState(r, "PTKSTART") /\ ~PairwiseReceived(r) /\ ~GivesUp(r)
         \/ InState(r, "PTKCALCNEGOTIATING") /\ ~PairwiseReceived(r)
      /\ EnterPtkStart(s, r)
      /\ anonces' = anonces
  BY DEF PtkStart
<1>2. Has(r, Members) /\ Conf(group.conf)
  BY ConfIs DEF Shape
<1> SUFFICES ASSUME Values(r), Retries(group.conf, r) PROVE TypedTurn(group.conf, r, q)
  OBVIOUS
<1> HIDE DEF r
<1>3. /\ r.TimeoutCtr <= wpa_pairwise_update_count
      /\ r.TimeoutCtr # 0 => ~PairwiseReceived(r)
  BY <1>1, <1>2 DEF Retries, Conf, InState, GivesUp, wpa_pairwise_update_count
<1>4. /\ Values(q) /\ Retries(group.conf, q)
      /\ q.req = r.req \ {"PTK"} /\ q.wpa_ptk_state = "PTKSTART"
  BY <1>1, <1>2, <1>3, TypedStarts
<1> QED BY <1>1, <1>4 DEF TypedTurn

LEMMA TypedUpdate ==
    ASSUME Shape, NEW s \in Stations, Values(sm[s]), Retries(group.conf, sm[s]), Affords(sm[s]),
           PtkUpdate(s)
    PROVE  TypedTurn(group.conf, sm[s], sm'[s])
<1> DEFINE r == sm[s]
           q == sm'[s]
           p == [r EXCEPT !.ANonce = anonces + 1, !.TimeoutCtr = 0]
           d == [r EXCEPT !.req = (@ \cup {"Disconnect"}) \ {"Deauth"},
                          !.wpa_ptk_state = "DISCONNECTED"]
<1>1. /\ Due(r, "PTK")
      /\ \/ anonces' = anonces + 1 /\ EnterPtkStart(s, p)
         \/ anonces' = anonces /\ q = d
  BY DEF Shape, PtkUpdate, EnterPtk, Turn
<1>2. Has(r, Members) /\ Conf(group.conf)
  BY ConfIs DEF Shape
<1> SUFFICES ASSUME Values(r), Retries(group.conf, r), Affords(r) PROVE TypedTurn(group.conf, r, q)
  OBVIOUS
<1> HIDE DEF r
<1>3. CASE anonces' = anonces + 1 /\ EnterPtkStart(s, p)
  <2>1. Alike(p, r, {"ANonce", "TimeoutCtr"}) /\ p.TimeoutCtr = 0
    BY <1>2 DEF Alike, Members
  <2> HIDE DEF p
  <2>2. /\ p.wpa_ptk_state = r.wpa_ptk_state /\ p.wpa_ptk_group_state = r.wpa_ptk_group_state
        /\ p.GTimeoutCtr = r.GTimeoutCtr /\ p.req = r.req /\ Has(p, Members)
    BY <2>1 DEF Alike, Members
  <2>3. Values(p)
    BY <2>1 DEF Values, Alike, Members
  <2>4. Retries(group.conf, p) /\ p.TimeoutCtr <= wpa_pairwise_update_count
    BY <1>2, <2>1, <2>2 DEF Retries, Conf, wpa_pairwise_update_count
  <2>5. /\ Values(q) /\ Retries(group.conf, q)
        /\ q.req = r.req \ {"PTK"} /\ q.wpa_ptk_state = "PTKSTART"
    BY <1>3, <2>1, <2>2, <2>3, <2>4, TypedStarts
  <2>6. Asking(r) /\ ~Asking(q)
    BY <1>1, <2>5 DEF Asking, Due, Ahead
  <2> QED BY <1>3, <2>5, <2>6 DEF TypedTurn
<1>4. CASE anonces' = anonces /\ q = d
  <2>1. /\ Alike(d, r, Writes \cup {"GUpdateStationKeys"}) /\ d.wpa_ptk_state = "DISCONNECTED"
        /\ d.req = (r.req \cup {"Disconnect"}) \ {"Deauth"} /\ d.PTK = r.PTK /\ d.tk = r.tk
        /\ d.TimeoutCtr = r.TimeoutCtr
    BY <1>2 DEF Alike, Members, Writes
  <2> HIDE DEF d
  <2>2. Values(q) /\ Retries(group.conf, q)
    BY <1>2, <1>4, <2>1, LeavingTurn
  <2> QED BY <1>4, <2>1, <2>2 DEF TypedTurn
<1> QED BY <1>1, <1>3, <1>4

LEMMA TypedCalculates ==
    ASSUME Shape, NEW s \in Stations, Values(sm[s]), Retries(group.conf, sm[s]),
           PtkCalcNegotiating(s)
    PROVE  TypedTurn(group.conf, sm[s], sm'[s])
<1> DEFINE r == sm[s]
           q == sm'[s]
           p == [r EXCEPT !.wpa_ptk_state = "PTKCALCNEGOTIATING", !.rx = NoKey,
                          !.update_snonce = FALSE]
           key == <<p.ANonce, p.SNonce>>
           a == [p EXCEPT !.timers = 0, !.MICVerified = TRUE, !.PTK = key]
           b == StaDisconnect(p)
<1>1. /\ \/ InState(r, "PTKSTART") /\ PairwiseReceived(r)
         \/ InState(r, "PTKCALCNEGOTIATING")
         \/ InState(r, "PTKINITNEGOTIATING") /\ r.update_snonce
      /\ \/ q = a /\ r.last # NoKey /\ r.last.mic = key
         \/ q \in {b, p}
      /\ anonces' = anonces
  BY DEF Shape, PtkCalcNegotiating, EnterPtk, Turn
<1>2. Has(r, Members) /\ Conf(group.conf)
  BY ConfIs DEF Shape
<1> SUFFICES ASSUME Values(r), Retries(group.conf, r) PROVE TypedTurn(group.conf, r, q)
  OBVIOUS
<1> HIDE DEF r
<1>3. r.TimeoutCtr <= group.conf.wpa_pairwise_update_count /\ r.req = {}
  BY <1>1 DEF Retries, InState
<1>4. /\ Alike(p, r, {"wpa_ptk_state", "rx", "update_snonce"})
      /\ p.wpa_ptk_state = "PTKCALCNEGOTIATING" /\ p.rx = NoKey /\ p.last = r.last
  BY <1>2 DEF Alike, Members
<1> HIDE DEF p
<1>5. /\ Alike(a, p, {"timers", "MICVerified", "PTK"})
      /\ a.timers = 0 /\ a.PTK = key
  BY <1>4 DEF Alike, Members
<1>6. /\ Alike(b, p, {"assoc", "req", "PTK", "tk", "rekey_timer"})
      /\ b.req = p.req \cup {"Deauth"} /\ b.PTK = NoKey /\ b.tk = NoKey
  BY <1>4 DEF StaDisconnect, Deauth, RemovePtk, Alike, Members
<1> HIDE DEF a, b, key
<1>7. /\ q.wpa_ptk_state = "PTKCALCNEGOTIATING" /\ q.rx = NoKey /\ q.last = r.last
      /\ q.TimeoutCtr = r.TimeoutCtr
      /\ q.GTimeoutCtr = r.GTimeoutCtr /\ q.wpa_ptk_group_state = r.wpa_ptk_group_state
      /\ q.ctr = r.ctr /\ q.key_replay = r.key_replay /\ q.timers \in {0, r.timers}
      /\ q.req \subseteq {"Deauth"} /\ q.tk \in {r.tk, NoKey}
      /\ q.PTK \in {r.PTK, NoKey} \/ (q.PTK = key /\ r.last # NoKey /\ r.last.mic = key)
  <2>1. CASE q = a /\ r.last # NoKey /\ r.last.mic = key
    BY <1>3, <1>4, <1>5, <2>1 DEF Alike, Members
  <2>2. CASE q = b
    BY <1>3, <1>4, <1>6, <2>2 DEF Alike, Members
  <2>3. CASE q = p
    BY <1>3, <1>4, <2>3 DEF Alike, Members
  <2> QED BY <1>1, <2>1, <2>2, <2>3
<1>8. Values(q)
  BY <1>7 DEF Values
<1>9. Retries(group.conf, q)
  BY <1>3, <1>7 DEF Retries
<1> QED BY <1>1, <1>7, <1>8, <1>9 DEF TypedTurn

LEMMA TypedCalculated ==
    ASSUME Shape, NEW s \in Stations, Values(sm[s]), Retries(group.conf, sm[s]),
           PtkCalcNegotiating2(s)
    PROVE  TypedTurn(group.conf, sm[s], sm'[s])
<1> DEFINE r == sm[s]
           q == sm'[s]
<1>1. /\ q = [r EXCEPT !.wpa_ptk_state = "PTKCALCNEGOTIATING2", !.TimeoutCtr = 0]
      /\ anonces' = anonces
  BY DEF Shape, PtkCalcNegotiating2, EnterPtk, Turn
<1>2. Has(r, Members) /\ Conf(group.conf)
  BY ConfIs DEF Shape
<1> SUFFICES ASSUME Values(r), Retries(group.conf, r) PROVE TypedTurn(group.conf, r, q)
  OBVIOUS
<1> HIDE DEF r, q
<1>3. /\ Alike(q, r, {"wpa_ptk_state", "TimeoutCtr"})
      /\ q.wpa_ptk_state = "PTKCALCNEGOTIATING2" /\ q.TimeoutCtr = 0
  BY <1>1, <1>2 DEF Alike, Members
<1>4. /\ q.GTimeoutCtr = r.GTimeoutCtr /\ q.wpa_ptk_group_state = r.wpa_ptk_group_state
      /\ q.req = r.req
  BY <1>3 DEF Alike, Members
<1>5. Values(q)
  BY <1>3 DEF Values, Alike, Members
<1>6. Retries(group.conf, q)
  BY <1>2, <1>3, <1>4 DEF Retries, Conf
<1> QED BY <1>1, <1>3, <1>4, <1>5, <1>6 DEF TypedTurn

\* PTKINITNEGOTIATING is entered anew only where it was not tried too often.
LEMMA TypedNegotiates ==
    ASSUME Shape, NEW s \in Stations, Values(sm[s]), Retries(group.conf, sm[s]),
           PtkInitNegotiating(s), AtGroup(sm'[s])
    PROVE  TypedTurn(group.conf, sm[s], sm'[s])
<1> DEFINE r == sm[s]
           q == sm'[s]
           p == [r EXCEPT !.wpa_ptk_state = "PTKINITNEGOTIATING", !.TimeoutEvt = FALSE,
                          !.TimeoutCtr = @ + 1]
<1>1. /\ q \in {p, SendEapol(p)}
      /\ anonces' = anonces
      /\ \/ InState(r, "PTKCALCNEGOTIATING2")
         \/ /\ InState(r, "PTKINITNEGOTIATING")
            /\ ~r.update_snonce
            /\ ~(PairwiseReceived(r) /\ r.MICVerified)
            /\ ~GivesUp(r)
  BY DEF Shape, PtkInitNegotiating, EnterPtk, Turn
<1>2. Has(r, Members) /\ Conf(group.conf)
  BY ConfIs DEF Shape
<1> SUFFICES ASSUME Values(r), Retries(group.conf, r), AtGroup(q) PROVE TypedTurn(group.conf, r, q)
  OBVIOUS
<1> HIDE DEF r, q
<1>3. /\ Alike(p, r, {"wpa_ptk_state", "TimeoutEvt", "TimeoutCtr"})
      /\ p.wpa_ptk_state = "PTKINITNEGOTIATING" /\ p.TimeoutCtr = r.TimeoutCtr + 1
  BY <1>2 DEF Alike, Members
<1> HIDE DEF p
<1>4. Has(p, Members) /\ Values(p)
  BY <1>3 DEF Values, Alike, Members
<1>5. Values(q) /\ (q = p \/ Alike(q, p, {"ctr", "key_replay", "timers"}))
  BY <1>1, <1>4, SendValues
<1>6. /\ q.wpa_ptk_state = "PTKINITNEGOTIATING" /\ q.req = r.req
      /\ q.TimeoutCtr = r.TimeoutCtr + 1 /\ q.GTimeoutCtr = r.GTimeoutCtr
      /\ q.wpa_ptk_group_state = r.wpa_ptk_group_state
  BY <1>3, <1>5 DEF Alike, Members
<1>7. q.TimeoutCtr \in 0..(group.conf.wpa_pairwise_update_count + 1)
  <2>1. CASE InState(r, "PTKCALCNEGOTIATING2")
    BY <1>2, <1>6, <2>1 DEF Retries, Conf, InState
  <2>2. CASE ~InState(r, "PTKCALCNEGOTIATING2")
    <3>1. ~(r.TimeoutCtr > wpa_pairwise_update_count)
      BY <1>1, <2>2, Zenon DEF GivesUp
    <3> QED BY <1>2, <1>6, <3>1 DEF Retries, Conf, wpa_pairwise_update_count
  <2> QED BY <2>1, <2>2
<1>8. ~q.update_snonce
  BY <1>6 DEF AtGroup, Updates
<1>9. Retries(group.conf, q)
  BY <1>6, <1>7, <1>8 DEF Retries
<1> QED BY <1>1, <1>5, <1>6, <1>9 DEF TypedTurn

LEMMA TypedDone ==
    ASSUME Shape, NEW s \in Stations, Values(sm[s]), Retries(group.conf, sm[s]), PtkInitDone(s)
    PROVE  TypedTurn(group.conf, sm[s], sm'[s])
<1> DEFINE r == sm[s]
           q == sm'[s]
           p == [r EXCEPT !.wpa_ptk_state = "PTKINITDONE", !.rx = NoKey]
           a == [p EXCEPT !.tk = p.PTK, !.rekey_timer = TRUE]
           b == StaDisconnect(p)
<1>1. q \in {a, b} /\ anonces' = anonces
  BY DEF Shape, PtkInitDone, EnterPtk, Turn
<1>2. Has(r, Members) /\ Conf(group.conf)
  BY ConfIs DEF Shape
<1> SUFFICES ASSUME Values(r), Retries(group.conf, r) PROVE TypedTurn(group.conf, r, q)
  OBVIOUS
<1> HIDE DEF r, q
<1>3. /\ Alike(p, r, {"wpa_ptk_state", "rx"}) /\ p.wpa_ptk_state = "PTKINITDONE"
      /\ p.rx = NoKey /\ p.last = r.last
  BY <1>2 DEF Alike, Members
<1> HIDE DEF p
<1>4. Alike(a, p, {"tk", "rekey_timer"}) /\ a.tk = p.PTK
  BY <1>3 DEF Alike, Members
<1>5. /\ Alike(b, p, {"assoc", "req", "PTK", "tk", "rekey_timer"})
      /\ b.req = p.req \cup {"Deauth"} /\ b.PTK = NoKey /\ b.tk = NoKey
  BY <1>3 DEF StaDisconnect, Deauth, RemovePtk, Alike, Members
<1> HIDE DEF a, b
<1>6. /\ q.wpa_ptk_state = "PTKINITDONE" /\ q.rx = NoKey /\ q.last = r.last /\ q.TimeoutCtr = r.TimeoutCtr
      /\ q.GTimeoutCtr = r.GTimeoutCtr /\ q.wpa_ptk_group_state = r.wpa_ptk_group_state
      /\ q.ctr = r.ctr /\ q.key_replay = r.key_replay /\ q.timers = r.timers
      /\ q.req \subseteq r.req \cup {"Deauth"} /\ q.tk \in {r.PTK, NoKey} /\ q.PTK \in {r.PTK, NoKey}
  <2>1. CASE q = a
    BY <1>3, <1>4, <2>1 DEF Alike, Members
  <2>2. CASE q = b
    BY <1>3, <1>5, <2>2 DEF Alike, Members
  <2> QED BY <1>1, <2>1, <2>2
<1>7. Values(q)
  BY <1>6 DEF Values
<1>8. Retries(group.conf, q)
  BY <1>6 DEF Retries
<1> QED BY <1>1, <1>6, <1>7, <1>8 DEF TypedTurn

\* A turn of WPA_PTK, whichever state it enters; where it enters none, it has not given up.
LEMMA TypedPtk ==
    ASSUME Shape, NEW s \in Stations, PtkBefore(sm[s]), Values(sm[s]),
           Retries(group.conf, sm[s]), Affords(sm[s]), PtkStep(s)
    PROVE  /\ TypedTurn(group.conf, sm[s], sm'[s])
           /\ changed' = TRUE \/ Limited(group.conf, sm'[s])
<1> DEFINE r == sm[s]
           q == sm'[s]
<1>1. AtGroup(q)
  BY PtkTurn DEF PtkAfter
<1>2. CASE PtkStay(s)
  <2>1. q = r /\ PtkStays(r) /\ anonces' = anonces
    BY <1>2 DEF Shape, PtkStay, Turn
  <2>2. Limited(group.conf, r)
    BY <2>1, ConfIs DEF PtkStays, Limited, InState, GivesUp, wpa_pairwise_update_count, Retries, Conf
  <2> QED BY <2>1, <2>2 DEF TypedTurn, Asking
<1>3. CASE PtkInitialize(s)
  <2>1. q = [RemovePtk(r) EXCEPT !.wpa_ptk_state = "INITIALIZE", !.GUpdateStationKeys = FALSE,
                                 !.TimeoutCtr = 0]
    BY <1>3 DEF Shape, PtkInitialize, Turn
  <2>2. q.wpa_ptk_state = "INITIALIZE"
    BY <2>1 DEF Shape, RemovePtk, Members
  <2> QED BY <1>3, <2>2, TypedDisconnects DEF Limited
<1>4. CASE ~PtkStay(s) /\ ~PtkInitialize(s)
  <2>1. changed' = TRUE
    BY <1>4 DEF PtkStep, PtkDisconnect, PtkDisconnected, PtkAuthentication, PtkAuthentication2,
       PtkInitPsk, PtkStart, PtkUpdate, EnterPtkStart, PtkCalcNegotiating, PtkCalcNegotiating2,
       PtkInitNegotiating, PtkInitDone, EnterPtk, Turn
  <2>2. TypedTurn(group.conf, r, q)
    BY <1>1, <1>4, TypedDisconnects, TypedAuthenticates, TypedStart, TypedUpdate, TypedCalculates,
       TypedCalculated, TypedNegotiates, TypedDone DEF PtkStep
  <2> QED BY <2>1, <2>2
<1> QED BY <1>2, <1>3, <1>4

-----------------------------------------------------------------------------
(* A turn of WPA_PTK_GROUP                                                  *)

LEMMA TypedGroup ==
    ASSUME Shape, NEW s \in Stations, Values(sm[s]), Retries(group.conf, sm[s]), GroupStep(s)
    PROVE  LET r == sm[s]
               q == sm'[s] IN
           /\ TypedTurn(group.conf, r, q)
           /\ q.wpa_ptk_state = r.wpa_ptk_state /\ q.TimeoutCtr = r.TimeoutCtr
           /\ r.req \subseteq q.req
<1> DEFINE r == sm[s]
           q == sm'[s]
           a == [r EXCEPT !.wpa_ptk_group_state = "IDLE", !.GTimeoutCtr = 0, !.PtkGroupInit = FALSE]
           p == [r EXCEPT !.wpa_ptk_group_state = "REKEYNEGOTIATING", !.GTimeoutCtr = @ + 1]
           o == [p EXCEPT !.TimeoutEvt = FALSE]
           b == [r EXCEPT !.wpa_ptk_group_state = "REKEYESTABLISHED", !.rx = NoKey,
                          !.GUpdateStationKeys = FALSE, !.GTimeoutCtr = 0]
           d == [r EXCEPT !.wpa_ptk_group_state = "KEYERROR", !.GUpdateStationKeys = FALSE,
                          !.req = @ \cup {"Disconnect"}]
           Writing == {"wpa_ptk_group_state", "GTimeoutCtr", "PtkGroupInit", "TimeoutEvt", "rx",
                       "GUpdateStationKeys", "req"}
<1>1. /\ \/ q \in {a, b, d, r}
         \/ /\ q \in {p, SendEapol(o)}
            /\ \/ r.wpa_ptk_group_state = "IDLE"
               \/ ~(r.GTimeoutCtr > wpa_group_update_count)
      /\ anonces' = anonces
  BY DEF Shape, GroupStep, GroupIdle, RekeyNegotiating, RekeyEstablished, KeyError, GroupStay,
     EnterGroup, Turn, InGroupState, Exhausted
<1>2. Has(r, Members) /\ Conf(group.conf)
  BY ConfIs DEF Shape
<1> SUFFICES ASSUME Values(r), Retries(group.conf, r)
             PROVE  /\ TypedTurn(group.conf, r, q)
                    /\ q.wpa_ptk_state = r.wpa_ptk_state /\ q.TimeoutCtr = r.TimeoutCtr
                    /\ r.req \subseteq q.req
  OBVIOUS
<1> HIDE DEF r, q
<1>3. ASSUME NEW u, Alike(u, r, Writing), u.rx \in {r.rx, NoKey},
             u.req \in {r.req, r.req \cup {"Disconnect"}},
             u.GTimeoutCtr \in 0..(group.conf.wpa_group_update_count + 1),
             u.wpa_ptk_group_state = "IDLE" => u.GTimeoutCtr = 0
      PROVE  /\ TypedTurn(group.conf, r, u)
             /\ u.wpa_ptk_state = r.wpa_ptk_state /\ u.TimeoutCtr = r.TimeoutCtr
             /\ r.req \subseteq u.req
  <2>1. /\ u.PTK = r.PTK /\ u.tk = r.tk /\ u.timers = r.timers /\ u.ctr = r.ctr
        /\ u.key_replay = r.key_replay /\ u.wpa_ptk_state = r.wpa_ptk_state
        /\ u.TimeoutCtr = r.TimeoutCtr /\ u.update_snonce = r.update_snonce /\ u.last = r.last
    BY <1>3 DEF Alike, Members
  <2>2. Values(u)
    BY <1>3, <2>1 DEF Values
  <2>3. PairwiseReceived(u) => PairwiseReceived(r)
    BY <1>3 DEF PairwiseReceived, Received
  <2>4. Retries(group.conf, u)
    BY <1>3, <2>1, <2>3 DEF Retries
  <2>5. u.req \cap {"Auth", "ReAuth", "PTK"} \subseteq r.req
    BY <1>3
  <2> QED BY <1>1, <1>3, <2>1, <2>2, <2>4, <2>5 DEF TypedTurn, Asking
<1>4. CASE q \in {a, b, d, r}
  <2>1. /\ Alike(a, r, Writing) /\ a.rx = r.rx /\ a.req = r.req /\ a.GTimeoutCtr = 0
    BY <1>2 DEF Alike, Members
  <2>2. /\ Alike(b, r, Writing) /\ b.rx = NoKey /\ b.req = r.req /\ b.GTimeoutCtr = 0
    BY <1>2 DEF Alike, Members
  <2>3. /\ Alike(d, r, Writing) /\ d.rx = r.rx /\ d.req = r.req \cup {"Disconnect"}
        /\ d.GTimeoutCtr = r.GTimeoutCtr /\ d.wpa_ptk_group_state = "KEYERROR"
    BY <1>2 DEF Alike, Members
  <2>4. Alike(r, r, Writing)
    BY <1>2 DEF Alike
  <2>5. 0 \in 0..(group.conf.wpa_group_update_count + 1)
    BY <1>2 DEF Conf
  <2> HIDE DEF a, b, d, Writing
  <2> QED BY <1>3, <1>4, <2>1, <2>2, <2>3, <2>4, <2>5 DEF Retries
<1>5. CASE /\ q \in {p, SendEapol(o)}
           /\ r.wpa_ptk_group_state = "IDLE" \/ ~(r.GTimeoutCtr > wpa_group_update_count)
  <2>1. /\ Alike(p, r, Writing) /\ p.rx = r.rx /\ p.req = r.req
        /\ p.GTimeoutCtr = r.GTimeoutCtr + 1 /\ p.wpa_ptk_group_state = "REKEYNEGOTIATING"
    BY <1>2 DEF Alike, Members
  <2>2. p.GTimeoutCtr \in 0..(group.conf.wpa_group_update_count + 1)
    BY <1>2, <1>5, <2>1 DEF Retries, Conf, wpa_group_update_count
  <2> HIDE DEF p
  <2>3. /\ Alike(o, r, Writing) /\ o.rx = r.rx /\ o.req = r.req
        /\ o.GTimeoutCtr = p.GTimeoutCtr /\ o.wpa_ptk_group_state = "REKEYNEGOTIATING"
    BY <2>1 DEF Alike, Members
  <2> HIDE DEF o, Writing
  <2>4. /\ TypedTurn(group.conf, r, p) /\ p.wpa_ptk_state = r.wpa_ptk_state
        /\ p.TimeoutCtr = r.TimeoutCtr
    BY <1>3, <2>1, <2>2
  <2>5. /\ TypedTurn(group.conf, r, o) /\ o.wpa_ptk_state = r.wpa_ptk_state
        /\ o.TimeoutCtr = r.TimeoutCtr
    BY <1>3, <2>2, <2>3
  <2>6. CASE q = p
    BY <2>1, <2>4, <2>6
  <2>7. CASE q = SendEapol(o)
    <3>1. Values(q) /\ Alike(q, o, {"ctr", "key_replay", "timers"})
      BY <2>3, <2>5, <2>7, SendValues DEF TypedTurn, Alike
    <3>2. /\ q.wpa_ptk_state = o.wpa_ptk_state /\ q.TimeoutCtr = o.TimeoutCtr
          /\ q.GTimeoutCtr = o.GTimeoutCtr /\ q.wpa_ptk_group_state = o.wpa_ptk_group_state
          /\ q.req = o.req /\ q.rx = o.rx /\ q.update_snonce = o.update_snonce
      BY <3>1 DEF Alike, Members
    <3>3. Retries(group.conf, q)
      <4>1. Retries(group.conf, o) /\ PairwiseReceived(q) = PairwiseReceived(o)
        BY <2>5, <3>2 DEF TypedTurn, PairwiseReceived, Received
      <4> QED BY <3>2, <4>1 DEF Retries
    <3> QED BY <1>1, <2>3, <2>5, <3>1, <3>2, <3>3 DEF TypedTurn, Asking
  <2> QED BY <1>5, <2>6, <2>7
<1> QED BY <1>1, <1>4, <1>5

-----------------------------------------------------------------------------
(* TypeInv is preserved                                                     *)

\* Only the station that wpa_sm_step is at has an ANonce to be drawn for it.
LEMMA OthersDoNotAsk ==
    ASSUME AuthInv, NEW x \in Stations, ~Active(x)
    PROVE  ~Asking(sm[x])
<1>1. Resting(x, sm[x])
  BY DEF AuthInv, StationRules
<1> QED BY <1>1 DEF Resting, Calm, Negotiation, Asking

LEMMA GtkCounts ==
    ASSUME Shape, NEW s \in Stations, PtkStep(s) \/ GroupStep(s), group.GTK \in Nat
    PROVE  group'.GTK \in Nat
<1>1. Has(group, GroupMembers)
  BY DEF Shape
<1>2. CASE group' = group \/ group' = [group EXCEPT !.GKeyDoneStations = Undone(sm[s])]
  BY <1>1, <1>2 DEF GroupMembers
<1>3. CASE PtkAuthentication2(s)
  <2>1. PICK ready, ok \in MayFail : group' = EnsureInit(ready, ok)
    BY <1>3 DEF PtkAuthentication2
  <2> QED BY <1>1, <2>1 DEF EnsureInit, GroupMembers
<1> QED BY <1>2, <1>3 DEF PtkStep, PtkInitialize, PtkDisconnect, PtkDisconnected, PtkAuthentication,
           PtkInitPsk, PtkStart, PtkUpdate, PtkCalcNegotiating, PtkCalcNegotiating2,
           PtkInitNegotiating, PtkInitDone, PtkStay, GroupStep, GroupIdle, RekeyNegotiating,
           RekeyEstablished, KeyError, GroupStay

\* wpa_sm_step goes on after WPA_PTK has entered a state, so that it gives up in time.
LEMMA GroupKeepsLimits ==
    ASSUME AuthInv, NEW s \in Stations, GroupStep(s), TypeRules(s)
    PROVE  changed' \/ Limited(group.conf, sm'[s])
<1> DEFINE r == sm[s]
           q == sm'[s]
<1>1. /\ at = "group" /\ cur = s /\ Shape
      /\ q.wpa_ptk_state = r.wpa_ptk_state /\ q.TimeoutCtr = r.TimeoutCtr /\ r.req \subseteq q.req
  BY GroupMoves, TypedGroup DEF AuthInv, Kept, TypeRules
<1>2. CASE Limited(group.conf, r)
  BY <1>1, <1>2 DEF Limited
<1>3. CASE changed
  <2>1. changed' = TRUE \/ changed' = changed \/ "Init" \in r.req
    BY DEF GroupStep, GroupIdle, RekeyNegotiating, RekeyEstablished, KeyError, GroupStay,
       EnterGroup, Turn
  <2>2. "Init" \in r.req => r.wpa_ptk_state = "INITIALIZE"
    BY <1>1 DEF AuthInv, StationRules, Active, Stepping, AtGroup
  <2> QED BY <1>1, <1>3, <2>1, <2>2 DEF Limited
<1> QED BY <1>1, <1>2, <1>3 DEF TypeRules

LEMMA TurnsTyped ==
    ASSUME AuthInv, TypeInv, NEW s \in Stations, PtkStep(s) \/ GroupStep(s)
    PROVE  TypeInv'
<1> DEFINE r == sm[s]
           q == sm'[s]
           c == group.conf
<1>1. /\ Kept(s) /\ at \in {"ptk", "group"} /\ at' \in {"group", "gsm"} /\ Shape
      /\ group'.conf = c
  BY PtkMoves, GroupMoves, PtkKeepsGroup DEF AuthInv, GroupKept
<1>2. TypeRules(s) /\ StationRules(s) /\ Active(s)
  BY <1>1 DEF TypeInv, AuthInv, Active, Stepping, Kept
<1>3. TypedTurn(c, r, q) /\ (changed' \/ Limited(c, q))
  <2>1. CASE PtkStep(s)
    <3>1. PtkBefore(r)
      BY <1>1, <1>2, <2>1, PtkMoves DEF PtkBefore, StationRules, Shape
    <3> QED BY <1>1, <1>2, <2>1, <3>1, TypedPtk DEF TypeRules
  <2>2. CASE GroupStep(s)
    BY <1>1, <1>2, <2>2, TypedGroup, GroupKeepsLimits DEF TypeRules
  <2> QED BY <2>1, <2>2
<1>4. Asking(q) => anonces' = anonces /\ Asking(r)
  BY <1>3 DEF TypedTurn, Asking
<1>5. Asking(r) => ~Starting /\ anonces < MaxANonce
  BY <1>2 DEF TypeRules, Affords
<1>6. then' = then /\ (Starting' <=> Starting)
  BY <1>1 DEF Kept, Starting
<1>7. /\ anonces' \in 0..MaxANonce
      /\ Starting' => anonces' < MaxANonce
  BY <1>3, <1>5, <1>6, WpaAuthAssumption DEF TypedTurn, TypeInv
<1>8. TypeRules(s)'
  <2>1. Affords(sm[s])'
    <3>1. Asking(q) => q.req \cap {"ReAuth", "PTK"} \subseteq r.req
      BY <1>3 DEF TypedTurn
    <3> QED BY <1>2, <1>4, <1>6, <3>1 DEF TypeRules, Affords, Asking
  <2>2. Active(s)'
    BY <1>1 DEF Active, Stepping, Kept
  <2> QED BY <1>1, <1>3, <2>1, <2>2 DEF TypeRules, TypedTurn, Values, Retries, Limited
<1>9. ASSUME NEW x \in Stations, x # s PROVE TypeRules(x)'
  <2>1. sm'[x] = sm[x] /\ ~Active(x) /\ TypeRules(x)
    BY <1>1, <1>9 DEF Kept, Active, TypeInv
  <2>2. ~Asking(sm[x])
    BY <2>1, OthersDoNotAsk
  <2>3. Limited(c, sm[x])
    BY <2>1 DEF TypeRules
  <2> QED BY <1>1, <2>1, <2>2, <2>3 DEF TypeRules, Affords, Asking, Values, Retries, Limited
<1>10. group'.GTK \in Nat /\ cur' \in Stations
  BY <1>1, GtkCounts DEF TypeInv, Kept
<1> QED BY <1>7, <1>8, <1>9, <1>10 DEF TypeInv

\* The records stay as they are.
LEMMA SameTyped ==
    ASSUME TypeInv, sm' = sm, group'.conf = group.conf, group'.GTK \in Nat, anonces' = anonces,
           cur' = cur, then' = then,
           Stepping /\ (at = "ptk" \/ changed) => (Stepping /\ (at = "ptk" \/ changed))'
    PROVE  TypeInv'
<1>1. ASSUME NEW x \in Stations PROVE TypeRules(x)'
  <2>1. TypeRules(x)
    BY DEF TypeInv
  <2> QED BY <2>1 DEF TypeRules, Affords, Starting, Asking, Values, Retries, Limited, Active
<1> QED BY <1>1 DEF TypeInv, Starting

\* What else is done to a record leaves the retries alone.
LEMMA RecordTyped ==
    ASSUME NEW c, NEW r, NEW q, NEW S, Alike(q, r, S),
           S \cap {"TimeoutCtr", "GTimeoutCtr", "wpa_ptk_state", "wpa_ptk_group_state"} = {},
           Retries(c, r), Limited(c, r), "Disconnect" \in r.req => "Disconnect" \in q.req
    PROVE  Retries(c, q) /\ Limited(c, q)
<1>1. {"TimeoutCtr", "GTimeoutCtr", "wpa_ptk_state", "wpa_ptk_group_state"} \subseteq Members \ S
  BY DEF Members
<1>2. /\ q.TimeoutCtr = r.TimeoutCtr /\ q.GTimeoutCtr = r.GTimeoutCtr
      /\ q.wpa_ptk_state = r.wpa_ptk_state /\ q.wpa_ptk_group_state = r.wpa_ptk_group_state
  BY <1>1 DEF Alike
<1>3. Limited(c, q)
  BY <1>2 DEF Limited
<1> QED BY <1>2, <1>3 DEF Retries, Limited

\* The record of station s becomes q while wpa_sm_step is not at work.
LEMMA RestTyped ==
    ASSUME AuthInv, TypeInv, ~Stepping, NEW s \in Stations, NEW q, sm' = [sm EXCEPT ![s] = q],
           group'.conf = group.conf, group'.GTK = group.GTK, anonces' = anonces,
           cur' \in Stations \cup {None},
           Values(q), Retries(group.conf, q), Limited(group.conf, q),
           Starting' \/ Asking(q) => anonces < MaxANonce,
           Asking(q) => ~Starting' /\ ("ReAuth" \in q.req => "PTK" \notin q.req)
    PROVE  TypeInv'
<1>1. sm'[s] = q /\ \A x \in Stations : x # s => sm'[x] = sm[x]
  BY DEF AuthInv, Shape
<1>2. TypeRules(s)'
  BY <1>1 DEF TypeRules, Affords, Asking, Values, Retries, Limited
<1>3. ASSUME NEW x \in Stations, x # s PROVE TypeRules(x)'
  <2>1. ~Active(x) /\ TypeRules(x)
    BY DEF Active, TypeInv
  <2>2. ~Asking(sm[x]) /\ Limited(group.conf, sm[x])
    BY <2>1, OthersDoNotAsk DEF TypeRules
  <2> QED BY <1>1, <1>3, <2>1, <2>2 DEF TypeRules, Affords, Asking, Values, Retries, Limited
<1> QED BY <1>2, <1>3 DEF TypeInv

LEMMA SetKeysDoneTyped ==
    ASSUME AuthInv, TypeInv, SetKeysDone
    PROVE  TypeInv'
<1>1. /\ group'.conf = group.conf /\ group'.GTK = group.GTK
      /\ anonces' = anonces /\ cur' = cur /\ then' = then
      /\ at \in {"gsm", "rekey"} /\ at' = IF at = "gsm" THEN "ptk" ELSE "rekey"
  BY DEF SetKeysDone, GoOn, AuthInv, Shape, GroupMembers
<1>2. Starting' <=> Starting
  BY <1>1 DEF Starting
<1>3. ASSUME NEW x \in Stations PROVE TypeRules(x)'
  <2> DEFINE r == sm[x]
             q == [r EXCEPT !.req = @ \cup {"Disconnect"}]
  <2>1. sm'[x] \in {r, q} /\ Has(r, Members) /\ TypeRules(x)
    BY DEF SetKeysDone, AuthInv, Shape, TypeInv
  <2>2. Alike(q, r, {"req"}) /\ q.req = r.req \cup {"Disconnect"}
    BY <2>1 DEF Alike, Members
  <2> HIDE DEF q
  <2>3. /\ q.PTK = r.PTK /\ q.tk = r.tk /\ q.rx = r.rx /\ q.last = r.last /\ q.timers = r.timers /\ q.ctr = r.ctr
        /\ q.key_replay = r.key_replay /\ q.TimeoutCtr = r.TimeoutCtr
        /\ q.GTimeoutCtr = r.GTimeoutCtr /\ q.wpa_ptk_state = r.wpa_ptk_state
        /\ q.wpa_ptk_group_state = r.wpa_ptk_group_state /\ q.update_snonce = r.update_snonce
    BY <2>2 DEF Alike, Members
  <2>4. Values(q) /\ Retries(group.conf, q)
    BY <2>1, <2>2, <2>3 DEF TypeRules, Values, Retries, PairwiseReceived, Received
  <2>5. Limited(group.conf, r) => Limited(group.conf, q)
    BY <2>2, <2>3 DEF Limited
  <2>6. /\ Asking(q) <=> Asking(r)
        /\ "ReAuth" \in q.req <=> "ReAuth" \in r.req
        /\ "PTK" \in q.req <=> "PTK" \in r.req
    BY <2>2, <2>3 DEF Asking
  <2>7. Active(x) => Active(x)' /\ at' = "ptk"
    BY <1>1 DEF Active, Stepping
  <2>8. /\ Values(sm'[x]) /\ Retries(group.conf, sm'[x])
        /\ Limited(group.conf, r) => Limited(group.conf, sm'[x])
        /\ Asking(sm'[x]) => /\ ~Starting /\ anonces < MaxANonce
                             /\ "ReAuth" \in sm'[x].req => "PTK" \notin sm'[x].req
    BY <2>1, <2>4, <2>5, <2>6 DEF TypeRules, Affords
  <2> QED BY <1>1, <1>2, <2>1, <2>7, <2>8 DEF TypeRules, Affords, Asking, Values, Retries, Limited
<1> QED BY <1>1, <1>2, <1>3 DEF TypeInv

LEMMA OthersTyped ==
    ASSUME AuthInv, TypeInv, SetKeys \/ GroupSmStay \/ UpdateEnd \/ RekeyGtk \/ UNCHANGED vars
    PROVE  TypeInv'
<1>1. Has(group, GroupMembers)
  BY DEF AuthInv, Shape
<1>2. sm' = sm /\ anonces' = anonces /\ cur' = cur /\ then' = then
  BY DEF SetKeys, GroupSmStay, UpdateEnd, RekeyGtk, GoOn, vars
<1>3. group'.conf = group.conf /\ group'.GTK \in Nat
  <2>1. CASE group' = group
    BY <2>1 DEF TypeInv
  <2>2. CASE SetKeys
    BY <1>1, <2>2 DEF SetKeys, GroupMembers, TypeInv
  <2>3. CASE RekeyGtk
    BY <1>1, <2>3 DEF RekeyGtk, GroupMembers, TypeInv
  <2> QED BY <2>1, <2>2, <2>3 DEF GroupSmStay, UpdateEnd, vars
<1>4. Stepping /\ (at = "ptk" \/ changed) => (Stepping /\ (at = "ptk" \/ changed))'
  <2>1. CASE SetKeys
    BY <2>1 DEF SetKeys, AuthInv, Control, Stepping
  <2>2. CASE GroupSmStay
    BY <2>2 DEF GroupSmStay, GoOn, Stepping
  <2>3. CASE UpdateEnd \/ RekeyGtk
    BY <2>3 DEF UpdateEnd, RekeyGtk, Stepping
  <2>4. CASE UNCHANGED vars
    BY <2>4 DEF vars, Stepping
  <2> QED BY <2>1, <2>2, <2>3, <2>4
<1> QED BY <1>2, <1>3, <1>4, SameTyped

\* A station that is not at its turn: what TypeInv says of its record.
LEMMA RestingTypes ==
    ASSUME AuthInv, TypeInv, ~Stepping, NEW s \in Stations
    PROVE  /\ Has(sm[s], Members) /\ Values(sm[s])
           /\ Retries(group.conf, sm[s]) /\ Limited(group.conf, sm[s])
           /\ sm[s].req \subseteq {"Disconnect", "Init"} /\ sm[s].wpa_ptk_state # "AUTHENTICATION"
           /\ ~Asking(sm[s])
<1>1. ~Active(s) /\ TypeRules(s) /\ Has(sm[s], Members)
  BY DEF Active, TypeInv, AuthInv, Shape
<1>2. Resting(s, sm[s])
  BY <1>1 DEF AuthInv, StationRules
<1>3. sm[s].req \subseteq {"Disconnect", "Init"} /\ sm[s].wpa_ptk_state # "AUTHENTICATION"
  BY <1>2 DEF Resting, Calm, Negotiation
<1> QED BY <1>1, <1>3 DEF TypeRules, Asking

\* The records that the handlers and their continuations leave.
Touches == Others \cup {"GUpdateStationKeys", "PtkGroupInit", "is_wnmsleep"}

LEMMA TouchTyped ==
    ASSUME AuthInv, TypeInv, ~Stepping, NEW s \in Stations, NEW q, sm' = [sm EXCEPT ![s] = q],
           group'.conf = group.conf, group'.GTK = group.GTK, anonces' = anonces,
           cur' \in Stations \cup {None}, Alike(q, sm[s], Touches), Values(q),
           "Disconnect" \in sm[s].req => "Disconnect" \in q.req,
           Starting' => anonces < MaxANonce,
           \/ q.req \cap {"Auth", "ReAuth", "PTK"} = {}
           \/ /\ \E n \in {"Auth", "ReAuth", "PTK"} : q.req \cap {"Auth", "ReAuth", "PTK"} = {n}
              /\ ~Starting' /\ anonces < MaxANonce
    PROVE  TypeInv'
<1>1. /\ Retries(group.conf, sm[s]) /\ Limited(group.conf, sm[s])
      /\ sm[s].wpa_ptk_state # "AUTHENTICATION"
  BY RestingTypes
<1>2. q.wpa_ptk_state = sm[s].wpa_ptk_state
  BY DEF Alike, Members, Touches, Others, Answers
<1>3. Touches \cap {"TimeoutCtr", "GTimeoutCtr", "wpa_ptk_state", "wpa_ptk_group_state"} = {}
  BY DEF Touches, Others, Answers
<1>4. Retries(group.conf, q) /\ Limited(group.conf, q)
  BY <1>1, <1>3, RecordTyped
<1>5. Asking(q) => /\ ~Starting' /\ anonces < MaxANonce
                   /\ "ReAuth" \in q.req => "PTK" \notin q.req
  BY <1>1, <1>2 DEF Asking
<1> QED BY <1>4, <1>5, RestTyped

\* A station that is not known.
LEMMA FreeTyped ==
    ASSUME AuthInv, TypeInv, ~Stepping, NEW s \in Stations, Free(s), anonces' = anonces,
           cur' \in Stations \cup {None}, then' = Nothing
    PROVE  TypeInv'
<1>1. /\ sm' = [sm EXCEPT ![s] = NewSm] /\ group'.conf = group.conf /\ group'.GTK = group.GTK
  BY DEF Free, AuthInv, Shape, GroupMembers
<1>2. Values(NewSm) /\ Retries(group.conf, NewSm) /\ Limited(group.conf, NewSm) /\ ~Asking(NewSm)
  <2>1. Conf(group.conf)
    BY ConfIs DEF AuthInv
  <2> QED BY <2>1 DEF NewSm, Values, Retries, Limited, Asking, Conf
<1>3. ~Starting'
  BY DEF Starting, Nothing
<1> QED BY <1>1, <1>2, <1>3, RestTyped

LEMMA UpdateTyped ==
    ASSUME AuthInv, TypeInv, UpdateNext
    PROVE  TypeInv'
<1>1. PICK s \in todo : UpdateSta(s)
  BY DEF UpdateNext
<1>2. s \in Stations /\ ~Stepping /\ anonces' = anonces /\ then' = then /\ Has(group, GroupMembers)
  BY DEF UpdateNext, AuthInv, Control, Shape, Stepping
<1>3. PICK b : sm' = [sm EXCEPT ![s] = [sm[s] EXCEPT !.GUpdateStationKeys = b]]
  BY <1>1 DEF UpdateSta
<1> DEFINE r == sm[s]
           q == [r EXCEPT !.GUpdateStationKeys = b]
<1>4. /\ group'.conf = group.conf /\ group'.GTK = group.GTK /\ cur' \in Stations \cup {None}
  BY <1>1, <1>2 DEF UpdateSta, GroupMembers, TypeInv
<1>5. Has(r, Members) /\ Values(r) /\ r.req \subseteq {"Disconnect", "Init"}
  BY <1>2, RestingTypes
<1>6. Alike(q, r, {"GUpdateStationKeys"})
  BY <1>5 DEF Alike, Members
<1> HIDE DEF q
<1>7. Values(q) /\ q.req = r.req /\ Alike(q, r, Touches)
  BY <1>5, <1>6 DEF Values, Alike, Members, Touches
<1>8. Starting' => anonces < MaxANonce
  BY <1>2 DEF TypeInv, Starting
<1> QED BY <1>2, <1>3, <1>4, <1>5, <1>7, <1>8, TouchTyped DEF q

\* What the handler has left to do: an association leads to one request for an ANonce.
LEMMA ReturnTyped ==
    ASSUME AuthInv, TypeInv, Return
    PROVE  TypeInv'
<1>1. ~Stepping /\ Has(group, GroupMembers)
  BY DEF Return, Stepping, AuthInv, Shape
<1>2. CASE UNCHANGED <<sm, group, anonces, cur, then>>
  BY <1>1, <1>2, SameTyped DEF TypeInv
<1>3. CASE todo = {} /\ then # Nothing
  <2>1. PICK s \in Stations :
            then[2] = s /\ then[1] \in {"auth", "associated", "reauth", "step", "free"}
    BY <1>3, Continues DEF Return
  <2> DEFINE r == sm[s]
             a == [r EXCEPT !.req = (@ \ {"Init"}) \cup {"Auth"}]
             b == [r EXCEPT !.ctr = 0, !.key_replay = {}, !.req = @ \cup {"ReAuth"}]
             d == [r EXCEPT !.started = TRUE, !.req = @ \cup {"Init"}]
             e == [RemovePtk(r) EXCEPT !.GUpdateStationKeys = FALSE,
                                       !.PtkGroupInit = @ \/ r.GUpdateStationKeys,
                                       !.req = @ \cup {"ReAuth"}]
  <2>2. /\ Has(r, Members) /\ Values(r) /\ r.req \subseteq {"Disconnect", "Init"}
    BY <1>1, RestingTypes
  <2>3. CASE Free(s) /\ anonces' = anonces /\ cur' = None /\ then' = Nothing
    BY <1>1, <2>3, FreeTyped
  <2>4. CASE StepOn(s, r, Nothing)
    <3>1. sm' = sm /\ group' = group /\ anonces' = anonces /\ cur' = s /\ then' = Nothing
      BY <2>4 DEF StepOn, AuthInv, Shape
    <3>2. Alike(r, r, Touches) /\ sm' = [sm EXCEPT ![s] = r] /\ ~Starting'
      BY <2>2, <2>4, <3>1 DEF Alike, StepOn, Starting, Nothing
    <3> HIDE DEF r
    <3> QED BY <1>1, <2>2, <3>1, <3>2, TouchTyped DEF r
  <2>5. CASE /\ then[1] \in {"auth", "associated", "reauth"}
             /\ \/ StepOn(s, a, Nothing) \/ StepOn(s, b, Nothing) \/ StepOn(s, d, <<"auth", s>>)
                \/ Reauth(s)
    <3>1. anonces < MaxANonce
      BY <2>5 DEF TypeInv, Starting
    <3>2. /\ anonces' = anonces /\ cur' = s /\ group'.conf = group.conf /\ group'.GTK = group.GTK
          /\ \/ sm' = [sm EXCEPT ![s] = a] /\ then' = Nothing
             \/ sm' = [sm EXCEPT ![s] = b] /\ then' = Nothing
             \/ sm' = [sm EXCEPT ![s] = d]
             \/ sm' = [sm EXCEPT ![s] = e] /\ then' = Nothing
      BY <1>1, <2>5 DEF StepOn, Reauth, GroupMembers
    <3>3. then' = Nothing => ~Starting'
      BY DEF Starting, Nothing
    <3>4. Alike(a, r, {"req"}) /\ a.req = (r.req \ {"Init"}) \cup {"Auth"}
      BY <2>2 DEF Alike, Members
    <3>5. /\ Alike(b, r, {"req", "ctr", "key_replay"}) /\ b.req = r.req \cup {"ReAuth"}
          /\ b.ctr = 0 /\ b.key_replay = {}
      BY <2>2 DEF Alike, Members
    <3>6. Alike(d, r, {"req", "started"}) /\ d.req = r.req \cup {"Init"}
      BY <2>2 DEF Alike, Members
    <3>7. /\ Alike(e, r, {"PTK", "tk", "rekey_timer", "GUpdateStationKeys", "PtkGroupInit", "req"})
          /\ e.req = r.req \cup {"ReAuth"} /\ e.PTK = NoKey /\ e.tk = NoKey
      BY <2>2 DEF RemovePtk, Alike, Members
    <3> HIDE DEF r, a, b, d, e
    <3>8. Values(a) /\ Alike(a, r, Touches)
      BY <2>2, <3>4 DEF Values, Alike, Members, Touches, Others
    <3>9. Values(b) /\ Alike(b, r, Touches)
      BY <2>2, <3>5 DEF Values, Alike, Members, Touches, Others, Answers
    <3>10. Values(d) /\ Alike(d, r, Touches)
      BY <2>2, <3>6 DEF Values, Alike, Members, Touches, Others
    <3>11. Values(e) /\ Alike(e, r, Touches)
      BY <2>2, <3>7 DEF Values, Alike, Members, Touches, Others
    <3>12. CASE sm' = [sm EXCEPT ![s] = a] /\ then' = Nothing
      <4>1. a.req \cap {"Auth", "ReAuth", "PTK"} = {"Auth"}
        BY <2>2, <3>4
      <4>2. "Disconnect" \in r.req => "Disconnect" \in a.req
        BY <3>4
      <4> QED BY <1>1, <3>1, <3>2, <3>3, <3>8, <3>12, <4>1, <4>2, TouchTyped DEF r
    <3>13. CASE sm' = [sm EXCEPT ![s] = b] /\ then' = Nothing
      <4>1. b.req \cap {"Auth", "ReAuth", "PTK"} = {"ReAuth"}
        BY <2>2, <3>5
      <4>2. "Disconnect" \in r.req => "Disconnect" \in b.req
        BY <3>5
      <4> QED BY <1>1, <3>1, <3>2, <3>3, <3>9, <3>13, <4>1, <4>2, TouchTyped DEF r
    <3>14. CASE sm' = [sm EXCEPT ![s] = d]
      <4>1. d.req \cap {"Auth", "ReAuth", "PTK"} = {}
        BY <2>2, <3>6
      <4>2. "Disconnect" \in r.req => "Disconnect" \in d.req
        BY <3>6
      <4> QED BY <1>1, <3>1, <3>2, <3>10, <3>14, <4>1, <4>2, TouchTyped DEF r
    <3>15. CASE sm' = [sm EXCEPT ![s] = e] /\ then' = Nothing
      <4>1. e.req \cap {"Auth", "ReAuth", "PTK"} = {"ReAuth"}
        BY <2>2, <3>7
      <4>2. "Disconnect" \in r.req => "Disconnect" \in e.req
        BY <3>7
      <4> QED BY <1>1, <3>1, <3>2, <3>3, <3>11, <3>15, <4>1, <4>2, TouchTyped DEF r
    <3> QED BY <3>2, <3>12, <3>13, <3>14, <3>15
  <2>6. \/ then[1] = "free" /\ Free(s) /\ anonces' = anonces /\ cur' = None /\ then' = Nothing
        \/ then[1] = "step" /\ StepOn(s, r, Nothing)
        \/ /\ then[1] \in {"auth", "associated", "reauth"}
           /\ \/ StepOn(s, a, Nothing) \/ StaAssociated(s) \/ Reauth(s)
    BY <1>3, <2>1 DEF Return
  <2> QED BY <2>3, <2>4, <2>5, <2>6 DEF StaAssociated
<1>4. CASE todo = {} /\ then = Nothing
  <2>1. /\ UNCHANGED <<sm, group, anonces>> /\ cur' = None /\ then' = then
    BY <1>4 DEF Return, Nothing
  <2>2. ~Starting /\ ~Starting'
    BY <1>4, <2>1 DEF Starting, Nothing
  <2>3. ASSUME NEW x \in Stations PROVE TypeRules(x)'
    <3>1. TypeRules(x) /\ ~Active(x)
      BY <1>1 DEF TypeInv, Active
    <3> QED BY <2>1, <2>2, <3>1 DEF TypeRules, Affords, Asking, Values, Retries, Limited
  <2> QED BY <2>1, <2>2, <2>3 DEF TypeInv
<1> QED BY <1>2, <1>3, <1>4 DEF Return

\* Handlers that start wpa_sm_step, or change a record at rest.
LEMMA HandlersTyped ==
    ASSUME AuthInv, TypeInv, NEW s \in Stations,
           \/ Associate(s) \/ Disassociate(s) \/ RekeyPtk(s) \/ Timeout(s)
           \/ WnmSleep(s) \/ WnmWake(s)
    PROVE  TypeInv'
<1> DEFINE r == sm[s]
           o == RemovePtk([r EXCEPT !.assoc = TRUE])
           p == Deauth([r EXCEPT !.assoc = FALSE])
           q == [r EXCEPT !.rekey_timer = FALSE, !.req = @ \cup {"PTK"}, !.PTK = NoKey]
           t == [r EXCEPT !.timers = @ - 1, !.TimeoutEvt = TRUE]
           v == [r EXCEPT !.is_wnmsleep = TRUE]
           w == [r EXCEPT !.is_wnmsleep = FALSE]
           u == [w EXCEPT !.GUpdateStationKeys = (w.wpa_ptk_state = "PTKINITDONE")]
<1>1. at = "rest" /\ ~Stepping /\ Has(group, GroupMembers)
  BY DEF Associate, Disassociate, RekeyPtk, Timeout, WnmSleep, WnmWake, Handle, Stepping, AuthInv,
     Shape
<1>2. /\ Has(r, Members) /\ Values(r) /\ r.req \subseteq {"Disconnect"} /\ then = Nothing
  BY <1>1, RestingTypes, AtRest
<1>3. /\ group'.conf = group.conf /\ group'.GTK = group.GTK /\ anonces' = anonces
      /\ cur' \in Stations \cup {None}
  BY <1>1 DEF Associate, Disassociate, RekeyPtk, Timeout, WnmSleep, WnmWake, Handle, StepOn,
     GroupMembers, TypeInv
<1>4. \/ sm' = [sm EXCEPT ![s] = o] /\ anonces < MaxANonce
      \/ sm' = [sm EXCEPT ![s] = p] /\ then' = <<"free", s>>
      \/ sm' = [sm EXCEPT ![s] = q] /\ anonces < MaxANonce /\ then' = Nothing
      \/ sm' = [sm EXCEPT ![s] = t] /\ r.timers > 0 /\ then' = Nothing
      \/ sm' = [sm EXCEPT ![s] = v] /\ then' = then
      \/ sm' = [sm EXCEPT ![s] = u] /\ then' = then
  BY DEF Associate, Disassociate, RekeyPtk, Timeout, WnmSleep, WnmWake, Handle, StepOn
<1>5. then' = Nothing \/ then' = <<"free", s>> => ~Starting'
  BY DEF Starting, Nothing
<1>6. /\ Alike(o, r, {"assoc", "PTK", "tk", "rekey_timer"})
      /\ o.PTK = NoKey /\ o.tk = NoKey /\ o.req = r.req
  BY <1>2 DEF RemovePtk, Alike, Members
<1>7. /\ Alike(p, r, {"assoc", "PTK", "tk", "rekey_timer", "req"})
      /\ p.PTK = NoKey /\ p.tk = NoKey /\ p.req = r.req \cup {"Deauth"}
  BY <1>2 DEF Deauth, RemovePtk, Alike, Members
<1>8. /\ Alike(q, r, {"rekey_timer", "req", "PTK"})
      /\ q.PTK = NoKey /\ q.req = r.req \cup {"PTK"}
  BY <1>2 DEF Alike, Members
<1>9. Alike(t, r, {"timers", "TimeoutEvt"}) /\ t.timers = r.timers - 1 /\ t.req = r.req
  BY <1>2 DEF Alike, Members
<1>10. Alike(v, r, {"is_wnmsleep"}) /\ v.req = r.req
  BY <1>2 DEF Alike, Members
<1>11. Alike(u, r, {"is_wnmsleep", "GUpdateStationKeys"}) /\ u.req = r.req
  BY <1>2 DEF Alike, Members
<1> HIDE DEF r, o, p, q, t, v, u
<1>12. /\ Values(o) /\ Values(p) /\ Values(q) /\ Values(v) /\ Values(u)
       /\ r.timers > 0 => Values(t)
  <2>1. Values(o)
    BY <1>2, <1>6 DEF Values, Alike, Members
  <2>2. Values(p)
    BY <1>2, <1>7 DEF Values, Alike, Members
  <2>3. Values(q)
    BY <1>2, <1>8 DEF Values, Alike, Members
  <2>4. Values(v) /\ Values(u)
    BY <1>2, <1>10, <1>11 DEF Values, Alike, Members
  <2>5. r.timers > 0 => Values(t)
    BY <1>2, <1>9 DEF Values, Alike, Members
  <2> QED BY <2>1, <2>2, <2>3, <2>4, <2>5
<1>13. /\ Alike(o, r, Touches) /\ Alike(p, r, Touches) /\ Alike(q, r, Touches)
       /\ Alike(t, r, Touches) /\ Alike(v, r, Touches) /\ Alike(u, r, Touches)
  BY <1>6, <1>7, <1>8, <1>9, <1>10, <1>11 DEF Alike, Touches, Others, Answers
<1>14. CASE sm' = [sm EXCEPT ![s] = q] /\ anonces < MaxANonce /\ then' = Nothing
  <2>1. q.req \cap {"Auth", "ReAuth", "PTK"} = {"PTK"}
    BY <1>2, <1>8
  <2> QED BY <1>1, <1>3, <1>5, <1>8, <1>12, <1>13, <1>14, <2>1, TouchTyped DEF r
<1>15. ASSUME NEW x \in {o, p, t, v, u}, sm' = [sm EXCEPT ![s] = x], Values(x),
              Starting' => anonces < MaxANonce
       PROVE  TypeInv'
  <2>1. x.req \in {r.req, r.req \cup {"Deauth"}} /\ Alike(x, r, Touches)
    BY <1>6, <1>7, <1>9, <1>10, <1>11, <1>13
  <2>2. /\ x.req \cap {"Auth", "ReAuth", "PTK"} = {}
        /\ "Disconnect" \in r.req => "Disconnect" \in x.req
    BY <1>2, <2>1
  <2> QED BY <1>1, <1>3, <1>15, <2>1, <2>2, TouchTyped DEF r
<1> QED BY <1>2, <1>4, <1>5, <1>12, <1>14, <1>15

LEMMA VerifiedValues ==
    ASSUME NEW r, NEW f, Has(r, Members), Values(r), Reply(f)
    PROVE  Values(Verified(r, f))
<1>1. CASE Verifies(r)
  BY <1>1 DEF Verified, Values, Reply, Members
<1>2. CASE ~Verifies(r)
  BY <1>2 DEF Verified, Values, Members
<1> QED BY <1>1, <1>2

\* wpa_receive: a PTK is taken over only from a frame with a PTK.
LEMMA ReceiveTyped ==
    ASSUME AuthInv, TypeInv, NEW s \in Stations, NEW f, Reply(f), Receive(s, f)
    PROVE  TypeInv'
<1> DEFINE r == sm[s]
<1>1. at = "rest" /\ ~Stepping /\ Has(group, GroupMembers)
  BY DEF Receive, ReceiveAnswer, ReceiveRequest, ReceiveUnverified, Handle, Stepping, AuthInv, Shape
<1>2. /\ Has(r, Members) /\ Values(r) /\ r.req \subseteq {"Disconnect"} /\ then = Nothing
  BY <1>1, RestingTypes, AtRest
<1>3. /\ group'.conf = group.conf /\ group'.GTK = group.GTK /\ anonces' = anonces
      /\ cur' \in Stations \cup {None}
  BY <1>1 DEF Receive, ReceiveAnswer, ReceiveRequest, ReceiveUnverified, Handle, StepOn, GroupMembers,
     TypeInv
<1>4. ~Starting'
  BY <1>2 DEF Receive, ReceiveAnswer, ReceiveRequest, ReceiveUnverified, Handle, StepOn, Starting,
     Nothing
<1>5. ASSUME NEW x, sm' = [sm EXCEPT ![s] = x], Alike(x, r, Others), Values(x),
             \/ x.req \in {r.req, r.req \cup {"Deauth"}}
             \/ x.req = r.req \cup {"PTK"} /\ anonces < MaxANonce
      PROVE  TypeInv'
  <2>1. Alike(x, r, Touches)
    BY <1>5 DEF Alike, Touches
  <2> HIDE DEF r
  <2>2. "Disconnect" \in r.req => "Disconnect" \in x.req
    BY <1>5
  <2>3. \/ x.req \cap {"Auth", "ReAuth", "PTK"} = {}
        \/ x.req \cap {"Auth", "ReAuth", "PTK"} = {"PTK"} /\ anonces < MaxANonce
    BY <1>2, <1>5
  <2> QED BY <1>1, <1>3, <1>4, <1>5, <2>1, <2>2, <2>3, TouchTyped DEF r
<1>6. CASE ReceiveAnswer(s, f)
  <2> DEFINE u == Updating(r, f)
             v == Verified(u, f)
             q == Consumed(v, f)
             d == StaDisconnect(u)
  <2>1. sm' = [sm EXCEPT ![s] = d] \/ sm' = [sm EXCEPT ![s] = q]
    BY <1>6 DEF ReceiveAnswer, Handle, StepOn
  <2>2. Alike(u, r, {"update_snonce", "alt_SNonce", "alt_replay_counter"})
    BY <1>2, UpdatingKeeps
  <2>3. Values(u) /\ Has(u, Members) /\ u.req = r.req
    BY <1>2, <2>2 DEF Values, Alike, Members
  <2>4. Alike(v, u, {"MICVerified", "timers", "PTK", "alt_SNonce"}) /\ Values(v)
    BY <2>3, VerifiedKeeps, VerifiedValues
  <2> HIDE DEF v
  <2>5. /\ Alike(q, v, {"prev_key_replay", "key_replay", "rx", "last", "SNonce"})
        /\ q.key_replay = {} /\ q.last = [type |-> f.type, mic |-> f.mic]
    BY <2>4, ConsumedKeeps DEF Alike
  <2>6. /\ Alike(d, u, {"assoc", "req", "PTK", "tk", "rekey_timer"})
        /\ d.PTK = NoKey /\ d.tk = NoKey /\ d.req = u.req \cup {"Deauth"}
    BY <2>3 DEF StaDisconnect, Deauth, RemovePtk, Alike, Members
  <2> HIDE DEF r, u, q, d
  <2>7. Alike(q, r, Others) /\ q.req = r.req
    BY <2>2, <2>4, <2>5 DEF Alike, Members, Others, Answers
  <2>8. Alike(d, r, Others) /\ d.req = r.req \cup {"Deauth"}
    BY <2>2, <2>3, <2>6 DEF Alike, Members, Others, Answers
  <2>9. Values(q)
    <3>1. q.PTK = v.PTK /\ q.tk = v.tk /\ q.timers = v.timers /\ q.ctr = v.ctr
      BY <2>5 DEF Alike, Members
    <3>2. q.last.mic \in PTKs
      BY <2>5 DEF Reply
    <3> QED BY <2>4, <2>5, <3>1, <3>2 DEF Values
  <2>10. Values(d)
    <3>1. /\ d.last = u.last /\ d.timers = u.timers /\ d.ctr = u.ctr /\ d.key_replay = u.key_replay
      BY <2>6 DEF Alike, Members
    <3> QED BY <2>3, <2>6, <3>1 DEF Values
  <2> QED BY <1>5, <2>1, <2>7, <2>8, <2>9, <2>10
<1>7. CASE ReceiveRequest(s, f)
  <2> DEFINE v == Verified(r, f)
             p == [v EXCEPT !.req_replay_counter = f.ctr, !.rx = NoKey, !.last = Stored(f),
                              !.SNonce = f.nonce]
             q == [p EXCEPT !.req = @ \cup {"PTK"}, !.PTK = NoKey]
  <2>1. \/ sm' = [sm EXCEPT ![s] = p]
        \/ sm' = [sm EXCEPT ![s] = q] /\ anonces < MaxANonce
    BY <1>7 DEF ReceiveRequest, Handle, StepOn
  <2>2. Alike(v, r, {"MICVerified", "timers", "PTK", "alt_SNonce"}) /\ Values(v)
    BY <1>2, VerifiedKeeps, VerifiedValues
  <2> HIDE DEF v, r
  <2>3. Alike(p, v, {"req_replay_counter", "rx", "last", "SNonce"}) /\ p.last.mic = f.mic
    BY <2>2 DEF Alike, Members, Stored
  <2>4. Values(p) /\ p.req = r.req /\ Alike(p, r, Others)
    BY <2>2, <2>3 DEF Reply, Values, Alike, Members, Others, Answers
  <2> HIDE DEF p
  <2>5. Alike(q, p, {"req", "PTK"}) /\ q.PTK = NoKey /\ q.req = p.req \cup {"PTK"}
    BY <2>4 DEF Alike, Members
  <2>6. Values(q) /\ Alike(q, r, Others)
    BY <2>4, <2>5 DEF Values, Alike, Members, Others
  <2> HIDE DEF q
  <2> QED BY <1>5, <2>1, <2>4, <2>5, <2>6
<1>8. CASE ReceiveUnverified(s, f)
  <2> DEFINE q == [r EXCEPT !.MICVerified = FALSE]
  <2>1. sm' = [sm EXCEPT ![s] = q]
    BY <1>8 DEF ReceiveUnverified
  <2>2. Alike(q, r, {"MICVerified"})
    BY <1>2 DEF Alike, Members
  <2> HIDE DEF q, r
  <2>3. Values(q) /\ q.req = r.req /\ Alike(q, r, Others)
    BY <1>2, <2>2 DEF Values, Alike, Members, Others, Answers
  <2> QED BY <1>5, <2>1, <2>3
<1> QED BY <1>6, <1>7, <1>8 DEF Receive

LEMMA MalformedTyped ==
    ASSUME AuthInv, TypeInv, NEW s \in Stations, NEW f, ReceiveMalformed(s, f)
    PROVE  TypeInv'
<1> DEFINE r == sm[s]
           q == Updating(r, f)
<1>1. /\ at = "rest" /\ ~Stepping /\ sm' = [sm EXCEPT ![s] = q]
      /\ group' = group /\ anonces' = anonces /\ cur' = cur /\ then' = then
  BY DEF ReceiveMalformed, Stepping
<1>2. Has(r, Members) /\ Values(r) /\ r.req \subseteq {"Disconnect"} /\ then = Nothing
  BY <1>1, RestingTypes, AtRest
<1>3. Alike(q, r, {"update_snonce", "alt_SNonce", "alt_replay_counter"})
  BY <1>2, UpdatingKeeps
<1>4. ~Starting'
  BY <1>1, <1>2 DEF Starting, Nothing
<1> HIDE DEF r, q
<1>5. Values(q) /\ q.req = r.req /\ Alike(q, r, Touches)
  BY <1>2, <1>3 DEF Values, Alike, Members, Touches, Others, Answers
<1>6. q.req \cap {"Auth", "ReAuth", "PTK"} = {}
  BY <1>2, <1>5
<1> QED BY <1>1, <1>4, <1>5, <1>6, TouchTyped DEF r, TypeInv

LEMMA MovesTyped ==
    ASSUME AuthInv, TypeInv, [Next]_vars
    PROVE  TypeInv'
<1>1. ASSUME NEW s \in Stations, PtkStep(s) \/ GroupStep(s) PROVE TypeInv'
  BY <1>1, TurnsTyped
<1>2. CASE SetKeysDone \/ UpdateNext \/ Return
  BY <1>2, SetKeysDoneTyped, UpdateTyped, ReturnTyped
<1>3. CASE SetKeys \/ GroupSmStay \/ UpdateEnd \/ RekeyGtk \/ Idle \/ UNCHANGED vars
  BY <1>3, OthersTyped DEF Idle
<1>4. ASSUME NEW s \in Stations, Remove(s) PROVE TypeInv'
  <2>1. at = "rest" /\ ~Stepping /\ Free(s) /\ anonces' = anonces /\ cur' = cur /\ then' = then
    BY <1>4 DEF Remove, Stepping
  <2> QED BY <2>1, AtRest, FreeTyped DEF TypeInv
<1>5. ASSUME NEW s \in Stations,
             \/ Associate(s) \/ Disassociate(s) \/ RekeyPtk(s) \/ WnmSleep(s) \/ WnmWake(s)
             \/ Timeout(s) \/ \E f \in Frames(sm[s]) : Receive(s, f) \/ ReceiveMalformed(s, f)
      PROVE  TypeInv'
  BY <1>5, HandlersTyped, ReceiveTyped, MalformedTyped, FramesReply
<1> QED BY <1>1, <1>2, <1>3, <1>4, <1>5 DEF Next, Step, Handler

\* The values of the authenticator's variables.  The retry counters TimeoutCtr and
\* GTimeoutCtr go at most one beyond their limits: after each frame too many WPA_PTK and
\* WPA_PTK_GROUP give up before anything else happens to the station.  A counter that an
\* answer is accepted with is one of a frame that was sent.
THEOREM AuthTypes == Spec => []TypeOK
<1>1. Init => TypeInv
  <2> SUFFICES ASSUME Init PROVE TypeInv
    OBVIOUS
  <2>1. \A s \in Stations : sm[s] = NewSm
    BY DEF Init
  <2>2. group.GTK = 1 /\ anonces = 0 /\ cur = None /\ then = Nothing
    BY DEF Init
  <2>3. Conf(group.conf)
    BY ConfIs, InitHolds DEF AuthInv
  <2>4. ~Starting
    BY <2>2 DEF Starting, Nothing
  <2>5. ASSUME NEW s \in Stations PROVE TypeRules(s)
    <3>1. Values(NewSm) /\ Retries(group.conf, NewSm) /\ Limited(group.conf, NewSm) /\ ~Asking(NewSm)
      BY <2>3 DEF NewSm, Values, Retries, Limited, Asking, Conf
    <3> QED BY <2>1, <3>1 DEF TypeRules, Affords
  <2> QED BY <2>2, <2>4, <2>5, WpaAuthAssumption DEF TypeInv
<1>2. AuthInv /\ TypeInv /\ [Next]_vars => TypeInv'
  BY MovesTyped
<1>3. AuthInv /\ TypeInv => TypeOK
  <2> SUFFICES ASSUME AuthInv, TypeInv PROVE TypeOK
    OBVIOUS
  <2>1. /\ at \in {"rest", "ptk", "group", "gsm", "rekey", "update", "return"}
        /\ todo \subseteq Stations
    BY DEF AuthInv, Shape, Control
  <2> QED BY <2>1 DEF TypeInv, TypeRules, Values, Retries, TypeOK, wpa_pairwise_update_count,
             wpa_group_update_count
<1> QED BY <1>1, <1>2, <1>3, AuthInvariant, PTL DEF Spec
=============================================================================
