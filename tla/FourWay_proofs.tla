--------------------------- MODULE FourWay_proofs ---------------------------
(***************************************************************************)
(* Authenticator and supplicant together, for any number of nonces, group  *)
(* keys, retries and frames and any configuration: they agree on the PTK,  *)
(* the supplicant completes only with its PTK installed, the handshake     *)
(* implements KeyAgreement, and a group key that has come into use is      *)
(* shared.                                                                 *)
(*                                                                         *)
(* The argument is about three sets of keys: those that the supplicant has *)
(* tried in a 2/4, those that it has confirmed in a 4/4, and those that    *)
(* the authenticator has installed; each is part of the one before.  Two   *)
(* clocks order them: the ANonces drawn and the SNonces drawn.  A key that *)
(* is confirmed has the last SNonce and uses it up, and a key that is      *)
(* installed has the last ANonce, so that a key from elsewhere, in a frame *)
(* that was delayed or repeated, is too old on one side or on the other.   *)
(*                                                                         *)
(* For the group key a third clock counts, the replay counter of an        *)
(* association: the counters that the authenticator still accepts an       *)
(* answer with are above those of the frames with an outdated group key,   *)
(* and the supplicant answers in their order, so that an answer shows it   *)
(* to be past these frames.                                                *)
(***************************************************************************)
EXTENDS FourWay, WpaAuth_proofs

-----------------------------------------------------------------------------
(* The authenticator's side                                                 *)

Handshaking == {"PTKSTART", "PTKCALCNEGOTIATING", "PTKCALCNEGOTIATING2", "PTKINITNEGOTIATING"}

\* The ANonce is the last one drawn, and no request but one to disconnect will have
\* another drawn.
Drawn(r) ==
    \/ r.wpa_ptk_state \in Handshaking \cup {"INITPSK", "PTKINITDONE"}
    \/ r.wpa_ptk_state = "AUTHENTICATION2" /\ "Disconnect" \notin r.req
Live(r) == Drawn(r) /\ r.req \subseteq {"Disconnect"}

\* An association request is being handled, and the station is yet to be told.
Leaving == then[1] \in {"associated", "reauth"}

\* A handler has at most one ANonce drawn, and starts only if there is one.
Budget(r) ==
    /\ anonces \in 0..MaxANonce
    /\ "ReAuth" \in r.req => "PTK" \notin r.req
    /\ Asking(r) => ~Starting
    /\ Asking(r) \/ Starting => anonces < MaxANonce

\* The keys of which the supplicant has sent a 2/4.
TriedKeys == {g.mic : g \in {g \in up : g.type = "2/4"}}

ApKeys(r) ==
    /\ r.ctr \in Nat
    /\ r.ANonce \in 0..anonces
    /\ Drawn(r) => r.ANonce = anonces /\ anonces > 0
    /\ r.PTK # NoKey => r.PTK \in TriedKeys /\ r.PTK[1] = r.ANonce
    /\ r.PTK # NoKey /\ r.wpa_ptk_state \notin Handshaking => r.PTK \in ConfirmedKeys
    /\ "Deauth" \in r.req => r.PTK = NoKey
    /\ r.rx # NoKey => r.rx.mic \in TriedKeys /\ (r.rx.type = "4/4" => r.rx.mic \in ConfirmedKeys)

\* What the authenticator has installed is older than the key that it negotiates.
ApInstalled(r) ==
    /\ taken \subseteq ConfirmedKeys
    /\ r.tk # NoKey => r.tk \in taken
    /\ Drawn(r) /\ r.wpa_ptk_state # "PTKINITDONE" => \A j \in taken : j[1] < anonces
    /\ r.wpa_ptk_state = "PTKINITDONE" /\ Live(r) /\ ~Leaving => r.tk # NoKey /\ r.tk[1] = anonces

-----------------------------------------------------------------------------
(* The frames                                                               *)

FramesSent ==
    /\ \A f \in down :
        /\ f.type \in {"1/4", "3/4", "1/2"}
        /\ f.ctr \in Nat \ {0}
        /\ f.type = "1/4" => f.nonce \in 1..anonces
        /\ f.type = "3/4" => f.mic \in TriedKeys /\ f.nonce = f.mic[1]
        /\ f.type = "1/2" => f.mic \in ConfirmedKeys
    /\ \A g \in up : g.type \in {"2/4", "4/4", "2/2"} /\ g.mic \in TriedKeys
    /\ TriedKeys \subseteq (1..anonces) \X (1..snonce)
    /\ \A k \in ConfirmedKeys : \E f \in down : f.type = "3/4" /\ f.mic = k

\* A 3/4 never has a later SNonce than a 2/4 for a later ANonce.
InOrderOfNonces ==
    \A f \in down, k \in TriedKeys :
        f.type = "3/4" /\ f.mic[1] < k[1] => f.mic[2] <= k[2]

-----------------------------------------------------------------------------
(* The supplicant's side                                                    *)

StaKeys ==
    /\ snonce \in 0..MaxSNonce
    /\ renew_snonce \in BOOLEAN /\ (snonce = 0 => renew_snonce)
    /\ rx_replay_counter \in Nat
    /\ ptks \in Seq(PTKs)
    /\ tptk # NoKey => tptk \in TriedKeys /\ tptk[2] = snonce
    /\ \A k \in ConfirmedKeys : k[2] = snonce => renew_snonce /\ tptk = NoKey
    /\ ptk # NoKey => /\ ptk \in ConfirmedKeys
                      /\ installed /\ msg_3_of_4_ok
                      /\ \A k \in ConfirmedKeys : k[2] < ptk[2] \/ k = ptk
    /\ wpa_state = "COMPLETED" \/ gtk # NoKey => ptk # NoKey
    /\ air # "none" => wpa_state \in {"ASSOCIATING", "DISCONNECTED"}

\* One key is confirmed for an ANonce, if no 1/4 comes after a 3/4: in the association in
\* which it was, no 1/4 with that ANonce is accepted any more; and the next association
\* begins with another ANonce.
OneKey ==
    Live(sm[sta]) =>
        /\ S!Associated => \A k \in ConfirmedKeys :
               k[1] = anonces => \E g \in down : /\ g.type = "3/4" /\ g.nonce = anonces
                                                 /\ g.ctr <= rx_replay_counter
        /\ air = "response" /\ ~Leaving => \A k \in ConfirmedKeys : k[1] < anonces
        /\ ~Restarted => \A k \in ConfirmedKeys : k[1] = anonces =>
               /\ tptk # NoKey => tptk[1] # anonces
               /\ \A j \in ConfirmedKeys : j[1] = anonces => j = k

WorldInv ==
    /\ AuthInv /\ Fresh
    /\ Budget(sm[sta]) /\ ApKeys(sm[sta]) /\ ApInstalled(sm[sta])
    /\ FramesSent /\ InOrderOfNonces
    /\ StaKeys
    /\ OneKey

-----------------------------------------------------------------------------
(* What a step of the authenticator does to its station, with record r      *)
(* before it and q after it                                                 *)

\* An ANonce is drawn, or the one there is stands.
Draws(r, q) ==
    /\ anonces' = anonces + 1
    /\ q.ANonce = anonces + 1
    /\ q.wpa_ptk_state \in {"AUTHENTICATION2", "PTKSTART"}
    /\ q.PTK = NoKey
    /\ q.tk = r.tk
    /\ Asking(r) /\ ~Asking(q) /\ then' = then

Stands(r, q) ==
    /\ anonces' = anonces
    /\ q.ANonce = r.ANonce \/ (q.ANonce = 0 /\ q.PTK = NoKey)
    /\ Drawn(q) => /\ Drawn(r) /\ q.ANonce = r.ANonce
                   /\ r.wpa_ptk_state = "PTKINITDONE" => q.wpa_ptk_state = "PTKINITDONE"
    /\ Live(q) => Live(r) /\ (Leaving => Leaving')

\* The PTK is kept, or comes from a 2/4 or a 4/4.
PtkFrom(r, q) ==
    \/ q.PTK = NoKey
    \/ /\ q.PTK = r.PTK /\ q.ANonce = r.ANonce
       /\ "Deauth" \in q.req => "Deauth" \in r.req
       /\ \/ q.wpa_ptk_state \in Handshaking \/ r.wpa_ptk_state \notin Handshaking
          \/ Confirmed(r) \/ "Deauth" \in r.req
    \/ /\ q.PTK \in TriedKeys /\ q.PTK[1] = q.ANonce
       /\ q.wpa_ptk_state \in Handshaking /\ "Deauth" \notin q.req

RxFrom(r, q) == q.rx \in {NoKey, r.rx} \/ \E f \in up : q.rx = [type |-> f.type, mic |-> f.mic]

\* The key of the driver is kept, or removed when the station goes, or is the PTK that
\* was confirmed.
TkFrom(r, q) ==
    \/ /\ q.tk \in {r.tk, NoKey}
       /\ q.wpa_ptk_state = "PTKINITDONE" /\ Live(q) /\ ~Leaving' =>
              q.tk = r.tk /\ r.wpa_ptk_state = "PTKINITDONE" /\ ~Leaving
    \/ /\ r.wpa_ptk_state = "PTKINITNEGOTIATING" /\ q.wpa_ptk_state = "PTKINITDONE"
       /\ Confirmed(r) /\ q.tk = r.PTK

Sent(r, q) ==
    \/ out' = NoKey
    \/ /\ out'.ctr = r.ctr + 1
       /\ \/ out'.type = "1/4" /\ Drawn(q) /\ out'.nonce = q.ANonce
          \/ /\ out'.type = "3/4" /\ r.wpa_ptk_state \in Handshaking
             /\ r.PTK # NoKey /\ out'.mic = r.PTK /\ out'.nonce = r.ANonce
          \/ /\ out'.type = "1/2" /\ r.wpa_ptk_state \notin Handshaking
             /\ r.PTK # NoKey /\ out'.mic = r.PTK

ApTurn(r, q) ==
    /\ Draws(r, q) \/ Stands(r, q)
    /\ PtkFrom(r, q)
    /\ RxFrom(r, q)
    /\ TkFrom(r, q)
    /\ Sent(r, q)
    /\ q.ctr \in {0, r.ctr, r.ctr + 1}

\* No ANonce is drawn, and no request for one is added.
AsksNoMore(r, q) ==
    /\ anonces' = anonces
    /\ then' = then \/ ~Starting'
    /\ q.req \cap {"Auth", "ReAuth", "PTK"} \subseteq r.req
    /\ q.wpa_ptk_state = "AUTHENTICATION" => Asking(r)

\* WPA_PTK stays where it is, and nothing is sent.
LEMMA Unmoved ==
    ASSUME NEW r, NEW q,
           q.wpa_ptk_state = r.wpa_ptk_state, q.ANonce = r.ANonce,
           q.PTK \in {r.PTK, NoKey}, q.tk \in {r.tk, NoKey}, q.rx \in {r.rx, NoKey},
           q.ctr \in {r.ctr, 0},
           r.req \ {"Init"} \subseteq q.req, "Init" \in r.req => q.req \cap {"Init", "Auth"} # {},
           "Deauth" \in q.req => "Deauth" \in r.req \/ q.PTK = NoKey,
           anonces' = anonces, out' = NoKey,
           Live(q) /\ ~Leaving' => q.tk = r.tk /\ ~Leaving
    PROVE  ApTurn(r, q)
<1>1. Stands(r, q)
  BY DEF Stands, Drawn, Live, Handshaking
<1>2. PtkFrom(r, q)
  BY DEF PtkFrom
<1> QED BY <1>1, <1>2 DEF ApTurn, RxFrom, TkFrom, Sent

\* WPA_PTK leaves the handshake, and nothing is sent.
LEMMA Departed ==
    ASSUME NEW r, NEW q, ~Drawn(q),
           q.ANonce = r.ANonce \/ (q.ANonce = 0 /\ q.PTK = NoKey),
           q.PTK \in {r.PTK, NoKey},
           q.PTK # NoKey => /\ "Deauth" \in q.req => "Deauth" \in r.req
                            /\ r.wpa_ptk_state \notin Handshaking \/ "Deauth" \in r.req,
           q.tk \in {r.tk, NoKey}, q.rx \in {r.rx, NoKey}, q.ctr \in {r.ctr, 0},
           anonces' = anonces, out' = NoKey
    PROVE  ApTurn(r, q)
<1>1. Stands(r, q)
  BY DEF Stands, Live
<1>2. PtkFrom(r, q)
  BY DEF PtkFrom
<1>3. TkFrom(r, q)
  BY DEF TkFrom, Live
<1> QED BY <1>1, <1>2, <1>3 DEF ApTurn, RxFrom, Sent

USE DEF Has

LEMMA BeforePtk ==
    ASSUME AuthInv, PtkStep(sta)
    PROVE  /\ sta \in Stations /\ Shape /\ PtkBefore(sm[sta]) /\ Has(sm[sta], Members)
           /\ then' = then /\ Leaving' = Leaving
<1>1. sta \in Stations /\ Shape
  BY FourWayAssumption DEF AuthInv
<1>2. at = "ptk" /\ cur = sta /\ then' = then
  BY <1>1, PtkMoves DEF Kept
<1> QED BY <1>1, <1>2 DEF AuthInv, Shape, StationRules, Active, Stepping, PtkBefore, Leaving

LEMMA InitializeTurns ==
    ASSUME AuthInv, PtkInitialize(sta)
    PROVE  ApTurn(sm[sta], sm'[sta])
<1> DEFINE r == sm[sta]
           q == sm'[sta]
<1>1. Shape /\ sta \in Stations /\ Has(r, Members)
  BY BeforePtk DEF PtkStep
<1>2. /\ q = [RemovePtk(r) EXCEPT !.wpa_ptk_state = "INITIALIZE", !.GUpdateStationKeys = FALSE,
                                  !.TimeoutCtr = 0]
      /\ out' = NoKey /\ anonces' = anonces
  BY <1>1 DEF Shape, PtkInitialize, Turn
<1> HIDE DEF r, q
<1>3. /\ q.wpa_ptk_state = "INITIALIZE" /\ q.ANonce = r.ANonce /\ q.PTK = NoKey
      /\ q.tk = NoKey /\ q.rx = r.rx /\ q.ctr = r.ctr
  BY <1>1, <1>2 DEF RemovePtk, Members
<1>4. ~Drawn(q)
  BY <1>3 DEF Drawn, Handshaking
<1> QED BY <1>2, <1>3, <1>4, Departed DEF r, q

LEMMA DisconnectTurns ==
    ASSUME AuthInv, PtkDisconnect(sta) \/ PtkDisconnected(sta)
    PROVE  ApTurn(sm[sta], sm'[sta])
<1> DEFINE r == sm[sta]
           q == sm'[sta]
           p == [r EXCEPT !.req = @ \ {"Disconnect"}, !.wpa_ptk_state = "DISCONNECT"]
<1>1. Shape /\ sta \in Stations /\ Has(r, Members)
  BY BeforePtk DEF PtkStep
<1>2. /\ \/ q = StaDisconnect(p)
         \/ /\ q = [r EXCEPT !.req = @ \ {"Deauth"}, !.wpa_ptk_state = "DISCONNECTED"]
            /\ Due(r, "Deauth") \/ InState(r, "DISCONNECT")
      /\ out' = NoKey /\ anonces' = anonces
  BY <1>1 DEF Shape, PtkDisconnect, PtkDisconnected, EnterPtk, Turn
<1> HIDE DEF r, q
<1>3. Alike(p, r, {"req", "wpa_ptk_state"}) /\ p.wpa_ptk_state = "DISCONNECT"
  BY <1>1 DEF Alike, Members
<1> HIDE DEF p
<1>4. CASE q = StaDisconnect(p)
  <2>1. q.tk = NoKey
    BY <1>3, <1>4 DEF StaDisconnect, Deauth, RemovePtk, Alike, Members
  <2>2. /\ q.wpa_ptk_state = "DISCONNECT" /\ q.ANonce = r.ANonce /\ q.PTK = NoKey
        /\ q.rx = r.rx /\ q.ctr = r.ctr
    BY <1>3, <1>4, DisconnectKeeps DEF Alike, Members
  <2>3. ~Drawn(q)
    BY <2>2 DEF Drawn, Handshaking
  <2> QED BY <1>2, <2>1, <2>2, <2>3, Departed DEF r, q
<1>5. CASE /\ q = [r EXCEPT !.req = @ \ {"Deauth"}, !.wpa_ptk_state = "DISCONNECTED"]
           /\ Due(r, "Deauth") \/ InState(r, "DISCONNECT")
  <2>1. /\ q.wpa_ptk_state = "DISCONNECTED" /\ q.ANonce = r.ANonce /\ q.PTK = r.PTK /\ q.tk = r.tk
        /\ q.rx = r.rx /\ q.ctr = r.ctr /\ q.req = r.req \ {"Deauth"}
    BY <1>1, <1>5 DEF Members
  <2>2. ~Drawn(q)
    BY <2>1 DEF Drawn, Handshaking
  <2>3. r.wpa_ptk_state \notin Handshaking \/ "Deauth" \in r.req
    BY <1>5 DEF Due, InState, Handshaking
  <2> QED BY <1>2, <2>1, <2>2, <2>3, Departed DEF r, q
<1> QED BY <1>2, <1>4, <1>5

LEMMA AuthenticationTurns ==
    ASSUME AuthInv, PtkAuthentication(sta)
    PROVE  ApTurn(sm[sta], sm'[sta])
<1> DEFINE r == sm[sta]
           q == sm'[sta]
<1>1. Shape /\ sta \in Stations /\ Has(r, Members)
  BY BeforePtk DEF PtkStep
<1>2. /\ q = [r EXCEPT !.req = @ \ {"Auth"}, !.wpa_ptk_state = "AUTHENTICATION", !.PTK = NoKey]
      /\ out' = NoKey /\ anonces' = anonces
  BY <1>1 DEF Shape, PtkAuthentication, EnterPtk, Turn
<1> HIDE DEF r, q
<1>3. /\ q.wpa_ptk_state = "AUTHENTICATION" /\ q.ANonce = r.ANonce /\ q.PTK = NoKey
      /\ q.tk = r.tk /\ q.rx = r.rx /\ q.ctr = r.ctr
  BY <1>1, <1>2 DEF Members
<1>4. ~Drawn(q)
  BY <1>3 DEF Drawn, Handshaking
<1> QED BY <1>2, <1>3, <1>4, Departed DEF r, q

\* A new ANonce is drawn, or that fails.
LEMMA Authentication2Turns ==
    ASSUME AuthInv, Budget(sm[sta]), PtkAuthentication2(sta)
    PROVE  ApTurn(sm[sta], sm'[sta])
<1> DEFINE r == sm[sta]
           q == sm'[sta]
           p == [r EXCEPT !.req = @ \ {"ReAuth"}, !.wpa_ptk_state = "AUTHENTICATION2"]
<1>1. Shape /\ sta \in Stations /\ Has(r, Members) /\ KeyRules(r) /\ then' = then
  BY BeforePtk DEF PtkStep, PtkBefore
<1>2. /\ \/ q = [p EXCEPT !.ANonce = anonces + 1, !.TimeoutCtr = 0] /\ anonces' = anonces + 1
         \/ q = [p EXCEPT !.req = @ \cup {"Disconnect"}] /\ anonces' = anonces
      /\ out' = NoKey
      /\ Due(r, "ReAuth") \/ InState(r, "AUTHENTICATION")
  BY <1>1 DEF Shape, PtkAuthentication2, EnterPtk, Turn
<1>3. r.req \cap {"Auth", "PTK"} = {} /\ Asking(r) /\ r.PTK = NoKey
  BY <1>1, <1>2 DEF Due, Ahead, InState, Budget, Asking, KeyRules
<1> HIDE DEF r, q
<1>4. /\ Alike(p, r, {"req", "wpa_ptk_state"}) /\ p.wpa_ptk_state = "AUTHENTICATION2"
      /\ p.req = r.req \ {"ReAuth"}
  BY <1>1 DEF Alike, Members
<1> HIDE DEF p
<1>5. CASE q = [p EXCEPT !.ANonce = anonces + 1, !.TimeoutCtr = 0] /\ anonces' = anonces + 1
  <2>1. /\ q.wpa_ptk_state = "AUTHENTICATION2" /\ q.ANonce = anonces + 1 /\ q.PTK = NoKey
        /\ q.tk = r.tk /\ q.rx = r.rx /\ q.ctr = r.ctr /\ q.req = r.req \ {"ReAuth"}
    BY <1>3, <1>4, <1>5 DEF Alike, Members
  <2>2. ~Asking(q)
    BY <1>3, <2>1 DEF Asking
  <2>3. Draws(r, q)
    BY <1>1, <1>3, <1>5, <2>1, <2>2 DEF Draws
  <2>4. ApTurn(r, q)
    BY <1>2, <2>1, <2>3 DEF ApTurn, PtkFrom, RxFrom, TkFrom, Sent
  <2> QED BY <2>4 DEF r, q
<1>6. CASE q = [p EXCEPT !.req = @ \cup {"Disconnect"}] /\ anonces' = anonces
  <2>1. /\ q.wpa_ptk_state = "AUTHENTICATION2" /\ q.ANonce = r.ANonce /\ q.PTK = NoKey
        /\ q.tk = r.tk /\ q.rx = r.rx /\ q.ctr = r.ctr /\ "Disconnect" \in q.req
    BY <1>3, <1>4, <1>6 DEF Alike, Members
  <2>2. ~Drawn(q)
    BY <2>1 DEF Drawn, Handshaking
  <2> QED BY <1>2, <1>6, <2>1, <2>2, Departed DEF r, q
<1> QED BY <1>2, <1>5, <1>6

\* PTKSTART of a station with record p: 1/4 is sent, or no longer.
LEMMA StartSends ==
    ASSUME Shape, sta \in Stations, NEW p, Has(p, Members), p.ctr \in Nat, EnterPtkStart(sta, p)
    PROVE  LET q == sm'[sta] IN
           /\ q.wpa_ptk_state = "PTKSTART" /\ q.ANonce = p.ANonce /\ q.PTK = p.PTK
           /\ q.tk = p.tk /\ q.rx = p.rx /\ q.req = p.req \ {"PTK"}
           /\ q.ctr \in {p.ctr, p.ctr + 1}
           /\ \/ out' = NoKey
              \/ out'.type = "1/4" /\ out'.ctr = p.ctr + 1 /\ out'.nonce = p.ANonce
<1> DEFINE q == sm'[sta]
           o == [p EXCEPT !.wpa_ptk_state = "PTKSTART", !.req = @ \ {"PTK"}, !.TimeoutEvt = FALSE,
                          !.alt_SNonce = NoKey, !.TimeoutCtr = @ + 1]
           t == SendEapol(o)
<1>1. \/ q = o /\ out' = NoKey
      \/ q = t /\ out' = Frame(sta, t, "1/4")
  BY DEF Shape, EnterPtkStart, EnterPtk, Turn
<1> HIDE DEF q
<1>2. /\ Alike(o, p, {"wpa_ptk_state", "req", "TimeoutEvt", "alt_SNonce", "TimeoutCtr"})
      /\ o.wpa_ptk_state = "PTKSTART" /\ o.req = p.req \ {"PTK"}
  BY DEF Alike, Members
<1> HIDE DEF o
<1>3. Alike(t, o, {"ctr", "key_replay", "timers"}) /\ t.ctr = o.ctr + 1
  BY <1>2, SendKeeps DEF SendEapol, Alike, Members
<1> HIDE DEF t
<1>4. LET f == Frame(sta, t, "1/4") IN f.type = "1/4" /\ f.ctr = t.ctr /\ f.nonce = t.ANonce
  BY DEF Frame
<1>5. /\ o.ANonce = p.ANonce /\ o.PTK = p.PTK /\ o.tk = p.tk /\ o.rx = p.rx /\ o.ctr = p.ctr
      /\ t.ANonce = p.ANonce /\ t.PTK = p.PTK /\ t.tk = p.tk /\ t.rx = p.rx /\ t.ctr = p.ctr + 1
      /\ t.wpa_ptk_state = "PTKSTART" /\ t.req = p.req \ {"PTK"}
  BY <1>2, <1>3 DEF Alike, Members
<1> QED BY <1>1, <1>2, <1>4, <1>5 DEF q

LEMMA StartTurns ==
    ASSUME AuthInv, ApKeys(sm[sta]), PtkInitPsk(sta) \/ PtkStart(sta)
    PROVE  ApTurn(sm[sta], sm'[sta])
<1> DEFINE r == sm[sta]
           q == sm'[sta]
<1>1. Shape /\ sta \in Stations /\ Has(r, Members) /\ r.ctr \in Nat /\ Leaving' = Leaving
  BY BeforePtk DEF PtkStep, ApKeys
<1>2. /\ q.wpa_ptk_state \in {"INITPSK", "PTKSTART"} /\ q.ANonce = r.ANonce /\ q.PTK = r.PTK
      /\ q.tk = r.tk /\ q.rx = r.rx /\ r.req = {} /\ q.req = {}
      /\ q.ctr \in {r.ctr, r.ctr + 1} /\ anonces' = anonces
      /\ \/ out' = NoKey
         \/ out'.type = "1/4" /\ out'.ctr = r.ctr + 1 /\ out'.nonce = r.ANonce
      /\ r.wpa_ptk_state \in {"AUTHENTICATION2", "INITPSK", "PTKSTART", "PTKCALCNEGOTIATING"}
      /\ q.wpa_ptk_state = "INITPSK" => r.wpa_ptk_state = "AUTHENTICATION2"
  <2>1. CASE PtkInitPsk(sta)
    <3>1. /\ q = [r EXCEPT !.wpa_ptk_state = "INITPSK", !.req_replay_counter = 0]
          /\ InState(r, "AUTHENTICATION2") /\ out' = NoKey /\ anonces' = anonces
      BY <1>1, <2>1 DEF Shape, PtkInitPsk, EnterPtk, Turn
    <3> HIDE DEF r, q
    <3> QED BY <1>1, <3>1 DEF Members, InState
  <2>2. CASE PtkStart(sta)
    <3>1. /\ InState(r, "INITPSK") \/ InState(r, "PTKSTART") \/ InState(r, "PTKCALCNEGOTIATING")
          /\ EnterPtkStart(sta, r) /\ anonces' = anonces
      BY <2>2 DEF PtkStart
    <3>2. r.req = {} /\ r.wpa_ptk_state \in {"INITPSK", "PTKSTART", "PTKCALCNEGOTIATING"}
      BY <3>1 DEF InState
    <3> QED BY <1>1, <3>1, <3>2, StartSends
  <2> QED BY <2>1, <2>2
<1> HIDE DEF r, q
<1>3. Live(r) /\ Drawn(r) /\ Drawn(q)
  BY <1>2 DEF Live, Drawn, Handshaking
<1>4. Stands(r, q)
  BY <1>1, <1>2, <1>3 DEF Stands
<1>5. PtkFrom(r, q)
  <2>1. r.wpa_ptk_state = "AUTHENTICATION2" => r.wpa_ptk_state \notin Handshaking
    BY DEF Handshaking
  <2>2. q.wpa_ptk_state = "PTKSTART" => q.wpa_ptk_state \in Handshaking
    BY DEF Handshaking
  <2> QED BY <1>2, <2>1, <2>2 DEF PtkFrom
<1>6. ApTurn(r, q)
  BY <1>2, <1>3, <1>4, <1>5 DEF ApTurn, RxFrom, TkFrom, Sent
<1> QED BY <1>6 DEF r, q

LEMMA UpdateTurns ==
    ASSUME AuthInv, Budget(sm[sta]), ApKeys(sm[sta]), PtkUpdate(sta)
    PROVE  ApTurn(sm[sta], sm'[sta])
<1> DEFINE r == sm[sta]
           q == sm'[sta]
           p == [r EXCEPT !.ANonce = anonces + 1, !.TimeoutCtr = 0]
           d == [r EXCEPT !.req = (@ \cup {"Disconnect"}) \ {"Deauth"},
                          !.wpa_ptk_state = "DISCONNECTED"]
<1>1. Shape /\ sta \in Stations /\ Has(r, Members) /\ r.ctr \in Nat /\ then' = then /\ KeyRules(r)
  BY BeforePtk DEF PtkStep, ApKeys, PtkBefore
<1>2. Due(r, "PTK") /\ Asking(r) /\ r.PTK = NoKey /\ r.req \cap {"Auth", "ReAuth"} = {}
  BY <1>1 DEF PtkUpdate, Due, Ahead, Asking, KeyRules
<1>3. CASE anonces' = anonces + 1 /\ EnterPtkStart(sta, p)
  <2>1. /\ Has(p, Members) /\ p.ANonce = anonces + 1 /\ p.PTK = NoKey /\ p.tk = r.tk /\ p.rx = r.rx
        /\ p.req = r.req /\ p.ctr = r.ctr
    BY <1>1, <1>2 DEF Members
  <2> HIDE DEF p
  <2>2. /\ q.wpa_ptk_state = "PTKSTART" /\ q.ANonce = anonces + 1 /\ q.PTK = NoKey
        /\ q.tk = r.tk /\ q.rx = r.rx /\ q.req = r.req \ {"PTK"}
        /\ q.ctr \in {r.ctr, r.ctr + 1}
        /\ \/ out' = NoKey
           \/ out'.type = "1/4" /\ out'.ctr = r.ctr + 1 /\ out'.nonce = q.ANonce
    BY <1>1, <1>3, <2>1, StartSends
  <2> HIDE DEF r, q
  <2>3. Draws(r, q)
    BY <1>1, <1>2, <1>3, <2>2 DEF Draws, Asking
  <2>4. Drawn(q)
    BY <2>2 DEF Drawn, Handshaking
  <2>5. ApTurn(r, q)
    BY <1>2, <2>2, <2>3, <2>4 DEF ApTurn, PtkFrom, RxFrom, TkFrom, Sent
  <2> QED BY <2>5 DEF r, q
<1>4. CASE anonces' = anonces /\ EnterPtk(sta, d, NoKey)
  <2>1. q = d /\ out' = NoKey
    BY <1>1, <1>4 DEF Shape, EnterPtk, Turn
  <2> HIDE DEF r, q
  <2>2. /\ q.wpa_ptk_state = "DISCONNECTED" /\ q.ANonce = r.ANonce /\ q.PTK = NoKey
        /\ q.tk = r.tk /\ q.rx = r.rx /\ q.ctr = r.ctr
    BY <1>1, <1>2, <2>1 DEF Members
  <2>3. ~Drawn(q)
    BY <2>2 DEF Drawn, Handshaking
  <2> QED BY <1>4, <2>1, <2>2, <2>3, Departed DEF r, q
<1> QED BY <1>3, <1>4 DEF PtkUpdate

\* WPA_PTK goes on in the handshake, and keeps the ANonce.
LEMMA Continued ==
    ASSUME NEW r, NEW q, r.req = {}, r.wpa_ptk_state \in Handshaking,
           q.wpa_ptk_state \in Handshaking \cup {"PTKINITDONE"}, q.ANonce = r.ANonce,
           anonces' = anonces, Leaving' = Leaving
    PROVE  Stands(r, q)
<1>1. r.wpa_ptk_state # "PTKINITDONE" /\ Drawn(r) /\ Live(r)
  BY DEF Handshaking, Drawn, Live
<1> QED BY <1>1 DEF Stands

\* The PTK is calculated only with a frame received, which is the last one.
LEMMA CalcReceived ==
    ASSUME AuthInv, PtkCalcNegotiating(sta)
    PROVE  PairwiseReceived(sm[sta]) /\ sm[sta].last = sm[sta].rx
<1>1. PtkBefore(sm[sta])
  BY BeforePtk DEF PtkStep
<1>2. PairwiseReceived(sm[sta])
  BY <1>1, FourWayAssumption DEF PtkCalcNegotiating, InState, PtkBefore, AtPtk, Updates
<1> QED BY <1>1, <1>2 DEF PtkBefore, KeyRules, PairwiseReceived, Received

\* The PTK of a 2/4 that it verifies is taken.
LEMMA CalcNegotiatingTurns ==
    ASSUME AuthInv, ApKeys(sm[sta]), PtkCalcNegotiating(sta)
    PROVE  ApTurn(sm[sta], sm'[sta])
<1> DEFINE r == sm[sta]
           q == sm'[sta]
           p == [r EXCEPT !.wpa_ptk_state = "PTKCALCNEGOTIATING", !.rx = NoKey,
                          !.update_snonce = FALSE]
<1>1. Shape /\ sta \in Stations /\ Has(r, Members) /\ Leaving' = Leaving
  BY BeforePtk DEF PtkStep
<1>2. /\ anonces' = anonces /\ out' = NoKey
      /\ r.req = {} /\ r.wpa_ptk_state \in Handshaking
      /\ \/ /\ q = [p EXCEPT !.timers = 0, !.MICVerified = TRUE, !.PTK = <<p.ANonce, p.SNonce>>]
            /\ p.last # NoKey /\ p.last.mic = <<p.ANonce, p.SNonce>>
         \/ q = StaDisconnect(p)
         \/ q = p
  BY <1>1 DEF Shape, PtkCalcNegotiating, EnterPtk, Turn, InState, Handshaking
<1>3. p.last # NoKey => p.last.mic \in TriedKeys
  BY <1>1, CalcReceived DEF ApKeys, Members
<1> HIDE DEF r, q
<1>4. /\ Alike(p, r, {"wpa_ptk_state", "rx", "update_snonce"})
      /\ p.wpa_ptk_state = "PTKCALCNEGOTIATING" /\ p.rx = NoKey
  BY <1>1 DEF Alike, Members
<1> HIDE DEF p
<1>5. /\ q.wpa_ptk_state = "PTKCALCNEGOTIATING" /\ q.ANonce = r.ANonce
      /\ q.rx = NoKey /\ q.ctr = r.ctr /\ q.tk \in {r.tk, NoKey}
      /\ q.PTK \in {NoKey, r.PTK} \/ (q.PTK \in TriedKeys /\ q.PTK[1] = q.ANonce)
      /\ q.PTK # NoKey => q.req = {}
  <2>1. CASE /\ q = [p EXCEPT !.timers = 0, !.MICVerified = TRUE, !.PTK = <<p.ANonce, p.SNonce>>]
             /\ p.last # NoKey /\ p.last.mic = <<p.ANonce, p.SNonce>>
    <3>1. q.PTK = <<p.ANonce, p.SNonce>>
      BY <1>4, <2>1 DEF Alike, Members
    <3>2. q.PTK \in TriedKeys /\ q.PTK[1] = p.ANonce
      BY <1>3, <2>1, <3>1
    <3>3. /\ q.wpa_ptk_state = "PTKCALCNEGOTIATING" /\ q.ANonce = r.ANonce /\ p.ANonce = r.ANonce
          /\ q.rx = NoKey /\ q.ctr = r.ctr /\ q.tk = r.tk /\ q.req = {}
      BY <1>2, <1>4, <2>1 DEF Alike, Members
    <3> QED BY <3>2, <3>3
  <2>2. CASE q = StaDisconnect(p)
    <3>1. q.tk = NoKey
      BY <1>4, <2>2 DEF StaDisconnect, Deauth, RemovePtk, Alike, Members
    <3> QED BY <1>4, <2>2, <3>1, DisconnectKeeps DEF Alike, Members
  <2>3. CASE q = p
    BY <1>2, <1>4, <2>3 DEF Alike, Members
  <2> QED BY <1>2, <2>1, <2>2, <2>3
<1>6. q.wpa_ptk_state \in Handshaking
  BY <1>5 DEF Handshaking
<1>7. Stands(r, q)
  BY <1>1, <1>2, <1>5, <1>6, Continued
<1>8. PtkFrom(r, q)
  BY <1>5, <1>6 DEF PtkFrom
<1>9. ApTurn(r, q)
  BY <1>2, <1>5, <1>7, <1>8 DEF ApTurn, RxFrom, TkFrom, Sent
<1> QED BY <1>9 DEF r, q

LEMMA InitNegotiatingTurns ==
    ASSUME AuthInv, ApKeys(sm[sta]), PtkCalcNegotiating2(sta) \/ PtkInitNegotiating(sta)
    PROVE  ApTurn(sm[sta], sm'[sta])
<1> DEFINE r == sm[sta]
           q == sm'[sta]
           c == [r EXCEPT !.wpa_ptk_state = "PTKCALCNEGOTIATING2", !.TimeoutCtr = 0]
           p == [r EXCEPT !.wpa_ptk_state = "PTKINITNEGOTIATING", !.TimeoutEvt = FALSE,
                          !.TimeoutCtr = @ + 1]
           t == SendEapol(p)
<1>1. Shape /\ sta \in Stations /\ Has(r, Members) /\ r.ctr \in Nat /\ Leaving' = Leaving
  BY BeforePtk DEF PtkStep, ApKeys
<1>2. /\ anonces' = anonces
      /\ r.req = {} /\ r.wpa_ptk_state \in Handshaking
      /\ \/ q = c /\ out' = NoKey
         \/ q = p /\ out' = NoKey
         \/ q = t /\ out' = Frame(sta, t, "3/4")
  BY <1>1 DEF Shape, PtkCalcNegotiating2, PtkInitNegotiating, EnterPtk, Turn, InState, Handshaking
<1> HIDE DEF r, q
<1>3. /\ Alike(c, r, {"wpa_ptk_state", "TimeoutCtr"}) /\ c.wpa_ptk_state = "PTKCALCNEGOTIATING2"
      /\ Alike(p, r, {"wpa_ptk_state", "TimeoutEvt", "TimeoutCtr"})
      /\ p.wpa_ptk_state = "PTKINITNEGOTIATING"
  BY <1>1 DEF Alike, Members
<1> HIDE DEF c, p
<1>4. Alike(t, p, {"ctr", "key_replay", "timers"}) /\ t.ctr = p.ctr + 1
  BY <1>3, SendKeeps DEF SendEapol, Alike, Members
<1> HIDE DEF t
<1>5. /\ t.PTK = r.PTK /\ t.ANonce = r.ANonce /\ t.ctr = r.ctr + 1
      /\ q.wpa_ptk_state \in {"PTKCALCNEGOTIATING2", "PTKINITNEGOTIATING"} /\ q.ANonce = r.ANonce
      /\ q.PTK = r.PTK /\ q.tk = r.tk /\ q.rx = r.rx /\ q.req = {} /\ q.ctr \in {r.ctr, r.ctr + 1}
  BY <1>2, <1>3, <1>4 DEF Alike, Members
<1>6. Sent(r, q)
  <2>1. CASE out' = NoKey
    BY <2>1 DEF Sent
  <2>2. CASE out' = Frame(sta, t, "3/4") /\ t.PTK # NoKey
    <3>1. out'.type = "3/4" /\ out'.ctr = t.ctr /\ out'.nonce = t.ANonce /\ out'.mic = t.PTK
      BY <2>2 DEF Frame
    <3> QED BY <1>2, <1>5, <2>2, <3>1 DEF Sent
  <2> QED BY <1>2, <2>1, <2>2 DEF Frame
<1>7. q.wpa_ptk_state \in Handshaking
  BY <1>5 DEF Handshaking
<1>8. Stands(r, q)
  BY <1>1, <1>2, <1>5, <1>7, Continued
<1>9. ApTurn(r, q)
  BY <1>2, <1>5, <1>6, <1>7, <1>8 DEF ApTurn, PtkFrom, RxFrom, TkFrom
<1> QED BY <1>9 DEF r, q

\* The driver is given the PTK, which was confirmed; or it refuses it.
LEMMA InitDoneTurns ==
    ASSUME AuthInv, PtkInitDone(sta)
    PROVE  ApTurn(sm[sta], sm'[sta])
<1> DEFINE r == sm[sta]
           q == sm'[sta]
           p == [r EXCEPT !.wpa_ptk_state = "PTKINITDONE", !.rx = NoKey]
<1>1. Shape /\ sta \in Stations /\ Has(r, Members) /\ KeyRules(r) /\ Leaving' = Leaving
  BY BeforePtk DEF PtkStep, PtkBefore
<1>2. /\ anonces' = anonces /\ out' = NoKey
      /\ r.req = {} /\ r.wpa_ptk_state = "PTKINITNEGOTIATING" /\ Confirmed(r)
      /\ \/ q = [p EXCEPT !.tk = p.PTK, !.rekey_timer = TRUE]
         \/ q = StaDisconnect(p)
  BY <1>1, FourWayAssumption DEF Shape, PtkInitDone, EnterPtk, Turn, InState, KeyRules, Shares
<1> HIDE DEF r, q
<1>3. /\ Alike(p, r, {"wpa_ptk_state", "rx"})
      /\ p.wpa_ptk_state = "PTKINITDONE" /\ p.rx = NoKey
  BY <1>1 DEF Alike, Members
<1> HIDE DEF p
<1>4. r.wpa_ptk_state \in Handshaking
  BY <1>2 DEF Handshaking
<1>5. CASE q = [p EXCEPT !.tk = p.PTK, !.rekey_timer = TRUE]
  <2>1. /\ q.wpa_ptk_state = "PTKINITDONE" /\ q.ANonce = r.ANonce /\ q.rx = NoKey
        /\ q.ctr = r.ctr /\ q.tk = r.PTK /\ q.PTK = r.PTK /\ q.req = {}
    BY <1>2, <1>3, <1>5 DEF Alike, Members
  <2>2. Stands(r, q)
    BY <1>1, <1>2, <1>4, <2>1, Continued
  <2>3. ApTurn(r, q)
    BY <1>2, <2>1, <2>2 DEF ApTurn, PtkFrom, RxFrom, TkFrom, Sent
  <2> QED BY <2>3 DEF r, q
<1>6. CASE q = StaDisconnect(p)
  <2>1. q.tk = NoKey
    BY <1>3, <1>6 DEF StaDisconnect, Deauth, RemovePtk, Alike, Members
  <2>2. /\ q.wpa_ptk_state = "PTKINITDONE" /\ q.ANonce = r.ANonce /\ q.rx = NoKey
        /\ q.ctr = r.ctr /\ q.PTK = NoKey /\ q.req = {"Deauth"}
    BY <1>2, <1>3, <1>6, DisconnectKeeps DEF Alike, Members
  <2>3. Stands(r, q)
    BY <1>1, <1>2, <1>4, <2>2, Continued
  <2>4. ~Live(q)
    BY <2>2 DEF Live
  <2>5. ApTurn(r, q)
    BY <1>2, <2>1, <2>2, <2>3, <2>4 DEF ApTurn, PtkFrom, RxFrom, TkFrom, Sent
  <2> QED BY <2>5 DEF r, q
<1> QED BY <1>2, <1>5, <1>6

LEMMA PtkTurns ==
    ASSUME AuthInv, Budget(sm[sta]), ApKeys(sm[sta]), PtkStep(sta)
    PROVE  ApTurn(sm[sta], sm'[sta])
<1>1. CASE PtkStay(sta)
  <2>1. /\ sm'[sta] = sm[sta] /\ out' = NoKey /\ anonces' = anonces
    BY <1>1, BeforePtk DEF Shape, PtkStay, Turn
  <2> QED BY <2>1, BeforePtk, Unmoved DEF Stands
<1> QED BY <1>1, InitializeTurns, DisconnectTurns, AuthenticationTurns, Authentication2Turns, StartTurns,
           UpdateTurns, CalcNegotiatingTurns, InitNegotiatingTurns, InitDoneTurns DEF PtkStep

\* 1/2 is sent under a PTK that is in use: the handshake is over, or there is no PTK.
LEMMA RekeyNegotiatingTurns ==
    ASSUME AuthInv, ApKeys(sm[sta]), RekeyNegotiating(sta), anonces' = anonces
    PROVE  ApTurn(sm[sta], sm'[sta]) /\ AsksNoMore(sm[sta], sm'[sta])
<1> DEFINE r == sm[sta]
           q == sm'[sta]
           p == [r EXCEPT !.wpa_ptk_group_state = "REKEYNEGOTIATING", !.GTimeoutCtr = @ + 1]
           u == [p EXCEPT !.TimeoutEvt = FALSE]
           t == SendEapol(u)
<1>1. sta \in Stations /\ Shape /\ Has(r, Members) /\ r.ctr \in Nat
  BY FourWayAssumption DEF AuthInv, Shape, ApKeys
<1>2. /\ cur = sta /\ at = "group" /\ then' = then
      /\ \/ q = p /\ out' = NoKey
         \/ q = t /\ out' = Frame(sta, t, "1/2")
      /\ \/ Unstarted(r)
         \/ r.wpa_ptk_group_state = "REKEYNEGOTIATING" /\ r.TimeoutEvt
  BY <1>1 DEF Shape, RekeyNegotiating, EnterGroup, Turn, InGroupState, Unstarted
<1>3. r.wpa_ptk_state \notin Handshaking \/ r.PTK = NoKey
  <2>1. AtGroup(r)
    BY <1>1, <1>2 DEF AuthInv, StationRules, Active, Stepping
  <2> QED BY <1>2, <2>1, FourWayAssumption DEF AtGroup, Untimed, Late, Negotiation, Handshaking
<1> HIDE DEF r, q
<1>4. Alike(p, r, {"wpa_ptk_group_state", "GTimeoutCtr"})
  BY <1>1 DEF Alike, Members
<1> HIDE DEF p
<1>5. Alike(u, p, {"TimeoutEvt"})
  BY <1>4 DEF Alike, Members
<1> HIDE DEF u
<1>6. Alike(t, u, {"ctr", "key_replay", "timers"}) /\ t.ctr = u.ctr + 1
  BY <1>5, SendKeeps DEF SendEapol, Alike, Members
<1> HIDE DEF t
<1>7. /\ t.PTK = r.PTK /\ t.ctr = r.ctr + 1
      /\ q.wpa_ptk_state = r.wpa_ptk_state /\ q.ANonce = r.ANonce /\ q.PTK = r.PTK /\ q.tk = r.tk
      /\ q.rx = r.rx /\ q.req = r.req /\ q.ctr \in {r.ctr, r.ctr + 1}
  BY <1>2, <1>4, <1>5, <1>6 DEF Alike, Members
<1>8. Sent(r, q)
  <2>1. CASE out' = NoKey
    BY <2>1 DEF Sent
  <2>2. CASE out' = Frame(sta, t, "1/2") /\ t.PTK # NoKey
    <3>1. out'.type = "1/2" /\ out'.ctr = t.ctr /\ out'.mic = t.PTK
      BY <2>2 DEF Frame
    <3> QED BY <1>3, <1>7, <2>2, <3>1 DEF Sent
  <2> QED BY <1>2, <2>1, <2>2 DEF Frame
<1>9. Stands(r, q)
  BY <1>2, <1>7 DEF Stands, Drawn, Live, Leaving
<1>10. Leaving' = Leaving
  BY <1>2 DEF Leaving
<1>11. TkFrom(r, q)
  BY <1>7, <1>9, <1>10 DEF TkFrom
<1>12. ApTurn(r, q)
  BY <1>7, <1>8, <1>9, <1>11 DEF ApTurn, PtkFrom, RxFrom
<1>13. AsksNoMore(r, q)
  BY <1>2, <1>7 DEF AsksNoMore, Asking
<1> QED BY <1>12, <1>13 DEF r, q

LEMMA GroupTurns ==
    ASSUME AuthInv, ApKeys(sm[sta]), GroupStep(sta)
    PROVE  ApTurn(sm[sta], sm'[sta]) /\ AsksNoMore(sm[sta], sm'[sta])
<1>1. CASE RekeyNegotiating(sta)
  BY <1>1, RekeyNegotiatingTurns DEF GroupStep
<1>2. CASE ~RekeyNegotiating(sta)
  <2> DEFINE r == sm[sta]
             q == sm'[sta]
             i == [r EXCEPT !.wpa_ptk_group_state = "IDLE", !.GTimeoutCtr = 0,
                            !.PtkGroupInit = FALSE]
             e == [r EXCEPT !.wpa_ptk_group_state = "REKEYESTABLISHED", !.rx = NoKey,
                            !.GUpdateStationKeys = FALSE, !.GTimeoutCtr = 0]
             k == [r EXCEPT !.wpa_ptk_group_state = "KEYERROR", !.GUpdateStationKeys = FALSE,
                            !.req = @ \cup {"Disconnect"}]
  <2>1. sta \in Stations /\ Shape /\ Has(r, Members)
    BY FourWayAssumption DEF AuthInv, Shape
  <2>2. /\ q \in {r, i, e, k} /\ out' = NoKey /\ anonces' = anonces /\ then' = then
    BY <1>2, <2>1 DEF Shape, GroupStep, GroupIdle, RekeyEstablished, KeyError, GroupStay, EnterGroup, Turn
  <2> HIDE DEF r, q
  <2>3. /\ q.wpa_ptk_state = r.wpa_ptk_state /\ q.ANonce = r.ANonce /\ q.PTK = r.PTK /\ q.tk = r.tk
        /\ q.rx \in {r.rx, NoKey} /\ q.req \in {r.req, r.req \cup {"Disconnect"}} /\ q.ctr = r.ctr
    <3>1. CASE q = r
      BY <3>1
    <3>2. CASE q = i
      BY <2>1, <3>2 DEF Members
    <3>3. CASE q = e
      BY <2>1, <3>3 DEF Members
    <3>4. CASE q = k
      BY <2>1, <3>4 DEF Members
    <3> QED BY <2>2, <3>1, <3>2, <3>3, <3>4
  <2> HIDE DEF i, e, k
  <2>4. ApTurn(r, q)
    <3>1. CASE Leaving
      <4>1. Leaving'
        BY <2>2, <3>1 DEF Leaving
      <4> QED BY <2>2, <2>3, <4>1, Unmoved
    <3> QED BY <2>2, <2>3, <3>1, Unmoved
  <2>5. AsksNoMore(r, q)
    BY <2>2, <2>3 DEF AsksNoMore, Asking
  <2> QED BY <2>4, <2>5 DEF r, q
<1> QED BY <1>1, <1>2

\* wpa_group_sm_step and wpa_group_setkeys mark the station at most.
LEMMA GroupSmTurns ==
    ASSUME AuthInv, SetKeysDone \/ SetKeys \/ GroupSmStay \/ UpdateNext \/ UpdateEnd \/ RekeyGtk
    PROVE  ApTurn(sm[sta], sm'[sta]) /\ AsksNoMore(sm[sta], sm'[sta])
<1> DEFINE r == sm[sta]
           q == sm'[sta]
<1>1. sta \in Stations /\ Shape /\ Has(r, Members) /\ Stations = {sta} /\ todo \subseteq Stations
  BY FourWayAssumption DEF AuthInv, Shape, Control
<1>2. out' = NoKey /\ anonces' = anonces /\ then' = then
  BY DEF SetKeysDone, SetKeys, GroupSmStay, UpdateNext, UpdateEnd, RekeyGtk, GoOn
<1>3. \/ q = r
      \/ q = [r EXCEPT !.req = @ \cup {"Disconnect"}]
      \/ \E b : q = [r EXCEPT !.GUpdateStationKeys = b]
  <2>1. CASE SetKeysDone
    BY <1>1, <2>1 DEF SetKeysDone
  <2>2. CASE UpdateNext
    <3>1. UpdateSta(sta)
      BY <1>1, <2>2 DEF UpdateNext
    <3>2. PICK b : sm' = [sm EXCEPT ![sta] = [sm[sta] EXCEPT !.GUpdateStationKeys = b]]
      BY <3>1 DEF UpdateSta
    <3> QED BY <1>1, <3>2 DEF Shape
  <2> QED BY <2>1, <2>2 DEF SetKeys, GroupSmStay, UpdateEnd, RekeyGtk
<1> HIDE DEF r, q
<1>4. /\ q.wpa_ptk_state = r.wpa_ptk_state /\ q.ANonce = r.ANonce /\ q.PTK = r.PTK /\ q.tk = r.tk
      /\ q.rx = r.rx /\ q.req \in {r.req, r.req \cup {"Disconnect"}} /\ q.ctr = r.ctr
  BY <1>1, <1>3 DEF Members
<1>5. Leaving' = Leaving
  BY <1>2 DEF Leaving
<1>6. Live(q) /\ ~Leaving' => q.tk = r.tk /\ ~Leaving
  BY <1>4, <1>5
<1>7. ApTurn(r, q)
  BY <1>2, <1>4, <1>6, Unmoved
<1>8. AsksNoMore(r, q)
  BY <1>2, <1>4 DEF AsksNoMore, Asking
<1> QED BY <1>7, <1>8 DEF r, q

\* What a handler has left to do.
LEMMA ReturnTurns ==
    ASSUME AuthInv, Return
    PROVE  ApTurn(sm[sta], sm'[sta])
<1> DEFINE r == sm[sta]
           q == sm'[sta]
<1>1. sta \in Stations /\ Shape /\ Has(r, Members) /\ Stations = {sta} /\ at = "return"
  BY FourWayAssumption DEF AuthInv, Shape, Return
<1>2. out' = NoKey /\ anonces' = anonces
  BY DEF Return, StepOn, StaAssociated, Reauth
<1>3. CASE sm' = sm /\ (then' = then \/ ~Leaving)
  <2>1. q = r /\ (Leaving => Leaving')
    BY <1>3 DEF Leaving
  <2> HIDE DEF r, q
  <2>2. ApTurn(r, q)
    BY <1>2, <2>1, Unmoved
  <2> QED BY <2>2 DEF r, q
<1>4. CASE todo = {} /\ then # Nothing
  <2>1. /\ then[2] = sta /\ then[1] \in {"auth", "associated", "reauth", "step", "free"}
        /\ r.req \subseteq {"Disconnect", "Init"}
        /\ Nothing[1] = "nothing"
    <3>1. Resting(then[2], sm[then[2]]) /\ then[2] = sta
      BY <1>1, <1>4, Continues
    <3> QED BY <1>1, <1>4, <3>1, Continues DEF Resting, Nothing
  <2>2. CASE then[1] = "auth"
    <3>1. q = [r EXCEPT !.req = (@ \ {"Init"}) \cup {"Auth"}]
      BY <1>1, <1>4, <2>1, <2>2 DEF Return, StepOn, Shape
    <3> HIDE DEF r, q
    <3>2. /\ q.wpa_ptk_state = r.wpa_ptk_state /\ q.ANonce = r.ANonce /\ q.PTK = r.PTK /\ q.tk = r.tk
          /\ q.rx = r.rx /\ q.req = (r.req \ {"Init"}) \cup {"Auth"} /\ q.ctr = r.ctr
      BY <1>1, <3>1 DEF Members
    <3>3. ~Live(q)
      BY <3>2 DEF Live
    <3>4. ApTurn(r, q)
      BY <1>2, <3>2, <3>3, Unmoved
    <3> QED BY <3>4 DEF r, q
  <2>3. CASE then[1] = "associated"
    <3> DEFINE a == [r EXCEPT !.ctr = 0, !.key_replay = {}, !.req = @ \cup {"ReAuth"}]
               b == [r EXCEPT !.started = TRUE, !.req = @ \cup {"Init"}]
    <3>1. q \in {a, b}
      BY <1>1, <1>4, <2>1, <2>3 DEF Return, StaAssociated, StepOn, Shape
    <3> HIDE DEF r, q
    <3>2. /\ q.wpa_ptk_state = r.wpa_ptk_state /\ q.ANonce = r.ANonce /\ q.PTK = r.PTK /\ q.tk = r.tk
          /\ q.rx = r.rx /\ q.ctr \in {r.ctr, 0}
          /\ q.req = r.req \cup {"ReAuth"} \/ q.req = r.req \cup {"Init"}
      <4>1. CASE q = a
        BY <1>1, <4>1 DEF Members
      <4>2. CASE q = b
        BY <1>1, <4>2 DEF Members
      <4> QED BY <3>1, <4>1, <4>2
    <3>3. ~Live(q)
      BY <3>2 DEF Live
    <3>4. ApTurn(r, q)
      BY <1>2, <3>2, <3>3, Unmoved
    <3> QED BY <3>4 DEF r, q
  <2>4. CASE then[1] = "reauth"
    <3> DEFINE p == RemovePtk(r)
               a == [p EXCEPT !.GUpdateStationKeys = FALSE,
                              !.PtkGroupInit = @ \/ r.GUpdateStationKeys,
                              !.req = @ \cup {"ReAuth"}]
    <3>1. q = a
      BY <1>1, <1>4, <2>1, <2>4 DEF Return, Reauth, Shape
    <3> HIDE DEF r, q
    <3>2. Alike(p, r, {"PTK", "tk", "rekey_timer"}) /\ p.PTK = NoKey /\ p.tk = NoKey
      BY <1>1 DEF RemovePtk, Alike, Members
    <3> HIDE DEF p
    <3>3. /\ q.wpa_ptk_state = r.wpa_ptk_state /\ q.ANonce = r.ANonce /\ q.PTK = NoKey
          /\ q.tk = NoKey /\ q.rx = r.rx /\ q.ctr = r.ctr /\ q.req = r.req \cup {"ReAuth"}
      BY <3>1, <3>2 DEF Alike, Members
    <3>4. ~Live(q)
      BY <3>3 DEF Live
    <3>5. ApTurn(r, q)
      BY <1>2, <3>3, <3>4, Unmoved
    <3> QED BY <3>5 DEF r, q
  <2>5. CASE then[1] = "step"
    <3>1. sm' = sm
      BY <1>1, <1>4, <2>1, <2>5 DEF Return, StepOn, Shape
    <3> QED BY <1>3, <2>5, <3>1 DEF Leaving
  <2>6. CASE then[1] = "free"
    <3>1. q = NewSm
      BY <1>1, <1>4, <2>1, <2>6 DEF Return, Free, Shape
    <3> HIDE DEF r, q
    <3>2. /\ q.wpa_ptk_state = "INITIALIZE" /\ q.ANonce = 0 /\ q.PTK = NoKey /\ q.tk = NoKey
          /\ q.rx = NoKey /\ q.ctr = 0
      BY <3>1 DEF NewSm
    <3>3. ~Drawn(q)
      BY <3>2 DEF Drawn, Handshaking
    <3>4. ApTurn(r, q)
      BY <1>2, <3>2, <3>3, Departed
    <3> QED BY <3>4 DEF r, q
  <2> QED BY <2>1, <2>2, <2>3, <2>4, <2>5, <2>6
<1>5. CASE todo # {}
  BY <1>3, <1>5 DEF Return
<1>6. CASE todo = {} /\ then = Nothing
  BY <1>3, <1>6 DEF Return, Nothing, Leaving
<1> QED BY <1>4, <1>5, <1>6

LEMMA HandlerTurns ==
    ASSUME AuthInv, Timeout(sta) \/ RekeyPtk(sta) \/ Disassociate(sta) \/ Associate(sta)
    PROVE  ApTurn(sm[sta], sm'[sta])
<1> DEFINE r == sm[sta]
           q == sm'[sta]
           t == [r EXCEPT !.timers = @ - 1, !.TimeoutEvt = TRUE]
           k == [r EXCEPT !.rekey_timer = FALSE, !.req = @ \cup {"PTK"}, !.PTK = NoKey]
           d == Deauth([r EXCEPT !.assoc = FALSE])
           a == RemovePtk([r EXCEPT !.assoc = TRUE])
<1>1. at = "rest" /\ sta \in Stations /\ Shape
  BY FourWayAssumption DEF AuthInv, Timeout, RekeyPtk, Disassociate, Associate, Handle
<1>2. Has(r, Members) /\ r.req \subseteq {"Disconnect"} /\ then = Nothing
  BY <1>1, AtRest
<1>3. /\ out' = NoKey /\ anonces' = anonces
      /\ q \in {t, k, d} \/ (q = a /\ then' \in {"reauth", "associated"} \X {sta})
  BY <1>1 DEF Timeout, RekeyPtk, Disassociate, Associate, Handle, StepOn, Shape
<1>4. ~Leaving
  BY <1>2 DEF Leaving, Nothing
<1>5. q = a => Leaving' \/ q \in {t, k, d}
  BY <1>3 DEF Leaving
<1> HIDE DEF r, q
<1>6. /\ q.wpa_ptk_state = r.wpa_ptk_state /\ q.ANonce = r.ANonce /\ q.rx = r.rx /\ q.ctr = r.ctr
      /\ \/ q.PTK = r.PTK /\ q.tk = r.tk /\ q.req = r.req
         \/ q.PTK = NoKey /\ q.tk = r.tk /\ q.req = r.req \cup {"PTK"}
         \/ q.PTK = NoKey /\ q.tk = NoKey /\ q.req = r.req \cup {"Deauth"}
         \/ q.PTK = NoKey /\ q.tk = NoKey /\ q.req = r.req /\ Leaving'
  <2>1. CASE q = t
    BY <1>2, <2>1 DEF Members
  <2>2. CASE q = k
    BY <1>2, <2>2 DEF Members
  <2>3. CASE q = d
    BY <1>2, <2>3 DEF Deauth, RemovePtk, Members
  <2>4. CASE q = a /\ Leaving'
    BY <1>2, <2>4 DEF RemovePtk, Members
  <2> QED BY <1>3, <1>5, <2>1, <2>2, <2>3, <2>4
<1> HIDE DEF t, k, d, a
<1>7. Live(q) /\ ~Leaving' => q.tk = r.tk
  BY <1>6 DEF Live
<1>8. ApTurn(r, q)
  BY <1>2, <1>3, <1>4, <1>6, <1>7, Unmoved
<1> QED BY <1>8 DEF r, q

\* A PTK is switched only to one of this handshake, which a 4/4 confirms.
LEMMA ReceiveTurns ==
    ASSUME AuthInv, FramesSent, NEW f \in up, Receive(sta, f)
    PROVE  ApTurn(sm[sta], sm'[sta]) /\ AsksNoMore(sm[sta], sm'[sta])
<1> DEFINE r == sm[sta]
           q == sm'[sta]
           u == Updating(r, f)
           v == Verified(u, f)
           d == StaDisconnect(u)
           c == Consumed(v, f)
           m == [r EXCEPT !.MICVerified = FALSE]
<1>1. f.type \in {"2/4", "4/4", "2/2"} /\ f.mic \in TriedKeys
  BY DEF FramesSent
<1>2. at = "rest" /\ sta \in Stations /\ Shape
  BY FourWayAssumption DEF AuthInv, Receive, ReceiveAnswer, ReceiveRequest, ReceiveUnverified, Handle
<1>3. Has(r, Members) /\ r.req \subseteq {"Disconnect"} /\ then = Nothing /\ ~Leaving
  BY <1>2, AtRest DEF Leaving, Nothing
<1>4. /\ out' = NoKey /\ anonces' = anonces /\ then' = then
      /\ \/ q \in {d, m}
         \/ q = c /\ InOrder(u, f) /\ (Verifies(u) => MicOk(u, f))
  BY <1>1, <1>2, <1>3 DEF Receive, ReceiveAnswer, ReceiveRequest, ReceiveUnverified, IsRequest, Handle, StepOn,
     Shape
<1> HIDE DEF r, q
<1>5. Alike(u, r, {"update_snonce", "alt_SNonce", "alt_replay_counter"})
  BY <1>3, UpdatingKeeps
<1> HIDE DEF u
<1>6. CASE q \in {d, m}
  <2>1. /\ q.wpa_ptk_state = r.wpa_ptk_state /\ q.ANonce = r.ANonce /\ q.rx = r.rx /\ q.ctr = r.ctr
        /\ \/ q.PTK = r.PTK /\ q.tk = r.tk /\ q.req = r.req
           \/ q.PTK = NoKey /\ q.tk = NoKey /\ q.req = r.req \cup {"Deauth"}
    <3>1. CASE q = m
      BY <1>3, <3>1 DEF Members
    <3>2. CASE q = d
      <4>1. q.tk = NoKey
        BY <1>5, <3>2 DEF StaDisconnect, Deauth, RemovePtk, Alike, Members
      <4> QED BY <1>5, <3>2, <4>1, DisconnectKeeps DEF Alike, Members
    <3> QED BY <1>6, <3>1, <3>2
  <2> HIDE DEF d, m
  <2>2. Live(q) => q.tk = r.tk
    BY <2>1 DEF Live
  <2>3. ApTurn(r, q)
    BY <1>3, <1>4, <2>1, <2>2, Unmoved
  <2>4. AsksNoMore(r, q)
    BY <1>4, <2>1 DEF AsksNoMore, Asking
  <2> QED BY <2>3, <2>4 DEF r, q
<1>7. CASE q = c /\ InOrder(u, f) /\ (Verifies(u) => MicOk(u, f))
  <2>1. /\ Alike(v, u, {"MICVerified", "timers", "PTK", "alt_SNonce"})
        /\ v.PTK = IF Verifies(u) THEN f.mic ELSE u.PTK
    BY <1>5, VerifiedKeeps DEF Alike
  <2> HIDE DEF v
  <2>2. /\ Alike(c, v, {"prev_key_replay", "key_replay", "rx", "last", "SNonce"})
        /\ c.rx = [type |-> f.type, mic |-> f.mic]
    BY <2>1, ConsumedKeeps DEF Alike
  <2> HIDE DEF c
  <2>3. /\ q.wpa_ptk_state = r.wpa_ptk_state /\ q.ANonce = r.ANonce /\ q.ctr = r.ctr
        /\ q.tk = r.tk /\ q.req = r.req /\ q.rx = [type |-> f.type, mic |-> f.mic]
        /\ q.PTK = IF Verifies(u) THEN f.mic ELSE r.PTK
        /\ u.PTK = r.PTK /\ u.ANonce = r.ANonce /\ u.wpa_ptk_state = r.wpa_ptk_state
    BY <1>5, <1>7, <2>1, <2>2 DEF Alike, Members
  <2>4. q.PTK = r.PTK \/ /\ q.PTK = f.mic /\ q.PTK[1] = q.ANonce
                         /\ q.wpa_ptk_state = "PTKINITNEGOTIATING"
    <3>1. CASE Verifies(u) /\ f.mic # r.PTK
      <4>1. f.type = "4/4" /\ f.mic = <<r.ANonce, u.alt_SNonce>>
        BY <1>7, <2>3, <3>1 DEF MicOk, AltMic, AltPtk
      <4>2. f.mic[1] = r.ANonce
        BY <4>1
      <4>3. r.wpa_ptk_state = "PTKINITNEGOTIATING"
        BY <1>7, <2>3, <4>1 DEF InOrder
      <4> QED BY <2>3, <3>1, <4>2, <4>3
    <3> QED BY <2>3, <3>1
  <2>5. Stands(r, q)
    BY <1>3, <1>4, <2>3 DEF Stands, Drawn, Live
  <2>6. PtkFrom(r, q)
    BY <1>1, <1>3, <2>3, <2>4 DEF PtkFrom, Handshaking
  <2>7. RxFrom(r, q)
    BY <2>3 DEF RxFrom
  <2>8. TkFrom(r, q)
    BY <1>3, <2>3 DEF TkFrom
  <2>9. ApTurn(r, q)
    BY <1>4, <2>3, <2>5, <2>6, <2>7, <2>8 DEF ApTurn, Sent
  <2>10. AsksNoMore(r, q)
    BY <1>4, <2>3 DEF AsksNoMore, Asking
  <2> QED BY <2>9, <2>10 DEF r, q
<1> QED BY <1>4, <1>6, <1>7

ApMoves == ApStep \/ ApHandler \/ ApAssociate \/ ApReceive

LEMMA ApTurns ==
    ASSUME AuthInv, Budget(sm[sta]), ApKeys(sm[sta]), FramesSent, ApMoves
    PROVE  /\ ApTurn(sm[sta], sm'[sta])
           /\ Sends
           /\ air' = air \/ (air' = "response" /\ air = "request" /\ Leaving')
<1>1. Sends
  BY DEF ApMoves, ApStep, ApHandler, ApAssociate, ApReceive
<1>2. CASE ApStep
  BY <1>1, <1>2, PtkTurns, GroupTurns, GroupSmTurns, ReturnTurns, FourWayAssumption DEF ApStep, Step
<1>3. CASE ApHandler
  BY <1>1, <1>3, HandlerTurns, GroupSmTurns DEF ApHandler
<1>4. CASE ApAssociate
  <2>1. then' \in {"associated", "reauth"} \X {sta}
    BY <1>4 DEF ApAssociate, Associate, Handle, StepOn
  <2> QED BY <1>1, <1>4, <2>1, HandlerTurns DEF ApAssociate, Leaving
<1>5. CASE ApReceive
  BY <1>1, <1>5, ReceiveTurns DEF ApReceive
<1> QED BY <1>2, <1>3, <1>4, <1>5 DEF ApMoves

-----------------------------------------------------------------------------
(* The ANonces suffice                                                      *)

LEMMA BudgetKept ==
    ASSUME Budget(sm[sta]), AsksNoMore(sm[sta], sm'[sta])
    PROVE  Budget(sm[sta])'
<1>1. Starting' => Starting
  BY DEF AsksNoMore, Starting
<1>2. Asking(sm'[sta]) => Asking(sm[sta])
  BY DEF AsksNoMore, Asking
<1> QED BY <1>1, <1>2 DEF Budget, AsksNoMore

LEMMA PtkAsks ==
    ASSUME AuthInv, Budget(sm[sta]), ApKeys(sm[sta]), PtkStep(sta)
    PROVE  Budget(sm[sta])'
<1> DEFINE r == sm[sta]
           q == sm'[sta]
<1>1. Shape /\ sta \in Stations /\ Has(r, Members) /\ then' = then
  BY BeforePtk
<1>2. /\ q.req \cap {"Auth", "ReAuth", "PTK"} \subseteq r.req
      /\ q.wpa_ptk_state # "AUTHENTICATION" \/ Asking(r)
  <2>1. CASE PtkInitialize(sta)
    <3>1. q = [RemovePtk(r) EXCEPT !.wpa_ptk_state = "INITIALIZE", !.GUpdateStationKeys = FALSE,
                                   !.TimeoutCtr = 0]
      BY <1>1, <2>1 DEF Shape, PtkInitialize, Turn
    <3> HIDE DEF r, q
    <3> QED BY <1>1, <3>1 DEF RemovePtk, Members
  <2>2. CASE PtkDisconnect(sta) \/ PtkInitDone(sta) \/ PtkCalcNegotiating(sta)
    <3>1. PICK p : /\ Has(p, Members) /\ p.req \subseteq r.req
                   /\ p.wpa_ptk_state # "AUTHENTICATION"
                   /\ \/ q = StaDisconnect(p) \/ q = p
                      \/ q = [p EXCEPT !.tk = p.PTK, !.rekey_timer = TRUE]
                      \/ q = [p EXCEPT !.timers = 0, !.MICVerified = TRUE, !.PTK = <<p.ANonce, p.SNonce>>]
      <4> DEFINE a == [r EXCEPT !.req = @ \ {"Disconnect"}, !.wpa_ptk_state = "DISCONNECT"]
                 b == [r EXCEPT !.wpa_ptk_state = "PTKINITDONE", !.rx = NoKey]
                 c == [r EXCEPT !.wpa_ptk_state = "PTKCALCNEGOTIATING", !.rx = NoKey,
                                !.update_snonce = FALSE]
      <4>1. /\ Has(a, Members) /\ Has(b, Members) /\ Has(c, Members)
            /\ a.req \subseteq r.req /\ b.req \subseteq r.req /\ c.req \subseteq r.req
            /\ a.wpa_ptk_state = "DISCONNECT" /\ b.wpa_ptk_state = "PTKINITDONE"
            /\ c.wpa_ptk_state = "PTKCALCNEGOTIATING"
        BY <1>1 DEF Members
      <4>2. CASE PtkDisconnect(sta)
        <5>1. q = StaDisconnect(a)
          BY <1>1, <4>2 DEF Shape, PtkDisconnect, EnterPtk, Turn
        <5> QED BY <4>1, <5>1
      <4>3. CASE PtkInitDone(sta)
        <5>1. q = StaDisconnect(b) \/ q = [b EXCEPT !.tk = b.PTK, !.rekey_timer = TRUE]
          BY <1>1, <4>3 DEF Shape, PtkInitDone, EnterPtk, Turn
        <5> QED BY <4>1, <5>1
      <4>4. CASE PtkCalcNegotiating(sta)
        <5>1. \/ q = StaDisconnect(c) \/ q = c
              \/ q = [c EXCEPT !.timers = 0, !.MICVerified = TRUE, !.PTK = <<c.ANonce, c.SNonce>>]
          BY <1>1, <4>4 DEF Shape, PtkCalcNegotiating, EnterPtk, Turn
        <5> QED BY <4>1, <5>1
      <4> QED BY <2>2, <4>2, <4>3, <4>4
    <3> HIDE DEF r, q
    <3>2. CASE q = StaDisconnect(p)
      BY <3>1, <3>2, DisconnectKeeps DEF Alike, Members
    <3>3. CASE q = [p EXCEPT !.tk = p.PTK, !.rekey_timer = TRUE]
      BY <3>1, <3>3 DEF Members
    <3>4. CASE q = [p EXCEPT !.timers = 0, !.MICVerified = TRUE, !.PTK = <<p.ANonce, p.SNonce>>]
      BY <3>1, <3>4 DEF Members
    <3> QED BY <3>1, <3>2, <3>3, <3>4
  <2>3. CASE PtkDisconnected(sta) \/ PtkAuthentication(sta)
    <3>1. \/ q = [r EXCEPT !.req = @ \ {"Deauth"}, !.wpa_ptk_state = "DISCONNECTED"]
          \/ /\ q = [r EXCEPT !.req = @ \ {"Auth"}, !.wpa_ptk_state = "AUTHENTICATION", !.PTK = NoKey]
             /\ Asking(r)
      BY <1>1, <2>3 DEF Due, Asking, Shape, PtkDisconnected, PtkAuthentication, EnterPtk, Turn
    <3> HIDE DEF r, q
    <3>2. CASE q = [r EXCEPT !.req = @ \ {"Deauth"}, !.wpa_ptk_state = "DISCONNECTED"]
      BY <1>1, <3>2 DEF Members
    <3>3. CASE q = [r EXCEPT !.req = @ \ {"Auth"}, !.wpa_ptk_state = "AUTHENTICATION", !.PTK = NoKey]
      <4>1. q.req = r.req \ {"Auth"}
        BY <1>1, <3>3 DEF Members
      <4> QED BY <3>1, <3>2, <4>1
    <3> QED BY <3>1, <3>2, <3>3
  <2>4. CASE PtkAuthentication2(sta)
    <3> DEFINE p == [r EXCEPT !.req = @ \ {"ReAuth"}, !.wpa_ptk_state = "AUTHENTICATION2"]
    <3>1. \/ q = [p EXCEPT !.ANonce = anonces + 1, !.TimeoutCtr = 0]
          \/ q = [p EXCEPT !.req = @ \cup {"Disconnect"}]
      BY <1>1, <2>4 DEF Shape, PtkAuthentication2, EnterPtk, Turn
    <3> HIDE DEF r, q
    <3>2. Has(p, Members) /\ p.req \subseteq r.req /\ p.wpa_ptk_state = "AUTHENTICATION2"
      BY <1>1 DEF Members
    <3> HIDE DEF p
    <3>3. CASE q = [p EXCEPT !.ANonce = anonces + 1, !.TimeoutCtr = 0]
      BY <3>2, <3>3 DEF Members
    <3>4. CASE q = [p EXCEPT !.req = @ \cup {"Disconnect"}]
      BY <3>2, <3>4 DEF Members
    <3> QED BY <3>1, <3>3, <3>4
  <2>5. CASE PtkInitPsk(sta) \/ PtkStart(sta) \/ PtkCalcNegotiating2(sta) \/ PtkInitNegotiating(sta)
    <3>1. CASE PtkInitPsk(sta) \/ PtkCalcNegotiating2(sta)
      <4>1. \/ q = [r EXCEPT !.wpa_ptk_state = "INITPSK", !.req_replay_counter = 0]
            \/ q = [r EXCEPT !.wpa_ptk_state = "PTKCALCNEGOTIATING2", !.TimeoutCtr = 0]
        BY <1>1, <3>1 DEF Shape, PtkInitPsk, PtkCalcNegotiating2, EnterPtk, Turn
      <4> HIDE DEF r, q
      <4> QED BY <1>1, <4>1 DEF Members
    <3>2. CASE PtkStart(sta)
      BY <1>1, <3>2, StartSends DEF PtkStart, ApKeys
    <3>3. CASE PtkInitNegotiating(sta)
      <4> DEFINE p == [r EXCEPT !.wpa_ptk_state = "PTKINITNEGOTIATING", !.TimeoutEvt = FALSE,
                                !.TimeoutCtr = @ + 1]
      <4>1. q = p \/ q = SendEapol(p)
        BY <1>1, <3>3 DEF Shape, PtkInitNegotiating, EnterPtk, Turn
      <4> HIDE DEF r, q
      <4>2. Has(p, Members) /\ p.req = r.req /\ p.wpa_ptk_state = "PTKINITNEGOTIATING"
        BY <1>1 DEF Members
      <4> HIDE DEF p
      <4> QED BY <4>1, <4>2, SendKeeps DEF Alike, Members
    <3> QED BY <2>5, <3>1, <3>2, <3>3
  <2>6. CASE PtkUpdate(sta)
    <3> DEFINE p == [r EXCEPT !.ANonce = anonces + 1, !.TimeoutCtr = 0]
               d == [r EXCEPT !.req = (@ \cup {"Disconnect"}) \ {"Deauth"},
                              !.wpa_ptk_state = "DISCONNECTED"]
    <3>1. Has(p, Members) /\ p.req = r.req /\ p.ctr \in Nat
      BY <1>1 DEF Members, ApKeys
    <3>2. CASE EnterPtkStart(sta, p)
      <4> HIDE DEF p
      <4> QED BY <1>1, <3>1, <3>2, StartSends
    <3>3. CASE EnterPtk(sta, d, NoKey)
      <4>1. q = d
        BY <1>1, <3>3 DEF Shape, EnterPtk, Turn
      <4> HIDE DEF r, q
      <4> QED BY <1>1, <4>1 DEF Members
    <3> QED BY <2>6, <3>2, <3>3 DEF PtkUpdate
  <2>7. CASE PtkStay(sta)
    BY <1>1, <2>7 DEF Shape, PtkStay, Turn, PtkStays, InState
  <2> QED BY <2>1, <2>2, <2>3, <2>4, <2>5, <2>6, <2>7 DEF PtkStep
<1>3. CASE Draws(r, q)
  <2>1. Starting' = Starting /\ ~Starting
    BY <1>3 DEF Draws, Budget, Starting
  <2>2. anonces \in 0..MaxANonce /\ anonces < MaxANonce /\ MaxANonce \in Nat
    BY <1>3, FourWayAssumption DEF Draws, Budget
  <2>3. anonces' \in 0..MaxANonce
    BY <1>3, <2>2 DEF Draws
  <2>4. ~Asking(q) /\ ("ReAuth" \in q.req => "PTK" \notin q.req)
    BY <1>2, <1>3 DEF Draws, Budget
  <2> QED BY <2>1, <2>3, <2>4 DEF Budget
<1>4. CASE Stands(r, q)
  BY <1>1, <1>2, <1>4, BudgetKept DEF AsksNoMore, Stands
<1> QED BY <1>3, <1>4, PtkTurns DEF ApTurn

\* What a handler has left to do may ask for an ANonce, and so may a handler itself.
LEMMA ReturnAsks ==
    ASSUME AuthInv, Budget(sm[sta]), Return
    PROVE  Budget(sm[sta])'
<1> DEFINE r == sm[sta]
           q == sm'[sta]
<1>1. sta \in Stations /\ Shape /\ Has(r, Members) /\ Stations = {sta} /\ at = "return"
  BY FourWayAssumption DEF AuthInv, Shape, Return
<1>2. anonces' = anonces
  BY DEF Return, StepOn, StaAssociated, Reauth
<1>3. CASE todo # {} \/ (todo = {} /\ then = Nothing)
  <2>1. sm' = sm /\ then' = then
    BY <1>3 DEF Return, Nothing
  <2> QED BY <1>2, <2>1, BudgetKept DEF AsksNoMore, Asking
<1>4. CASE todo = {} /\ then # Nothing
  <2>1. then[2] = sta /\ then[1] \in {"auth", "associated", "reauth", "step", "free"}
    BY <1>1, <1>4, Continues
  <2>2. ~Nothing[1] \in {"auth", "associated", "reauth"}
    BY DEF Nothing
  <2>3. CASE then[1] = "auth"
    <3>1. q = [r EXCEPT !.req = (@ \ {"Init"}) \cup {"Auth"}] /\ then' = Nothing
      BY <1>1, <1>4, <2>1, <2>3 DEF Return, StepOn, Shape
    <3>2. ~Starting' /\ Starting
      BY <2>2, <2>3, <3>1 DEF Starting
    <3>3. ~Asking(r) /\ anonces < MaxANonce
      BY <3>2 DEF Budget
    <3>4. q.req = (r.req \ {"Init"}) \cup {"Auth"} /\ q.wpa_ptk_state = r.wpa_ptk_state
      BY <1>1, <3>1 DEF Members
    <3>5. "ReAuth" \notin q.req
      BY <3>3, <3>4 DEF Asking
    <3> QED BY <1>2, <3>2, <3>3, <3>5 DEF Budget
  <2>4. CASE then[1] \in {"associated", "reauth"}
    <3> DEFINE p == RemovePtk(r)
               a == [r EXCEPT !.ctr = 0, !.key_replay = {}, !.req = @ \cup {"ReAuth"}]
               b == [r EXCEPT !.started = TRUE, !.req = @ \cup {"Init"}]
               c == [p EXCEPT !.GUpdateStationKeys = FALSE,
                              !.PtkGroupInit = @ \/ r.GUpdateStationKeys,
                              !.req = @ \cup {"ReAuth"}]
    <3>1. \/ q = a /\ then' = Nothing
          \/ q = b /\ then' = <<"auth", sta>>
          \/ q = c /\ then' = Nothing
      BY <1>1, <1>4, <2>1, <2>4 DEF Return, StaAssociated, StepOn, Reauth, Shape
    <3>2. Starting
      BY <2>4 DEF Starting
    <3>3. ~Asking(r) /\ anonces < MaxANonce
      BY <3>2 DEF Budget
    <3> HIDE DEF r, q
    <3>4. /\ a.req = r.req \cup {"ReAuth"} /\ c.req = r.req \cup {"ReAuth"}
          /\ b.req = r.req \cup {"Init"} /\ b.wpa_ptk_state = r.wpa_ptk_state
      <4>1. Has(p, Members) /\ p.req = r.req
        BY <1>1 DEF RemovePtk, Members
      <4> HIDE DEF p
      <4>2. c.req = r.req \cup {"ReAuth"}
        BY <4>1 DEF Members
      <4> QED BY <1>1, <4>2 DEF Members
    <3> HIDE DEF a, b, c
    <3>5. CASE q = b /\ then' = <<"auth", sta>>
      <4>1. ~Asking(q)
        BY <3>3, <3>4, <3>5 DEF Asking
      <4>2. "ReAuth" \notin q.req
        BY <4>1 DEF Asking
      <4> QED BY <1>2, <3>3, <4>1, <4>2 DEF Budget, r, q
    <3>6. CASE (q = a \/ q = c) /\ then' = Nothing
      <4>1. ~Starting'
        BY <2>2, <3>6 DEF Starting
      <4>2. "PTK" \notin q.req
        BY <3>3, <3>4, <3>6 DEF Asking
      <4> QED BY <1>2, <3>3, <4>1, <4>2 DEF Budget, r, q
    <3> QED BY <3>1, <3>5, <3>6
  <2>5. CASE then[1] \in {"step", "free"}
    <3>1. sm'[sta] \in {r, NewSm} /\ then' = Nothing
      BY <1>1, <1>4, <2>1, <2>5 DEF Return, StepOn, Free, Shape
    <3>2. ~Starting'
      BY <2>2, <3>1 DEF Starting
    <3>3. NewSm.req = {} /\ NewSm.wpa_ptk_state = "INITIALIZE"
      BY DEF NewSm
    <3>4. AsksNoMore(r, q)
      BY <1>2, <3>1, <3>2, <3>3 DEF AsksNoMore, Asking
    <3> QED BY <3>4, BudgetKept
  <2> QED BY <2>1, <2>3, <2>4, <2>5
<1> QED BY <1>3, <1>4

LEMMA HandlerAsks ==
    ASSUME AuthInv, Budget(sm[sta]), Timeout(sta) \/ RekeyPtk(sta) \/ Disassociate(sta) \/ Associate(sta)
    PROVE  Budget(sm[sta])'
<1> DEFINE r == sm[sta]
           q == sm'[sta]
           t == [r EXCEPT !.timers = @ - 1, !.TimeoutEvt = TRUE]
           k == [r EXCEPT !.rekey_timer = FALSE, !.req = @ \cup {"PTK"}, !.PTK = NoKey]
           d == Deauth([r EXCEPT !.assoc = FALSE])
           a == RemovePtk([r EXCEPT !.assoc = TRUE])
<1>1. at = "rest" /\ sta \in Stations /\ Shape
  BY FourWayAssumption DEF AuthInv, Timeout, RekeyPtk, Disassociate, Associate, Handle
<1>2. /\ Has(r, Members) /\ r.req \subseteq {"Disconnect"}
      /\ r.wpa_ptk_state # "AUTHENTICATION"
  BY <1>1, AtRest DEF Resting, Calm, Negotiation
<1>3. /\ anonces' = anonces
      /\ \/ q = t /\ then' = Nothing
         \/ q = d /\ then' = <<"free", sta>>
         \/ q = k /\ then' = Nothing /\ anonces < MaxANonce
         \/ q = a /\ anonces < MaxANonce
  BY <1>1 DEF Timeout, RekeyPtk, Disassociate, Associate, Handle, StepOn, Shape
<1>4. then' \in {Nothing, <<"free", sta>>} => ~Starting'
  BY DEF Starting, Nothing
<1> HIDE DEF r, q
<1>5. /\ t.req = r.req /\ d.req = r.req \cup {"Deauth"} /\ k.req = r.req \cup {"PTK"}
      /\ a.req = r.req
      /\ {t.wpa_ptk_state, d.wpa_ptk_state, k.wpa_ptk_state, a.wpa_ptk_state} = {r.wpa_ptk_state}
  <2>1. t.req = r.req /\ t.wpa_ptk_state = r.wpa_ptk_state
    BY <1>2 DEF Members
  <2>2. d.req = r.req \cup {"Deauth"} /\ d.wpa_ptk_state = r.wpa_ptk_state
    BY <1>2 DEF Members, Deauth, RemovePtk
  <2>3. k.req = r.req \cup {"PTK"} /\ k.wpa_ptk_state = r.wpa_ptk_state
    BY <1>2 DEF Members
  <2>4. a.req = r.req /\ a.wpa_ptk_state = r.wpa_ptk_state
    BY <1>2 DEF Members, RemovePtk
  <2> HIDE DEF t, d, k, a
  <2> QED BY <2>1, <2>2, <2>3, <2>4
<1> HIDE DEF t, d, k, a
<1>6. /\ "ReAuth" \notin q.req
      /\ Asking(q) => ~Starting' /\ anonces < MaxANonce
      /\ Starting' => anonces < MaxANonce
  BY <1>2, <1>3, <1>4, <1>5 DEF Asking
<1> QED BY <1>3, <1>6 DEF Budget, r, q

LEMMA BudgetSuffices ==
    ASSUME AuthInv, Budget(sm[sta]), ApKeys(sm[sta]), FramesSent, ApMoves
    PROVE  Budget(sm[sta])'
<1>1. CASE ApStep
  BY <1>1, PtkAsks, GroupTurns, GroupSmTurns, BudgetKept, ReturnAsks, FourWayAssumption DEF ApStep, Step
<1>2. CASE ApHandler
  BY <1>2, HandlerAsks, GroupSmTurns, BudgetKept DEF ApHandler
<1>3. CASE ApAssociate \/ ApReceive
  BY <1>3, HandlerAsks, ReceiveTurns, BudgetKept DEF ApAssociate, ApReceive
<1> QED BY <1>1, <1>2, <1>3 DEF ApMoves

-----------------------------------------------------------------------------
(* The authenticator's steps preserve the rest                              *)

LEMMA SendsKeeps ==
    ASSUME Sends
    PROVE  /\ up' = up /\ TriedKeys' = TriedKeys /\ ConfirmedKeys' = ConfirmedKeys
           /\ UNCHANGED supplicant
           /\ down' = down \cup ({out'} \ {NoKey})
           /\ taken' = taken \cup ({sm'[sta].tk} \ {NoKey})
BY DEF Sends, TriedKeys, ConfirmedKeys

LEMMA ConfirmedTried ==
    ASSUME FramesSent, NEW k \in ConfirmedKeys
    PROVE  k \in TriedKeys
BY DEF FramesSent, ConfirmedKeys

\* Keys as they are numbered.
LEMMA TriedNumbers ==
    ASSUME FramesSent, Budget(sm[sta]), StaKeys, NEW k \in TriedKeys
    PROVE  /\ k[1] \in Nat /\ k[2] \in Nat /\ 1 <= k[1] /\ k[1] <= anonces /\ k[2] <= snonce
           /\ k = <<k[1], k[2]>> /\ k \in PTKs /\ k # NoKey
           /\ anonces \in Nat /\ snonce \in Nat
<1>1. /\ anonces \in Nat /\ anonces <= MaxANonce /\ MaxANonce \in Nat
      /\ snonce \in Nat /\ snonce <= MaxSNonce /\ MaxSNonce \in Nat
  BY FourWayAssumption DEF Budget, StaKeys
<1>2. k \in (1..anonces) \X (1..snonce)
  BY DEF FramesSent
<1>3. k[1] \in 1..anonces /\ k[2] \in 1..snonce /\ k = <<k[1], k[2]>>
  BY <1>2
<1>4. k[1] \in 1..MaxANonce /\ k[2] \in 1..MaxSNonce
  BY <1>1, <1>3
<1>5. k \in PTKs
  BY <1>3, <1>4, FourWayAssumption DEF PTKs
<1>6. k # NoKey
  BY <1>5, WpaAuthAssumption DEF PTKs
<1> QED BY <1>1, <1>3, <1>5, <1>6

\* What the invariant and the step give in common.
ApBefore ==
    /\ Budget(sm[sta]) /\ ApKeys(sm[sta]) /\ ApInstalled(sm[sta])
    /\ FramesSent /\ InOrderOfNonces /\ StaKeys /\ OneKey
    /\ ApTurn(sm[sta], sm'[sta]) /\ Sends

LEMMA ConfirmedAnswer ==
    ASSUME ApBefore, Confirmed(sm[sta])
    PROVE  sm[sta].PTK \in ConfirmedKeys
<1> DEFINE r == sm[sta]
<1>1. r.rx = [type |-> "4/4", mic |-> r.PTK] /\ r.PTK \in TriedKeys /\ ApKeys(r)
  BY DEF Confirmed, ApKeys, ApBefore
<1>2. r.PTK \in PTKs
  BY <1>1, TriedNumbers DEF ApBefore
<1>3. r.rx # NoKey
  BY <1>1, <1>2, WpaAuthAssumption DEF PTKs
<1> QED BY <1>1, <1>3 DEF ApKeys

LEMMA ApKeysKept ==
    ASSUME ApBefore
    PROVE  ApKeys(sm[sta])'
<1> DEFINE r == sm[sta]
           q == sm'[sta]
<1>1. ApKeys(r) /\ ApTurn(r, q) /\ FramesSent /\ anonces \in Nat
  BY DEF ApBefore, Budget
<1>2. TriedKeys' = TriedKeys /\ ConfirmedKeys' = ConfirmedKeys
  BY SendsKeeps DEF ApBefore
<1>3. anonces' \in {anonces, anonces + 1} /\ r.ctr \in Nat /\ r.ANonce \in 0..anonces
  BY <1>1 DEF ApTurn, Draws, Stands, ApKeys
<1>4. q.ctr \in Nat
  BY <1>1, <1>3 DEF ApTurn
<1>5. q.ANonce \in 0..anonces' /\ (Drawn(q) => q.ANonce = anonces' /\ anonces' > 0)
  BY <1>1, <1>3 DEF ApTurn, Draws, Stands, ApKeys
<1>6. "Deauth" \in r.req => r.PTK = NoKey
  BY <1>1 DEF ApKeys
<1>7. /\ q.PTK # NoKey => q.PTK \in TriedKeys /\ q.PTK[1] = q.ANonce
      /\ "Deauth" \in q.req => q.PTK = NoKey
  BY <1>1, <1>6 DEF ApTurn, PtkFrom, ApKeys
<1>8. q.PTK # NoKey /\ q.wpa_ptk_state \notin Handshaking => q.PTK \in ConfirmedKeys
  <2>1. Confirmed(r) => r.PTK \in ConfirmedKeys
    BY ConfirmedAnswer
  <2> QED BY <1>1, <1>6, <2>1 DEF ApTurn, PtkFrom, ApKeys
<1>9. q.rx # NoKey => q.rx.mic \in TriedKeys /\ (q.rx.type = "4/4" => q.rx.mic \in ConfirmedKeys)
  <2>1. CASE q.rx \in {NoKey, r.rx}
    BY <1>1, <2>1 DEF ApKeys
  <2>2. ASSUME NEW f \in up, q.rx = [type |-> f.type, mic |-> f.mic]
        PROVE  q.rx.mic \in TriedKeys /\ (q.rx.type = "4/4" => q.rx.mic \in ConfirmedKeys)
    BY <1>1, <2>2 DEF FramesSent, ConfirmedKeys
  <2> QED BY <1>1, <2>1, <2>2 DEF ApTurn, RxFrom
<1> QED BY <1>2, <1>4, <1>5, <1>7, <1>8, <1>9 DEF ApKeys

\* The key that is installed has the last ANonce; those before it are older.
LEMMA ApInstalledKept ==
    ASSUME ApBefore
    PROVE  ApInstalled(sm[sta])'
<1> DEFINE r == sm[sta]
           q == sm'[sta]
<1>1. ApKeys(r) /\ ApInstalled(r) /\ ApTurn(r, q) /\ FramesSent /\ anonces \in Nat
  BY DEF ApBefore, Budget
<1>2. ConfirmedKeys' = ConfirmedKeys /\ taken' = taken \cup ({q.tk} \ {NoKey})
  BY SendsKeeps DEF ApBefore
<1>3. r.wpa_ptk_state = "PTKINITNEGOTIATING" => Drawn(r)
  BY DEF Drawn, Handshaking
<1>4. ASSUME NEW j \in taken PROVE j[1] \in Nat /\ j[1] <= anonces
  BY <1>1, <1>4, ConfirmedTried, TriedNumbers DEF ApBefore, ApInstalled
<1>5. CASE /\ r.wpa_ptk_state = "PTKINITNEGOTIATING" /\ q.wpa_ptk_state = "PTKINITDONE"
           /\ Confirmed(r) /\ q.tk = r.PTK
  <2>1. r.PTK \in ConfirmedKeys /\ r.PTK # NoKey
    BY <1>5, ConfirmedAnswer DEF Confirmed
  <2>2. r.PTK[1] = anonces
    BY <1>1, <1>3, <1>5, <2>1 DEF ApKeys
  <2>3. anonces' = anonces
    BY <1>1, <1>5 DEF ApTurn, Draws, Stands
  <2> QED BY <1>1, <1>2, <1>5, <2>1, <2>2, <2>3 DEF ApInstalled
<1>6. CASE /\ q.tk \in {r.tk, NoKey}
           /\ q.wpa_ptk_state = "PTKINITDONE" /\ Live(q) /\ ~Leaving' =>
                  q.tk = r.tk /\ r.wpa_ptk_state = "PTKINITDONE" /\ ~Leaving
  <2>1. taken' = taken /\ (q.tk # NoKey => q.tk \in taken)
    BY <1>1, <1>2, <1>6 DEF ApInstalled
  <2>2. Drawn(q) /\ q.wpa_ptk_state # "PTKINITDONE" => \A j \in taken : j[1] < anonces'
    <3>1. CASE Draws(r, q)
      BY <1>1, <1>4, <3>1 DEF Draws
    <3>2. CASE Stands(r, q)
      BY <1>1, <3>2 DEF Stands, ApInstalled
    <3> QED BY <1>1, <3>1, <3>2 DEF ApTurn
  <2>3. q.wpa_ptk_state = "PTKINITDONE" /\ Live(q) /\ ~Leaving' => q.tk # NoKey /\ q.tk[1] = anonces'
    <3>1. CASE Draws(r, q)
      BY <3>1 DEF Draws
    <3>2. CASE Stands(r, q)
      BY <1>1, <1>6, <3>2 DEF Stands, ApInstalled
    <3> QED BY <1>1, <3>1, <3>2 DEF ApTurn
  <2> QED BY <1>1, <1>2, <2>1, <2>2, <2>3 DEF ApInstalled
<1> QED BY <1>1, <1>5, <1>6 DEF ApTurn, TkFrom

\* The frame that is sent.
LEMMA NewFrame ==
    ASSUME ApBefore, out' # NoKey
    PROVE  /\ out'.type \in {"1/4", "3/4", "1/2"}
           /\ out'.ctr \in Nat \ {0}
           /\ out'.type = "1/4" => out'.nonce \in 1..anonces'
           /\ out'.type = "3/4" => /\ out'.mic \in TriedKeys /\ out'.nonce = out'.mic[1]
                                   /\ out'.mic[1] = anonces
           /\ out'.type = "1/2" => out'.mic \in ConfirmedKeys
<1> DEFINE r == sm[sta]
           q == sm'[sta]
<1>1. /\ ApKeys(r) /\ Sent(r, q) /\ anonces \in Nat /\ anonces' \in Nat
      /\ Drawn(q) => q.ANonce = anonces' /\ anonces' > 0
  <2>1. ApKeys(sm[sta])' /\ anonces \in Nat
    BY ApKeysKept DEF ApBefore, Budget
  <2>2. anonces' \in {anonces, anonces + 1}
    BY DEF ApBefore, ApTurn, Draws, Stands
  <2>3. Drawn(q) => q.ANonce = anonces' /\ anonces' > 0
    BY <2>1 DEF ApKeys
  <2> QED BY <2>1, <2>2, <2>3 DEF ApBefore, ApTurn
<1>2. r.ctr + 1 \in Nat \ {0}
  BY <1>1 DEF ApKeys
<1>3. CASE out'.type = "1/4" /\ Drawn(q) /\ out'.nonce = q.ANonce
  BY <1>1, <1>2, <1>3 DEF Sent, ApKeys
<1>4. CASE /\ out'.type = "3/4" /\ r.wpa_ptk_state \in Handshaking
           /\ r.PTK # NoKey /\ out'.mic = r.PTK /\ out'.nonce = r.ANonce
  <2>1. Drawn(r)
    BY <1>4 DEF Drawn
  <2> QED BY <1>1, <1>2, <1>4, <2>1 DEF Sent, ApKeys
<1>5. CASE /\ out'.type = "1/2" /\ r.wpa_ptk_state \notin Handshaking
           /\ r.PTK # NoKey /\ out'.mic = r.PTK
  BY <1>1, <1>2, <1>5 DEF Sent, ApKeys
<1> QED BY <1>1, <1>3, <1>4, <1>5 DEF Sent

LEMMA FramesKept ==
    ASSUME ApBefore
    PROVE  FramesSent' /\ InOrderOfNonces'
<1>1. /\ up' = up /\ TriedKeys' = TriedKeys /\ ConfirmedKeys' = ConfirmedKeys /\ snonce' = snonce
      /\ down' = down \cup ({out'} \ {NoKey})
  BY SendsKeeps DEF ApBefore, supplicant
<1>2. FramesSent /\ InOrderOfNonces /\ anonces \in Nat
  BY DEF ApBefore, Budget
<1>3. anonces' \in {anonces, anonces + 1}
  BY DEF ApBefore, ApTurn, Draws, Stands
<1>4. 1..anonces \subseteq 1..anonces'
  BY <1>2, <1>3
<1>5. ASSUME NEW f \in down'
      PROVE  /\ f.type \in {"1/4", "3/4", "1/2"}
             /\ f.ctr \in Nat \ {0}
             /\ f.type = "1/4" => f.nonce \in 1..anonces'
             /\ f.type = "3/4" => f.mic \in TriedKeys /\ f.nonce = f.mic[1]
             /\ f.type = "1/2" => f.mic \in ConfirmedKeys
  <2>1. CASE f \in down
    BY <1>2, <1>4, <2>1 DEF FramesSent
  <2>2. CASE f = out' /\ out' # NoKey
    BY <2>2, NewFrame
  <2> QED BY <1>1, <2>1, <2>2
<1>6. TriedKeys \subseteq (1..anonces') \X (1..snonce)
  BY <1>2, <1>4 DEF FramesSent
<1>7. \A k \in ConfirmedKeys : \E f \in down' : f.type = "3/4" /\ f.mic = k
  BY <1>1, <1>2 DEF FramesSent
<1>8. \A g \in up : g.type \in {"2/4", "4/4", "2/2"} /\ g.mic \in TriedKeys
  BY <1>2 DEF FramesSent
<1>9. FramesSent'
  BY <1>1, <1>5, <1>6, <1>7, <1>8 DEF FramesSent
<1>10. ASSUME NEW f \in down', NEW k \in TriedKeys, f.type = "3/4", f.mic[1] < k[1]
       PROVE  f.mic[2] <= k[2]
  <2>1. CASE f \in down
    BY <1>2, <1>10, <2>1 DEF InOrderOfNonces
  <2>2. CASE f = out' /\ out' # NoKey
    <3>1. f.mic[1] = anonces
      BY <1>10, <2>2, NewFrame
    <3>2. k[1] \in Nat /\ k[1] <= anonces
      BY TriedNumbers DEF ApBefore
    <3> QED BY <1>2, <1>10, <3>1, <3>2
  <2> QED BY <1>1, <2>1, <2>2
<1> QED BY <1>1, <1>9, <1>10 DEF InOrderOfNonces

\* A 1/4 after a 3/4 remains one.
LEMMA RestartedKept ==
    ASSUME down \subseteq down', sm'[sta].ANonce = sm[sta].ANonce, Restarted
    PROVE  Restarted'
BY DEF Restarted

LEMMA OneKeyKept ==
    ASSUME ApBefore, air' = air \/ (air' = "response" /\ air = "request" /\ Leaving')
    PROVE  StaKeys' /\ OneKey'
<1> DEFINE r == sm[sta]
           q == sm'[sta]
<1>1. /\ up' = up /\ TriedKeys' = TriedKeys /\ ConfirmedKeys' = ConfirmedKeys /\ down \subseteq down'
      /\ UNCHANGED supplicant
  BY SendsKeeps DEF ApBefore
<1>2. StaKeys'
  BY <1>1 DEF ApBefore, StaKeys, supplicant
<1>3. ASSUME Live(q)
      PROVE  /\ (S!Associated)' => \A k \in ConfirmedKeys :
                    k[1] = anonces' => \E g \in down' : /\ g.type = "3/4" /\ g.nonce = anonces'
                                                        /\ g.ctr <= rx_replay_counter
             /\ air' = "response" /\ ~Leaving' => \A k \in ConfirmedKeys : k[1] < anonces'
             /\ ~Restarted' => \A k \in ConfirmedKeys : k[1] = anonces' =>
                    /\ tptk # NoKey => tptk[1] # anonces'
                    /\ \A j \in ConfirmedKeys : j[1] = anonces' => j = k
  <2>1. CASE Draws(r, q)
    <3>1. \A k \in ConfirmedKeys : k[1] \in Nat /\ k[1] <= anonces
      BY ConfirmedTried, TriedNumbers DEF ApBefore
    <3>2. anonces \in Nat /\ anonces' = anonces + 1
      BY <2>1 DEF Draws, ApBefore, Budget
    <3>3. \A k \in ConfirmedKeys : k[1] < anonces' /\ k[1] # anonces'
      BY <3>1, <3>2
    <3> QED BY <3>3
  <2>2. CASE Stands(r, q)
    <3>1. Live(r) /\ OneKey /\ anonces' = anonces /\ q.ANonce = r.ANonce /\ (Leaving => Leaving')
      BY <1>3, <2>2 DEF Stands, ApBefore, Live
    <3>2. Restarted => Restarted'
      BY <1>1, <3>1, RestartedKept
    <3>3. (S!Associated)' = S!Associated
      BY <1>1 DEF S!Associated, supplicant
    <3> QED BY <1>1, <3>1, <3>2, <3>3 DEF OneKey
  <2> QED BY <2>1, <2>2 DEF ApBefore, ApTurn
<1>4. OneKey'
  <2>1. rx_replay_counter' = rx_replay_counter /\ tptk' = tptk
    BY <1>1 DEF supplicant
  <2> QED BY <1>1, <1>3, <2>1 DEF OneKey
<1> QED BY <1>2, <1>4

-----------------------------------------------------------------------------
(* The supplicant's steps preserve the invariant                            *)

\* What they add to the frames sent.
LEMMA NothingSent ==
    ASSUME FramesSent, InOrderOfNonces, StaMoves, up' = up,
           snonce \in Nat, snonce' \in Nat, snonce <= snonce'
    PROVE  /\ FramesSent' /\ InOrderOfNonces'
           /\ TriedKeys' = TriedKeys /\ ConfirmedKeys' = ConfirmedKeys
<1>1. anonces' = anonces /\ down' = down
  BY DEF StaMoves, vars
<1>2. TriedKeys' = TriedKeys /\ ConfirmedKeys' = ConfirmedKeys
  BY DEF TriedKeys, ConfirmedKeys
<1>3. 1..snonce \subseteq 1..snonce'
  OBVIOUS
<1>4. TriedKeys \subseteq (1..anonces) \X (1..snonce')
  BY <1>3 DEF FramesSent
<1>5. FramesSent'
  BY <1>1, <1>2, <1>4 DEF FramesSent
<1>6. InOrderOfNonces'
  BY <1>1, <1>2 DEF InOrderOfNonces
<1> QED BY <1>2, <1>5, <1>6

LEMMA AnswerSent ==
    ASSUME FramesSent, InOrderOfNonces, StaMoves, snonce' = snonce,
           NEW g, up' = up \cup {g}, g.type \in {"4/4", "2/2"}, g.mic \in TriedKeys,
           g.type = "4/4" => \E f \in down : f.type = "3/4" /\ f.mic = g.mic
    PROVE  /\ FramesSent' /\ InOrderOfNonces'
           /\ TriedKeys' = TriedKeys
           /\ ConfirmedKeys' = ConfirmedKeys \cup (IF g.type = "4/4" THEN {g.mic} ELSE {})
<1>1. anonces' = anonces /\ down' = down
  BY DEF StaMoves, vars
<1>2. TriedKeys' = TriedKeys
  BY DEF TriedKeys
<1>3. ConfirmedKeys' = ConfirmedKeys \cup (IF g.type = "4/4" THEN {g.mic} ELSE {})
  BY DEF ConfirmedKeys
<1>4. \A k \in ConfirmedKeys' : \E f \in down : f.type = "3/4" /\ f.mic = k
  BY <1>3 DEF FramesSent
<1>5. \A h \in up' : h.type \in {"2/4", "4/4", "2/2"} /\ h.mic \in TriedKeys
  BY DEF FramesSent
<1>6. \A f \in down : f.type = "1/2" => f.mic \in ConfirmedKeys'
  BY <1>3 DEF FramesSent
<1>7. FramesSent'
  BY <1>1, <1>2, <1>4, <1>5, <1>6 DEF FramesSent
<1>8. InOrderOfNonces'
  BY <1>1, <1>2 DEF InOrderOfNonces
<1> QED BY <1>2, <1>3, <1>7, <1>8

LEMMA TrySent ==
    ASSUME FramesSent, InOrderOfNonces, Budget(sm[sta]), StaKeys, StaMoves,
           NEW n \in 1..anonces, snonce' \in Nat \ {0}, snonce <= snonce',
           NEW g, up' = up \cup {g}, g.type = "2/4", g.mic = <<n, snonce'>>
    PROVE  /\ FramesSent' /\ InOrderOfNonces'
           /\ TriedKeys' = TriedKeys \cup {g.mic} /\ ConfirmedKeys' = ConfirmedKeys
<1>1. anonces' = anonces /\ down' = down /\ snonce \in Nat
  BY DEF StaMoves, vars, StaKeys
<1>2. TriedKeys' = TriedKeys \cup {g.mic}
  BY DEF TriedKeys
<1>3. ConfirmedKeys' = ConfirmedKeys
  BY DEF ConfirmedKeys
<1>4. 1..snonce \subseteq 1..snonce' /\ snonce' \in 1..snonce'
  BY <1>1
<1>5. TriedKeys' \subseteq (1..anonces) \X (1..snonce')
  BY <1>2, <1>4 DEF FramesSent
<1>6. \A h \in up' : h.type \in {"2/4", "4/4", "2/2"} /\ h.mic \in TriedKeys'
  BY <1>2 DEF FramesSent
<1>7. \A f \in down : f.type = "3/4" => f.mic \in TriedKeys'
  BY <1>2 DEF FramesSent
<1>8. FramesSent'
  BY <1>1, <1>3, <1>5, <1>6, <1>7 DEF FramesSent
<1>9. ASSUME NEW f \in down, NEW k \in TriedKeys', f.type = "3/4", f.mic[1] < k[1]
      PROVE  f.mic[2] <= k[2]
  <2>1. CASE k \in TriedKeys
    BY <1>9, <2>1 DEF InOrderOfNonces
  <2>2. CASE k = g.mic
    <3>1. f.mic[2] \in Nat /\ f.mic[2] <= snonce
      BY <1>9, TriedNumbers DEF FramesSent
    <3>2. k[2] = snonce'
      BY <2>2
    <3> QED BY <1>1, <3>1, <3>2
  <2> QED BY <1>2, <2>1, <2>2
<1> QED BY <1>1, <1>2, <1>3, <1>8, <1>9 DEF InOrderOfNonces

\* What the authenticator holds on to is still there.
LEMMA StaKeepsAp ==
    ASSUME Budget(sm[sta]), ApKeys(sm[sta]), ApInstalled(sm[sta]), StaMoves,
           TriedKeys \subseteq TriedKeys', ConfirmedKeys \subseteq ConfirmedKeys'
    PROVE  Budget(sm[sta])' /\ ApKeys(sm[sta])' /\ ApInstalled(sm[sta])'
<1>1. sm' = sm /\ anonces' = anonces /\ then' = then /\ taken' = taken
  BY DEF StaMoves, vars, ghosts
<1>2. Leaving' = Leaving /\ Starting' = Starting
  BY <1>1 DEF Leaving, Starting
<1>3. Budget(sm[sta])'
  BY <1>1, <1>2 DEF Budget
<1>4. ApKeys(sm[sta])'
  BY <1>1 DEF ApKeys
<1>5. ApInstalled(sm[sta])'
  BY <1>1, <1>2 DEF ApInstalled
<1> QED BY <1>3, <1>4, <1>5

\* What the invariant and the step give in common.
StaBefore ==
    /\ AuthInv
    /\ Budget(sm[sta]) /\ ApKeys(sm[sta])
    /\ FramesSent /\ InOrderOfNonces /\ StaKeys /\ OneKey
    /\ StaMoves

LEMMA StaRests ==
    ASSUME StaBefore
    PROVE  /\ ~Leaving /\ ~Leaving'
           /\ sm' = sm /\ anonces' = anonces /\ down' = down
           /\ Restarted' <=> Restarted
<1>1. at = "rest" /\ UNCHANGED <<sm, anonces, then, down>>
  BY DEF StaBefore, StaMoves, vars
<1>2. then = Nothing
  BY <1>1 DEF StaBefore, AuthInv, Control
<1>3. ~Leaving
  BY <1>2 DEF Leaving, Nothing
<1>4. ~Leaving'
  BY <1>1, <1>3 DEF Leaving
<1> QED BY <1>1, <1>3, <1>4 DEF Restarted

LEMMA ConfirmedNumbers ==
    ASSUME StaBefore, NEW k \in ConfirmedKeys
    PROVE  /\ k[1] \in Nat /\ k[2] \in Nat /\ k[1] <= anonces /\ k[2] <= snonce
           /\ k # NoKey /\ k \in PTKs
           /\ anonces \in Nat /\ snonce \in Nat
BY ConfirmedTried, TriedNumbers DEF StaBefore

LEMMA StaDropped ==
    ASSUME StaBefore, S!Disassociated, air' = air,
           snonce' \in 0..MaxSNonce, renew_snonce' \in BOOLEAN, snonce' = 0 => renew_snonce',
           rx_replay_counter' \in Nat, ptks' \in Seq(PTKs),
           \A k \in ConfirmedKeys' : k[2] = snonce' => renew_snonce',
           \A k \in ConfirmedKeys' : k \in ConfirmedKeys \/ (k = tptk /\ tptk # NoKey),
           ConfirmedKeys' = ConfirmedKeys \/ air = "none"
    PROVE  StaKeys' /\ OneKey'
<1>1. /\ wpa_state' = "DISCONNECTED" /\ tptk' = NoKey /\ ptk' = NoKey /\ gtk' = NoKey
  BY DEF S!Disassociated
<1>2. StaKeys'
  BY <1>1 DEF StaKeys
<1>3. ~(S!Associated)'
  BY <1>1 DEF S!Associated
<1>4. /\ sm' = sm /\ anonces' = anonces /\ (Restarted' <=> Restarted)
      /\ ~Leaving /\ OneKey
  BY StaRests DEF StaBefore
<1>5. ASSUME Live(sm[sta])
      PROVE  /\ air = "response" => \A k \in ConfirmedKeys' : k[1] < anonces
             /\ ~Restarted => \A k, j \in ConfirmedKeys' :
                    k[1] = anonces /\ j[1] = anonces => j = k
  BY <1>4, <1>5 DEF OneKey
<1>6. OneKey'
  BY <1>1, <1>3, <1>4, <1>5 DEF OneKey
<1> QED BY <1>2, <1>6

LEMMA StartKeeps ==
    ASSUME StaBefore, StaStarts
    PROVE  (FramesSent /\ InOrderOfNonces /\ StaKeys /\ OneKey)'
           /\ TriedKeys' = TriedKeys /\ ConfirmedKeys' = ConfirmedKeys
<1>1. /\ \/ wpa_state' = "ASSOCIATING" /\ air' = "request"
         \/ wpa_state' = "DISCONNECTED" /\ air' = air
      /\ up' = up
      /\ UNCHANGED <<snonce, renew_snonce, tptk, ptk, installed, gtk, rx_replay_counter,
                     msg_3_of_4_ok, ptks>>
  BY DEF StaStarts, S!StartAssoc, S!StartAssocFails, S!handshake, S!keys, S!history
<1>2. /\ FramesSent' /\ InOrderOfNonces'
      /\ TriedKeys' = TriedKeys /\ ConfirmedKeys' = ConfirmedKeys
  <2>1. snonce \in Nat
    BY FourWayAssumption DEF StaBefore, StaKeys
  <2> QED BY <1>1, <2>1, NothingSent DEF StaBefore
<1>3. StaKeys'
  BY <1>1, <1>2 DEF StaBefore, StaKeys
<1>4. OneKey'
  BY <1>1, <1>2, StaRests DEF StaBefore, OneKey, S!Associated
<1> QED BY <1>2, <1>3, <1>4

\* The association is new for both sides, and so is the ANonce.
LEMMA JoinKeeps ==
    ASSUME StaBefore, StaJoins
    PROVE  (FramesSent /\ InOrderOfNonces /\ StaKeys /\ OneKey)'
           /\ TriedKeys' = TriedKeys /\ ConfirmedKeys' = ConfirmedKeys
<1>1. /\ wpa_state' = "ASSOCIATED" /\ air = "response" /\ air' = "none" /\ up' = up
      /\ renew_snonce' = TRUE /\ tptk' = NoKey /\ ptk' = NoKey /\ gtk' = NoKey
      /\ rx_replay_counter' = 0
      /\ UNCHANGED <<snonce, ptks>>
  BY DEF StaJoins, S!EventAssoc, S!RenewOnAssoc
<1>2. /\ FramesSent' /\ InOrderOfNonces'
      /\ TriedKeys' = TriedKeys /\ ConfirmedKeys' = ConfirmedKeys
  <2>1. snonce \in Nat
    BY FourWayAssumption DEF StaBefore, StaKeys
  <2> QED BY <1>1, <2>1, NothingSent DEF StaBefore
<1>3. StaKeys'
  BY <1>1, <1>2 DEF StaBefore, StaKeys
<1>4. Live(sm[sta]) => \A k \in ConfirmedKeys : k[1] < anonces /\ k[1] # anonces
  BY <1>1, StaRests, ConfirmedNumbers DEF StaBefore, OneKey
<1>5. OneKey'
  BY <1>1, <1>2, <1>4, StaRests DEF OneKey
<1> QED BY <1>2, <1>3, <1>5

LEMMA LeaveKeeps ==
    ASSUME StaBefore, StaLeaves
    PROVE  (FramesSent /\ InOrderOfNonces /\ StaKeys /\ OneKey)'
           /\ TriedKeys' = TriedKeys /\ ConfirmedKeys' = ConfirmedKeys
<1>1. /\ S!Disassociated /\ air' = air /\ up' = up
      /\ UNCHANGED <<snonce, renew_snonce, rx_replay_counter, ptks>>
  BY DEF StaLeaves, S!EventDisassoc, S!Deauthenticate, S!Deauthenticated, S!history
<1>2. StaKeys /\ snonce \in Nat
  BY FourWayAssumption DEF StaBefore, StaKeys
<1>3. /\ FramesSent' /\ InOrderOfNonces'
      /\ TriedKeys' = TriedKeys /\ ConfirmedKeys' = ConfirmedKeys
  BY <1>1, <1>2, NothingSent DEF StaBefore
<1>4. StaKeys' /\ OneKey'
  BY <1>1, <1>2, <1>3, StaDropped DEF StaKeys
<1> QED BY <1>3, <1>4

\* 1/4: a key that is tried has an SNonce of which no key is confirmed.
LEMMA NextUnused ==
    ASSUME StaBefore, S!NextSNonce <= MaxSNonce
    PROVE  /\ S!NextSNonce \in Nat \ {0} /\ snonce <= S!NextSNonce /\ snonce \in Nat
           /\ S!NextSNonce \in 0..MaxSNonce
           /\ \A k \in ConfirmedKeys : k[2] < S!NextSNonce
<1>1. /\ snonce \in Nat /\ renew_snonce \in BOOLEAN /\ (snonce = 0 => renew_snonce)
      /\ \A k \in ConfirmedKeys : k[2] = snonce => renew_snonce
  BY FourWayAssumption DEF StaBefore, StaKeys
<1>2. \A k \in ConfirmedKeys : k[2] \in Nat /\ k[2] <= snonce
  BY ConfirmedNumbers
<1>3. CASE renew_snonce
  <2>1. S!NextSNonce = snonce + 1
    BY <1>3 DEF S!NextSNonce
  <2> QED BY <1>1, <1>2, <2>1
<1>4. CASE ~renew_snonce
  <2>1. S!NextSNonce = snonce
    BY <1>4 DEF S!NextSNonce
  <2>2. \A k \in ConfirmedKeys : k[2] < snonce
    BY <1>1, <1>2, <1>4
  <2> QED BY <1>1, <1>4, <2>1, <2>2
<1> QED BY <1>1, <1>3, <1>4

\* It comes with an ANonce of which a key is confirmed only in a restarted handshake.
LEMMA TriedAgain ==
    ASSUME StaBefore, NEW f \in down, f.type = "1/4", S!Receives(f.ctr), Live(sm[sta]),
           NEW k \in ConfirmedKeys, k[1] = anonces, f.nonce = anonces
    PROVE  Restarted
<1>1. PICK g \in down : g.type = "3/4" /\ g.nonce = anonces /\ g.ctr <= rx_replay_counter
  BY DEF StaBefore, OneKey, S!Receives
<1>2. g.ctr \in Nat \ {0} /\ f.ctr \in Nat \ {0} /\ rx_replay_counter \in Nat
  BY DEF StaBefore, FramesSent, StaKeys
<1>3. f.ctr > rx_replay_counter
  BY <1>1, <1>2 DEF S!Receives, S!NotReplayed
<1>4. f.ctr > g.ctr
  BY <1>1, <1>2, <1>3
<1>5. sm[sta].ANonce = anonces
  BY DEF StaBefore, ApKeys, Live
<1> QED BY <1>1, <1>4, <1>5 DEF Restarted

LEMMA Keeps1of4 ==
    ASSUME StaBefore, air' = air, NEW f \in down, Sta1of4(f)
    PROVE  (FramesSent /\ InOrderOfNonces /\ StaKeys /\ OneKey)'
           /\ TriedKeys \subseteq TriedKeys' /\ ConfirmedKeys' = ConfirmedKeys
           /\ ptks' = ptks
<1>1. /\ f.type = "1/4" /\ S!Receives(f.ctr) /\ S!Associated
  BY DEF Sta1of4, S!Receives
<1>2. air = "none"
  BY <1>1 DEF StaBefore, StaKeys, S!Associated
<1>3. snonce \in Nat /\ f.nonce \in 1..anonces
  BY <1>1, FourWayAssumption DEF StaBefore, StaKeys, FramesSent
<1>4. CASE S!Process1of4(f.nonce) /\ up' = up \cup {Answer("2/4", f, snonce', tptk')}
  <2> DEFINE n == S!NextSNonce
             g == Answer("2/4", f, snonce', tptk')
  <2>1. /\ n <= MaxSNonce /\ wpa_state' = "4WAY_HANDSHAKE" /\ snonce' = n
        /\ renew_snonce' = FALSE /\ tptk' = <<f.nonce, n>>
        /\ UNCHANGED <<ptk, installed, gtk, rx_replay_counter, msg_3_of_4_ok, ptks>>
    BY <1>4 DEF S!Process1of4, S!keys, S!history
  <2>2. /\ n \in Nat \ {0} /\ snonce <= n /\ n \in 0..MaxSNonce
        /\ \A k \in ConfirmedKeys : k[2] < n
    BY <2>1, NextUnused
  <2>3. up' = up \cup {g} /\ g.type = "2/4" /\ g.mic = <<f.nonce, snonce'>>
    BY <1>4, <2>1 DEF Answer
  <2> HIDE DEF n, g
  <2>4. /\ FramesSent' /\ InOrderOfNonces'
        /\ TriedKeys' = TriedKeys \cup {g.mic} /\ ConfirmedKeys' = ConfirmedKeys
    BY <1>3, <2>1, <2>2, <2>3, TrySent DEF StaBefore
  <2>5. \A k \in ConfirmedKeys : k[2] # snonce'
    BY <2>1, <2>2, ConfirmedNumbers
  <2>6. tptk' \in TriedKeys' /\ tptk'[2] = snonce' /\ snonce' # 0
    BY <2>1, <2>2, <2>3, <2>4
  <2>7. StaKeys'
    BY <1>2, <2>1, <2>2, <2>4, <2>5, <2>6 DEF StaBefore, StaKeys
  <2>8. ASSUME Live(sm[sta])
        PROVE  /\ \A k \in ConfirmedKeys : k[1] = anonces =>
                      \E h \in down : /\ h.type = "3/4" /\ h.nonce = anonces
                                      /\ h.ctr <= rx_replay_counter
               /\ ~Restarted => \A k \in ConfirmedKeys : k[1] = anonces =>
                      /\ tptk'[1] # anonces
                      /\ \A j \in ConfirmedKeys : j[1] = anonces => j = k
    <3>1. OneKey
      BY DEF StaBefore
    <3>2. tptk'[1] = f.nonce
      BY <2>1
    <3> QED BY <1>1, <2>8, <3>1, <3>2, TriedAgain DEF OneKey
  <2>9. OneKey'
    BY <1>2, <2>1, <2>4, <2>8, StaRests DEF OneKey
  <2> QED BY <2>1, <2>4, <2>7, <2>9
<1>5. CASE S!Process1of4Fails /\ up' = up
  <2>1. /\ \/ snonce' = snonce /\ renew_snonce' = renew_snonce
           \/ /\ S!NextSNonce <= MaxSNonce /\ snonce' = S!NextSNonce
              /\ renew_snonce' = FALSE
        /\ S!Disassociated
        /\ UNCHANGED <<rx_replay_counter, ptks>>
    BY <1>5 DEF S!Process1of4Fails, S!Deauthenticated, S!history
  <2>2. /\ snonce' \in Nat /\ snonce <= snonce' /\ snonce' \in 0..MaxSNonce
        /\ renew_snonce' \in BOOLEAN /\ (snonce' = 0 => renew_snonce')
        /\ \A k \in ConfirmedKeys : k[2] = snonce' => renew_snonce'
    <3>1. CASE snonce' = snonce /\ renew_snonce' = renew_snonce
      BY <1>3, <3>1 DEF StaBefore, StaKeys
    <3>2. CASE S!NextSNonce <= MaxSNonce /\ snonce' = S!NextSNonce /\ renew_snonce' = FALSE
      <4>1. \A k \in ConfirmedKeys : k[2] \in Nat /\ k[2] < snonce'
        BY <3>2, NextUnused, ConfirmedNumbers
      <4>2. /\ snonce' \in Nat \ {0} /\ snonce <= snonce' /\ snonce' \in 0..MaxSNonce
        BY <3>2, NextUnused
      <4>3. \A k \in ConfirmedKeys : k[2] # snonce'
        BY <4>1, <4>2
      <4> QED BY <3>2, <4>2, <4>3
    <3> QED BY <2>1, <3>1, <3>2
  <2>3. /\ FramesSent' /\ InOrderOfNonces'
        /\ TriedKeys' = TriedKeys /\ ConfirmedKeys' = ConfirmedKeys
    BY <1>3, <1>5, <2>2, NothingSent DEF StaBefore
  <2>4. rx_replay_counter' \in Nat /\ ptks' \in Seq(PTKs)
    BY <2>1 DEF StaBefore, StaKeys
  <2>5. StaKeys' /\ OneKey'
    BY <2>1, <2>2, <2>3, <2>4, StaDropped
  <2> QED BY <2>1, <2>3, <2>5
<1> QED BY <1>4, <1>5 DEF Sta1of4

\* No key is confirmed, or the one that was tried last is, and is installed or not.
Confirms ==
    \/ ConfirmedKeys' = ConfirmedKeys /\ ptks' = ptks
    \/ /\ tptk # NoKey /\ tptk \in PTKs
       /\ \A j \in ConfirmedKeys : j[2] < tptk[2]
       /\ ConfirmedKeys' = ConfirmedKeys \cup {tptk}
       /\ ptks' \in {ptks, Append(ptks, tptk)}

\* A key that is tried is newer on the supplicant's side than all that are confirmed.
LEMMA TriedIsNew ==
    ASSUME StaBefore, tptk # NoKey
    PROVE  /\ tptk \in TriedKeys /\ tptk \in PTKs /\ tptk[2] = snonce
           /\ \A k \in ConfirmedKeys : k[2] < tptk[2]
           /\ tptk \notin ConfirmedKeys
<1>1. /\ tptk \in TriedKeys /\ tptk[2] = snonce
      /\ \A k \in ConfirmedKeys : k[2] # snonce
  BY DEF StaBefore, StaKeys
<1>2. tptk \in PTKs
  BY <1>1, TriedNumbers DEF StaBefore
<1>3. \A k \in ConfirmedKeys : k[2] \in Nat /\ k[2] <= snonce /\ snonce \in Nat
  BY ConfirmedNumbers
<1> QED BY <1>1, <1>2, <1>3

\* The replay counter of a frame with a MIC is accepted and remembered.
LEMMA CounterGrows ==
    ASSUME StaBefore, NEW f \in down, S!Receives(f.ctr), rx_replay_counter' = f.ctr
    PROVE  /\ rx_replay_counter' \in Nat
           /\ \A g \in down : g.ctr <= rx_replay_counter => g.ctr <= rx_replay_counter'
<1>1. f.ctr \in Nat /\ rx_replay_counter \in Nat /\ \A g \in down : g.ctr \in Nat \ {0}
  BY DEF StaBefore, FramesSent, StaKeys
<1>2. CASE rx_replay_counter = 0
  BY <1>1, <1>2
<1>3. CASE f.ctr > rx_replay_counter
  BY <1>1, <1>3
<1> QED BY <1>1, <1>2, <1>3 DEF S!Receives, S!NotReplayed

\* 3/4 under the key that was tried last: it is confirmed.
LEMMA Keeps3of4New ==
    ASSUME StaBefore, air' = air, NEW f \in down, Sta3of4(f), f.mic = tptk
    PROVE  (FramesSent /\ InOrderOfNonces /\ StaKeys /\ OneKey)'
           /\ TriedKeys' = TriedKeys /\ Confirms
<1> DEFINE v == S!Verified(f.mic)
           g == Answer("4/4", f, 0, f.mic)
<1>1. /\ f.type = "3/4" /\ S!Receives(f.ctr) /\ S!Associated /\ rx_replay_counter' = f.ctr
      /\ tptk # NoKey
  BY DEF Sta3of4, S!Receives, S!MicOk
<1>2. air = "none"
  BY <1>1 DEF StaBefore, StaKeys, S!Associated
<1>3. v = [tptk |-> NoKey, ptk |-> tptk, installed |-> FALSE, renew |-> TRUE]
  BY DEF S!Verified, S!UsedTptk
<1>4. /\ v.tptk = NoKey /\ v.ptk = tptk /\ v.installed = FALSE /\ v.renew = TRUE
  BY <1>3
<1>5. /\ S!Process3of4(v, f.nonce, f.gtk, TRUE, TRUE) \/ S!Process3of4Fails(v, f.nonce, TRUE)
      /\ \/ S!Process3of4(v, f.nonce, f.gtk, TRUE, TRUE) /\ up' = up \cup {g}
         \/ S!Process3of4Fails(v, f.nonce, TRUE) /\ (up' = up \cup {g} \/ (up' = up /\ ptks' = ptks))
  BY DEF Sta3of4
<1> HIDE DEF v
<1>6. /\ renew_snonce' = TRUE /\ snonce' = snonce
      /\ ptks' \in {ptks, Append(ptks, tptk)}
  BY <1>4, <1>5 DEF S!Process3of4, S!Process3of4Fails, S!InstallPtk
<1>7. /\ StaKeys /\ snonce \in Nat /\ snonce \in 0..MaxSNonce
      /\ tptk \in TriedKeys /\ tptk \in PTKs /\ tptk[2] = snonce
      /\ \A k \in ConfirmedKeys : k[2] < tptk[2]
  BY <1>1, FourWayAssumption, TriedIsNew DEF StaBefore, StaKeys
<1>8. ptks' \in Seq(PTKs)
  BY <1>6, <1>7 DEF StaKeys
<1>9. /\ rx_replay_counter' \in Nat
      /\ \A h \in down : h.ctr <= rx_replay_counter => h.ctr <= rx_replay_counter'
  BY <1>1, CounterGrows
<1>10. CASE up' = up
  <2>1. /\ FramesSent' /\ InOrderOfNonces'
        /\ TriedKeys' = TriedKeys /\ ConfirmedKeys' = ConfirmedKeys
    BY <1>6, <1>7, <1>10, NothingSent DEF StaBefore
  <2>2. g.type = "4/4" /\ g.mic = tptk
    BY DEF Answer
  <2>3. up' # up \cup {g}
    <3>1. tptk \notin ConfirmedKeys
      BY <1>1, TriedIsNew
    <3> QED BY <1>10, <2>2, <3>1 DEF ConfirmedKeys
  <2>4. S!Disassociated /\ ptks' = ptks
    BY <1>5, <2>3 DEF S!Process3of4Fails, S!Deauthenticated
  <2>5. StaKeys' /\ OneKey'
    BY <1>6, <1>7, <1>8, <1>9, <2>1, <2>4, StaDropped
  <2> QED BY <2>1, <2>4, <2>5 DEF Confirms
<1>11. CASE up' = up \cup {g}
  <2>1. g.type = "4/4" /\ g.mic = tptk
    BY DEF Answer
  <2> HIDE DEF g
  <2>2. /\ FramesSent' /\ InOrderOfNonces'
        /\ TriedKeys' = TriedKeys /\ ConfirmedKeys' = ConfirmedKeys \cup {tptk}
    BY <1>1, <1>6, <1>7, <1>11, <2>1, AnswerSent DEF StaBefore
  <2>3. CASE S!Process3of4Fails(v, f.nonce, TRUE)
    <3>1. S!Disassociated
      BY <2>3 DEF S!Process3of4Fails, S!Deauthenticated
    <3>2. StaKeys' /\ OneKey'
      BY <1>1, <1>2, <1>6, <1>7, <1>8, <1>9, <2>2, <3>1, StaDropped
    <3> QED BY <1>1, <1>6, <1>7, <2>2, <3>2 DEF Confirms
  <2>4. CASE S!Process3of4(v, f.nonce, f.gtk, TRUE, TRUE)
    <3>1. /\ wpa_state' = "COMPLETED" /\ tptk' = NoKey /\ ptk' = tptk
          /\ installed' = TRUE /\ msg_3_of_4_ok' = TRUE
      BY <1>4, <2>4 DEF S!Process3of4
    <3>2. StaKeys'
      BY <1>1, <1>2, <1>6, <1>7, <1>8, <1>9, <2>2, <3>1 DEF StaKeys
    <3>3. OneKey /\ f.nonce = f.mic[1] /\ f.ctr \in Nat
      BY <1>1 DEF StaBefore, FramesSent
    <3>4. ASSUME Live(sm[sta])
          PROVE  /\ \A k \in ConfirmedKeys' : k[1] = anonces =>
                        \E h \in down : /\ h.type = "3/4" /\ h.nonce = anonces
                                        /\ h.ctr <= rx_replay_counter'
                 /\ ~Restarted => \A k, j \in ConfirmedKeys' :
                        k[1] = anonces /\ j[1] = anonces => j = k
      <4>1. \A k \in ConfirmedKeys : k[1] = anonces =>
                        \E h \in down : /\ h.type = "3/4" /\ h.nonce = anonces
                                        /\ h.ctr <= rx_replay_counter'
        BY <1>1, <1>9, <3>3, <3>4 DEF OneKey
      <4>2. tptk[1] = anonces => /\ f.type = "3/4" /\ f.nonce = anonces
                                 /\ f.ctr <= rx_replay_counter'
        BY <1>1, <3>3
      <4>3. ~Restarted => \A k \in ConfirmedKeys : k[1] = anonces =>
                        /\ tptk[1] # anonces
                        /\ \A j \in ConfirmedKeys : j[1] = anonces => j = k
        BY <1>1, <3>3, <3>4 DEF OneKey
      <4> QED BY <2>2, <4>1, <4>2, <4>3
    <3>5. OneKey'
      BY <1>2, <3>1, <3>4, StaRests DEF OneKey
    <3> QED BY <1>1, <1>6, <1>7, <2>2, <3>2, <3>5 DEF Confirms
  <2> QED BY <1>5, <2>3, <2>4
<1> QED BY <1>5, <1>10, <1>11

\* 3/4 or 1/2 under the PTK: it is confirmed and installed already.
LEMMA KeepsAgain ==
    ASSUME StaBefore, air' = air, NEW f \in down, Sta3of4(f) \/ Sta1of2(f), f.mic # tptk
    PROVE  (FramesSent /\ InOrderOfNonces /\ StaKeys /\ OneKey)'
           /\ TriedKeys' = TriedKeys /\ Confirms
<1> DEFINE v == S!Verified(f.mic)
           type == IF f.type = "3/4" THEN "4/4" ELSE "2/2"
           g == Answer(type, f, 0, f.mic)
<1>1. /\ f.type \in {"3/4", "1/2"}
      /\ S!Receives(f.ctr) /\ S!Associated /\ rx_replay_counter' = f.ctr
      /\ f.mic = ptk /\ ptk # NoKey
  BY DEF Sta3of4, Sta1of2, S!Receives, S!MicOk
<1>2. air = "none"
  BY <1>1 DEF StaBefore, StaKeys, S!Associated
<1>3. StaKeys /\ ptk \in ConfirmedKeys /\ installed = TRUE /\ msg_3_of_4_ok = TRUE
  BY <1>1 DEF StaBefore, StaKeys
<1>4. v = [tptk |-> tptk, ptk |-> ptk, installed |-> installed, renew |-> renew_snonce]
  BY DEF S!Verified
<1>5. /\ v.tptk = tptk /\ v.ptk = ptk /\ v.installed = TRUE /\ v.renew = renew_snonce
  BY <1>3, <1>4
<1>6. /\ up' \in {up, up \cup {g}}
      /\ \/ S!Process3of4(v, f.nonce, f.gtk, TRUE, TRUE)
         \/ S!Process3of4Fails(v, f.nonce, TRUE)
         \/ S!Process1of2(v, f.gtk, TRUE)
         \/ S!Process1of2Fails(v)
  BY DEF Sta3of4, Sta1of2
<1> HIDE DEF v
<1>7. /\ renew_snonce' \in {renew_snonce, TRUE} /\ snonce' = snonce /\ ptks' = ptks
  BY <1>5, <1>6 DEF S!Process3of4, S!Process3of4Fails, S!Process1of2, S!Process1of2Fails,
                    S!InstallPtk, S!history
<1>8. \/ S!Disassociated
      \/ /\ wpa_state' = "COMPLETED" /\ tptk' = tptk /\ ptk' = ptk
         /\ installed' = TRUE /\ msg_3_of_4_ok' = TRUE
  BY <1>3, <1>5, <1>6 DEF S!Process3of4, S!Process3of4Fails, S!Process1of2, S!Process1of2Fails,
                          S!Deauthenticated
<1>9. snonce \in Nat /\ ptk \in TriedKeys /\ renew_snonce \in BOOLEAN
  BY <1>3, FourWayAssumption, ConfirmedTried DEF StaBefore, StaKeys
<1>10. /\ rx_replay_counter' \in Nat
       /\ \A h \in down : h.ctr <= rx_replay_counter => h.ctr <= rx_replay_counter'
  BY <1>1, CounterGrows
<1>11. /\ FramesSent' /\ InOrderOfNonces'
       /\ TriedKeys' = TriedKeys /\ ConfirmedKeys' = ConfirmedKeys
  <2>1. CASE up' = up
    BY <1>7, <1>9, <2>1, NothingSent DEF StaBefore
  <2>2. CASE up' = up \cup {g}
    <3>1. g.type \in {"4/4", "2/2"} /\ g.mic = ptk /\ (g.type = "4/4" => f.type = "3/4")
      BY <1>1 DEF Answer
    <3> HIDE DEF g
    <3>2. /\ FramesSent' /\ InOrderOfNonces' /\ TriedKeys' = TriedKeys
          /\ ConfirmedKeys' = ConfirmedKeys \cup (IF g.type = "4/4" THEN {g.mic} ELSE {})
      BY <1>1, <1>7, <1>9, <2>2, <3>1, AnswerSent DEF StaBefore
    <3> QED BY <1>3, <3>1, <3>2
  <2> QED BY <1>6, <2>1, <2>2
<1>12. /\ renew_snonce' \in BOOLEAN /\ (snonce' = 0 => renew_snonce')
       /\ \A k \in ConfirmedKeys' : k[2] = snonce' => renew_snonce' /\ tptk = NoKey
       /\ snonce' \in 0..MaxSNonce /\ ptks' \in Seq(PTKs)
  BY <1>3, <1>7, <1>9, <1>11 DEF StaKeys
<1>13. CASE S!Disassociated
  BY <1>7, <1>10, <1>11, <1>12, <1>13, StaDropped DEF Confirms
<1>14. CASE /\ wpa_state' = "COMPLETED" /\ tptk' = tptk /\ ptk' = ptk
            /\ installed' = TRUE /\ msg_3_of_4_ok' = TRUE
  <2>1. StaKeys'
    BY <1>1, <1>2, <1>3, <1>7, <1>10, <1>11, <1>12, <1>14 DEF StaKeys
  <2>2. ASSUME Live(sm[sta])
        PROVE  \A k \in ConfirmedKeys : k[1] = anonces =>
                   \E h \in down : /\ h.type = "3/4" /\ h.nonce = anonces
                                   /\ h.ctr <= rx_replay_counter'
    BY <1>1, <1>10, <2>2 DEF StaBefore, OneKey
  <2>3. OneKey'
    BY <1>2, <1>11, <1>14, <2>2, StaRests DEF StaBefore, OneKey
  <2> QED BY <1>7, <1>11, <2>1, <2>3 DEF Confirms
<1> QED BY <1>8, <1>13, <1>14

LEMMA Keeps3of4Or1of2 ==
    ASSUME StaBefore, air' = air, NEW f \in down, Sta3of4(f) \/ Sta1of2(f)
    PROVE  (FramesSent /\ InOrderOfNonces /\ StaKeys /\ OneKey)'
           /\ TriedKeys' = TriedKeys /\ Confirms
<1>1. Sta1of2(f) => f.mic # tptk
  <2>1. Sta1of2(f) => f.mic \in ConfirmedKeys
    BY DEF Sta1of2, StaBefore, FramesSent
  <2>2. tptk # NoKey => tptk \notin ConfirmedKeys
    BY TriedIsNew
  <2>3. Sta1of2(f) => f.mic # NoKey
    BY DEF Sta1of2, S!MicOk
  <2> QED BY <2>1, <2>2, <2>3
<1> QED BY <1>1, Keeps3of4New, KeepsAgain

\* Every step of the supplicant.
LEMMA StaKeeps ==
    ASSUME StaBefore, StaStarts \/ StaJoins \/ StaLeaves \/ StaReceive
    PROVE  (FramesSent /\ InOrderOfNonces /\ StaKeys /\ OneKey)'
           /\ TriedKeys \subseteq TriedKeys' /\ ConfirmedKeys \subseteq ConfirmedKeys'
           /\ Confirms
<1>1. CASE StaStarts \/ StaJoins \/ StaLeaves
  <2>1. ptks' = ptks
    BY <1>1 DEF StaStarts, S!StartAssoc, S!StartAssocFails, S!history, StaJoins, S!EventAssoc,
                StaLeaves, S!EventDisassoc, S!Deauthenticate
  <2> QED BY <1>1, <2>1, StartKeeps, JoinKeeps, LeaveKeeps DEF Confirms
<1>2. CASE StaReceive
  <2>1. PICK f \in down : Sta1of4(f) \/ Sta3of4(f) \/ Sta1of2(f)
    BY <1>2 DEF StaReceive
  <2>2. air' = air
    BY <1>2 DEF StaReceive
  <2>3. CASE Sta1of4(f)
    BY <2>2, <2>3, Keeps1of4 DEF Confirms
  <2>4. CASE Sta3of4(f) \/ Sta1of2(f)
    <3>1. (FramesSent /\ InOrderOfNonces /\ StaKeys /\ OneKey)' /\ TriedKeys' = TriedKeys /\ Confirms
      BY <2>2, <2>4, Keeps3of4Or1of2
    <3> QED BY <3>1 DEF Confirms
  <2> QED BY <2>1, <2>3, <2>4
<1> QED BY <1>1, <1>2

-----------------------------------------------------------------------------
(* The theorems                                                             *)

\* A step of the authenticator is one of WpaAuth's, and a frame of the supplicant is one
\* that it may be sent.
LEMMA ApAuthInv ==
    ASSUME WorldInv, ApMoves
    PROVE  AuthInv' /\ Fresh'
<1>1. AuthInv /\ Fresh /\ sta \in Stations
  BY FourWayAssumption DEF WorldInv
<1>2. ASSUME NEW f \in up PROVE Reply(f)
  <2>1. f.type \in {"2/4", "4/4", "2/2"} /\ f.mic \in TriedKeys
    BY DEF WorldInv, FramesSent
  <2>2. f.mic \in PTKs
    BY <2>1, TriedNumbers DEF WorldInv
  <2> QED BY <2>1, <2>2 DEF Reply
<1>3. Moves
  BY <1>1, <1>2 DEF ApMoves, ApStep, ApHandler, ApAssociate, ApReceive, Moves
<1> QED BY <1>1, <1>3, MovesPreserve

LEMMA ApPreserves ==
    ASSUME WorldInv, ApMoves
    PROVE  WorldInv'
<1>1. AuthInv' /\ Fresh'
  BY ApAuthInv
<1>2. Budget(sm[sta])'
  BY BudgetSuffices DEF WorldInv
<1>3. ApBefore /\ (air' = air \/ (air' = "response" /\ air = "request" /\ Leaving'))
  BY ApTurns DEF WorldInv, ApBefore
<1> QED BY <1>1, <1>2, <1>3, ApKeysKept, ApInstalledKept, FramesKept, OneKeyKept DEF WorldInv

LEMMA StaPreserves ==
    ASSUME WorldInv, StaStarts \/ StaJoins \/ StaLeaves \/ StaReceive
    PROVE  WorldInv' /\ Confirms
<1>1. StaMoves /\ UNCHANGED vars
  BY DEF StaStarts, StaJoins, StaLeaves, StaReceive, StaMoves
<1>2. AuthInv' /\ Fresh'
  BY <1>1, MovesPreserve DEF WorldInv
<1>3. StaBefore
  BY <1>1 DEF WorldInv, StaBefore
<1>4. /\ (FramesSent /\ InOrderOfNonces /\ StaKeys /\ OneKey)'
      /\ TriedKeys \subseteq TriedKeys' /\ ConfirmedKeys \subseteq ConfirmedKeys'
      /\ Confirms
  BY <1>3, StaKeeps
<1>5. Budget(sm[sta])' /\ ApKeys(sm[sta])' /\ ApInstalled(sm[sta])'
  BY <1>1, <1>4, StaKeepsAp DEF WorldInv
<1> QED BY <1>2, <1>4, <1>5 DEF WorldInv

LEMMA StutterPreserves ==
    ASSUME WorldInv, UNCHANGED world
    PROVE  WorldInv'
<1>1. UNCHANGED vars /\ UNCHANGED supplicant /\ UNCHANGED <<down, up, air, taken>>
  BY DEF world, ghosts
<1>2. AuthInv' /\ Fresh'
  BY <1>1, MovesPreserve DEF WorldInv
<1>3. /\ sm' = sm /\ anonces' = anonces /\ then' = then
      /\ Leaving' = Leaving /\ Starting' = Starting
      /\ TriedKeys' = TriedKeys /\ ConfirmedKeys' = ConfirmedKeys
  BY <1>1 DEF vars, Leaving, Starting, TriedKeys, ConfirmedKeys
<1>4. Budget(sm[sta])' /\ ApKeys(sm[sta])' /\ ApInstalled(sm[sta])'
  BY <1>1, <1>3 DEF WorldInv, Budget, ApKeys, ApInstalled
<1>5. FramesSent' /\ InOrderOfNonces' /\ StaKeys'
  BY <1>1, <1>3 DEF WorldInv, FramesSent, InOrderOfNonces, StaKeys, supplicant
<1>6. OneKey'
  BY <1>1, <1>3 DEF WorldInv, OneKey, Restarted, S!Associated, supplicant
<1> QED BY <1>2, <1>4, <1>5, <1>6 DEF WorldInv

LEMMA WorldInitHolds ==
    ASSUME WorldInit
    PROVE  WorldInv
<1>1. AuthInv /\ Fresh /\ anonces = 0 /\ then = Nothing /\ sm[sta] = NewSm
  BY InitHolds, FourWayAssumption DEF WorldInit, Init
<1>2. /\ down = {} /\ up = {} /\ air = "none" /\ taken = {} /\ snonce = 0 /\ renew_snonce = TRUE
      /\ tptk = NoKey /\ ptk = NoKey /\ gtk = NoKey /\ wpa_state = "DISCONNECTED"
      /\ rx_replay_counter = 0 /\ ptks = <<>>
  BY DEF WorldInit, S!Init
<1>3. TriedKeys = {} /\ ConfirmedKeys = {}
  BY <1>2 DEF TriedKeys, ConfirmedKeys
<1>4. ~Leaving /\ ~Starting /\ ~Asking(NewSm) /\ ~Drawn(NewSm) /\ NewSm.req = {}
  BY <1>1 DEF Leaving, Starting, Nothing, Asking, Drawn, Handshaking, NewSm
<1>5. MaxANonce \in Nat /\ MaxSNonce \in Nat
  BY FourWayAssumption
<1>6. Budget(NewSm)
  BY <1>1, <1>4, <1>5 DEF Budget
<1>7. ApKeys(NewSm)
  BY <1>1, <1>4 DEF ApKeys, NewSm
<1>8. ApInstalled(NewSm)
  BY <1>2, <1>4 DEF ApInstalled, Live, NewSm
<1>9. FramesSent /\ InOrderOfNonces
  BY <1>2, <1>3 DEF FramesSent, InOrderOfNonces
<1>10. StaKeys
  BY <1>2, <1>3, <1>5 DEF StaKeys
<1>11. OneKey
  BY <1>1, <1>4 DEF OneKey, Live
<1> QED BY <1>1, <1>6, <1>7, <1>8, <1>9, <1>10, <1>11 DEF WorldInv

\* What holds in every state of the two sides and of the frames between them, however
\* these are lost, repeated, delayed and mixed: of the keys that wpa_auth.c and wpa.c
\* hold, of the nonces they are made of, and of the frames that carry them.
THEOREM WorldInvariant == WorldSpec => []WorldInv
<1>1. WorldInit => WorldInv
  BY WorldInitHolds
<1>2. WorldInv /\ [WorldNext]_world => WorldInv'
  BY ApPreserves, StaPreserves, StutterPreserves DEF WorldNext, ApMoves, WorldIdle
<1> QED BY <1>1, <1>2, PTL DEF WorldSpec

\* Once the authenticator has completed a handshake (PTKINITDONE), a supplicant that has
\* a PTK has the one that the authenticator installed, and has installed it too; of the
\* handshake that a late 2/4 made the authenticator begin again, this is not said.
THEOREM KeysAgree == WorldSpec => []Agreement
<1>1. WorldInv => Agreement
  <2> SUFFICES ASSUME WorldInv, ApDone, ~Restarted, ptk # NoKey
               PROVE  sm[sta].tk = ptk /\ installed
    BY DEF Agreement
  <2> DEFINE r == sm[sta]
             tk == sm[sta].tk
  <2>1. at = "rest" /\ r.wpa_ptk_state = "PTKINITDONE" /\ AuthInv /\ sta \in Stations
    BY FourWayAssumption DEF ApDone, WorldInv
  <2>2. then = Nothing /\ r.req \subseteq {"Disconnect"}
    BY <2>1, AtRest
  <2>3. Live(r) /\ ~Leaving
    BY <2>1, <2>2 DEF Live, Drawn, Leaving, Nothing
  <2>4. tk \in ConfirmedKeys /\ tk[1] = anonces
    BY <2>1, <2>3 DEF WorldInv, ApInstalled
  <2>5. /\ ptk \in ConfirmedKeys /\ installed
        /\ tk[2] < ptk[2] \/ tk = ptk
    BY <2>4 DEF WorldInv, StaKeys
  <2>6. CASE ptk[1] = anonces
    BY <2>3, <2>4, <2>5, <2>6 DEF WorldInv, OneKey
  <2>7. CASE ptk[1] # anonces
    <3>1. /\ ptk[1] \in Nat /\ ptk[1] <= anonces /\ anonces \in Nat
          /\ ptk[2] \in Nat /\ tk[2] \in Nat /\ tk \in TriedKeys
      BY <2>4, <2>5, ConfirmedTried, TriedNumbers DEF WorldInv
    <3>2. ptk[1] < tk[1]
      BY <2>4, <2>7, <3>1
    <3>3. PICK f \in down : f.type = "3/4" /\ f.mic = ptk
      BY <2>5 DEF WorldInv, FramesSent
    <3>4. ptk[2] <= tk[2]
      BY <3>1, <3>2, <3>3 DEF WorldInv, InOrderOfNonces
    <3> QED BY <2>5, <3>1, <3>4
  <2> QED BY <2>6, <2>7
<1> QED BY <1>1, WorldInvariant, PTL

\* The supplicant completes a negotiation, and takes a group key into use, only with its
\* PTK installed after a 3/4 of this association, whatever group messages it gets before.
THEOREM CompletesWithPtk == WorldSpec => []CompletedHasPtk
<1>1. WorldInv => CompletedHasPtk
  BY DEF WorldInv, StaKeys, CompletedHasPtk
<1> QED BY <1>1, WorldInvariant, PTL

LEMMA ApImplements ==
    ASSUME WorldInv, ApMoves
    PROVE  [KA!Next]_(KA!vars)
<1> DEFINE r == sm[sta]
           q == sm'[sta]
<1>1. ApBefore
  BY ApTurns DEF WorldInv, ApBefore
<1>2. /\ ConfirmedKeys' = ConfirmedKeys /\ ptks' = ptks
      /\ taken' = taken \cup ({q.tk} \ {NoKey})
  BY <1>1, SendsKeeps DEF ApBefore, supplicant
<1>3. CASE q.tk \in {r.tk, NoKey}
  <2>1. taken' = taken
    BY <1>2, <1>3 DEF WorldInv, ApInstalled
  <2> QED BY <1>2, <2>1 DEF KA!vars
<1>4. CASE r.wpa_ptk_state = "PTKINITNEGOTIATING" /\ Confirmed(r) /\ q.tk = r.PTK
  <2>1. r.PTK \in ConfirmedKeys /\ r.PTK # NoKey
    BY <1>1, <1>4, ConfirmedAnswer DEF Confirmed
  <2>2. r.PTK \in PTKs
    BY <2>1, ConfirmedTried, TriedNumbers DEF WorldInv
  <2>3. Drawn(r)
    BY <1>4 DEF Drawn, Handshaking
  <2>4. \A j \in taken : j[1] < r.PTK[1]
    BY <1>4, <2>1, <2>3 DEF WorldInv, ApKeys, ApInstalled
  <2>5. KA!Install(r.PTK)
    BY <1>2, <1>4, <2>1, <2>4 DEF KA!Install
  <2> QED BY <2>2, <2>5 DEF KA!Next
<1> QED BY <1>1, <1>3, <1>4 DEF ApBefore, ApTurn, TkFrom

LEMMA StaImplements ==
    ASSUME WorldInv, Confirms, taken' = taken
    PROVE  [KA!Next]_(KA!vars)
<1> DEFINE installs == {ptks[i] : i \in DOMAIN ptks}
<1>1. CASE ConfirmedKeys' = ConfirmedKeys /\ ptks' = ptks
  BY <1>1 DEF KA!vars
<1>2. CASE /\ tptk \in PTKs
           /\ \A j \in ConfirmedKeys : j[2] < tptk[2]
           /\ ConfirmedKeys' = ConfirmedKeys \cup {tptk}
           /\ ptks' \in {ptks, Append(ptks, tptk)}
  <2>1. {ptks'[i] : i \in DOMAIN ptks'} \in {installs, installs \cup {tptk}}
    <3>1. CASE ptks' = Append(ptks, tptk)
      <4>1. ptks \in Seq(PTKs)
        BY DEF WorldInv, StaKeys
      <4>2. /\ Len(ptks) \in Nat /\ DOMAIN ptks = 1..Len(ptks)
            /\ DOMAIN ptks' = 1..(Len(ptks) + 1)
            /\ \A i \in 1..Len(ptks) : ptks'[i] = ptks[i]
            /\ ptks'[Len(ptks) + 1] = tptk
        BY <1>2, <3>1, <4>1
      <4>3. 1..(Len(ptks) + 1) = 1..Len(ptks) \cup {Len(ptks) + 1}
        BY <4>2
      <4> QED BY <4>2, <4>3
    <3> QED BY <1>2, <3>1
  <2>2. PICK k \in PTKs : k = tptk
    BY <1>2
  <2>3. KA!Confirm(k)
    BY <1>2, <2>1, <2>2 DEF KA!Confirm
  <2> QED BY <2>3 DEF KA!Next
<1> QED BY <1>1, <1>2 DEF Confirms

\* The handshake, with all that the two state machines, their timers and the network do,
\* implements KeyAgreement: every key that wpa_auth.c installs was confirmed by the
\* supplicant and has a later ANonce than those before it, and a key that the supplicant
\* confirms has a later SNonce than those before it and is installed then or never.
THEOREM HandshakeImplementsAgreement == WorldSpec => ImplementsAgreement
<1>1. WorldInit => KA!Init
  BY DEF WorldInit, S!Init, KA!Init, ConfirmedKeys
<1>2. WorldInv /\ [WorldNext]_world => [KA!Next]_(KA!vars)
  <2> SUFFICES ASSUME WorldInv, [WorldNext]_world PROVE [KA!Next]_(KA!vars)
    OBVIOUS
  <2>1. CASE ApMoves
    BY <2>1, ApImplements
  <2>2. CASE StaStarts \/ StaJoins \/ StaLeaves \/ StaReceive
    <3>1. taken' = taken
      BY <2>2 DEF StaStarts, StaJoins, StaLeaves, StaReceive, StaMoves, ghosts
    <3> QED BY <2>2, <3>1, StaPreserves, StaImplements
  <2>3. CASE UNCHANGED world
    BY <2>3 DEF world, supplicant, ghosts, KA!vars, ConfirmedKeys
  <2> QED BY <2>1, <2>2, <2>3 DEF WorldNext, ApMoves, WorldIdle
<1> QED BY <1>1, <1>2, WorldInvariant, PTL DEF WorldSpec, ImplementsAgreement, KA!Spec

-----------------------------------------------------------------------------
(* The group key                                                            *)

\* The frames under a PTK of the last ANonce that carry a group key, and those of them
\* with one that has been replaced.
Carriers == {f \in down : f.type \in {"3/4", "1/2"} /\ f.mic[1] = anonces}
Outdated == {f \in Carriers : f.gtk # group.GTK}

\* The supplicant is past the outdated ones.
Caught == S!Associated => \A f \in Outdated : f.ctr < rx_replay_counter

\* An answer to a carrier has been received.
CarrierAnswered(r) == Received(r, {"4/4", "2/2"})

\* The counters that an answer may have.  Before 3/4 they are all above those of the
\* carriers, which a handshake that was begun again may have left; after 4/4 or 2/2 there
\* are none.
CounterRules(r) ==
    /\ \A f \in Carriers : f.ctr <= r.ctr
    /\ r.wpa_ptk_state \notin {"PTKINITNEGOTIATING", "PTKINITDONE"} =>
           \A f \in Carriers, c \in r.key_replay : f.ctr < c
    /\ InState(r, "PTKINITDONE") /\ r.wpa_ptk_group_state # "REKEYNEGOTIATING" => r.key_replay = {}
    /\ r.rx # NoKey /\ (PairwiseReceived(r) \/ r.wpa_ptk_state = "PTKINITDONE") => r.key_replay = {}
    /\ r.wpa_ptk_state = "PTKSTART" => r.alt_SNonce = NoKey
    /\ r.wpa_ptk_state = "PTKCALCNEGOTIATING2" => r.TimeoutCtr = 0

\* An answer that is accepted is one to a frame with the group key of now; with it, the
\* supplicant has seen the last of the others.
AnswerRules(r) ==
    /\ \A f \in Outdated, c \in r.key_replay : f.ctr < c
    /\ r.wpa_ptk_state \in Handshaking /\ r.alt_SNonce # NoKey =>
           \A f \in Outdated : f.ctr < r.alt_replay_counter
    /\ r.wpa_ptk_state = "PTKINITNEGOTIATING" => \A f \in Outdated : f.ctr < r.ctr
    /\ CarrierAnswered(r) => Caught
    /\ InState(r, "PTKINITDONE") /\ ~r.GUpdateStationKeys /\ todo = {} => Caught

\* WPA_PTK_GROUP is reset only with WPA_PTK.
ResetRules(r) ==
    /\ at = "ptk" /\ r.PtkGroupInit => "ReAuth" \in r.req
    /\ at = "group" /\ r.PtkGroupInit => r.wpa_ptk_state # "PTKINITDONE"

\* The group key of the driver.
GroupRules(r) ==
    /\ group.GTK \in Nat
    /\ todo # {} => at = "update" /\ group.state = "SETKEYS"
    /\ group.state = "SETKEYSDONE" => ~r.GUpdateStationKeys
    /\ group.state = "SETKEYSDONE" /\ group.first_sta_seen => group.tx = group.GTK
    /\ (\E f \in down : f.type = "3/4") => group.first_sta_seen

\* The supplicant answers in the order of the counters, it has not tried a key of the
\* last ANonce when it joins, and it has the group key of the last frame it accepted.
StaRules(r) ==
    /\ \A g \in up : g.ctr \in Nat
    /\ Live(r) /\ S!Associated => \A g \in up :
           g.type \in {"4/4", "2/2"} /\ g.mic[1] = anonces => g.ctr <= rx_replay_counter
    /\ Live(r) /\ air = "response" /\ ~Leaving => \A k \in TriedKeys : k[1] < anonces
    /\ wpa_state = "COMPLETED" => \E f \in down :
           /\ f.type \in {"3/4", "1/2"}
           /\ f.mic = ptk /\ f.gtk = gtk /\ f.ctr = rx_replay_counter

GroupInv ==
    /\ Counting
    /\ StaRules(sm[sta])
    /\ ResetRules(sm[sta])
    /\ Works => /\ GroupRules(sm[sta])
                /\ Live(sm[sta]) => /\ CounterRules(sm[sta])
                                    /\ ~crossed => AnswerRules(sm[sta])

-----------------------------------------------------------------------------
(* What a step of the authenticator does to the counters, with record r     *)
(* before it and q after it, if the ANonce stands                           *)

\* An answer to one of the frames sent, under a PTK of the ANonce.
AnswersOne(r, f) ==
    /\ f.type \in {"4/4", "2/2"}
    /\ f.mic[1] = r.ANonce
    /\ \/ f.ctr \in r.key_replay
       \/ r.wpa_ptk_state \in Handshaking /\ r.alt_SNonce # NoKey /\ f.ctr = r.alt_replay_counter

KeyTurn(r, q) ==
    /\ group'.GTK = group.GTK
    /\ q.ctr \in {r.ctr, r.ctr + 1}
    /\ out' # NoKey => /\ q.ctr = r.ctr + 1 /\ out'.gtk = group.GTK
                       /\ out'.type = "3/4" => q.wpa_ptk_state = "PTKINITNEGOTIATING"
                       /\ out'.type = "1/2" => q.wpa_ptk_state = "PTKINITDONE"
    /\ \A c \in q.key_replay : c \in r.key_replay \/ (c = r.ctr + 1 /\ q.ctr = r.ctr + 1)
    /\ \/ q.wpa_ptk_state \in {"PTKINITNEGOTIATING", "PTKINITDONE"}
       \/ r.wpa_ptk_state \notin {"PTKINITNEGOTIATING", "PTKINITDONE"}
       \/ q.key_replay = {}
    /\ InState(q, "PTKINITDONE") /\ q.wpa_ptk_group_state # "REKEYNEGOTIATING" =>
           \/ q.key_replay = {}
           \/ /\ InState(r, "PTKINITDONE") /\ r.wpa_ptk_group_state # "REKEYNEGOTIATING"
              /\ q.key_replay = r.key_replay
    /\ q.rx # NoKey /\ (PairwiseReceived(q) \/ q.wpa_ptk_state = "PTKINITDONE") =>
           \/ q.key_replay = {}
           \/ q.rx = r.rx /\ q.wpa_ptk_state = r.wpa_ptk_state /\ q.key_replay = r.key_replay
    /\ q.wpa_ptk_state = "PTKSTART" =>
           q.alt_SNonce = NoKey \/ (r.wpa_ptk_state = "PTKSTART" /\ q.alt_SNonce = r.alt_SNonce)
    /\ q.wpa_ptk_state = "PTKCALCNEGOTIATING2" =>
           q.TimeoutCtr = 0 \/ (r.wpa_ptk_state = "PTKCALCNEGOTIATING2" /\ q.TimeoutCtr = r.TimeoutCtr)
    /\ q.wpa_ptk_state \in Handshaking /\ q.alt_SNonce # NoKey =>
           \/ /\ r.wpa_ptk_state \in Handshaking /\ q.alt_SNonce = r.alt_SNonce
              /\ q.alt_replay_counter = r.alt_replay_counter
           \/ r.wpa_ptk_state = "PTKINITNEGOTIATING" /\ q.alt_replay_counter = r.ctr
    /\ q.wpa_ptk_state = "PTKINITNEGOTIATING" =>
           r.wpa_ptk_state = "PTKINITNEGOTIATING" \/ q.ctr = r.ctr + 1
    /\ CarrierAnswered(q) => q.rx = r.rx \/ \E f \in up : AnswersOne(r, f)
    /\ InState(q, "PTKINITDONE") /\ ~q.GUpdateStationKeys /\ todo' = {} =>
           \/ CarrierAnswered(r)
           \/ InState(r, "PTKINITDONE") /\ ~r.GUpdateStationKeys /\ todo = {}

\* The carriers after the step, if the ANonce stands.
LEMMA CarriersSent ==
    ASSUME Sends, anonces' = anonces, NEW f \in Carriers'
    PROVE  f \in Carriers \/ (f = out' /\ out' # NoKey /\ f.type \in {"3/4", "1/2"})
BY SendsKeeps DEF Carriers

LEMMA CountersKept ==
    ASSUME ApBefore, Stands(sm[sta], sm'[sta]), KeyTurn(sm[sta], sm'[sta]),
           CounterRules(sm[sta])
    PROVE  CounterRules(sm[sta])'
<1> DEFINE r == sm[sta]
           q == sm'[sta]
<1>1. r.ctr \in Nat /\ Sent(r, q) /\ anonces' = anonces /\ Sends
  BY DEF ApBefore, ApKeys, ApTurn, Stands
<1>2. KeyTurn(r, q) /\ CounterRules(r)
  OBVIOUS
<1>3. ASSUME NEW f \in Carriers'
      PROVE  /\ f.ctr \in Nat
             /\ \/ f \in Carriers
                \/ f.ctr = r.ctr + 1 /\ q.ctr = r.ctr + 1
                   /\ q.wpa_ptk_state \in {"PTKINITNEGOTIATING", "PTKINITDONE"}
  <2>1. f.ctr \in Nat
    BY FramesKept DEF FramesSent, Carriers
  <2>2. CASE f = out' /\ out' # NoKey /\ f.type \in {"3/4", "1/2"}
    BY <1>1, <1>2, <2>1, <2>2 DEF Sent, KeyTurn
  <2> QED BY <1>1, <2>1, <2>2, CarriersSent
<1>4. ASSUME NEW f \in Carriers' PROVE f.ctr <= q.ctr
  BY <1>1, <1>2, <1>3 DEF KeyTurn, CounterRules
<1>5. ASSUME q.wpa_ptk_state \notin {"PTKINITNEGOTIATING", "PTKINITDONE"},
             NEW f \in Carriers', NEW c \in q.key_replay
      PROVE  f.ctr < c
  <2>1. f \in Carriers /\ f.ctr \in Nat /\ f.ctr <= r.ctr
    BY <1>2, <1>3, <1>5 DEF CounterRules
  <2>2. CASE c \in r.key_replay
    BY <1>2, <1>5, <2>1, <2>2 DEF KeyTurn, CounterRules
  <2>3. CASE c = r.ctr + 1
    BY <1>1, <2>1, <2>3
  <2> QED BY <1>2, <2>2, <2>3 DEF KeyTurn
<1>6. InState(q, "PTKINITDONE") /\ q.wpa_ptk_group_state # "REKEYNEGOTIATING" => q.key_replay = {}
  BY <1>2 DEF KeyTurn, CounterRules
<1>7. q.rx # NoKey /\ (PairwiseReceived(q) \/ q.wpa_ptk_state = "PTKINITDONE") => q.key_replay = {}
  BY <1>2 DEF KeyTurn, CounterRules, PairwiseReceived, Received
<1>8. /\ q.wpa_ptk_state = "PTKSTART" => q.alt_SNonce = NoKey
      /\ q.wpa_ptk_state = "PTKCALCNEGOTIATING2" => q.TimeoutCtr = 0
  BY <1>2 DEF KeyTurn, CounterRules
<1> QED BY <1>4, <1>5, <1>6, <1>7, <1>8 DEF CounterRules

\* An answer that is accepted shows that the supplicant is past the outdated frames.
LEMMA AnswerCatches ==
    ASSUME ApBefore, Live(sm[sta]), AnswerRules(sm[sta]), StaRules(sm[sta]),
           NEW g \in up, AnswersOne(sm[sta], g)
    PROVE  Caught
<1> DEFINE r == sm[sta]
<1>1. r.ANonce = anonces /\ rx_replay_counter \in Nat /\ FramesSent
  BY DEF ApBefore, ApKeys, Live, StaKeys
<1>2. ASSUME S!Associated, NEW f \in Outdated PROVE f.ctr < rx_replay_counter
  <2>1. f.ctr < g.ctr
    BY DEF AnswersOne, AnswerRules
  <2>2. g.ctr \in Nat /\ g.ctr <= rx_replay_counter
    BY <1>1, <1>2 DEF AnswersOne, StaRules
  <2>3. f.ctr \in Nat
    BY <1>1 DEF FramesSent, Outdated, Carriers
  <2> QED BY <1>1, <2>1, <2>2, <2>3
<1> QED BY <1>2 DEF Caught

LEMMA AnswersKept ==
    ASSUME ApBefore, Stands(sm[sta], sm'[sta]), KeyTurn(sm[sta], sm'[sta]), Live(sm[sta]),
           CounterRules(sm[sta]), AnswerRules(sm[sta]), StaRules(sm[sta])
    PROVE  AnswerRules(sm[sta])'
<1> DEFINE r == sm[sta]
           q == sm'[sta]
<1>1. r.ctr \in Nat /\ anonces' = anonces /\ Sends /\ FramesSent
  BY DEF ApBefore, ApKeys, Stands
<1>2. KeyTurn(r, q) /\ CounterRules(r) /\ AnswerRules(r)
  OBVIOUS
<1>3. ASSUME NEW f \in Outdated' PROVE f \in Outdated /\ f.ctr \in Nat /\ f.ctr <= r.ctr
  <2>1. f \in Carriers' /\ f.gtk # group.GTK
    BY <1>2 DEF Outdated, KeyTurn
  <2>2. f \in Carriers
    BY <1>1, <1>2, <2>1, CarriersSent DEF KeyTurn
  <2> QED BY <1>1, <1>2, <2>1, <2>2 DEF Outdated, CounterRules, Carriers, FramesSent
<1>4. Caught => Caught'
  <2>1. (S!Associated)' = S!Associated /\ rx_replay_counter' = rx_replay_counter
    BY <1>1 DEF Sends, S!Associated, supplicant
  <2> QED BY <1>3, <2>1 DEF Caught
<1>5. ASSUME NEW f \in Outdated', NEW c \in q.key_replay PROVE f.ctr < c
  <2>1. CASE c \in r.key_replay
    BY <1>2, <1>3, <2>1 DEF AnswerRules
  <2>2. CASE c = r.ctr + 1
    BY <1>1, <1>3, <2>2
  <2> QED BY <1>2, <2>1, <2>2 DEF KeyTurn
<1>6. ASSUME q.wpa_ptk_state \in Handshaking, q.alt_SNonce # NoKey, NEW f \in Outdated'
      PROVE  f.ctr < q.alt_replay_counter
  BY <1>2, <1>3, <1>6 DEF KeyTurn, AnswerRules
<1>7. ASSUME q.wpa_ptk_state = "PTKINITNEGOTIATING", NEW f \in Outdated' PROVE f.ctr < q.ctr
  <2>1. CASE q.ctr = r.ctr + 1
    BY <1>1, <1>3, <2>1
  <2>2. CASE r.wpa_ptk_state = "PTKINITNEGOTIATING" /\ q.ctr = r.ctr
    BY <1>2, <1>3, <2>2 DEF AnswerRules
  <2> QED BY <1>2, <1>7, <2>1, <2>2 DEF KeyTurn
<1>8. CarrierAnswered(q) => Caught'
  <2>1. CASE q.rx = r.rx
    BY <1>2, <1>4, <2>1 DEF CarrierAnswered, Received, AnswerRules
  <2>2. CASE \E f \in up : AnswersOne(r, f)
    BY <1>4, <2>2, AnswerCatches
  <2> QED BY <1>2, <2>1, <2>2 DEF KeyTurn
<1>9. InState(q, "PTKINITDONE") /\ ~q.GUpdateStationKeys /\ todo' = {} => Caught'
  BY <1>2, <1>4 DEF KeyTurn, AnswerRules
<1> QED BY <1>5, <1>6, <1>7, <1>8, <1>9 DEF AnswerRules

\* No frame has a PTK of the ANonce that is drawn.
LEMMA DrawnCarriesNothing ==
    ASSUME ApBefore, Draws(sm[sta], sm'[sta])
    PROVE  Carriers' = {} /\ Outdated' = {} /\ Caught'
<1>1. anonces \in Nat /\ anonces' = anonces + 1 /\ TriedKeys' = TriedKeys /\ ConfirmedKeys' = ConfirmedKeys
  BY SendsKeeps DEF Draws, ApBefore, Budget
<1>2. ASSUME NEW f \in Carriers' PROVE FALSE
  <2>1. f.mic \in TriedKeys /\ f.mic[1] = anonces + 1
    BY <1>1, FramesKept, ConfirmedTried DEF FramesSent, Carriers, ApBefore
  <2>2. f.mic[1] \in Nat /\ f.mic[1] <= anonces
    BY <2>1, TriedNumbers DEF ApBefore
  <2> QED BY <1>1, <2>1, <2>2
<1>3. Carriers' = {} /\ Outdated' = {}
  BY <1>2 DEF Outdated
<1> QED BY <1>3 DEF Caught

\* The group key is replaced: all carriers are outdated.  If the station had none to
\* answer, no answer to one of them is accepted any more.
LEMMA SetKeysOutdates ==
    ASSUME AuthInv, Works, SetKeys, Sends, group.GTK \in Nat, CounterRules(sm[sta])
    PROVE  CounterRules(sm[sta])' /\ (~crossed' => AnswerRules(sm[sta])')
<1> DEFINE r == sm[sta]
<1>1. /\ at = "rekey" /\ at' = "update" /\ sm' = sm /\ anonces' = anonces /\ out' = NoKey
      /\ todo' = Stations /\ group'.GTK = group.GTK + 1 /\ sta \in Stations
  BY FourWayAssumption DEF SetKeys, AuthInv, Control, Works, Shape, GroupMembers
<1>2. Carriers' = Carriers
  BY <1>1, SendsKeeps DEF Carriers
<1>3. CounterRules(r)'
  BY <1>1, <1>2 DEF CounterRules
<1>4. ASSUME ~crossed' PROVE AnswerRules(r)'
  <2>1. ~Unanswered(r)
    BY <1>1, <1>4 DEF Sends
  <2>2. r.req = {} /\ r.rx = NoKey
    <3>1. ~Active(sta) /\ then # <<"auth", sta>>
      BY <1>1 DEF Active, Stepping, AuthInv, Control, Nothing
    <3> QED BY <1>1, <3>1 DEF AuthInv, FrameRules, NoFrame
  <2>3. /\ r.wpa_ptk_state # "PTKINITNEGOTIATING" /\ r.wpa_ptk_group_state # "REKEYNEGOTIATING"
        /\ r.wpa_ptk_state \in Handshaking => r.alt_SNonce = NoKey
    BY <2>1 DEF Unanswered, Handshaking, CounterRules
  <2>4. \A f \in Carriers, c \in r.key_replay : f.ctr < c
    BY <2>2, <2>3 DEF CounterRules, InState
  <2>5. ~CarrierAnswered(r)
    BY <2>2 DEF CarrierAnswered, Received
  <2>6. \A f \in Outdated' : f \in Carriers
    BY <1>2 DEF Outdated
  <2> QED BY <1>1, <2>3, <2>4, <2>5, <2>6 DEF AnswerRules
<1> QED BY <1>3, <1>4

-----------------------------------------------------------------------------
(* Every other step of the authenticator is such a turn                     *)

\* Nothing happens to the counters.
LEMMA KeySame ==
    ASSUME NEW r, NEW q, group'.GTK = group.GTK, out' = NoKey,
           q.wpa_ptk_state = r.wpa_ptk_state, q.ctr = r.ctr, q.key_replay = r.key_replay,
           q.alt_SNonce = r.alt_SNonce, q.alt_replay_counter = r.alt_replay_counter,
           q.TimeoutCtr = r.TimeoutCtr, q.rx \in {r.rx, NoKey}, r.req \subseteq q.req,
           InState(q, "PTKINITDONE") /\ q.wpa_ptk_group_state # "REKEYNEGOTIATING" =>
               q.key_replay = {} \/ r.wpa_ptk_group_state # "REKEYNEGOTIATING",
           InState(q, "PTKINITDONE") /\ ~q.GUpdateStationKeys /\ todo' = {} =>
               CarrierAnswered(r) \/ (~r.GUpdateStationKeys /\ todo = {})
    PROVE  KeyTurn(r, q)
<1>1. InState(q, "PTKINITDONE") => InState(r, "PTKINITDONE")
  BY DEF InState
<1>2. CarrierAnswered(q) => q.rx = r.rx
  BY DEF CarrierAnswered, Received
<1> QED BY <1>1, <1>2 DEF KeyTurn

\* wpa_send_eapol
LEMMA SendCounts ==
    ASSUME NEW r, Has(r, Members)
    PROVE  LET q == SendEapol(r) IN
           /\ Alike(q, r, {"ctr", "key_replay", "timers"})
           /\ q.ctr = r.ctr + 1
           /\ \A c \in q.key_replay : c \in r.key_replay \/ c = r.ctr + 1
<1>1. SendEapol(r).ctr = r.ctr + 1 /\ SendEapol(r).key_replay = Pending(r)
  BY DEF SendEapol, Members
<1> QED BY <1>1, SendKeeps DEF Pending

LEMMA FrameCarries ==
    ASSUME NEW r, NEW type, Frame(sta, r, type) # NoKey
    PROVE  Frame(sta, r, type).type = type /\ Frame(sta, r, type).gtk = group.GTK
BY DEF Frame

\* The frame received, around a turn of WPA_PTK.
LEMMA PtkFrame ==
    ASSUME AuthInv, Works, PtkStep(sta)
    PROVE  FrameAtPtk(group.conf, sm[sta]) /\ ~PairwiseReceived(sm'[sta])
<1>1. sta \in Stations /\ Shape /\ PtkBefore(sm[sta])
  BY BeforePtk
<1>2. at = "ptk" /\ cur = sta
  BY <1>1, PtkMoves DEF Kept
<1>3. FrameAtPtk(group.conf, sm[sta])
  BY <1>1, <1>2 DEF AuthInv, FrameRules, Active, Stepping
<1>4. FrameAtGroup(group.conf, sm'[sta])
  BY <1>1, <1>3, PtkTurn DEF PtkAfter
<1> QED BY <1>3, <1>4, FourWayAssumption DEF FrameAtGroup, Straight, GroupReply, GroupAnswered,
     PairwiseReceived, Received

\* PTKSTART for a station with record p.
LEMMA StartCounts ==
    ASSUME Shape, sta \in Stations, NEW p, Has(p, Members), EnterPtkStart(sta, p)
    PROVE  LET q == sm'[sta] IN
           /\ q.wpa_ptk_state = "PTKSTART" /\ q.alt_SNonce = NoKey
           /\ \/ q.ctr = p.ctr /\ q.key_replay = p.key_replay /\ out' = NoKey
              \/ /\ q.ctr = p.ctr + 1
                 /\ \A c \in q.key_replay : c \in p.key_replay \/ c = p.ctr + 1
                 /\ out' # NoKey => out'.type = "1/4" /\ out'.gtk = group.GTK
<1> DEFINE q == sm'[sta]
           o == [p EXCEPT !.wpa_ptk_state = "PTKSTART", !.req = @ \ {"PTK"}, !.TimeoutEvt = FALSE,
                          !.alt_SNonce = NoKey, !.TimeoutCtr = @ + 1]
           t == SendEapol(o)
<1>1. \/ q = o /\ out' = NoKey
      \/ q = t /\ out' = Frame(sta, t, "1/4")
  BY DEF Shape, EnterPtkStart, EnterPtk, Turn
<1> HIDE DEF q
<1>2. /\ Alike(o, p, {"wpa_ptk_state", "req", "TimeoutEvt", "alt_SNonce", "TimeoutCtr"})
      /\ o.wpa_ptk_state = "PTKSTART" /\ o.alt_SNonce = NoKey
  BY DEF Alike, Members
<1> HIDE DEF o
<1>3. Has(o, Members) /\ o.ctr = p.ctr /\ o.key_replay = p.key_replay
  BY <1>2 DEF Alike, Members
<1>4. /\ t.wpa_ptk_state = "PTKSTART" /\ t.alt_SNonce = NoKey /\ t.ctr = p.ctr + 1
      /\ \A c \in t.key_replay : c \in p.key_replay \/ c = p.ctr + 1
  <2>1. /\ Alike(t, o, {"ctr", "key_replay", "timers"})
        /\ t.ctr = o.ctr + 1
        /\ \A c \in t.key_replay : c \in o.key_replay \/ c = o.ctr + 1
    BY <1>3, SendCounts
  <2> HIDE DEF t
  <2>2. t.wpa_ptk_state = o.wpa_ptk_state /\ t.alt_SNonce = o.alt_SNonce
    BY <2>1 DEF Alike, Members
  <2> QED BY <1>2, <1>3, <2>1, <2>2
<1> HIDE DEF t
<1> QED BY <1>1, <1>2, <1>3, <1>4, FrameCarries DEF q

LEMMA StartKeyTurn ==
    ASSUME AuthInv, Works, PtkInitPsk(sta) \/ PtkStart(sta)
    PROVE  KeyTurn(sm[sta], sm'[sta])
<1> DEFINE r == sm[sta]
           q == sm'[sta]
<1>1. Shape /\ sta \in Stations /\ Has(r, Members) /\ ~PairwiseReceived(q) /\ group' = group
  BY BeforePtk, PtkFrame DEF PtkStep, PtkInitPsk, PtkStart
<1>2. CASE PtkInitPsk(sta)
  <2>1. /\ q = [r EXCEPT !.wpa_ptk_state = "INITPSK", !.req_replay_counter = 0]
        /\ r.wpa_ptk_state = "AUTHENTICATION2" /\ out' = NoKey
    BY <1>1, <1>2 DEF Shape, PtkInitPsk, EnterPtk, Turn, InState
  <2> HIDE DEF r, q
  <2>2. /\ q.wpa_ptk_state = "INITPSK" /\ q.ctr = r.ctr /\ q.key_replay = r.key_replay /\ q.rx = r.rx
    BY <1>1, <2>1 DEF Members
  <2>3. KeyTurn(r, q)
    BY <1>1, <2>1, <2>2 DEF KeyTurn, InState, Handshaking, CarrierAnswered, Received
  <2> QED BY <2>3 DEF r, q
<1>3. CASE PtkStart(sta)
  <2>1. r.wpa_ptk_state \in {"INITPSK", "PTKSTART", "PTKCALCNEGOTIATING"} /\ EnterPtkStart(sta, r)
    BY <1>3 DEF PtkStart, InState
  <2>2. /\ q.wpa_ptk_state = "PTKSTART" /\ q.alt_SNonce = NoKey
        /\ \/ q.ctr = r.ctr /\ q.key_replay = r.key_replay /\ out' = NoKey
           \/ /\ q.ctr = r.ctr + 1
              /\ \A c \in q.key_replay : c \in r.key_replay \/ c = r.ctr + 1
              /\ out' # NoKey => out'.type = "1/4" /\ out'.gtk = group.GTK
    BY <1>1, <2>1, StartCounts
  <2>3. q.rx = r.rx
    <3>1. Alike(q, r, {"wpa_ptk_state", "req", "TimeoutEvt", "alt_SNonce", "TimeoutCtr",
                       "ctr", "key_replay", "timers"})
      BY <1>1, <2>1, PtkStartWrites
    <3> HIDE DEF r, q
    <3> QED BY <3>1 DEF Alike, Members
  <2> HIDE DEF r, q
  <2>4. KeyTurn(r, q)
    BY <1>1, <2>1, <2>2, <2>3 DEF KeyTurn, InState, CarrierAnswered, Received
  <2> QED BY <2>4 DEF r, q
<1> QED BY <1>2, <1>3

\* A 2/4 is looked at: the counters of the frames before it are used up.
LEMMA CalcKeyTurn ==
    ASSUME AuthInv, Works, CounterRules(sm[sta]), Live(sm'[sta]), PtkCalcNegotiating(sta)
    PROVE  KeyTurn(sm[sta], sm'[sta])
<1> DEFINE r == sm[sta]
           q == sm'[sta]
           p == [r EXCEPT !.wpa_ptk_state = "PTKCALCNEGOTIATING", !.rx = NoKey,
                          !.update_snonce = FALSE]
<1>1. /\ Shape /\ sta \in Stations /\ FrameAtPtk(group.conf, r) /\ group' = group
      /\ Live(q) /\ CounterRules(r)
  BY BeforePtk, PtkFrame DEF PtkStep, PtkCalcNegotiating
<1>0. Has(r, Members)
  BY BeforePtk DEF PtkStep
<1>2. /\ out' = NoKey
      /\ \/ r.wpa_ptk_state \in {"PTKSTART", "PTKCALCNEGOTIATING"}
         \/ r.wpa_ptk_state = "PTKINITNEGOTIATING" /\ r.update_snonce
      /\ \/ q = [p EXCEPT !.timers = 0, !.MICVerified = TRUE, !.PTK = <<p.ANonce, p.SNonce>>]
         \/ q = StaDisconnect(p)
         \/ q = p
  BY <1>1 DEF Shape, PtkCalcNegotiating, EnterPtk, Turn, InState
<1> HIDE DEF r, q
<1>3. /\ Alike(p, r, {"wpa_ptk_state", "rx", "update_snonce"})
      /\ p.wpa_ptk_state = "PTKCALCNEGOTIATING" /\ p.rx = NoKey
  BY <1>0 DEF Alike, Members
<1> HIDE DEF p
<1>4. q # StaDisconnect(p)
  BY <1>1, <1>3, DisconnectKeeps DEF Live, Alike
<1>5. /\ q.wpa_ptk_state = "PTKCALCNEGOTIATING" /\ q.rx = NoKey /\ q.ctr = r.ctr
      /\ q.key_replay = r.key_replay /\ q.alt_SNonce = r.alt_SNonce
      /\ q.alt_replay_counter = r.alt_replay_counter
  <2>1. CASE q = [p EXCEPT !.timers = 0, !.MICVerified = TRUE, !.PTK = <<p.ANonce, p.SNonce>>]
    BY <1>3, <2>1 DEF Alike, Members
  <2>2. CASE q = p
    BY <1>3, <2>2 DEF Alike, Members
  <2> QED BY <1>2, <1>4, <2>1, <2>2
<1>6. r.wpa_ptk_state = "PTKINITNEGOTIATING" => r.key_replay = {}
  <2>1. PairwiseReceived(r) /\ r.rx # NoKey
    BY CalcReceived DEF r, PairwiseReceived, Received
  <2> QED BY <1>1, <2>1 DEF CounterRules
<1>7. r.wpa_ptk_state \in Handshaking
  BY <1>2 DEF Handshaking
<1>8. KeyTurn(r, q)
  BY <1>1, <1>2, <1>5, <1>6, <1>7 DEF KeyTurn, InState, CarrierAnswered, Received
<1> QED BY <1>8 DEF r, q

\* 3/4 is sent, at least when PTKINITNEGOTIATING is entered for the first time.
LEMMA InitNegotiatingKeyTurn ==
    ASSUME AuthInv, Works, CounterRules(sm[sta]), PtkCalcNegotiating2(sta) \/ PtkInitNegotiating(sta)
    PROVE  KeyTurn(sm[sta], sm'[sta])
<1> DEFINE r == sm[sta]
           q == sm'[sta]
           c == [r EXCEPT !.wpa_ptk_state = "PTKCALCNEGOTIATING2", !.TimeoutCtr = 0]
           p == [r EXCEPT !.wpa_ptk_state = "PTKINITNEGOTIATING", !.TimeoutEvt = FALSE,
                          !.TimeoutCtr = @ + 1]
           t == SendEapol(p)
<1>1. /\ Shape /\ sta \in Stations /\ group' = group /\ ~PairwiseReceived(q)
      /\ r.wpa_ptk_state = "PTKCALCNEGOTIATING2" => r.TimeoutCtr = 0
  BY BeforePtk, PtkFrame DEF PtkStep, PtkCalcNegotiating2, PtkInitNegotiating, CounterRules
<1>2. Has(r, Members)
  BY BeforePtk DEF PtkStep
<1>3. wpa_pairwise_update_count \in Nat \ {0}
  BY <1>1, WpaAuthAssumption DEF Shape, wpa_pairwise_update_count
<1>4. \/ q = c /\ out' = NoKey /\ r.wpa_ptk_state = "PTKCALCNEGOTIATING"
      \/ /\ q = p /\ out' = NoKey /\ p.TimeoutCtr > wpa_pairwise_update_count
         /\ r.wpa_ptk_state \in {"PTKCALCNEGOTIATING2", "PTKINITNEGOTIATING"}
      \/ /\ q = t /\ out' = Frame(sta, t, "3/4")
         /\ r.wpa_ptk_state \in {"PTKCALCNEGOTIATING2", "PTKINITNEGOTIATING"}
  BY <1>1 DEF Shape, PtkCalcNegotiating2, PtkInitNegotiating, EnterPtk, Turn, InState
<1> HIDE DEF r, q
<1>5. /\ Alike(c, r, {"wpa_ptk_state", "TimeoutCtr"}) /\ c.wpa_ptk_state = "PTKCALCNEGOTIATING2"
      /\ c.TimeoutCtr = 0
      /\ Alike(p, r, {"wpa_ptk_state", "TimeoutEvt", "TimeoutCtr"})
      /\ p.wpa_ptk_state = "PTKINITNEGOTIATING" /\ p.TimeoutCtr = r.TimeoutCtr + 1
  BY <1>2 DEF Alike, Members
<1> HIDE DEF c, p
<1>6. /\ Has(p, Members) /\ p.ctr = r.ctr /\ p.key_replay = r.key_replay /\ p.rx = r.rx
      /\ p.alt_SNonce = r.alt_SNonce /\ p.alt_replay_counter = r.alt_replay_counter
  BY <1>5 DEF Alike, Members
<1>7. /\ t.wpa_ptk_state = "PTKINITNEGOTIATING" /\ t.ctr = r.ctr + 1 /\ t.rx = r.rx
      /\ t.alt_SNonce = r.alt_SNonce /\ t.alt_replay_counter = r.alt_replay_counter
      /\ \A x \in t.key_replay : x \in r.key_replay \/ x = r.ctr + 1
  BY <1>5, <1>6, SendCounts DEF Alike, Members
<1> HIDE DEF t
<1>8. CASE q = c /\ out' = NoKey /\ r.wpa_ptk_state = "PTKCALCNEGOTIATING"
  <2>1. /\ q.wpa_ptk_state = "PTKCALCNEGOTIATING2" /\ q.TimeoutCtr = 0 /\ q.rx = r.rx /\ q.ctr = r.ctr
        /\ q.key_replay = r.key_replay
        /\ q.alt_SNonce = r.alt_SNonce /\ q.alt_replay_counter = r.alt_replay_counter
    BY <1>5, <1>8 DEF Alike, Members
  <2>2. KeyTurn(r, q)
    BY <1>1, <1>8, <2>1 DEF KeyTurn, InState, Handshaking
  <2> QED BY <2>2 DEF r, q
<1>9. CASE /\ q = p /\ out' = NoKey /\ p.TimeoutCtr > wpa_pairwise_update_count
           /\ r.wpa_ptk_state \in {"PTKCALCNEGOTIATING2", "PTKINITNEGOTIATING"}
  <2>1. r.wpa_ptk_state = "PTKINITNEGOTIATING"
    BY <1>1, <1>3, <1>5, <1>9
  <2>2. KeyTurn(r, q)
    BY <1>1, <1>5, <1>6, <1>9, <2>1 DEF KeyTurn, InState, Handshaking
  <2> QED BY <2>2 DEF r, q
<1>10. CASE /\ q = t /\ out' = Frame(sta, t, "3/4")
            /\ r.wpa_ptk_state \in {"PTKCALCNEGOTIATING2", "PTKINITNEGOTIATING"}
  <2>1. out' # NoKey => out'.type = "3/4" /\ out'.gtk = group.GTK
    BY <1>10, FrameCarries
  <2>2. KeyTurn(r, q)
    BY <1>1, <1>7, <1>10, <2>1 DEF KeyTurn, InState, Handshaking
  <2> QED BY <2>2 DEF r, q
<1> QED BY <1>4, <1>8, <1>9, <1>10

\* A 4/4 ends the handshake.
LEMMA InitDoneKeyTurn ==
    ASSUME AuthInv, Works, CounterRules(sm[sta]), Live(sm'[sta]), PtkInitDone(sta)
    PROVE  KeyTurn(sm[sta], sm'[sta])
<1> DEFINE r == sm[sta]
           q == sm'[sta]
           p == [r EXCEPT !.wpa_ptk_state = "PTKINITDONE", !.rx = NoKey]
<1>1. /\ Shape /\ sta \in Stations /\ group' = group /\ Live(q) /\ CounterRules(r) /\ KeyRules(r)
  BY BeforePtk DEF PtkStep, PtkInitDone, PtkBefore
<1>2. Has(r, Members)
  BY BeforePtk DEF PtkStep
<1>3. /\ out' = NoKey /\ r.req = {} /\ r.wpa_ptk_state = "PTKINITNEGOTIATING"
      /\ PairwiseReceived(r) /\ Confirmed(r)
      /\ \/ q = [p EXCEPT !.tk = p.PTK, !.rekey_timer = TRUE]
         \/ q = StaDisconnect(p)
  BY <1>1, FourWayAssumption DEF Shape, PtkInitDone, EnterPtk, Turn, InState, KeyRules, Shares
<1> HIDE DEF r, q
<1>4. Alike(p, r, {"wpa_ptk_state", "rx"}) /\ p.wpa_ptk_state = "PTKINITDONE" /\ p.rx = NoKey
  BY <1>2 DEF Alike, Members
<1> HIDE DEF p
<1>5. q # StaDisconnect(p)
  BY <1>1, <1>4, DisconnectKeeps DEF Live, Alike
<1>6. /\ q.wpa_ptk_state = "PTKINITDONE" /\ q.rx = NoKey /\ q.ctr = r.ctr
      /\ q.key_replay = r.key_replay
  BY <1>3, <1>4, <1>5 DEF Alike, Members
<1>7. r.rx # NoKey /\ r.key_replay = {} /\ CarrierAnswered(r)
  <2>1. r.rx # NoKey /\ r.rx.type = "4/4"
    BY <1>3 DEF PairwiseReceived, Received, Confirmed
  <2> QED BY <1>1, <1>3, <2>1 DEF CounterRules, CarrierAnswered, Received
<1>8. KeyTurn(r, q)
  BY <1>1, <1>3, <1>6, <1>7 DEF KeyTurn, Handshaking, CarrierAnswered, Received
<1> QED BY <1>8 DEF r, q

LEMMA PtkKeyTurns ==
    ASSUME AuthInv, Works, Budget(sm[sta]), CounterRules(sm[sta]), Live(sm'[sta]),
           Stands(sm[sta], sm'[sta]), PtkStep(sta)
    PROVE  KeyTurn(sm[sta], sm'[sta])
<1> DEFINE r == sm[sta]
           q == sm'[sta]
<1>1. Shape /\ sta \in Stations /\ todo' = todo
  BY BeforePtk, PtkMoves DEF Kept
<1>2. Has(r, Members)
  BY BeforePtk
<1>3. anonces' = anonces /\ anonces \in Nat
  BY DEF Stands, Budget
<1>4. Drawn(q)
  BY DEF Live
<1>5. CASE PtkInitialize(sta)
  <2>1. q = [RemovePtk(r) EXCEPT !.wpa_ptk_state = "INITIALIZE", !.GUpdateStationKeys = FALSE,
                                 !.TimeoutCtr = 0]
    BY <1>1, <1>5 DEF Shape, PtkInitialize, Turn
  <2> HIDE DEF r, q
  <2>2. q.wpa_ptk_state = "INITIALIZE"
    BY <1>2, <2>1 DEF RemovePtk, Members
  <2> QED BY <1>4, <2>2 DEF Drawn, Handshaking
<1>6. CASE PtkDisconnect(sta) \/ PtkDisconnected(sta) \/ PtkAuthentication(sta)
  <2> DEFINE p == [r EXCEPT !.req = @ \ {"Disconnect"}, !.wpa_ptk_state = "DISCONNECT"]
  <2>1. \/ q = StaDisconnect(p)
        \/ q = [r EXCEPT !.req = @ \ {"Deauth"}, !.wpa_ptk_state = "DISCONNECTED"]
        \/ q = [r EXCEPT !.req = @ \ {"Auth"}, !.wpa_ptk_state = "AUTHENTICATION", !.PTK = NoKey]
    BY <1>1, <1>6 DEF Shape, PtkDisconnect, PtkDisconnected, PtkAuthentication, EnterPtk, Turn
  <2> HIDE DEF r, q
  <2>2. Has(p, Members) /\ p.wpa_ptk_state = "DISCONNECT"
    BY <1>2 DEF Members
  <2> HIDE DEF p
  <2>3. CASE q = StaDisconnect(p)
    <3>1. q.wpa_ptk_state = "DISCONNECT"
      BY <2>2, <2>3, DisconnectKeeps DEF Alike, Members
    <3> QED BY <1>4, <3>1 DEF Drawn, Handshaking
  <2>4. CASE q = [r EXCEPT !.req = @ \ {"Deauth"}, !.wpa_ptk_state = "DISCONNECTED"]
    <3>1. q.wpa_ptk_state = "DISCONNECTED"
      BY <1>2, <2>4 DEF Members
    <3> QED BY <1>4, <3>1 DEF Drawn, Handshaking
  <2>5. CASE q = [r EXCEPT !.req = @ \ {"Auth"}, !.wpa_ptk_state = "AUTHENTICATION", !.PTK = NoKey]
    <3>1. q.wpa_ptk_state = "AUTHENTICATION"
      BY <1>2, <2>5 DEF Members
    <3> QED BY <1>4, <3>1 DEF Drawn, Handshaking
  <2> QED BY <2>1, <2>3, <2>4, <2>5
<1>7. CASE PtkAuthentication2(sta) \/ PtkUpdate(sta)
  <2> DEFINE p == [r EXCEPT !.req = @ \ {"ReAuth"}, !.wpa_ptk_state = "AUTHENTICATION2"]
             d == [r EXCEPT !.req = (@ \cup {"Disconnect"}) \ {"Deauth"},
                            !.wpa_ptk_state = "DISCONNECTED"]
  <2>1. q = [p EXCEPT !.req = @ \cup {"Disconnect"}] \/ q = d
    BY <1>1, <1>3, <1>7 DEF Shape, PtkAuthentication2, PtkUpdate, EnterPtk, Turn
  <2> HIDE DEF r, q
  <2>2. /\ Has(p, Members) /\ p.wpa_ptk_state = "AUTHENTICATION2"
        /\ d.wpa_ptk_state = "DISCONNECTED"
    BY <1>2 DEF Members
  <2> HIDE DEF p, d
  <2>3. CASE q = [p EXCEPT !.req = @ \cup {"Disconnect"}]
    <3>1. q.wpa_ptk_state = "AUTHENTICATION2" /\ "Disconnect" \in q.req
      BY <2>2, <2>3 DEF Members
    <3> QED BY <1>4, <3>1 DEF Drawn, Handshaking
  <2>4. CASE q = d
    BY <1>4, <2>2, <2>4 DEF Drawn, Handshaking
  <2> QED BY <2>1, <2>3, <2>4
<1>8. CASE PtkStay(sta)
  <2>1. q = r /\ out' = NoKey /\ group' = group
    BY <1>1, <1>8 DEF Shape, PtkStay, Turn
  <2> HIDE DEF r, q
  <2>2. KeyTurn(r, q)
    BY <1>1, <2>1, KeySame
  <2> QED BY <2>2 DEF r, q
<1> QED BY <1>5, <1>6, <1>7, <1>8, StartKeyTurn, CalcKeyTurn, InitNegotiatingKeyTurn,
           InitDoneKeyTurn DEF PtkStep

\* 1/2 is sent in PTKINITDONE only.
LEMMA RekeyNegotiatingKeyTurn ==
    ASSUME AuthInv, Works, ApKeys(sm[sta]), Live(sm'[sta]), RekeyNegotiating(sta)
    PROVE  KeyTurn(sm[sta], sm'[sta])
<1> DEFINE r == sm[sta]
           q == sm'[sta]
           p == [r EXCEPT !.wpa_ptk_group_state = "REKEYNEGOTIATING", !.GTimeoutCtr = @ + 1]
           u == [p EXCEPT !.TimeoutEvt = FALSE]
           t == SendEapol(u)
<1>1. sta \in Stations /\ Shape /\ Live(q) /\ group' = group
  BY FourWayAssumption DEF AuthInv, RekeyNegotiating
<1>2. Has(r, Members)
  BY <1>1 DEF Shape
<1>3. /\ cur = sta /\ at = "group" /\ todo' = todo
      /\ \/ q = p /\ out' = NoKey
         \/ q = t /\ out' = Frame(sta, t, "1/2")
      /\ \/ Unstarted(r)
         \/ r.wpa_ptk_group_state = "REKEYNEGOTIATING" /\ r.TimeoutEvt
      /\ InGroupState(r, "IDLE") \/ ~GroupAnswered(r)
  BY <1>1 DEF Shape, RekeyNegotiating, EnterGroup, Turn, InGroupState, Unstarted
<1>4. AtGroup(r) /\ KeyRules(r) /\ FrameAtGroup(group.conf, r)
  BY <1>1, <1>3 DEF AuthInv, StationRules, FrameRules, Active, Stepping
<1>5. r.rx = NoKey
  BY <1>3, <1>4, FourWayAssumption DEF FrameAtGroup, Straight, GroupReply, InGroupState
<1>6. r.wpa_ptk_state \notin Handshaking \/ r.PTK = NoKey
  BY <1>3, <1>4, FourWayAssumption DEF AtGroup, Untimed, Late, Negotiation, Handshaking
<1> HIDE DEF r, q
<1>7. Alike(p, r, {"wpa_ptk_group_state", "GTimeoutCtr"}) /\ p.wpa_ptk_group_state = "REKEYNEGOTIATING"
  BY <1>2 DEF Alike, Members
<1> HIDE DEF p
<1>8. Alike(u, p, {"TimeoutEvt"})
  BY <1>7 DEF Alike, Members
<1> HIDE DEF u
<1>9. /\ Has(u, Members) /\ u.ctr = r.ctr /\ u.key_replay = r.key_replay
      /\ Alike(u, r, {"wpa_ptk_group_state", "GTimeoutCtr", "TimeoutEvt"})
      /\ u.wpa_ptk_group_state = "REKEYNEGOTIATING"
  BY <1>7, <1>8 DEF Alike, Members
<1>10. /\ Alike(t, u, {"ctr", "key_replay", "timers"}) /\ t.ctr = r.ctr + 1
       /\ \A x \in t.key_replay : x \in r.key_replay \/ x = r.ctr + 1
  BY <1>9, SendCounts
<1> HIDE DEF t
<1>11. /\ q.wpa_ptk_state = r.wpa_ptk_state /\ q.rx = NoKey /\ q.alt_SNonce = r.alt_SNonce
       /\ q.alt_replay_counter = r.alt_replay_counter /\ q.TimeoutCtr = r.TimeoutCtr
       /\ q.req = r.req /\ q.GUpdateStationKeys = r.GUpdateStationKeys
       /\ q.wpa_ptk_group_state = "REKEYNEGOTIATING" /\ t.PTK = r.PTK
  BY <1>3, <1>5, <1>7, <1>9, <1>10 DEF Alike, Members
<1>12. /\ q.ctr \in {r.ctr, r.ctr + 1}
       /\ \A x \in q.key_replay : x \in r.key_replay \/ (x = r.ctr + 1 /\ q.ctr = r.ctr + 1)
       /\ out' # NoKey => q.ctr = r.ctr + 1
  <2>1. CASE q = p /\ out' = NoKey
    BY <1>7, <2>1 DEF Alike, Members
  <2>2. CASE q = t
    BY <1>10, <2>2
  <2> QED BY <1>3, <2>1, <2>2
<1>13. out' # NoKey => /\ out'.gtk = group.GTK /\ out'.type = "1/2"
                       /\ q.wpa_ptk_state = "PTKINITDONE"
  <2>1. CASE out' = Frame(sta, t, "1/2") /\ out' # NoKey
    <3>1. out'.gtk = group.GTK /\ out'.type = "1/2" /\ r.PTK # NoKey
      BY <1>11, <2>1, FrameCarries DEF Frame
    <3>2. r.wpa_ptk_state \notin Handshaking \cup {"AUTHENTICATION2", "INITPSK"}
      BY <1>4, <1>6, <3>1 DEF KeyRules
    <3> QED BY <1>1, <1>11, <3>1, <3>2 DEF Live, Drawn
  <2> QED BY <1>3, <2>1
<1>14. KeyTurn(r, q)
  BY <1>1, <1>3, <1>5, <1>11, <1>12, <1>13 DEF KeyTurn, InState, CarrierAnswered, Received
<1> QED BY <1>14 DEF r, q

LEMMA GroupKeyTurns ==
    ASSUME AuthInv, Works, ApKeys(sm[sta]), ResetRules(sm[sta]), CounterRules(sm[sta]),
           Live(sm'[sta]), GroupStep(sta)
    PROVE  KeyTurn(sm[sta], sm'[sta])
<1> DEFINE r == sm[sta]
           q == sm'[sta]
<1>1. sta \in Stations /\ Shape /\ ResetRules(r) /\ CounterRules(r)
  BY FourWayAssumption DEF AuthInv
<1>2. Has(r, Members)
  BY <1>1 DEF Shape
<1>3. at = "group" /\ todo' = todo
  BY <1>1, GroupMoves DEF Kept
<1>4. CASE GroupIdle(sta)
  <2>1. /\ q = [r EXCEPT !.wpa_ptk_group_state = "IDLE", !.GTimeoutCtr = 0, !.PtkGroupInit = FALSE]
        /\ ToIdle(r) \/ r.wpa_ptk_group_state \in {"KEYERROR", "REKEYESTABLISHED"}
        /\ out' = NoKey /\ group' = group
    BY <1>1, <1>4 DEF Shape, GroupIdle, InGroupState, Turn
  <2> HIDE DEF r, q
  <2>2. Alike(q, r, {"wpa_ptk_group_state", "GTimeoutCtr", "PtkGroupInit"})
    BY <1>2, <2>1 DEF Alike, Members
  <2>3. /\ q.wpa_ptk_state = r.wpa_ptk_state /\ q.rx = r.rx /\ q.alt_SNonce = r.alt_SNonce
        /\ q.alt_replay_counter = r.alt_replay_counter /\ q.TimeoutCtr = r.TimeoutCtr
        /\ q.req = r.req /\ q.GUpdateStationKeys = r.GUpdateStationKeys
        /\ q.ctr = r.ctr /\ q.key_replay = r.key_replay
    BY <2>2 DEF Alike, Members
  <2>4. InState(q, "PTKINITDONE") => r.wpa_ptk_group_state # "REKEYNEGOTIATING"
    BY <1>1, <1>3, <2>1, <2>3 DEF InState, ToIdle, ResetRules
  <2>5. KeyTurn(r, q)
    BY <1>3, <2>1, <2>3, <2>4, KeySame
  <2> QED BY <2>5 DEF r, q
<1>5. CASE RekeyEstablished(sta)
  <2>1. /\ q = [r EXCEPT !.wpa_ptk_group_state = "REKEYESTABLISHED", !.rx = NoKey,
                         !.GUpdateStationKeys = FALSE, !.GTimeoutCtr = 0]
        /\ GroupAnswered(r) /\ out' = NoKey
        /\ group' = [group EXCEPT !.GKeyDoneStations = Undone(r)]
    BY <1>1, <1>5 DEF Shape, RekeyEstablished, EnterGroup, Turn
  <2>2. group'.GTK = group.GTK
    BY <1>1, <2>1 DEF Shape, GroupMembers
  <2> HIDE DEF r, q
  <2>3. /\ Alike(q, r, {"wpa_ptk_group_state", "rx", "GUpdateStationKeys", "GTimeoutCtr"})
        /\ q.rx = NoKey
    BY <1>2, <2>1 DEF Alike, Members
  <2>4. /\ q.wpa_ptk_state = r.wpa_ptk_state /\ q.alt_SNonce = r.alt_SNonce
        /\ q.alt_replay_counter = r.alt_replay_counter /\ q.TimeoutCtr = r.TimeoutCtr
        /\ q.req = r.req /\ q.ctr = r.ctr /\ q.key_replay = r.key_replay
    BY <2>3 DEF Alike, Members
  <2>5. CarrierAnswered(r) /\ r.rx # NoKey
    BY <2>1 DEF GroupAnswered, CarrierAnswered, Received
  <2>6. q.wpa_ptk_state = "PTKINITDONE" => q.key_replay = {}
    BY <1>1, <2>4, <2>5 DEF CounterRules
  <2>7. InState(q, "PTKINITDONE") => q.key_replay = {}
    BY <2>6 DEF InState
  <2>8. KeyTurn(r, q)
    BY <2>1, <2>2, <2>3, <2>4, <2>5, <2>7, KeySame
  <2> QED BY <2>8 DEF r, q
<1>6. CASE KeyError(sta)
  <2>1. /\ q = [r EXCEPT !.wpa_ptk_group_state = "KEYERROR", !.GUpdateStationKeys = FALSE,
                         !.req = @ \cup {"Disconnect"}]
        /\ out' = NoKey
        /\ group' = [group EXCEPT !.GKeyDoneStations = Undone(r)]
    BY <1>1, <1>6 DEF Shape, KeyError, EnterGroup, Turn
  <2>2. group'.GTK = group.GTK
    BY <1>1, <2>1 DEF Shape, GroupMembers
  <2> HIDE DEF r, q
  <2>3. /\ Alike(q, r, {"wpa_ptk_group_state", "req", "GUpdateStationKeys"})
        /\ q.req = r.req \cup {"Disconnect"}
    BY <1>2, <2>1 DEF Alike, Members
  <2>4. /\ q.wpa_ptk_state = r.wpa_ptk_state /\ q.alt_SNonce = r.alt_SNonce
        /\ q.alt_replay_counter = r.alt_replay_counter /\ q.TimeoutCtr = r.TimeoutCtr
        /\ q.rx = r.rx /\ q.ctr = r.ctr /\ q.key_replay = r.key_replay
    BY <2>3 DEF Alike, Members
  <2>5. ~InState(q, "PTKINITDONE")
    BY <2>3 DEF InState
  <2>6. KeyTurn(r, q)
    BY <2>1, <2>2, <2>3, <2>4, <2>5, KeySame
  <2> QED BY <2>6 DEF r, q
<1>7. CASE GroupStay(sta)
  <2>1. q = r /\ out' = NoKey /\ group' = group
    BY <1>1, <1>7 DEF Shape, GroupStay, Turn
  <2> HIDE DEF r, q
  <2>2. KeyTurn(r, q)
    BY <1>3, <2>1, KeySame
  <2> QED BY <2>2 DEF r, q
<1> QED BY <1>4, <1>5, <1>6, <1>7, RekeyNegotiatingKeyTurn DEF GroupStep

\* wpa_group_sm_step and wpa_group_setkeys, unless a group key is drawn: a station that has
\* completed its handshake is marked.
LEMMA GroupSmKeyTurns ==
    ASSUME AuthInv, Counting, group'.state # "FATAL_FAILURE",
           SetKeysDone \/ GroupSmStay \/ UpdateNext \/ UpdateEnd \/ RekeyGtk
    PROVE  KeyTurn(sm[sta], sm'[sta])
<1> DEFINE r == sm[sta]
           q == sm'[sta]
           m == [r EXCEPT !.GUpdateStationKeys = TRUE]
           n == [r EXCEPT !.GUpdateStationKeys = FALSE]
<1>1. /\ sta \in Stations /\ Shape /\ Stations = {sta} /\ todo \subseteq Stations
      /\ r.is_wnmsleep = FALSE
  BY FourWayAssumption DEF AuthInv, Control, Counting
<1>2. Has(r, Members)
  BY <1>1 DEF Shape
<1>3. /\ out' = NoKey
      /\ \/ q = r /\ todo' = todo
         \/ q = m
         \/ q = n /\ r.wpa_ptk_state # "PTKINITDONE"
  <2>1. CASE SetKeysDone
    <3>1. group' = [group EXCEPT !.state = "FATAL_FAILURE"] => group'.state = "FATAL_FAILURE"
      BY <1>1 DEF Shape, GroupMembers
    <3> QED BY <2>1, <3>1 DEF SetKeysDone, GoOn
  <2>2. CASE UpdateNext
    <3>1. UpdateSta(sta) /\ out' = NoKey
      BY <1>1, <2>2 DEF UpdateNext
    <3>2. \/ sm' = [sm EXCEPT ![sta] = m]
          \/ sm' = [sm EXCEPT ![sta] = n] /\ r.wpa_ptk_state # "PTKINITDONE"
      BY <1>1, <3>1 DEF UpdateSta, MustUpdate
    <3> HIDE DEF m, n
    <3> QED BY <1>1, <3>1, <3>2 DEF Shape
  <2> QED BY <2>1, <2>2 DEF GroupSmStay, UpdateEnd, RekeyGtk, GoOn
<1>4. group'.GTK = group.GTK
  BY <1>1 DEF SetKeysDone, GroupSmStay, UpdateNext, UpdateSta, UpdateEnd, RekeyGtk, Shape, GroupMembers
<1> HIDE DEF r, q
<1>5. CASE q = r /\ todo' = todo
  <2>1. KeyTurn(r, q)
    BY <1>3, <1>4, <1>5, KeySame
  <2> QED BY <2>1 DEF r, q
<1>6. CASE q = m \/ (q = n /\ r.wpa_ptk_state # "PTKINITDONE")
  <2>1. Alike(q, r, {"GUpdateStationKeys"}) /\ (q = m => q.GUpdateStationKeys = TRUE)
    BY <1>2, <1>6 DEF Alike, Members
  <2> HIDE DEF m, n
  <2>2. /\ q.wpa_ptk_state = r.wpa_ptk_state /\ q.rx = r.rx /\ q.alt_SNonce = r.alt_SNonce
        /\ q.alt_replay_counter = r.alt_replay_counter /\ q.TimeoutCtr = r.TimeoutCtr
        /\ q.req = r.req /\ q.ctr = r.ctr /\ q.key_replay = r.key_replay
        /\ q.wpa_ptk_group_state = r.wpa_ptk_group_state
    BY <2>1 DEF Alike, Members
  <2>3. ~(InState(q, "PTKINITDONE") /\ ~q.GUpdateStationKeys)
    BY <1>6, <2>1, <2>2 DEF InState
  <2>4. KeyTurn(r, q)
    BY <1>3, <1>4, <2>2, <2>3, KeySame
  <2> QED BY <2>4 DEF r, q
<1> QED BY <1>3, <1>5, <1>6

\* A handler that goes on, unless the station is left as it is, has an ANonce drawn or
\* the station removed.
LEMMA ReturnKeyTurns ==
    ASSUME AuthInv, Live(sm'[sta]), Return
    PROVE  KeyTurn(sm[sta], sm'[sta])
<1> DEFINE r == sm[sta]
           q == sm'[sta]
           a == [r EXCEPT !.req = (@ \ {"Init"}) \cup {"Auth"}]
           b == [r EXCEPT !.ctr = 0, !.key_replay = {}, !.req = @ \cup {"ReAuth"}]
           c == [r EXCEPT !.started = TRUE, !.req = @ \cup {"Init"}]
           p == RemovePtk(r)
           d == [p EXCEPT !.GUpdateStationKeys = FALSE,
                          !.PtkGroupInit = @ \/ r.GUpdateStationKeys,
                          !.req = @ \cup {"ReAuth"}]
<1>1. sta \in Stations /\ Shape /\ Stations = {sta} /\ at = "return" /\ out' = NoKey /\ Live(q)
  BY FourWayAssumption DEF AuthInv, Return
<1>2. Has(r, Members)
  BY <1>1 DEF Shape
<1>3. (sm' = sm /\ group' = group /\ todo' = todo) \/ q \in {a, b, c, d, NewSm}
  <2>1. CASE todo = {} /\ then # Nothing
    <3>1. then[2] = sta
      BY <1>1, <2>1, Continues
    <3> QED BY <1>1, <2>1, <3>1 DEF Return, StepOn, StaAssociated, Reauth, Free, Shape
  <2> QED BY <2>1 DEF Return, Nothing
<1> HIDE DEF r, q
<1>4. /\ "Auth" \in a.req /\ "ReAuth" \in b.req /\ "Init" \in c.req /\ "ReAuth" \in d.req
  <2>1. "Auth" \in a.req /\ "ReAuth" \in b.req /\ "Init" \in c.req
    BY <1>2 DEF Members
  <2>2. Has(p, Members)
    BY <1>2 DEF RemovePtk, Members
  <2> HIDE DEF p
  <2>3. "ReAuth" \in d.req
    BY <2>2 DEF Members
  <2> QED BY <2>1, <2>3
<1> HIDE DEF a, b, c, d
<1>5. ~Live(NewSm)
  BY DEF Live, Drawn, Handshaking, NewSm
<1>6. q = r /\ group' = group /\ todo' = todo
  BY <1>1, <1>3, <1>4, <1>5 DEF Live, r, q
<1>7. KeyTurn(r, q)
  BY <1>1, <1>6, KeySame
<1> QED BY <1>7 DEF r, q

LEMMA HandlerKeyTurns ==
    ASSUME AuthInv, Live(sm'[sta]), Timeout(sta) \/ RekeyPtk(sta) \/ Disassociate(sta) \/ Associate(sta)
    PROVE  KeyTurn(sm[sta], sm'[sta])
<1> DEFINE r == sm[sta]
           q == sm'[sta]
           t == [r EXCEPT !.timers = @ - 1, !.TimeoutEvt = TRUE]
           k == [r EXCEPT !.rekey_timer = FALSE, !.req = @ \cup {"PTK"}, !.PTK = NoKey]
           d == Deauth([r EXCEPT !.assoc = FALSE])
           a == RemovePtk([r EXCEPT !.assoc = TRUE])
<1>1. sta \in Stations /\ Shape /\ Live(q)
  BY FourWayAssumption DEF AuthInv
<1>2. Has(r, Members)
  BY <1>1 DEF Shape
<1>3. out' = NoKey /\ group' = group /\ todo' = todo /\ q \in {t, k, d, a}
  BY <1>1 DEF Timeout, RekeyPtk, Disassociate, Associate, Handle, StepOn, Shape
<1> HIDE DEF r, q
<1>4. Alike(t, r, {"timers", "TimeoutEvt"}) /\ "PTK" \in k.req
  BY <1>2 DEF Alike, Members
<1>5. "Deauth" \in d.req
  BY <1>2 DEF Deauth, RemovePtk, Members
<1>6. Alike(a, r, {"assoc", "PTK", "tk", "rekey_timer"})
  BY <1>2 DEF RemovePtk, Alike, Members
<1> HIDE DEF t, k, d, a
<1>7. Alike(q, r, {"timers", "TimeoutEvt", "assoc", "PTK", "tk", "rekey_timer"})
  <2>1. q = t \/ q = a
    BY <1>1, <1>3, <1>4, <1>5 DEF Live
  <2> QED BY <1>4, <1>6, <2>1 DEF Alike
<1>8. /\ q.wpa_ptk_state = r.wpa_ptk_state /\ q.rx = r.rx /\ q.alt_SNonce = r.alt_SNonce
      /\ q.alt_replay_counter = r.alt_replay_counter /\ q.TimeoutCtr = r.TimeoutCtr
      /\ q.req = r.req /\ q.ctr = r.ctr /\ q.key_replay = r.key_replay
      /\ q.wpa_ptk_group_state = r.wpa_ptk_group_state
      /\ q.GUpdateStationKeys = r.GUpdateStationKeys
  BY <1>7 DEF Alike, Members
<1>9. KeyTurn(r, q)
  BY <1>3, <1>8, KeySame
<1> QED BY <1>9 DEF r, q

\* An answer that is accepted uses up the counters; a 4/4 or 2/2 is one to a frame sent.
LEMMA ReceiveKeyTurns ==
    ASSUME AuthInv, Works, FramesSent, ApKeys(sm[sta]), Live(sm'[sta]), NEW f \in up, Receive(sta, f)
    PROVE  KeyTurn(sm[sta], sm'[sta])
<1> DEFINE r == sm[sta]
           q == sm'[sta]
           u == Updating(r, f)
           v == Verified(u, f)
           d == StaDisconnect(u)
           c == Consumed(v, f)
           m == [r EXCEPT !.MICVerified = FALSE]
<1>1. f.type \in {"2/4", "4/4", "2/2"}
  BY DEF FramesSent
<1>2. at = "rest" /\ sta \in Stations /\ Shape /\ Live(q)
  BY FourWayAssumption DEF AuthInv, Receive, ReceiveAnswer, ReceiveRequest, ReceiveUnverified, Handle
<1>3. r.rx = NoKey /\ ~r.update_snonce /\ (r.PTK # NoKey => r.PTK[1] = r.ANonce)
  BY <1>2, AtRest, FourWayAssumption DEF NoFrame, ApKeys
<1>4. Has(r, Members)
  BY <1>2 DEF Shape
<1>5. /\ out' = NoKey /\ group' = group /\ todo' = todo
      /\ \/ q \in {d, m}
         \/ q = c /\ Expected(r, f) /\ InOrder(u, f) /\ (Verifies(u) => MicOk(u, f))
  BY <1>1, <1>2 DEF Receive, ReceiveAnswer, ReceiveRequest, ReceiveUnverified, IsRequest, Handle, StepOn,
     Shape
<1> HIDE DEF r, q
<1>6. /\ Alike(u, r, {"update_snonce", "alt_SNonce", "alt_replay_counter"})
      /\ NewSNonce(r, f) => u.update_snonce = TRUE /\ u.alt_replay_counter = r.ctr
      /\ ~NewSNonce(r, f) => u = r
  <2>1. NewSNonce(r, f) => u.alt_replay_counter = r.ctr
    BY <1>4 DEF Updating, Members
  <2> QED BY <1>4, <2>1, UpdatingKeeps
<1> HIDE DEF u
<1>7. q # d
  BY <1>2, <1>6, DisconnectKeeps DEF Alike, Live
<1>8. CASE q = m
  <2>1. Alike(q, r, {"MICVerified"})
    BY <1>4, <1>8 DEF Alike, Members
  <2>2. /\ q.wpa_ptk_state = r.wpa_ptk_state /\ q.rx = r.rx /\ q.alt_SNonce = r.alt_SNonce
        /\ q.alt_replay_counter = r.alt_replay_counter /\ q.TimeoutCtr = r.TimeoutCtr
        /\ q.req = r.req /\ q.ctr = r.ctr /\ q.key_replay = r.key_replay
        /\ q.wpa_ptk_group_state = r.wpa_ptk_group_state
        /\ q.GUpdateStationKeys = r.GUpdateStationKeys
    BY <2>1 DEF Alike, Members
  <2>3. KeyTurn(r, q)
    BY <1>5, <2>2, KeySame
  <2> QED BY <2>3 DEF r, q
<1>9. CASE q = c /\ Expected(r, f) /\ InOrder(u, f) /\ (Verifies(u) => MicOk(u, f))
  <2>1. /\ Alike(v, u, {"MICVerified", "timers", "PTK", "alt_SNonce"})
        /\ v.alt_SNonce \in {NoKey, u.alt_SNonce}
        /\ ~Verifies(u) => v.alt_SNonce = u.alt_SNonce
    <3>1. Has(u, Members)
      BY <1>6 DEF Alike
    <3>2. CASE Verifies(u)
      BY <3>1, <3>2, VerifiedKeeps DEF Verified, Members
    <3>3. CASE ~Verifies(u)
      BY <3>1, <3>3, VerifiedKeeps DEF Verified, Members
    <3> QED BY <3>2, <3>3
  <2> HIDE DEF v
  <2>2. /\ Alike(c, v, {"prev_key_replay", "key_replay", "rx", "last", "SNonce"})
        /\ c.key_replay = {} /\ c.rx = [type |-> f.type, mic |-> f.mic]
    BY <2>1, ConsumedKeeps DEF Alike
  <2> HIDE DEF c
  <2>3. /\ q.wpa_ptk_state = r.wpa_ptk_state /\ q.ctr = r.ctr /\ q.TimeoutCtr = r.TimeoutCtr
        /\ q.req = r.req /\ q.GUpdateStationKeys = r.GUpdateStationKeys
        /\ q.key_replay = {} /\ q.rx = [type |-> f.type, mic |-> f.mic]
        /\ q.alt_SNonce = v.alt_SNonce /\ q.alt_replay_counter = u.alt_replay_counter
        /\ u.PTK = r.PTK /\ u.ANonce = r.ANonce
    BY <1>6, <1>9, <2>1, <2>2 DEF Alike, Members
  <2>4. \/ /\ q.alt_SNonce \in {NoKey, r.alt_SNonce} /\ q.alt_replay_counter = r.alt_replay_counter
           /\ ~NewSNonce(r, f)
        \/ r.wpa_ptk_state = "PTKINITNEGOTIATING" /\ q.alt_replay_counter = r.ctr
    BY <1>6, <2>1, <2>3 DEF NewSNonce
  <2>5. f.type \in {"4/4", "2/2"} => AnswersOne(r, f)
    <3> SUFFICES ASSUME f.type \in {"4/4", "2/2"} PROVE AnswersOne(r, f)
      OBVIOUS
    <3>1. ~NewSNonce(r, f) /\ u = r
      BY <1>6 DEF NewSNonce
    <3>2. r.PTK # NoKey
      BY <1>9, <3>1 DEF InOrder
    <3>3. MicOk(r, f)
      BY <1>3, <1>9, <3>1, <3>2 DEF Verifies
    <3>4. f.mic[1] = r.ANonce
      BY <1>3, <3>2, <3>3 DEF MicOk, AltMic, AltPtk
    <3>5. f.ctr \in r.key_replay \/ OldSNonce(r, f)
      BY <1>9, <3>1 DEF Expected, IsRequest
    <3> QED BY <3>4, <3>5 DEF AnswersOne, OldSNonce, Handshaking
  <2>6. CarrierAnswered(q) => AnswersOne(r, f)
    BY <2>3, <2>5 DEF CarrierAnswered, Received
  <2>7. q.wpa_ptk_state = "PTKSTART" =>
            q.alt_SNonce = NoKey \/ (r.wpa_ptk_state = "PTKSTART" /\ q.alt_SNonce = r.alt_SNonce)
    BY <2>3, <2>4
  <2>8. InState(q, "PTKINITDONE") => InState(r, "PTKINITDONE")
    BY <2>3 DEF InState
  <2>9. KeyTurn(r, q)
    BY <1>5, <2>3, <2>4, <2>6, <2>7, <2>8 DEF KeyTurn
  <2> QED BY <2>9 DEF r, q
<1> QED BY <1>5, <1>7, <1>8, <1>9

-----------------------------------------------------------------------------
(* The group                                                                *)

\* A step that draws no group key and does not begin to use one.
GroupSame ==
    /\ group'.state = group.state /\ group'.GTK = group.GTK /\ group'.tx = group.tx
    /\ group'.first_sta_seen = group.first_sta_seen

\* Group key and mark are left as they are, or the first station makes the authenticator
\* draw the key again, or the mark is taken away.
OtherStep ==
    /\ todo' = todo /\ (at = "update" => todo = {})
    /\ GroupSame \/ \E ready, ok \in BOOLEAN : group' = EnsureInit(ready, ok)
    /\ sm'[sta].GUpdateStationKeys \in {sm[sta].GUpdateStationKeys, FALSE}

LEMMA SameGroup ==
    ASSUME Shape, \/ group' = group \/ group' = [group EXCEPT !.GTKReKey = TRUE]
                  \/ \E n : group' = [group EXCEPT !.GKeyDoneStations = n]
    PROVE  GroupSame
BY DEF Shape, GroupSame, GroupMembers

LEMMA SparesMark ==
    ASSUME AuthInv, NEW s \in Stations, Spares(s)
    PROVE  sm'[sta].GUpdateStationKeys = sm[sta].GUpdateStationKeys
<1>1. Shape /\ Stations = {sta} /\ s = sta
  BY FourWayAssumption DEF AuthInv
<1> QED BY <1>1 DEF Spares

LEMMA ApGroup ==
    ASSUME AuthInv, FramesSent, ApMoves
    PROVE  SetKeys \/ SetKeysDone \/ UpdateNext \/ OtherStep
<1> DEFINE r == sm[sta]
           q == sm'[sta]
<1>1. Shape /\ Stations = {sta} /\ sta \in Stations /\ Has(r, Members)
  BY FourWayAssumption DEF AuthInv, Shape
<1>2. CASE PtkStep(sta)
  <2>1. /\ at = "ptk" /\ todo' = todo
    BY <1>1, <1>2, PtkMoves DEF Kept
  <2>2. q.GUpdateStationKeys \in {r.GUpdateStationKeys, FALSE}
    BY <1>1, <1>2, BeforePtk, PtkTurn DEF PtkAfter
  <2>3. GroupSame \/ \E ready, ok \in BOOLEAN : group' = EnsureInit(ready, ok)
    <3>1. CASE PtkAuthentication2(sta)
      BY <3>1 DEF PtkAuthentication2, MayFail
    <3>2. CASE PtkInitialize(sta)
      BY <1>1, <3>2, SameGroup DEF PtkInitialize
    <3>3. CASE group' = group
      BY <1>1, <3>3, SameGroup
    <3> QED BY <1>2, <3>1, <3>2, <3>3 DEF PtkStep, PtkDisconnect, PtkDisconnected, PtkAuthentication,
               PtkInitPsk, PtkStart, PtkUpdate, PtkCalcNegotiating, PtkCalcNegotiating2,
               PtkInitNegotiating, PtkInitDone, PtkStay
  <2> QED BY <2>1, <2>2, <2>3 DEF OtherStep
<1>3. CASE GroupStep(sta)
  <2>1. /\ at = "group" /\ cur = sta /\ todo' = todo
    BY <1>1, <1>3, GroupMoves DEF Kept
  <2>2. GroupBefore(r, changed)
    BY <1>1, <2>1 DEF GroupBefore, AuthInv, StationRules, Active, Stepping
  <2>3. q.GUpdateStationKeys \in {r.GUpdateStationKeys, FALSE}
    BY <1>1, <1>3, <2>2, GroupTurn DEF GroupAfter
  <2>4. GroupSame
    BY <1>1, <1>3, SameGroup DEF GroupStep, GroupIdle, RekeyNegotiating, RekeyEstablished, KeyError, GroupStay
  <2> QED BY <2>1, <2>3, <2>4 DEF OtherStep
<1>4. CASE GroupSmStay \/ UpdateEnd \/ RekeyGtk
  <2>1. sm' = sm /\ todo' = todo /\ (at = "update" => todo = {})
    BY <1>4 DEF GroupSmStay, UpdateEnd, RekeyGtk
  <2>2. GroupSame
    BY <1>1, <1>4, SameGroup DEF GroupSmStay, UpdateEnd, RekeyGtk
  <2> QED BY <2>1, <2>2 DEF OtherStep
<1>5. CASE Return
  <2>1. at = "return"
    BY <1>5 DEF Return
  <2>2. GroupSame
    BY <1>1, <1>5, SameGroup DEF Return, StepOn, StaAssociated, Reauth, Free
  <2>3. todo' = todo /\ q.GUpdateStationKeys \in {r.GUpdateStationKeys, FALSE}
    <3>1. CASE Reauth(sta) \/ Free(sta)
      <4> DEFINE p == RemovePtk(r)
                 a == [p EXCEPT !.GUpdateStationKeys = FALSE,
                                !.PtkGroupInit = @ \/ r.GUpdateStationKeys,
                                !.req = @ \cup {"ReAuth"}]
      <4>1. q = a \/ q = NewSm
        BY <1>1, <3>1 DEF Reauth, Free, Shape
      <4> HIDE DEF r, q
      <4>2. Has(p, Members)
        BY <1>1 DEF RemovePtk, Members
      <4> HIDE DEF p
      <4>3. a.GUpdateStationKeys = FALSE /\ NewSm.GUpdateStationKeys = FALSE
        BY <4>2 DEF NewSm, Members
      <4> HIDE DEF a
      <4> QED BY <1>5, <4>1, <4>3, ReturnSpares
    <3> QED BY <1>1, <1>5, <3>1, ReturnSpares, SparesMark
  <2> QED BY <2>1, <2>2, <2>3 DEF OtherStep
<1>6. CASE Timeout(sta) \/ RekeyPtk(sta) \/ Disassociate(sta) \/ Associate(sta)
  <2>1. at = "rest" /\ group' = group
    BY <1>6 DEF Timeout, RekeyPtk, Disassociate, Associate, Handle, StepOn
  <2>2. Spares(sta)
    BY <1>1, <1>6, HandlersSpare
  <2> QED BY <1>1, <2>1, <2>2, SameGroup, SparesMark DEF OtherStep, Spares
<1>7. ASSUME NEW f \in up, Receive(sta, f) PROVE OtherStep
  <2>1. at = "rest" /\ GroupSame
    BY <1>1, <1>7, SameGroup DEF Receive, ReceiveAnswer, ReceiveRequest, ReceiveUnverified, Handle, StepOn
  <2>2. Spares(sta)
    BY <1>1, <1>7, ReceiveSpares
  <2> QED BY <1>1, <2>1, <2>2, SparesMark DEF OtherStep, Spares
<1> QED BY <1>1, <1>2, <1>3, <1>4, <1>5, <1>6, <1>7 DEF ApMoves, ApStep, Step, ApHandler, ApAssociate, ApReceive

LEMMA ApCounts ==
    ASSUME AuthInv, Counting, ApMoves
    PROVE  Counting'
<1>1. ASSUME sm' = sm, todo' = todo, group'.GKeyDoneStations = group.GKeyDoneStations
      PROVE  Counting'
  BY <1>1 DEF Counting, Waiting
<1>2. CASE GroupSmStay \/ UpdateEnd
  BY <1>1, <1>2 DEF GroupSmStay, UpdateEnd
<1>3. CASE RekeyGtk
  <2>1. group'.GKeyDoneStations = group.GKeyDoneStations
    BY <1>3 DEF RekeyGtk, AuthInv, Shape, GroupMembers
  <2> QED BY <1>1, <1>3, <2>1 DEF RekeyGtk
<1>4. CASE Return
  <2>1. CASE todo = {}
    BY <1>1, <1>4, <2>1, ReturnSpares, SparesKeep, FreeKeeps
  <2>2. CASE todo # {}
    BY <1>1, <1>4, <2>2 DEF Return
  <2> QED BY <2>1, <2>2
<1>5. ASSUME Spares(sta), at = "rest" PROVE Counting'
  BY <1>5, FourWayAssumption, AtRest, SparesKeep
<1>6. CASE Timeout(sta) \/ RekeyPtk(sta) \/ Disassociate(sta) \/ Associate(sta)
  <2>1. at = "rest"
    BY <1>6 DEF Timeout, RekeyPtk, Disassociate, Associate, Handle
  <2> QED BY <1>5, <1>6, <2>1, FourWayAssumption, HandlersSpare
<1>7. ASSUME NEW f \in up, Receive(sta, f) PROVE Counting'
  <2>1. at = "rest"
    BY <1>7 DEF Receive, ReceiveAnswer, ReceiveRequest, ReceiveUnverified, Handle
  <2> QED BY <1>5, <1>7, <2>1, FourWayAssumption, ReceiveSpares
<1> QED BY <1>2, <1>3, <1>4, <1>6, <1>7, FourWayAssumption, TurnsKeep, SetKeysKeeps, UpdateKeeps
        DEF ApMoves, ApStep, Step, ApHandler, ApAssociate, ApReceive

\* A group that has failed does not work again.
LEMMA ApWorks ==
    ASSUME AuthInv, FramesSent, ApMoves, group'.state # "FATAL_FAILURE"
    PROVE  Works
<1>1. CASE SetKeys \/ SetKeysDone
  BY <1>1 DEF SetKeys, SetKeysDone, Works
<1>2. CASE UpdateNext
  <2>1. group'.state = group.state
    BY <1>2 DEF UpdateNext, UpdateSta, AuthInv, Shape, GroupMembers
  <2> QED BY <2>1 DEF Works
<1>3. CASE OtherStep
  <2>1. group'.state = group.state
    BY <1>3, Ensures DEF OtherStep, GroupSame, GroupKept, AuthInv
  <2> QED BY <2>1 DEF Works
<1> QED BY <1>1, <1>2, <1>3, ApGroup

\* Once nobody is waited for, the driver is given the group key.
LEMMA GroupRulesKept ==
    ASSUME AuthInv, ApBefore, ApMoves, Counting, Works, group'.state # "FATAL_FAILURE",
           GroupRules(sm[sta])
    PROVE  GroupRules(sm[sta])'
<1> DEFINE r == sm[sta]
           q == sm'[sta]
<1>1. /\ Shape /\ Stations = {sta} /\ sta \in Stations /\ Control /\ GroupRules(r)
      /\ group.GTK \in Nat /\ FramesSent
  BY FourWayAssumption DEF AuthInv, ApBefore, GroupRules
<1>2. ASSUME group.first_sta_seen => group'.first_sta_seen
      PROVE  (\E f \in down' : f.type = "3/4") => group'.first_sta_seen
  <2> SUFFICES ASSUME NEW f \in down', f.type = "3/4" PROVE group'.first_sta_seen
    OBVIOUS
  <2>1. CASE f \in down
    BY <1>1, <1>2, <2>1 DEF GroupRules
  <2>2. CASE f = out' /\ out' # NoKey
    <3>1. r.PTK # NoKey
      BY <2>2 DEF ApBefore, ApTurn, Sent
    <3>2. group.first_sta_seen
      BY <1>1, <3>1 DEF AuthInv, FrameRules, EntropyRules, Accepted
    <3> QED BY <1>2, <3>2
  <2> QED BY <2>1, <2>2, SendsKeeps DEF ApBefore
<1>3. CASE SetKeys
  <2>1. /\ at' = "update"
        /\ group'.GTK = group.GTK + 1 /\ group'.state = "SETKEYS"
        /\ group'.first_sta_seen = group.first_sta_seen
    BY <1>1, <1>3 DEF SetKeys, Shape, GroupMembers
  <2> QED BY <1>1, <1>2, <2>1 DEF GroupRules
<1>4. CASE SetKeysDone
  <2>1. group' # [group EXCEPT !.state = "FATAL_FAILURE"]
    BY <1>1 DEF Shape, GroupMembers
  <2>2. /\ group'.GTK = group.GTK /\ group'.tx = group.GTK
        /\ group'.first_sta_seen = group.first_sta_seen
        /\ sm' = sm /\ todo' = todo /\ at # "update" /\ group.GKeyDoneStations = 0
    BY <1>1, <1>4, <2>1 DEF SetKeysDone, Shape, GroupMembers
  <2>3. todo = {}
    BY <1>1, <2>2 DEF GroupRules
  <2>4. ~r.GUpdateStationKeys
    <3>1. Cardinality(Waiting) = 0 /\ IsFiniteSet(Waiting)
      BY <2>2, WaitingFinite DEF Counting, Waiting
    <3>2. Waiting = {}
      BY <3>1, FS_EmptySet
    <3> QED BY <1>1, <2>3, <3>2 DEF Waiting
  <2> QED BY <1>1, <1>2, <2>2, <2>3, <2>4 DEF GroupRules
<1>5. CASE UpdateNext
  <2>1. /\ sta \in todo /\ todo' = {}
    BY <1>1, <1>5 DEF UpdateNext, Control
  <2>2. group.state = "SETKEYS"
    BY <1>1, <2>1 DEF GroupRules
  <2>3. /\ group'.GTK = group.GTK /\ group'.state = group.state
        /\ group'.first_sta_seen = group.first_sta_seen
    BY <1>1, <1>5 DEF UpdateNext, UpdateSta, Shape, GroupMembers
  <2> QED BY <1>1, <1>2, <2>1, <2>2, <2>3 DEF GroupRules
<1>6. CASE OtherStep
  <2>1. todo' = {} /\ todo = {}
    BY <1>1, <1>6 DEF OtherStep, GroupRules
  <2>2. q.GUpdateStationKeys \in {r.GUpdateStationKeys, FALSE}
    BY <1>6 DEF OtherStep
  <2>3. CASE GroupSame
    BY <1>1, <1>2, <2>1, <2>2, <2>3 DEF GroupRules, GroupSame
  <2>4. ASSUME NEW ready \in BOOLEAN, NEW ok \in BOOLEAN, group' = EnsureInit(ready, ok)
        PROVE  GroupRules(r)'
    <3>1. CASE group.first_sta_seen
      <4>1. GroupSame
        BY <1>1, <2>4, <3>1, SameGroup DEF EnsureInit
      <4> QED BY <2>3, <4>1
    <3>2. CASE ~group.first_sta_seen
      <4>1. /\ group'.state = group.state /\ group'.GTK = group.GTK + 1
            /\ group'.first_sta_seen => group'.tx = group.GTK + 1
        BY <1>1, <2>4, <3>2 DEF EnsureInit, Shape, GroupMembers
      <4>2. (\E f \in down' : f.type = "3/4") => group'.first_sta_seen
        BY <1>1, <1>2, <3>2, <4>1
      <4>3. group'.GTK \in Nat
        BY <1>1, <4>1
      <4>4. /\ group'.state = "SETKEYSDONE" => ~q.GUpdateStationKeys
            /\ group'.state = "SETKEYSDONE" /\ group'.first_sta_seen => group'.tx = group'.GTK
        BY <1>1, <2>2, <4>1 DEF GroupRules
      <4> QED BY <2>1, <4>2, <4>3, <4>4 DEF GroupRules
    <3> QED BY <3>1, <3>2
  <2> QED BY <1>6, <2>3, <2>4 DEF OtherStep
<1> QED BY <1>1, <1>3, <1>4, <1>5, <1>6, ApGroup

\* Every step of the authenticator, unless it draws an ANonce or a group key.
LEMMA ApKeyTurns ==
    ASSUME WorldInv, GroupInv, ApMoves, Works, group'.state # "FATAL_FAILURE", ~SetKeys,
           Live(sm'[sta]), Stands(sm[sta], sm'[sta])
    PROVE  KeyTurn(sm[sta], sm'[sta])
<1>1. Stations = {sta} /\ AuthInv /\ Budget(sm[sta]) /\ ApKeys(sm[sta]) /\ FramesSent
  BY FourWayAssumption DEF WorldInv
<1>2. Live(sm[sta])
  BY DEF Stands
<1>3. Counting /\ ResetRules(sm[sta]) /\ CounterRules(sm[sta])
  BY <1>2 DEF GroupInv
<1>4. CASE ApStep
  BY <1>1, <1>3, <1>4, PtkKeyTurns, GroupKeyTurns, GroupSmKeyTurns, ReturnKeyTurns DEF ApStep, Step
<1>5. CASE ApHandler \/ ApAssociate
  BY <1>1, <1>3, <1>5, GroupSmKeyTurns, HandlerKeyTurns DEF ApHandler, ApAssociate
<1>6. CASE ApReceive
  BY <1>1, <1>6, ReceiveKeyTurns DEF ApReceive
<1> QED BY <1>4, <1>5, <1>6 DEF ApMoves

\* An ANonce is drawn: the handshake starts with nothing to answer.
LEMMA DrawnRules ==
    ASSUME AuthInv, Works, ApBefore, ApMoves, Draws(sm[sta], sm'[sta])
    PROVE  CounterRules(sm[sta])' /\ AnswerRules(sm[sta])'
<1> DEFINE r == sm[sta]
           q == sm'[sta]
           p == [r EXCEPT !.ANonce = anonces + 1, !.TimeoutCtr = 0]
<1>1. /\ Stations = {sta} /\ sta \in Stations /\ Shape
      /\ anonces \in Nat /\ anonces' # anonces /\ q.wpa_ptk_state \in {"AUTHENTICATION2", "PTKSTART"}
  BY FourWayAssumption DEF AuthInv, ApBefore, Budget, Draws
<1>2. PtkStep(sta)
  BY <1>1 DEF ApMoves, ApStep, Step, GroupStep, SetKeysDone, SetKeys, GroupSmStay, GoOn, UpdateNext,
     UpdateEnd, Return, StepOn, StaAssociated, Reauth, Free, ApHandler, Timeout, RekeyPtk, RekeyGtk,
     Disassociate, Handle, ApAssociate, Associate, ApReceive, Receive, ReceiveAnswer, ReceiveRequest,
     ReceiveUnverified
<1>3. ~PairwiseReceived(q) /\ Has(r, Members)
  BY <1>2, PtkFrame, BeforePtk
<1>4. PtkAuthentication2(sta) \/ PtkUpdate(sta)
  BY <1>1, <1>2 DEF PtkStep, PtkInitialize, PtkDisconnect, PtkDisconnected, PtkAuthentication, PtkInitPsk,
     PtkStart, PtkCalcNegotiating, PtkCalcNegotiating2, PtkInitNegotiating, PtkInitDone, PtkStay
<1>5. q.wpa_ptk_state = "PTKSTART" => q.alt_SNonce = NoKey
  <2>1. CASE PtkAuthentication2(sta)
    <3> DEFINE o == [r EXCEPT !.req = @ \ {"ReAuth"}, !.wpa_ptk_state = "AUTHENTICATION2"]
               t == [o EXCEPT !.ANonce = anonces + 1, !.TimeoutCtr = 0]
    <3>1. q = t
      BY <1>1, <2>1 DEF PtkAuthentication2, EnterPtk, Turn, Shape
    <3> HIDE DEF r, q
    <3>2. Has(o, Members) /\ o.wpa_ptk_state = "AUTHENTICATION2"
      BY <1>3 DEF Members
    <3> HIDE DEF o
    <3>3. q.wpa_ptk_state = "AUTHENTICATION2"
      BY <3>1, <3>2 DEF Members
    <3> QED BY <3>3 DEF q
  <2>2. CASE PtkUpdate(sta)
    <3>1. EnterPtkStart(sta, p)
      BY <1>1, <2>2 DEF PtkUpdate
    <3>2. Has(p, Members)
      BY <1>3 DEF Members
    <3> HIDE DEF p
    <3> QED BY <1>1, <3>1, <3>2, StartCounts
  <2> QED BY <1>4, <2>1, <2>2
<1>6. Carriers' = {} /\ Outdated' = {} /\ Caught'
  BY DrawnCarriesNothing
<1>7. CounterRules(r)'
  BY <1>1, <1>3, <1>5, <1>6 DEF CounterRules, InState, PairwiseReceived, Received
<1>8. AnswerRules(r)'
  BY <1>1, <1>6 DEF AnswerRules
<1> QED BY <1>7, <1>8

LEMMA ApRulesKept ==
    ASSUME WorldInv, GroupInv, ApMoves, Works, group'.state # "FATAL_FAILURE", Live(sm'[sta])
    PROVE  CounterRules(sm[sta])' /\ (~crossed' => AnswerRules(sm[sta])')
<1>1. ApBefore /\ AuthInv /\ Sends
  BY ApTurns DEF WorldInv, ApBefore
<1>2. CASE Draws(sm[sta], sm'[sta])
  BY <1>1, <1>2, DrawnRules
<1>3. CASE Stands(sm[sta], sm'[sta])
  <2>1. Live(sm[sta])
    BY <1>3 DEF Stands
  <2>2. /\ GroupRules(sm[sta]) /\ CounterRules(sm[sta]) /\ StaRules(sm[sta])
        /\ ~crossed => AnswerRules(sm[sta])
    BY <2>1 DEF GroupInv
  <2>3. CASE SetKeys
    BY <1>1, <2>2, <2>3, SetKeysOutdates DEF GroupRules
  <2>4. CASE ~SetKeys
    <3>1. KeyTurn(sm[sta], sm'[sta])
      BY <1>3, <2>4, ApKeyTurns
    <3>2. crossed' = crossed
      BY <1>1, <3>1 DEF Sends, KeyTurn
    <3> QED BY <1>1, <1>3, <2>1, <2>2, <3>1, <3>2, CountersKept, AnswersKept
  <2> QED BY <2>3, <2>4
<1> QED BY <1>1, <1>2, <1>3 DEF ApBefore, ApTurn

\* WPA_PTK is in PTKINITDONE after its turn only if no request was pending.
LEMMA DoneUnasked ==
    ASSUME AuthInv, PtkStep(sta), sm'[sta].wpa_ptk_state = "PTKINITDONE"
    PROVE  sm[sta].req = {} /\ sm'[sta].PtkGroupInit = sm[sta].PtkGroupInit
<1> DEFINE r == sm[sta]
           q == sm'[sta]
<1>1. Shape /\ sta \in Stations /\ q.wpa_ptk_state = "PTKINITDONE"
  BY BeforePtk
<1>2. Has(r, Members)
  BY BeforePtk
<1>3. CASE PtkInitialize(sta)
  <2>1. q = [RemovePtk(r) EXCEPT !.wpa_ptk_state = "INITIALIZE", !.GUpdateStationKeys = FALSE,
                                 !.TimeoutCtr = 0]
    BY <1>1, <1>3 DEF Shape, PtkInitialize, Turn
  <2> HIDE DEF r, q
  <2>2. q.wpa_ptk_state = "INITIALIZE"
    BY <1>2, <2>1 DEF RemovePtk, Members
  <2> QED BY <1>1, <2>2
<1>4. CASE PtkDisconnect(sta) \/ PtkCalcNegotiating(sta)
  <2> DEFINE p == [r EXCEPT !.req = @ \ {"Disconnect"}, !.wpa_ptk_state = "DISCONNECT"]
             c == [r EXCEPT !.wpa_ptk_state = "PTKCALCNEGOTIATING", !.rx = NoKey,
                            !.update_snonce = FALSE]
  <2>1. \/ q = StaDisconnect(p) \/ q = StaDisconnect(c) \/ q = c
        \/ q = [c EXCEPT !.timers = 0, !.MICVerified = TRUE, !.PTK = <<c.ANonce, c.SNonce>>]
    BY <1>1, <1>4 DEF Shape, PtkDisconnect, PtkCalcNegotiating, EnterPtk, Turn
  <2> HIDE DEF r, q
  <2>2. /\ Has(p, Members) /\ p.wpa_ptk_state = "DISCONNECT"
        /\ Has(c, Members) /\ c.wpa_ptk_state = "PTKCALCNEGOTIATING"
    BY <1>2 DEF Members
  <2> HIDE DEF p, c
  <2>3. q.wpa_ptk_state \in {"DISCONNECT", "PTKCALCNEGOTIATING"}
    <3>1. CASE q = StaDisconnect(p) \/ q = StaDisconnect(c)
      BY <2>2, <3>1, DisconnectKeeps DEF Alike, Members
    <3>2. CASE q = [c EXCEPT !.timers = 0, !.MICVerified = TRUE, !.PTK = <<c.ANonce, c.SNonce>>]
      BY <2>2, <3>2 DEF Members
    <3> QED BY <2>1, <2>2, <3>1, <3>2
  <2> QED BY <1>1, <2>3
<1>5. CASE PtkDisconnected(sta) \/ PtkAuthentication(sta) \/ PtkInitPsk(sta) \/ PtkCalcNegotiating2(sta)
  <2>1. \/ q = [r EXCEPT !.req = @ \ {"Deauth"}, !.wpa_ptk_state = "DISCONNECTED"]
        \/ q = [r EXCEPT !.req = @ \ {"Auth"}, !.wpa_ptk_state = "AUTHENTICATION", !.PTK = NoKey]
        \/ q = [r EXCEPT !.wpa_ptk_state = "INITPSK", !.req_replay_counter = 0]
        \/ q = [r EXCEPT !.wpa_ptk_state = "PTKCALCNEGOTIATING2", !.TimeoutCtr = 0]
    BY <1>1, <1>5 DEF Shape, PtkDisconnected, PtkAuthentication, PtkInitPsk, PtkCalcNegotiating2,
       EnterPtk, Turn
  <2> HIDE DEF r, q
  <2>2. q.wpa_ptk_state \in {"DISCONNECTED", "AUTHENTICATION", "INITPSK", "PTKCALCNEGOTIATING2"}
    BY <1>2, <2>1 DEF Members
  <2> QED BY <1>1, <2>2
<1>6. CASE PtkAuthentication2(sta)
  <2> DEFINE p == [r EXCEPT !.req = @ \ {"ReAuth"}, !.wpa_ptk_state = "AUTHENTICATION2"]
  <2>1. \/ q = [p EXCEPT !.ANonce = anonces + 1, !.TimeoutCtr = 0]
        \/ q = [p EXCEPT !.req = @ \cup {"Disconnect"}]
    BY <1>1, <1>6 DEF Shape, PtkAuthentication2, EnterPtk, Turn
  <2> HIDE DEF r, q
  <2>2. Has(p, Members) /\ p.wpa_ptk_state = "AUTHENTICATION2"
    BY <1>2 DEF Members
  <2> HIDE DEF p
  <2>3. q.wpa_ptk_state = "AUTHENTICATION2"
    BY <2>1, <2>2 DEF Members
  <2> QED BY <1>1, <2>3
<1>7. CASE PtkStart(sta) \/ PtkUpdate(sta)
  <2> DEFINE p == [r EXCEPT !.ANonce = anonces + 1, !.TimeoutCtr = 0]
             d == [r EXCEPT !.req = (@ \cup {"Disconnect"}) \ {"Deauth"},
                            !.wpa_ptk_state = "DISCONNECTED"]
  <2>1. EnterPtkStart(sta, r) \/ EnterPtkStart(sta, p) \/ q = d
    BY <1>1, <1>7 DEF Shape, PtkStart, PtkUpdate, EnterPtk, Turn
  <2>2. Has(p, Members) /\ d.wpa_ptk_state = "DISCONNECTED"
    <3> HIDE DEF r, q
    <3> QED BY <1>2 DEF Members
  <2> HIDE DEF p, d
  <2> QED BY <1>1, <1>2, <2>1, <2>2, StartCounts
<1>8. CASE PtkInitNegotiating(sta)
  <2> DEFINE p == [r EXCEPT !.wpa_ptk_state = "PTKINITNEGOTIATING", !.TimeoutEvt = FALSE,
                            !.TimeoutCtr = @ + 1]
  <2>1. q = p \/ q = SendEapol(p)
    BY <1>1, <1>8 DEF Shape, PtkInitNegotiating, EnterPtk, Turn
  <2> HIDE DEF r, q
  <2>2. Has(p, Members) /\ p.wpa_ptk_state = "PTKINITNEGOTIATING"
    BY <1>2 DEF Members
  <2> HIDE DEF p
  <2>3. q.wpa_ptk_state = "PTKINITNEGOTIATING"
    BY <2>1, <2>2, SendKeeps DEF Alike, Members
  <2> QED BY <1>1, <2>3
<1>9. CASE PtkInitDone(sta)
  <2> DEFINE p == [r EXCEPT !.wpa_ptk_state = "PTKINITDONE", !.rx = NoKey]
  <2>1. r.req = {} /\ (q = StaDisconnect(p) \/ q = [p EXCEPT !.tk = p.PTK, !.rekey_timer = TRUE])
    BY <1>1, <1>9 DEF Shape, PtkInitDone, EnterPtk, Turn, InState
  <2> HIDE DEF r, q
  <2>2. Has(p, Members) /\ p.PtkGroupInit = r.PtkGroupInit
    BY <1>2 DEF Members
  <2> HIDE DEF p
  <2>3. q.PtkGroupInit = r.PtkGroupInit
    <3>1. CASE q = StaDisconnect(p)
      BY <2>2, <3>1, DisconnectKeeps DEF Alike, Members
    <3>2. CASE q = [p EXCEPT !.tk = p.PTK, !.rekey_timer = TRUE]
      BY <2>2, <3>2 DEF Members
    <3> QED BY <2>1, <3>1, <3>2
  <2> QED BY <2>1, <2>3 DEF r, q
<1>10. CASE PtkStay(sta)
  <2>1. q = r /\ r.req = {}
    BY <1>1, <1>10 DEF Shape, PtkStay, PtkStays, Turn, InState
  <2> QED BY <2>1
<1> QED BY <1>3, <1>4, <1>5, <1>6, <1>7, <1>8, <1>9, <1>10 DEF PtkStep

\* WPA_REAUTH alone has WPA_PTK_GROUP reset, and asks for a new ANonce with it.
LEMMA ReturnResets ==
    ASSUME AuthInv, Return, ~sm[sta].PtkGroupInit, sm'[sta].PtkGroupInit
    PROVE  "ReAuth" \in sm'[sta].req
<1> DEFINE r == sm[sta]
           q == sm'[sta]
           a == [r EXCEPT !.req = (@ \ {"Init"}) \cup {"Auth"}]
           b == [r EXCEPT !.ctr = 0, !.key_replay = {}, !.req = @ \cup {"ReAuth"}]
           c == [r EXCEPT !.started = TRUE, !.req = @ \cup {"Init"}]
           p == RemovePtk(r)
           d == [p EXCEPT !.GUpdateStationKeys = FALSE,
                          !.PtkGroupInit = @ \/ r.GUpdateStationKeys,
                          !.req = @ \cup {"ReAuth"}]
<1>1. /\ sta \in Stations /\ Shape /\ Stations = {sta} /\ at = "return"
      /\ ~r.PtkGroupInit /\ q.PtkGroupInit
  BY FourWayAssumption DEF AuthInv, Return
<1>2. Has(r, Members)
  BY <1>1 DEF Shape
<1>3. q \in {r, a, b, c, d, NewSm}
  <2>1. CASE todo = {} /\ then # Nothing
    <3>1. then[2] = sta
      BY <1>1, <2>1, Continues
    <3> QED BY <1>1, <2>1, <3>1 DEF Return, StepOn, StaAssociated, Reauth, Free, Shape
  <2> QED BY <2>1 DEF Return, Nothing
<1> HIDE DEF r, q
<1>4. Alike(a, r, {"req"}) /\ Alike(b, r, {"ctr", "key_replay", "req"}) /\ Alike(c, r, {"started", "req"})
  BY <1>2 DEF Alike, Members
<1>5. "ReAuth" \in d.req
  <2>1. Has(p, Members)
    BY <1>2 DEF RemovePtk, Members
  <2> HIDE DEF p
  <2> QED BY <2>1 DEF Members
<1> HIDE DEF a, b, c, d
<1>6. q \notin {r, a, b, c, NewSm}
  BY <1>1, <1>4 DEF Alike, Members, NewSm
<1>7. "ReAuth" \in q.req
  BY <1>3, <1>5, <1>6
<1> QED BY <1>7 DEF q

\* The other handlers do not.
LEMMA HandlersReset ==
    ASSUME AuthInv, \/ Timeout(sta) \/ RekeyPtk(sta) \/ Disassociate(sta) \/ Associate(sta)
                    \/ \E f \in up : ~IsRequest(f) /\ Receive(sta, f)
    PROVE  sm'[sta].PtkGroupInit = sm[sta].PtkGroupInit
<1> DEFINE r == sm[sta]
           q == sm'[sta]
<1>1. sta \in Stations /\ Shape
  BY FourWayAssumption DEF AuthInv
<1>2. Has(r, Members)
  BY <1>1 DEF Shape
<1>3. CASE Timeout(sta) \/ RekeyPtk(sta) \/ Disassociate(sta) \/ Associate(sta)
  <2> DEFINE t == [r EXCEPT !.timers = @ - 1, !.TimeoutEvt = TRUE]
             k == [r EXCEPT !.rekey_timer = FALSE, !.req = @ \cup {"PTK"}, !.PTK = NoKey]
             d == Deauth([r EXCEPT !.assoc = FALSE])
             a == RemovePtk([r EXCEPT !.assoc = TRUE])
  <2>1. q \in {t, k, d, a}
    BY <1>1, <1>3 DEF Timeout, RekeyPtk, Disassociate, Associate, Handle, StepOn, Shape
  <2> HIDE DEF r, q
  <2>2. t.PtkGroupInit = r.PtkGroupInit /\ k.PtkGroupInit = r.PtkGroupInit
    BY <1>2 DEF Members
  <2>3. d.PtkGroupInit = r.PtkGroupInit
    BY <1>2 DEF Deauth, RemovePtk, Members
  <2>4. a.PtkGroupInit = r.PtkGroupInit
    BY <1>2 DEF RemovePtk, Members
  <2> HIDE DEF t, k, d, a
  <2>5. q.PtkGroupInit = r.PtkGroupInit
    BY <2>1, <2>2, <2>3, <2>4
  <2> QED BY <2>5 DEF r, q
<1>4. ASSUME NEW f \in up, ~IsRequest(f), Receive(sta, f)
      PROVE  q.PtkGroupInit = r.PtkGroupInit
  <2> DEFINE u == Updating(r, f)
             v == Verified(u, f)
             d == StaDisconnect(u)
             c == Consumed(v, f)
             m == [r EXCEPT !.MICVerified = FALSE]
  <2>1. q \in {d, c, m}
    BY <1>1, <1>4 DEF Receive, ReceiveAnswer, ReceiveRequest, ReceiveUnverified, Handle, StepOn, Shape
  <2> HIDE DEF r, q
  <2>2. Alike(u, r, {"update_snonce", "alt_SNonce", "alt_replay_counter"})
    BY <1>2, UpdatingKeeps
  <2> HIDE DEF u
  <2>3. Alike(v, u, {"MICVerified", "timers", "PTK", "alt_SNonce"})
    BY <2>2, VerifiedKeeps DEF Alike
  <2> HIDE DEF v
  <2>4. Alike(c, v, {"prev_key_replay", "key_replay", "rx", "last", "SNonce"})
    <3>1. Has(v, Members)
      BY <2>3 DEF Alike
    <3> QED BY <3>1, ConsumedKeeps
  <2>5. Alike(d, u, {"assoc", "req", "PTK", "tk", "rekey_timer"})
    BY <2>2, DisconnectKeeps DEF Alike
  <2>6. m.PtkGroupInit = r.PtkGroupInit
    BY <1>2 DEF Members
  <2> HIDE DEF c, d, m
  <2>7. q.PtkGroupInit = r.PtkGroupInit
    BY <2>1, <2>2, <2>3, <2>4, <2>5, <2>6 DEF Alike, Members
  <2> QED BY <2>7 DEF r, q
<1> QED BY <1>3, <1>4

LEMMA ResetRulesKept ==
    ASSUME AuthInv, FramesSent, ApMoves, ResetRules(sm[sta])
    PROVE  ResetRules(sm[sta])'
<1> DEFINE r == sm[sta]
           q == sm'[sta]
<1>1. Stations = {sta} /\ sta \in Stations /\ Shape /\ ResetRules(r)
  BY FourWayAssumption DEF AuthInv
<1>2. Has(r, Members)
  BY <1>1 DEF Shape
<1>3. CASE PtkStep(sta)
  <2>1. at = "ptk" /\ at' = "group"
    BY <1>1, <1>3, PtkMoves
  <2>2. q.wpa_ptk_state = "PTKINITDONE" => ~q.PtkGroupInit
    BY <1>1, <1>3, <2>1, DoneUnasked DEF ResetRules
  <2> QED BY <2>1, <2>2 DEF ResetRules
<1>4. CASE GroupStep(sta)
  <2>1. at' = "gsm"
    BY <1>1, <1>4, GroupMoves
  <2> QED BY <2>1 DEF ResetRules
<1>5. ASSUME at \notin {"ptk", "group"} PROVE ~r.PtkGroupInit
  BY <1>1, <1>5 DEF AuthInv, StationRules, Active, Stepping, AtGsm, Resting
<1>6. ASSUME at \notin {"ptk", "group"}, at' # "group", q.PtkGroupInit => r.PtkGroupInit
      PROVE  ResetRules(r)'
  BY <1>5, <1>6 DEF ResetRules
<1>7. CASE SetKeysDone
  <2>1. at \in {"gsm", "rekey"} /\ at' # "group"
    BY <1>7 DEF SetKeysDone, GoOn
  <2>2. q = r \/ q = [r EXCEPT !.req = @ \cup {"Disconnect"}]
    BY <1>1, <1>7 DEF SetKeysDone
  <2> HIDE DEF r, q
  <2>3. q.PtkGroupInit = r.PtkGroupInit
    BY <1>2, <2>2 DEF Members
  <2> QED BY <1>6, <2>1, <2>3 DEF r, q
<1>8. CASE SetKeys \/ GroupSmStay \/ UpdateEnd \/ RekeyGtk
  <2>1. at \notin {"ptk", "group"} /\ at' # "group" /\ q = r
    BY <1>8 DEF SetKeys, GroupSmStay, UpdateEnd, RekeyGtk, GoOn
  <2> QED BY <1>6, <2>1
<1>9. CASE UpdateNext
  <2>1. at = "update" /\ at' # "group" /\ UpdateSta(sta)
    BY <1>1, <1>9 DEF UpdateNext, UpdateSta, AuthInv, Control
  <2> DEFINE m == [r EXCEPT !.GUpdateStationKeys = TRUE]
             n == [r EXCEPT !.GUpdateStationKeys =
                        IF r.wpa_ptk_state = "PTKINITDONE" THEN @ ELSE FALSE]
  <2>2. q = m \/ q = n
    BY <1>1, <2>1 DEF UpdateSta, Shape
  <2> HIDE DEF r, q
  <2>3. m.PtkGroupInit = r.PtkGroupInit /\ n.PtkGroupInit = r.PtkGroupInit
    BY <1>2 DEF Members
  <2>4. q.PtkGroupInit = r.PtkGroupInit
    BY <2>2, <2>3
  <2> QED BY <1>6, <2>1, <2>4 DEF r, q
<1>10. CASE Return
  <2>1. at = "return" /\ at' \in {"update", "ptk", "rest"}
    BY <1>10 DEF Return, StepOn, StaAssociated, Reauth
  <2>2. q.PtkGroupInit => "ReAuth" \in q.req
    BY <1>5, <1>10, <2>1, ReturnResets
  <2> QED BY <2>1, <2>2 DEF ResetRules
<1>11. CASE Timeout(sta) \/ RekeyPtk(sta) \/ Disassociate(sta) \/ Associate(sta)
  <2>1. at = "rest" /\ at' = "ptk"
    BY <1>11 DEF Timeout, RekeyPtk, Disassociate, Associate, Handle, StepOn
  <2> QED BY <1>6, <1>11, <2>1, HandlersReset
<1>12. ASSUME NEW f \in up, Receive(sta, f) PROVE ResetRules(r)'
  <2>1. ~IsRequest(f)
    BY DEF FramesSent, IsRequest
  <2>2. at = "rest" /\ at' \in {"ptk", "rest"}
    BY <1>12, <2>1 DEF Receive, ReceiveAnswer, ReceiveRequest, ReceiveUnverified, Handle, StepOn
  <2> QED BY <1>6, <1>12, <2>1, <2>2, HandlersReset
<1> QED BY <1>1, <1>3, <1>4, <1>7, <1>8, <1>9, <1>10, <1>11, <1>12
        DEF ApMoves, ApStep, Step, ApHandler, ApAssociate, ApReceive

\* What the supplicant has sent and accepted is older than the ANonce that is drawn.
LEMMA ApStaRules ==
    ASSUME ApBefore, air' = air \/ (air' = "response" /\ air = "request" /\ Leaving'),
           StaRules(sm[sta])
    PROVE  StaRules(sm[sta])'
<1> DEFINE r == sm[sta]
           q == sm'[sta]
<1>1. /\ up' = up /\ TriedKeys' = TriedKeys /\ down \subseteq down' /\ StaRules(r)
      /\ UNCHANGED <<wpa_state, rx_replay_counter, ptk, gtk>> /\ (S!Associated)' = S!Associated
  BY SendsKeeps DEF ApBefore, supplicant, S!Associated
<1>2. ASSUME Live(q)
      PROVE  /\ S!Associated => \A g \in up :
                    g.type \in {"4/4", "2/2"} /\ g.mic[1] = anonces' => g.ctr <= rx_replay_counter
             /\ air' = "response" /\ ~Leaving' => \A k \in TriedKeys : k[1] < anonces'
  <2>1. CASE Draws(r, q)
    <3>1. anonces \in Nat /\ anonces' = anonces + 1
      BY <2>1 DEF Draws, ApBefore, Budget
    <3>2. \A k \in TriedKeys : k[1] < anonces' /\ k[1] # anonces'
      BY <3>1, TriedNumbers DEF ApBefore
    <3>3. \A g \in up : g.mic \in TriedKeys
      BY DEF ApBefore, FramesSent
    <3> QED BY <3>2, <3>3
  <2>2. CASE Stands(r, q)
    <3>1. Live(r) /\ anonces' = anonces /\ (Leaving => Leaving')
      BY <1>2, <2>2 DEF Stands
    <3> QED BY <1>1, <3>1 DEF StaRules
  <2> QED BY <2>1, <2>2 DEF ApBefore, ApTurn
<1>3. wpa_state = "COMPLETED" => \E f \in down' :
          /\ f.type \in {"3/4", "1/2"}
          /\ f.mic = ptk /\ f.gtk = gtk /\ f.ctr = rx_replay_counter
  BY <1>1 DEF StaRules
<1>4. \A g \in up : g.ctr \in Nat
  BY <1>1 DEF StaRules
<1> QED BY <1>1, <1>2, <1>3, <1>4 DEF StaRules

LEMMA ApGroupPreserves ==
    ASSUME WorldInv, GroupInv, ApMoves
    PROVE  GroupInv'
<1>1. AuthInv /\ FramesSent /\ Counting /\ ResetRules(sm[sta]) /\ StaRules(sm[sta])
  BY DEF WorldInv, GroupInv
<1>2. ApBefore /\ (air' = air \/ (air' = "response" /\ air = "request" /\ Leaving'))
  BY ApTurns DEF WorldInv, ApBefore
<1>3. Counting' /\ ResetRules(sm[sta])' /\ StaRules(sm[sta])'
  BY <1>1, <1>2, ApCounts, ResetRulesKept, ApStaRules
<1>4. ASSUME group'.state # "FATAL_FAILURE"
      PROVE  /\ GroupRules(sm[sta])'
             /\ Live(sm'[sta]) => /\ CounterRules(sm[sta])'
                                  /\ ~crossed' => AnswerRules(sm[sta])'
  <2>1. Works
    BY <1>1, <1>4, ApWorks
  <2>2. GroupRules(sm[sta])
    BY <2>1 DEF GroupInv
  <2> QED BY <1>1, <1>2, <1>4, <2>1, <2>2, GroupRulesKept, ApRulesKept
<1>5. (Live(sm[sta]))' <=> Live(sm'[sta])
  OBVIOUS
<1>6. Works' <=> group'.state # "FATAL_FAILURE"
  BY DEF Works
<1> QED BY <1>3, <1>4, <1>5, <1>6 DEF GroupInv

-----------------------------------------------------------------------------
(* The supplicant's steps                                                   *)

\* It leaves, or is not told yet that it has joined.
LEMMA StaGone ==
    ASSUME StaBefore, StaRules(sm[sta]), wpa_state' \in {"ASSOCIATING", "DISCONNECTED"},
           \A g \in up' : g.ctr \in Nat,
           air' = "response" => air = "response" /\ TriedKeys' = TriedKeys
    PROVE  StaRules(sm[sta])' /\ Caught'
<1>1. ~(S!Associated)' /\ wpa_state' # "COMPLETED"
  BY DEF S!Associated
<1>2. sm' = sm /\ anonces' = anonces /\ ~Leaving /\ StaRules(sm[sta])
  BY StaRests
<1> QED BY <1>1, <1>2 DEF StaRules, Caught

\* It joins: what it has sent before is older than the ANonce.
LEMMA JoinRules ==
    ASSUME StaBefore, StaRules(sm[sta]), StaJoins
    PROVE  StaRules(sm[sta])' /\ (Live(sm[sta]) => Caught')
<1>1. /\ wpa_state' = "ASSOCIATED" /\ air = "response" /\ air' = "none" /\ up' = up
  BY DEF StaJoins, S!EventAssoc
<1>2. /\ sm' = sm /\ anonces' = anonces /\ down' = down /\ ~Leaving
      /\ FramesSent /\ anonces \in Nat
  BY StaRests DEF StaBefore, Budget
<1>3. ASSUME Live(sm[sta]), NEW k \in TriedKeys PROVE k[1] # anonces
  <2>1. k[1] < anonces
    BY <1>1, <1>2, <1>3 DEF StaRules
  <2>2. k[1] \in Nat
    BY TriedNumbers DEF StaBefore
  <2> QED BY <1>2, <2>1, <2>2
<1>4. Live(sm[sta]) => \A g \in up : g.mic[1] # anonces
  BY <1>2, <1>3 DEF FramesSent
<1>5. StaRules(sm[sta])'
  BY <1>1, <1>2, <1>4 DEF StaRules
<1>6. Live(sm[sta]) => \A f \in down : f.type \in {"3/4", "1/2"} => f.mic[1] # anonces
  BY <1>2, <1>3, ConfirmedTried DEF FramesSent
<1>7. Live(sm[sta]) => Outdated' = {}
  BY <1>2, <1>6 DEF Outdated, Carriers
<1> QED BY <1>5, <1>7 DEF Caught

\* 1/4: nothing is accepted with a MIC.
LEMMA Rules1of4 ==
    ASSUME StaBefore, StaRules(sm[sta]), air' = air, NEW f \in down, Sta1of4(f)
    PROVE  StaRules(sm[sta])' /\ (Caught => Caught')
<1>1. /\ S!Associated /\ f.ctr \in Nat /\ air = "none" /\ air' # "response"
  BY DEF Sta1of4, S!Receives, StaBefore, FramesSent, StaKeys, S!Associated
<1>2. /\ sm' = sm /\ anonces' = anonces /\ down' = down /\ group' = group /\ StaRules(sm[sta])
  BY StaRests DEF StaBefore, StaMoves, vars
<1>3. CASE S!Process1of4Fails /\ up' = up
  <2>1. wpa_state' = "DISCONNECTED"
    BY <1>3 DEF S!Process1of4Fails, S!Deauthenticated, S!Disassociated
  <2>2. \A g \in up' : g.ctr \in Nat
    BY <1>3 DEF StaRules
  <2> QED BY <1>1, <2>1, <2>2, StaGone
<1>4. CASE S!Process1of4(f.nonce) /\ up' = up \cup {Answer("2/4", f, snonce', tptk')}
  <2> DEFINE g == Answer("2/4", f, snonce', tptk')
  <2>1. g.type = "2/4" /\ g.ctr = f.ctr /\ up' = up \cup {g}
    BY <1>4 DEF Answer
  <2> HIDE DEF g
  <2>2. wpa_state' = "4WAY_HANDSHAKE" /\ rx_replay_counter' = rx_replay_counter
    BY <1>4 DEF S!Process1of4, S!keys
  <2>3. \A h \in up' : h.ctr \in Nat
    BY <1>1, <1>2, <2>1 DEF StaRules
  <2>4. Live(sm[sta]) => \A h \in up' :
            h.type \in {"4/4", "2/2"} /\ h.mic[1] = anonces => h.ctr <= rx_replay_counter
    BY <1>1, <1>2, <2>1 DEF StaRules
  <2>5. StaRules(sm[sta])'
    BY <1>1, <1>2, <2>2, <2>3, <2>4 DEF StaRules
  <2>6. Outdated' = Outdated
    BY <1>2 DEF Outdated, Carriers
  <2> QED BY <1>1, <2>2, <2>5, <2>6 DEF Caught
<1> QED BY <1>3, <1>4 DEF Sta1of4

\* 3/4 or 1/2: its counter is the latest, and so is that of the answer.
LEMMA Rules3of4Or1of2 ==
    ASSUME StaBefore, StaRules(sm[sta]), air' = air, NEW f \in down, Sta3of4(f) \/ Sta1of2(f)
    PROVE  StaRules(sm[sta])' /\ (Caught => Caught')
<1> DEFINE v == S!Verified(f.mic)
           type == IF f.type = "3/4" THEN "4/4" ELSE "2/2"
           g == Answer(type, f, 0, f.mic)
<1>1. /\ S!Associated /\ f.ctr \in Nat /\ air = "none" /\ air' # "response"
      /\ rx_replay_counter' = f.ctr /\ f.type \in {"3/4", "1/2"} /\ rx_replay_counter \in Nat
      /\ S!Receives(f.ctr) /\ S!MicOk(f.mic)
  BY DEF Sta3of4, Sta1of2, S!Receives, StaBefore, FramesSent, StaKeys, S!Associated
<1>2. /\ sm' = sm /\ anonces' = anonces /\ down' = down /\ group' = group /\ StaRules(sm[sta])
  BY StaRests DEF StaBefore, StaMoves, vars
<1>3. rx_replay_counter <= rx_replay_counter'
  BY <1>1 DEF S!Receives, S!NotReplayed
<1>4. v.ptk = f.mic
  BY <1>1 DEF S!Verified, S!MicOk
<1>5. /\ up' \in {up, up \cup {g}}
      /\ \/ S!Process3of4(v, f.nonce, f.gtk, TRUE, TRUE)
         \/ S!Process3of4Fails(v, f.nonce, TRUE)
         \/ S!Process1of2(v, f.gtk, TRUE)
         \/ S!Process1of2Fails(v)
  BY DEF Sta3of4, Sta1of2
<1> HIDE DEF v
<1>6. \/ wpa_state' = "DISCONNECTED"
      \/ wpa_state' = "COMPLETED" /\ ptk' = f.mic /\ gtk' = f.gtk
  BY <1>4, <1>5 DEF S!Process3of4, S!Process3of4Fails, S!Process1of2, S!Process1of2Fails,
                    S!Deauthenticated, S!Disassociated, S!InstallGtk
<1>7. g.ctr = f.ctr
  BY DEF Answer
<1> HIDE DEF g
<1>8. \A h \in up' : h.ctr \in Nat
  BY <1>1, <1>2, <1>5, <1>7 DEF StaRules
<1>9. CASE wpa_state' = "DISCONNECTED"
  BY <1>1, <1>8, <1>9, StaGone
<1>10. CASE wpa_state' = "COMPLETED" /\ ptk' = f.mic /\ gtk' = f.gtk
  <2>1. ASSUME Live(sm[sta]), NEW h \in up', h.type \in {"4/4", "2/2"}, h.mic[1] = anonces
        PROVE  h.ctr <= rx_replay_counter'
    <3>1. CASE h \in up
      <4>1. h.ctr \in Nat /\ h.ctr <= rx_replay_counter
        BY <1>1, <1>2, <2>1, <3>1 DEF StaRules
      <4> QED BY <1>1, <1>3, <4>1
    <3>2. CASE h = g
      BY <1>1, <1>7, <3>2
    <3> QED BY <1>5, <3>1, <3>2
  <2>2. StaRules(sm[sta])'
    BY <1>1, <1>2, <1>8, <1>10, <2>1 DEF StaRules
  <2>3. Outdated' = Outdated
    BY <1>2 DEF Outdated, Carriers
  <2>4. ASSUME Caught, NEW h \in Outdated PROVE h.ctr < rx_replay_counter'
    <3>1. h.ctr < rx_replay_counter
      BY <1>1, <2>4 DEF Caught
    <3>2. h.ctr \in Nat
      BY DEF Outdated, Carriers, StaBefore, FramesSent
    <3> QED BY <1>1, <1>3, <3>1, <3>2
  <2> QED BY <2>2, <2>3, <2>4 DEF Caught
<1> QED BY <1>6, <1>9, <1>10

LEMMA StaRulesKept ==
    ASSUME StaBefore, StaRules(sm[sta]), StaStarts \/ StaJoins \/ StaLeaves \/ StaReceive
    PROVE  StaRules(sm[sta])' /\ (Live(sm[sta]) /\ Caught => Caught')
<1>1. CASE StaStarts
  <2>1. /\ \/ wpa_state' = "ASSOCIATING" /\ air' = "request"
           \/ wpa_state' = "DISCONNECTED" /\ air' = air
        /\ up' = up
    BY <1>1 DEF StaStarts, S!StartAssoc, S!StartAssocFails
  <2>2. (\A g \in up' : g.ctr \in Nat) /\ TriedKeys' = TriedKeys
    BY <2>1 DEF StaRules, TriedKeys
  <2> QED BY <2>1, <2>2, StaGone
<1>2. CASE StaLeaves
  <2>1. wpa_state' = "DISCONNECTED" /\ air' = air /\ up' = up
    BY <1>2 DEF StaLeaves, S!EventDisassoc, S!Deauthenticate, S!Deauthenticated, S!Disassociated
  <2>2. (\A g \in up' : g.ctr \in Nat) /\ TriedKeys' = TriedKeys
    BY <2>1 DEF StaRules, TriedKeys
  <2> QED BY <2>1, <2>2, StaGone
<1>3. CASE StaReceive
  <2>1. PICK f \in down : Sta1of4(f) \/ Sta3of4(f) \/ Sta1of2(f)
    BY <1>3 DEF StaReceive
  <2>2. air' = air
    BY <1>3 DEF StaReceive
  <2> QED BY <2>1, <2>2, Rules1of4, Rules3of4Or1of2
<1> QED BY <1>1, <1>2, <1>3, JoinRules

\* What the authenticator has is left as it is.
LEMMA GroupSteady ==
    ASSUME GroupInv, UNCHANGED <<vars, down, ghosts>>, StaRules(sm[sta])',
           Live(sm[sta]) /\ Caught => Caught'
    PROVE  GroupInv'
<1>1. /\ sm' = sm /\ group' = group /\ anonces' = anonces /\ todo' = todo /\ at' = at
      /\ down' = down /\ crossed' = crossed
  BY DEF vars, ghosts
<1>2. Carriers' = Carriers /\ Outdated' = Outdated
  BY <1>1 DEF Carriers, Outdated
<1>3. Counting' <=> Counting
  BY <1>1 DEF Counting, Waiting
<1>4. ResetRules(sm[sta])' <=> ResetRules(sm[sta])
  BY <1>1 DEF ResetRules
<1>5. GroupRules(sm[sta])' <=> GroupRules(sm[sta])
  BY <1>1 DEF GroupRules
<1>6. CounterRules(sm[sta])' <=> CounterRules(sm[sta])
  BY <1>1, <1>2 DEF CounterRules
<1>7. Live(sm[sta]) /\ AnswerRules(sm[sta]) => AnswerRules(sm[sta])'
  BY <1>1, <1>2 DEF AnswerRules
<1>8. Works' <=> Works
  BY <1>1 DEF Works
<1>9. Live(sm[sta])' <=> Live(sm[sta])
  BY <1>1
<1> QED BY <1>1, <1>3, <1>4, <1>5, <1>6, <1>7, <1>8, <1>9 DEF GroupInv

LEMMA StaGroupPreserves ==
    ASSUME WorldInv, GroupInv, StaStarts \/ StaJoins \/ StaLeaves \/ StaReceive
    PROVE  GroupInv'
<1>1. StaMoves
  BY DEF StaStarts, StaJoins, StaLeaves, StaReceive
<1>2. StaBefore /\ StaRules(sm[sta])
  BY <1>1 DEF WorldInv, StaBefore, GroupInv
<1>3. StaRules(sm[sta])' /\ (Live(sm[sta]) /\ Caught => Caught')
  BY <1>2, StaRulesKept
<1> QED BY <1>1, <1>3, GroupSteady DEF StaMoves

LEMMA StutterGroupPreserves ==
    ASSUME GroupInv, UNCHANGED world
    PROVE  GroupInv'
<1>1. UNCHANGED <<vars, down, ghosts>> /\ UNCHANGED supplicant /\ up' = up /\ air' = air
  BY DEF world
<1>2. /\ sm' = sm /\ anonces' = anonces /\ then' = then /\ group' = group
      /\ (S!Associated)' = S!Associated
  BY <1>1 DEF vars, S!Associated, supplicant
<1>3. Leaving' = Leaving /\ TriedKeys' = TriedKeys
  BY <1>1, <1>2 DEF Leaving, TriedKeys
<1>4. StaRules(sm[sta])'
  <2>1. StaRules(sm[sta])
    BY DEF GroupInv
  <2> QED BY <1>1, <1>2, <1>3, <2>1 DEF StaRules, supplicant
<1>5. Caught' <=> Caught
  BY <1>1, <1>2 DEF Caught, Outdated, Carriers, supplicant
<1> QED BY <1>1, <1>4, <1>5, GroupSteady

LEMMA GroupInitHolds ==
    ASSUME WorldInit
    PROVE  GroupInv
<1>1. /\ sm[sta] = NewSm /\ todo = {} /\ at = "rest" /\ group.GTK = 1 /\ group.tx = 1
      /\ group.state = "SETKEYSDONE" /\ ~group.first_sta_seen
      /\ group.GKeyDoneStations = 0 /\ sm = [s \in Stations |-> NewSm]
  BY FourWayAssumption DEF WorldInit, Init
<1>2. down = {} /\ up = {} /\ wpa_state = "DISCONNECTED"
  BY DEF WorldInit, S!Init
<1>3. ~Live(NewSm) /\ ~NewSm.PtkGroupInit /\ ~NewSm.GUpdateStationKeys /\ ~NewSm.is_wnmsleep
  BY DEF Live, Drawn, Handshaking, NewSm
<1>4. Counting
  <2>1. Waiting = {}
    BY <1>1, <1>3 DEF Waiting
  <2> QED BY <1>1, <1>3, <2>1, FS_EmptySet DEF Counting
<1>5. StaRules(NewSm) /\ ResetRules(NewSm) /\ GroupRules(NewSm)
  BY <1>1, <1>2, <1>3 DEF StaRules, ResetRules, GroupRules
<1> QED BY <1>1, <1>3, <1>4, <1>5 DEF GroupInv

-----------------------------------------------------------------------------
\* What holds, beside WorldInv, in every state of the frames that carry a group key and
\* of their answers: which counters wpa_receive still accepts an answer with, and which
\* frames wpa_sm_rx_eapol is past.
THEOREM GroupInvariant == WorldSpec => []GroupInv
<1>1. WorldInit => GroupInv
  BY GroupInitHolds
<1>2. WorldInv /\ GroupInv /\ [WorldNext]_world => GroupInv'
  BY ApGroupPreserves, StaGroupPreserves, StutterGroupPreserves DEF WorldNext, ApMoves, WorldIdle
<1> QED BY <1>1, <1>2, WorldInvariant, PTL DEF WorldSpec

\* Once wpa_group_setkeysdone has given a new group key to the driver, a supplicant that
\* has completed its handshake has that key, whatever became of the frames that carried
\* it and its predecessors; unless the rekeying began while the station had a 3/4 or 1/2
\* to answer, whose late answer the authenticator cannot tell from one to the new frame.
THEOREM GroupKeyIsShared == WorldSpec => []GroupKeyShared
<1>1. WorldInv /\ GroupInv => GroupKeyShared
  <2> SUFFICES ASSUME WorldInv, GroupInv, ApDone, wpa_state = "COMPLETED",
                      group.state = "SETKEYSDONE", ~crossed
               PROVE  gtk = group.tx
    BY DEF GroupKeyShared
  <2> DEFINE r == sm[sta]
             tk == sm[sta].tk
  <2>1. at = "rest" /\ r.wpa_ptk_state = "PTKINITDONE" /\ AuthInv /\ sta \in Stations /\ Works
    BY FourWayAssumption DEF ApDone, WorldInv, Works
  <2>2. then = Nothing /\ r.req = {}
    BY <2>1, AtRest
  <2>3. Live(r) /\ ~Leaving /\ InState(r, "PTKINITDONE")
    BY <2>1, <2>2 DEF Live, Drawn, Leaving, Nothing, InState
  <2>4. GroupRules(r) /\ AnswerRules(r) /\ StaRules(r)
    BY <2>1, <2>3 DEF GroupInv
  <2>5. Caught
    <3>1. todo = {} /\ ~r.GUpdateStationKeys
      BY <2>1, <2>4 DEF GroupRules
    <3> QED BY <2>3, <2>4, <3>1 DEF AnswerRules
  <2>6. PICK f \in down : /\ f.type \in {"3/4", "1/2"}
                          /\ f.mic = ptk /\ f.gtk = gtk /\ f.ctr = rx_replay_counter
    BY <2>4 DEF StaRules
  <2>7. tk \in ConfirmedKeys /\ tk[1] = anonces
    BY <2>1, <2>3 DEF WorldInv, ApInstalled
  <2>8. /\ ptk \in ConfirmedKeys
        /\ tk[2] < ptk[2] \/ tk = ptk
    BY <2>7 DEF WorldInv, StaKeys
  <2>9. PICK g \in down : g.type = "3/4" /\ g.mic = ptk
    BY <2>8 DEF WorldInv, FramesSent
  <2>10. ptk[1] = anonces
    <3> SUFFICES ASSUME ptk[1] # anonces PROVE FALSE
      OBVIOUS
    <3>1. /\ ptk[1] \in Nat /\ ptk[1] <= anonces /\ anonces \in Nat
          /\ ptk[2] \in Nat /\ tk[2] \in Nat /\ tk \in TriedKeys
      BY <2>7, <2>8, ConfirmedTried, TriedNumbers DEF WorldInv
    <3>2. ptk[1] < tk[1]
      BY <2>7, <3>1
    <3>3. ptk[2] <= tk[2]
      BY <2>9, <3>1, <3>2 DEF WorldInv, InOrderOfNonces
    <3> QED BY <2>7, <2>8, <3>1, <3>3
  <2>11. f \in Carriers
    BY <2>6, <2>10 DEF Carriers
  <2>12. f \notin Outdated
    <3>1. rx_replay_counter \in Nat /\ S!Associated
      BY DEF WorldInv, StaKeys, S!Associated
    <3> QED BY <2>5, <2>6, <3>1 DEF Caught
  <2>13. gtk = group.GTK
    BY <2>6, <2>11, <2>12 DEF Outdated
  <2>14. group.tx = group.GTK
    BY <2>4, <2>9 DEF GroupRules
  <2> QED BY <2>13, <2>14
<1> QED BY <1>1, WorldInvariant, GroupInvariant, PTL
=============================================================================
