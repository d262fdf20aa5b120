------------------------------- MODULE FourWay -------------------------------
(***************************************************************************)
(* The authenticator (WpaAuth) and one supplicant (RsnSupplicant) over a   *)
(* network that loses, repeats, delays and reorders their frames, across   *)
(* retransmissions, rekeyings of the PTK and of the group key, and         *)
(* reassociations.  The replay counters start again at every association,  *)
(* so that frames of an earlier one can meet a later one.                  *)
(*                                                                         *)
(* The network is the set of all frames ever sent: a frame in it may be    *)
(* received at any time, any number of times, or never.  Both sides are    *)
(* the modules' own actions.  A handler of the authenticator runs to its   *)
(* end before the supplicant moves: it shares nothing with it but the set, *)
(* which it only adds to.  What has no prefix below is WpaAuth's.          *)
(***************************************************************************)
EXTENDS WpaAuth, Sequences

CONSTANTS
    sta,                        \* the only station
    MaxGtk, MaxCtr, MaxSNonce   \* bounds: group keys, counters, nonces of the supplicant

ASSUME FourWayAssumption ==
    /\ Stations = {sta}
    /\ SNonces = 1..MaxSNonce
    /\ {MaxANonce, MaxGtk, MaxCtr, MaxSNonce} \subseteq Nat
    /\ ~Malformed                \* the supplicant sets Key MIC and never Key Ack
    /\ NoKey \notin Nat
    /\ NoKey \notin (1..MaxANonce) \X Nat
    /\ \A c \in Confs : c.MaxGtk <= MaxGtk /\ c.MaxCtr <= MaxCtr

VARIABLES
    wpa_state, snonce, renew_snonce, anonce, tptk, ptk, installed, gtk,
    rx_replay_counter, msg_3_of_4_ok, auth_timeout, portValid, ptks, gtks, base,
    down, up,      \* the frames sent by the authenticator and by the supplicant
    air,           \* the association request or response under way
    taken,         \* history: the PTKs that the authenticator has installed
    crossed        \* history: the last rekeying of the group began while the station
                   \* had a 3/4 or 1/2 to answer

S == INSTANCE RsnSupplicant
        WITH ANonces <- 1..MaxANonce, GTKs <- 1..MaxGtk, MaxCounter <- MaxCtr

supplicant == <<wpa_state, snonce, renew_snonce, anonce, tptk, ptk, installed, gtk,
    rx_replay_counter, msg_3_of_4_ok, auth_timeout, portValid, ptks, gtks, base>>
ghosts == <<taken, crossed>>
world == <<vars, supplicant, down, up, air, ghosts>>

WorldInit ==
    /\ Init
    /\ S!Init
    /\ down = {}
    /\ up = {}
    /\ air = "none"
    /\ taken = {}
    /\ crossed = FALSE

-----------------------------------------------------------------------------
(* The authenticator                                                        *)

Unanswered(r) ==
    \/ r.wpa_ptk_state \in {"PTKCALCNEGOTIATING", "PTKCALCNEGOTIATING2", "PTKINITNEGOTIATING"}
    \/ r.wpa_ptk_group_state = "REKEYNEGOTIATING"

\* What a step of the authenticator does outside of it: its frame is sent.
Sends ==
    /\ down' = down \cup ({out'} \ {NoKey})
    /\ taken' = taken \cup ({sm'[sta].tk} \ {NoKey})
    /\ crossed' = IF at # "update" /\ at' = "update" /\ group'.GTK # group.GTK
                  THEN Unanswered(sm[sta]) ELSE crossed
    /\ UNCHANGED <<supplicant, up>>

ApStep == Step /\ Sends /\ UNCHANGED air

ApHandler ==
    /\ Timeout(sta) \/ RekeyPtk(sta) \/ RekeyGtk \/ Disassociate(sta)
    /\ Sends
    /\ UNCHANGED air

\* The association request arrives.
ApAssociate ==
    /\ air = "request"
    /\ air' = "response"
    /\ Associate(sta)
    /\ Sends

ApReceive ==
    /\ \E f \in up : Receive(sta, f)
    /\ Sends
    /\ UNCHANGED air

-----------------------------------------------------------------------------
(* The supplicant                                                           *)

StaMoves == at = "rest" /\ UNCHANGED <<vars, down, ghosts>>

StaStarts ==
    /\ StaMoves
    /\ \/ S!StartAssoc /\ air' = "request"
       \/ S!StartAssocFails /\ UNCHANGED air
    /\ UNCHANGED up

StaJoins ==
    /\ StaMoves
    /\ wpa_state = "ASSOCIATING"
    /\ air = "response"
    /\ air' = "none"
    /\ S!EventAssoc
    /\ UNCHANGED up

\* It is disconnected by the driver, a timeout or the user; the authenticator may
\* learn of it (Disassociate) or not.
StaLeaves ==
    /\ StaMoves
    /\ S!EventDisassoc \/ S!Deauthenticate
    /\ UNCHANGED <<up, air>>

Answer(type, f, nonce, mic) == [type |-> type, ctr |-> f.ctr, nonce |-> nonce, mic |-> mic]

\* 1/4 arrives: 2/4 is sent.
Sta1of4(f) ==
    /\ f.type = "1/4"
    /\ S!Receives(f.ctr)
    /\ \/ /\ S!Process1of4(f.nonce)
          /\ up' = up \cup {Answer("2/4", f, snonce', tptk')}
       \/ S!Process1of4Fails /\ UNCHANGED up

\* 3/4 arrives: 4/4 is sent, before the keys are installed, also if that fails.
Sta3of4(f) ==
    LET v == S!Verified(f.mic)
        sent == up \cup {Answer("4/4", f, 0, f.mic)}
    IN /\ f.type = "3/4"
       /\ S!Receives(f.ctr)
       /\ S!MicOk(f.mic)
       /\ rx_replay_counter' = f.ctr
       /\ \/ S!Process3of4(v, f.nonce, f.gtk, TRUE, TRUE) /\ up' = sent
          \/ /\ S!Process3of4Fails(v, f.nonce, TRUE)
             /\ \/ f.nonce = anonce /\ renew_snonce' /\ up' = sent
                \/ UNCHANGED <<ptks, up>>

\* 1/2 arrives: the group key is installed, 2/2 is sent.
Sta1of2(f) ==
    LET v == S!Verified(f.mic)
    IN /\ f.type = "1/2"
       /\ S!Receives(f.ctr)
       /\ S!MicOk(f.mic)
       /\ rx_replay_counter' = f.ctr
       /\ \/ S!Process1of2(v, f.gtk, TRUE) /\ up' = up \cup {Answer("2/2", f, 0, f.mic)}
          \/ S!Process1of2Fails(v) /\ UNCHANGED up

StaReceive ==
    /\ StaMoves
    /\ \E f \in down : Sta1of4(f) \/ Sta3of4(f) \/ Sta1of2(f)
    /\ UNCHANGED air

-----------------------------------------------------------------------------
\* Bounds reached, or nothing happens any more.
WorldIdle == at = "rest" /\ UNCHANGED world

WorldNext ==
    \/ ApStep \/ ApHandler \/ ApAssociate \/ ApReceive
    \/ StaStarts \/ StaJoins \/ StaLeaves \/ StaReceive \/ WorldIdle

WorldSpec == WorldInit /\ [][WorldNext]_world

-----------------------------------------------------------------------------
(* Properties                                                               *)

\* The authenticator believes that the handshake is complete.
ApDone == at = "rest" /\ sm[sta].wpa_ptk_state = "PTKINITDONE"

\* The authenticator went back from 3/4 to 1/4 in this handshake: a 2/4 with another
\* SNonce came after 3/4 was sent and did not verify.
Restarted ==
    \E f, g \in down :
        /\ f.type = "1/4" /\ g.type = "3/4"
        /\ {f.nonce, g.nonce} = {sm[sta].ANonce}
        /\ f.ctr > g.ctr

\* If the authenticator has completed a handshake and the supplicant has a PTK, it
\* is the one that the authenticator uses, and both have given it to their drivers.
\* Not so, perhaps, in a handshake that was restarted: there the supplicant may be
\* offered, and take, one more PTK than the one the authenticator ends with.
Agreement ==
    ApDone /\ ~Restarted /\ ptk # NoKey => sm[sta].tk = ptk /\ installed

\* The supplicant completes, and uses a group key, only with its PTK installed:
\* msg_3_of_4_ok, which wpa_sm_notify_assoc leaves from the last association, does
\* not let a group message complete a handshake that is not.
CompletedHasPtk ==
    wpa_state = "COMPLETED" \/ gtk # NoKey => installed /\ msg_3_of_4_ok

\* Once a rekeying of the group has ended, a station whose keys agree has the group
\* key in use, unless the rekeying began while it had a 3/4 or 1/2 to answer.
GroupKeyShared ==
    /\ ApDone
    /\ wpa_state = "COMPLETED"
    /\ group.state = "SETKEYSDONE"
    /\ ~crossed
    => gtk = group.tx

ConfirmedKeys == {f.mic : f \in {f \in up : f.type = "4/4"}}

KA == INSTANCE KeyAgreement
        WITH PTKs <- PTKs, confirmed <- ConfirmedKeys,
             staKeys <- {ptks[i] : i \in DOMAIN ptks}, apKeys <- taken

\* The handshake, with everything that can go wrong in it, agrees on keys.
ImplementsAgreement == KA!Spec
==============================================================================
