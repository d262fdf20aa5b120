---------------------------- MODULE RsnSupplicant ----------------------------
(***************************************************************************)
(* The supplicant's side of the 4-way and the group key handshake: the     *)
(* EAPOL-Key receive path of src/rsn_supp/wpa.c with the connection states *)
(* and the authentication timeout that wpa_supplicant keeps around it, for *)
(* a WPA2-PSK (RSN) network as the embox port builds it.                   *)
(*                                                                         *)
(* The environment is arbitrary: at any time it may deliver any frame,     *)
(* protected by a MIC under any PTK made from nonces seen so far, so lost, *)
(* repeated, delayed and reordered frames are all included, and so is a    *)
(* frame kept in pending_eapol_rx until the association.  A PTK stands for *)
(* the pair of its nonces: the PMK and the addresses are fixed.  Nonces    *)
(* drawn from random_get_bytes are taken never to repeat; the supplicant's *)
(* are numbered in the order they are drawn.  Replies and key requests go  *)
(* to the environment and leave nothing behind here.  A handler runs to    *)
(* its end, so that the state GROUP_HANDSHAKE it passes is never seen.     *)
(***************************************************************************)
EXTENDS Naturals, Sequences

CONSTANTS
    ANonces,      \* nonces of the authenticator
    GTKs,         \* group keys
    NoKey,        \* a key or a nonce that is not set
    MaxSNonce,    \* bound: the SNonces drawn
    MaxCounter    \* bound: the replay counters used

ASSUME RsnAssumption ==
    /\ MaxSNonce \in Nat
    /\ MaxCounter \in Nat
    /\ NoKey \notin ANonces
    /\ NoKey \notin GTKs
    /\ NoKey \notin ANonces \X Nat

Counters == 1..MaxCounter
PTKs == ANonces \X (1..MaxSNonce)

VARIABLES
    wpa_state,           \* the connection state
    snonce, renew_snonce, anonce,
    tptk, ptk,           \* NoKey when tptk_set, ptk_set are 0
    installed,           \* ptk.installed
    gtk,
    rx_replay_counter,   \* 0 when rx_replay_counter_set is 0
    msg_3_of_4_ok,
    auth_timeout,        \* wpa_supplicant_timeout is registered
    portValid,
    ptks, gtks,          \* history: the keys given to the driver, in order; the
                         \* group keys only since the association
    base                 \* history: the last SNonce drawn before the association

handshake == <<snonce, renew_snonce, anonce, tptk>>
keys == <<ptk, installed, gtk, rx_replay_counter, msg_3_of_4_ok, portValid>>
history == <<ptks, gtks, base>>
vars == <<wpa_state, handshake, keys, auth_timeout, history>>

Init ==
    /\ wpa_state = "DISCONNECTED"
    /\ snonce = 0
    /\ renew_snonce = TRUE
    /\ anonce = NoKey
    /\ tptk = NoKey
    /\ ptk = NoKey
    /\ installed = FALSE
    /\ gtk = NoKey
    /\ rx_replay_counter = 0
    /\ msg_3_of_4_ok = FALSE
    /\ auth_timeout = FALSE
    /\ portValid = FALSE
    /\ ptks = <<>>
    /\ gtks = <<>>
    /\ base = 0

-----------------------------------------------------------------------------
(* Association                                                              *)

\* wpa_supplicant_associate: the driver is asked to join a BSS, perhaps while
\* another one is joined.  A driver that does not vouch for its error codes may
\* refuse: the timeout is then a shorter one.
StartAssoc ==
    /\ wpa_state' = "ASSOCIATING"
    /\ auth_timeout' = TRUE
    /\ UNCHANGED <<handshake, keys, history>>

\* A driver that vouches for them (WPA_DRIVER_FLAGS_VALID_ERROR_CODES) refuses:
\* wpas_connection_failed cancels the timeout, the keys of the association there
\* was stay.
StartAssocFails ==
    /\ wpa_state' = "DISCONNECTED"
    /\ auth_timeout' = FALSE
    /\ UNCHANGED <<handshake, keys, history>>

\* Mutant: the SNonce of the last association stays in use.
MutRenewOnAssoc == renew_snonce

RenewOnAssoc == TRUE

\* Mutant: no timeout is requested for the first EAPOL frame.
MutTimeoutOnAssoc == FALSE

TimeoutOnAssoc == TRUE

\* EVENT_ASSOC: wpa_sm_notify_assoc clears the keys, the timeout for the first
\* EAPOL frame is registered (the first frame to come registers it again).
EventAssoc ==
    /\ wpa_state' = "ASSOCIATED"
    /\ rx_replay_counter' = 0
    /\ renew_snonce' = RenewOnAssoc
    /\ ptk' = NoKey
    /\ installed' = FALSE
    /\ tptk' = NoKey
    /\ gtk' = NoKey
    /\ portValid' = FALSE
    /\ auth_timeout' = TimeoutOnAssoc
    /\ base' = snonce
    /\ gtks' = <<>>
    /\ UNCHANGED <<snonce, anonce, msg_3_of_4_ok, ptks>>

\* wpa_sm_notify_disassoc and wpa_supplicant_mark_disassoc.
Disassociated ==
    /\ wpa_state' = "DISCONNECTED"
    /\ ptk' = NoKey
    /\ installed' = FALSE
    /\ tptk' = NoKey
    /\ gtk' = NoKey
    /\ msg_3_of_4_ok' = FALSE
    /\ portValid' = FALSE

\* wpa_supplicant_deauthenticate, which also cancels the timeout.
Deauthenticated == Disassociated /\ auth_timeout' = FALSE

\* EVENT_DISASSOC and EVENT_DEAUTH from the driver: a connection that was under
\* way has failed (wpas_connection_failed), and its timeout is cancelled.
EventDisassoc ==
    /\ Disassociated
    /\ auth_timeout' = (auth_timeout /\ wpa_state = "DISCONNECTED")
    /\ UNCHANGED <<snonce, renew_snonce, anonce, rx_replay_counter, history>>

\* wpa_supplicant_timeout, or a disconnection that the user asked for.
Deauthenticate ==
    /\ Deauthenticated
    /\ UNCHANGED <<snonce, renew_snonce, anonce, rx_replay_counter, history>>

-----------------------------------------------------------------------------
(* wpa_sm_rx_eapol                                                          *)

\* Frames are handled while associated; wpa_supplicant_rx_eapol puts the others
\* aside.
Associated == wpa_state \in {"ASSOCIATED", "4WAY_HANDSHAKE", "COMPLETED"}

\* A counter must be above the last one accepted in a frame with a MIC.
NotReplayed(ctr) == rx_replay_counter = 0 \/ ctr > rx_replay_counter

Receives(ctr) == Associated /\ NotReplayed(ctr)

\* Mutant: the SNonce is marked as renewed but not drawn.
MutNextSNonce == snonce

\* The SNonce that message 1/4 leads to.
NextSNonce == IF renew_snonce THEN snonce + 1 ELSE snonce

\* wpa_supplicant_process_1_of_4, a frame without a MIC: derive a temporary PTK
\* and send 2/4.
Process1of4(nonce) ==
    /\ NextSNonce <= MaxSNonce
    /\ wpa_state' = "4WAY_HANDSHAKE"
    /\ snonce' = NextSNonce
    /\ renew_snonce' = FALSE
    /\ tptk' = <<nonce, NextSNonce>>
    /\ anonce' = nonce
    /\ UNCHANGED <<keys, auth_timeout, history>>

\* It fails before or after the SNonce is renewed, or may not rekey PTK0.
Process1of4Fails ==
    /\ \/ UNCHANGED <<snonce, renew_snonce>>
       \/ /\ NextSNonce <= MaxSNonce
          /\ snonce' = NextSNonce
          /\ renew_snonce' = FALSE
    /\ Deauthenticated
    /\ UNCHANGED <<anonce, rx_replay_counter, history>>

\* Mutant: the temporary PTK stays set after it has become the PTK.
MutUsedTptk == tptk

UsedTptk == NoKey

\* wpa_supplicant_verify_eapol_key_mic for a frame with a MIC under key k: what
\* it leaves in tptk, ptk, ptk.installed and renew_snonce.  The temporary PTK is
\* tried first.
Verified(k) ==
    IF k = tptk
    THEN [tptk |-> UsedTptk, ptk |-> tptk, installed |-> FALSE, renew |-> TRUE]
    ELSE [tptk |-> tptk, ptk |-> ptk, installed |-> installed, renew |-> renew_snonce]

MicOk(k) == k \in {tptk, ptk} \ {NoKey}

\* Mutant: the group key is installed again when it is received again.
MutInUse(g) == FALSE

\* wpa_supplicant_install_gtk does not install the key that is in use.
InUse(g) == g = gtk

InstallGtk(g) ==
    /\ gtk' = g
    /\ gtks' = IF InUse(g) THEN gtks ELSE Append(gtks, g)

\* wpa_supplicant_install_ptk, for the PTK that the verified frame is under.
InstallPtk(v) ==
    ptks' = IF v.installed THEN ptks ELSE Append(ptks, v.ptk)

\* wpa_supplicant_process_3_of_4: send 4/4, install the PTK if INSTALL is set,
\* open the port if SECURE is set, install the GTK, complete the negotiation.
Process3of4(v, nonce, g, install, secure) ==
    /\ nonce = anonce
    /\ g # NoKey
    /\ wpa_state' = "COMPLETED"
    /\ tptk' = v.tptk
    /\ ptk' = v.ptk
    /\ renew_snonce' = TRUE
    /\ IF install THEN InstallPtk(v) ELSE UNCHANGED ptks
    /\ installed' = (v.installed \/ install)
    /\ portValid' = (portValid \/ secure)
    /\ InstallGtk(g)
    /\ auth_timeout' = FALSE
    /\ msg_3_of_4_ok' = TRUE
    /\ UNCHANGED <<snonce, anonce, base>>

\* It fails before the PTK is installed (an element or the ANonce does not match,
\* 4/4 is not sent, the driver refuses the key) or after it (no GTK, or the driver
\* refuses it).
Process3of4Fails(v, nonce, install) ==
    /\ \/ renew_snonce' \in {v.renew, TRUE} /\ UNCHANGED ptks
       \/ /\ nonce = anonce
          /\ renew_snonce' = TRUE
          /\ IF install THEN InstallPtk(v) ELSE UNCHANGED ptks
    /\ Deauthenticated
    /\ UNCHANGED <<snonce, anonce, gtks, base>>

\* wpa_supplicant_process_1_of_2: install the GTK and send 2/2.
Process1of2(v, g, secure) ==
    /\ msg_3_of_4_ok
    /\ wpa_state' = "COMPLETED"
    /\ tptk' = v.tptk
    /\ ptk' = v.ptk
    /\ installed' = v.installed
    /\ renew_snonce' = v.renew
    /\ InstallGtk(g)
    /\ auth_timeout' = FALSE
    /\ portValid' = (portValid \/ (secure /\ wpa_state # "COMPLETED"))
    /\ UNCHANGED <<snonce, anonce, msg_3_of_4_ok, ptks, base>>

\* It came before the 4-way handshake, or the GTK is missing or refused, or 2/2 is
\* not sent.
Process1of2Fails(v) ==
    /\ renew_snonce' = v.renew
    /\ Deauthenticated
    /\ UNCHANGED <<snonce, anonce, history>>

\* The MIC is right, but the key data is not or the key index is not 0: the frame
\* is dropped after its MIC has done its work.
DroppedAfterMic(v) ==
    /\ tptk' = v.tptk
    /\ ptk' = v.ptk
    /\ installed' = v.installed
    /\ renew_snonce' = v.renew
    /\ UNCHANGED <<wpa_state, snonce, anonce, gtk, msg_3_of_4_ok, portValid, auth_timeout, history>>

RxEapolUnprotected(ctr, nonce) ==
    /\ Receives(ctr)
    /\ Process1of4(nonce) \/ Process1of4Fails

RxEapolPairwise(ctr, k, nonce, g, install, secure) ==
    /\ Receives(ctr)
    /\ MicOk(k)
    /\ rx_replay_counter' = ctr
    /\ LET v == Verified(k)
       IN Process3of4(v, nonce, g, install, secure) \/ Process3of4Fails(v, nonce, install)

RxEapolGroup(ctr, k, g, secure) ==
    /\ Receives(ctr)
    /\ MicOk(k)
    /\ rx_replay_counter' = ctr
    /\ LET v == Verified(k)
       IN Process1of2(v, g, secure) \/ Process1of2Fails(v)

RxEapolDropped(ctr, k) ==
    /\ Receives(ctr)
    /\ MicOk(k)
    /\ rx_replay_counter' = ctr
    /\ DroppedAfterMic(Verified(k))

-----------------------------------------------------------------------------
Next ==
    \/ StartAssoc \/ StartAssocFails \/ EventAssoc \/ EventDisassoc \/ Deauthenticate
    \/ \E ctr \in Counters, nonce \in ANonces : RxEapolUnprotected(ctr, nonce)
    \/ \E ctr \in Counters, k \in PTKs, nonce \in ANonces,
          g \in GTKs \cup {NoKey}, install, secure \in BOOLEAN :
            RxEapolPairwise(ctr, k, nonce, g, install, secure)
    \/ \E ctr \in Counters, k \in PTKs, g \in GTKs, secure \in BOOLEAN :
            RxEapolGroup(ctr, k, g, secure)
    \/ \E ctr \in Counters, k \in PTKs : RxEapolDropped(ctr, k)

Spec == Init /\ [][Next]_vars

-----------------------------------------------------------------------------
(* Properties                                                               *)

TypeOK ==
    /\ wpa_state \in {"DISCONNECTED", "ASSOCIATING", "ASSOCIATED", "4WAY_HANDSHAKE", "COMPLETED"}
    /\ snonce \in 0..MaxSNonce
    /\ renew_snonce \in BOOLEAN
    /\ anonce \in ANonces \cup {NoKey}
    /\ tptk \in PTKs \cup {NoKey}
    /\ ptk \in PTKs \cup {NoKey}
    /\ installed \in BOOLEAN
    /\ gtk \in GTKs \cup {NoKey}
    /\ rx_replay_counter \in 0..MaxCounter
    /\ msg_3_of_4_ok \in BOOLEAN
    /\ auth_timeout \in BOOLEAN
    /\ portValid \in BOOLEAN
    /\ ptks \in Seq(PTKs)
    /\ gtks \in Seq(GTKs)
    /\ base \in 0..MaxSNonce

\* The comment in wpa_supplicant_verify_eapol_key_mic: "this assures the same PTK
\* is only installed once" -- never again in the life of the supplicant, however
\* messages 1/4, 3/4 and 1/2 are repeated, delayed and mixed, and across
\* reassociations.
PtkInstalledOnce == \A i, j \in DOMAIN ptks : ptks[i] = ptks[j] => i = j

\* A group key in use is not installed again when it comes again, in a repeated
\* 3/4 or 1/2.
GtkNotReinstalled == \A i \in DOMAIN gtks : i + 1 \in DOMAIN gtks => gtks[i] # gtks[i+1]

\* The controlled port is open only with a PTK that the authenticator has proved
\* to know and that comes from an SNonce drawn in this association: nothing
\* recorded in an earlier one opens it.
PortNeedsFreshKey == portValid => ptk # NoKey /\ ptk[2] > base

\* The first negotiation of an association is never without its timeout, so that
\* an AP that falls silent is given up; only one that follows a completed
\* negotiation (a GTK has been installed), a rekeying, is not timed.
NegotiationTimed ==
    /\ wpa_state \in {"ASSOCIATING", "ASSOCIATED"} => auth_timeout
    /\ wpa_state = "4WAY_HANDSHAKE" => auth_timeout \/ gtks # <<>>

\* What makes the properties inductive.  A temporary PTK is made with the last
\* SNonce and is not installed yet; a key that is installed, or has become the
\* PTK, has used up its SNonce: if that is still the last one, it is to be renewed.
TptkUnused ==
    tptk # NoKey => /\ tptk[2] = snonce
                    /\ \A i \in DOMAIN ptks : ptks[i] # tptk
PtkUsesSNonce ==
    ptk # NoKey => /\ ptk[2] <= snonce
                   /\ ptk[2] = snonce => renew_snonce /\ tptk = NoKey
                   /\ ~installed => \A i \in DOMAIN ptks : ptks[i] # ptk
InstalledUsesSNonce ==
    \A i \in DOMAIN ptks :
        /\ ptks[i][2] <= snonce
        /\ ptks[i][2] = snonce => renew_snonce
\* SNonces in use were drawn in this association.
SNoncesFresh ==
    /\ base <= snonce
    /\ ~renew_snonce => snonce > base
    /\ tptk # NoKey => tptk[2] > base
    /\ ptk # NoKey => ptk[2] > base
\* A negotiation that completed has installed a group key.
CompletedHasGtk ==
    /\ wpa_state = "COMPLETED" => gtks # <<>>
    /\ gtk # NoKey => gtks # <<>>
KeyDiscipline ==
    /\ TypeOK /\ PtkInstalledOnce /\ TptkUnused /\ PtkUsesSNonce /\ InstalledUsesSNonce
    /\ SNoncesFresh /\ PortNeedsFreshKey /\ CompletedHasGtk /\ NegotiationTimed
==============================================================================
