------------------------- MODULE RsnSupplicant_proofs -------------------------
(***************************************************************************)
(* Proof that the supplicant never installs a PTK twice and opens its port *)
(* only with a key of the current association, for every set of nonces and *)
(* group keys, every bound on the counters, and any environment.           *)
(***************************************************************************)
EXTENDS RsnSupplicant, TLAPS

\* What the state says of a PTK that a verified frame leaves in use.
Usable(v) ==
    /\ v.ptk \in PTKs
    /\ v.tptk \in PTKs \cup {NoKey}
    /\ v.installed \in BOOLEAN
    /\ v.renew \in BOOLEAN
    /\ v.ptk[2] > base
    /\ v.ptk[2] <= snonce
    /\ v.ptk[2] = snonce => v.renew /\ v.tptk = NoKey
    /\ ~v.installed => \A i \in DOMAIN ptks : ptks[i] # v.ptk
    /\ v.tptk # NoKey => v.tptk = tptk
    /\ renew_snonce => v.renew

\* A PTK is not NoKey: wpa_sm tells an unset key by its flag.
LEMMA PtkIsKey == \A k \in PTKs : k # NoKey /\ k[2] \in 1..MaxSNonce
BY RsnAssumption DEF PTKs

\* Verification of a MIC leaves a PTK that may be used, whichever of the two keys
\* the frame is under.
LEMMA VerifiedUsable ==
    ASSUME KeyDiscipline, NEW k \in PTKs, MicOk(k)
    PROVE  Usable(Verified(k))
<1>1. k # NoKey
  BY PtkIsKey
<1>2. CASE k = tptk
  <2>1. Verified(k) = [tptk |-> NoKey, ptk |-> tptk, installed |-> FALSE, renew |-> TRUE]
    BY <1>2 DEF Verified, UsedTptk
  <2>2. /\ tptk[2] = snonce /\ tptk[2] > base
        /\ \A i \in DOMAIN ptks : ptks[i] # tptk
    BY <1>1, <1>2 DEF KeyDiscipline, TptkUnused, SNoncesFresh
  <2>3. snonce \in Nat
    BY RsnAssumption DEF KeyDiscipline, TypeOK
  <2> QED
    BY <1>1, <1>2, <2>1, <2>2, <2>3 DEF Usable
<1>3. CASE k # tptk
  <2>1. Verified(k) = [tptk |-> tptk, ptk |-> ptk, installed |-> installed, renew |-> renew_snonce]
    BY <1>3 DEF Verified
  <2>2. ptk = k
    BY <1>1, <1>3 DEF MicOk
  <2>3. /\ ptk[2] <= snonce /\ ptk[2] > base
        /\ ptk[2] = snonce => renew_snonce /\ tptk = NoKey
        /\ ~installed => \A i \in DOMAIN ptks : ptks[i] # ptk
    BY <1>1, <2>2 DEF KeyDiscipline, PtkUsesSNonce, SNoncesFresh
  <2>4. /\ tptk \in PTKs \cup {NoKey} /\ installed \in BOOLEAN /\ renew_snonce \in BOOLEAN
    BY DEF KeyDiscipline, TypeOK
  <2> QED
    BY <2>1, <2>2, <2>3, <2>4 DEF Usable
<1> QED
  BY <1>2, <1>3

\* The history of installations: whichever way a 3/4 or 1/2 ends, it grows by a
\* key that was not in it, or stays.
Grows(v) ==
    \/ ptks' = ptks
    \/ ~v.installed /\ ptks' = Append(ptks, v.ptk)

\* Installing the PTK of a verified frame, when it is not installed already, keeps
\* the installed keys apart.
LEMMA InstallOnce ==
    ASSUME KeyDiscipline, NEW v, Usable(v), Grows(v)
    PROVE  /\ ptks' \in Seq(PTKs)
           /\ PtkInstalledOnce'
           /\ \A i \in DOMAIN ptks' : \/ i \in DOMAIN ptks /\ ptks'[i] = ptks[i]
                                      \/ ptks'[i] = v.ptk
<1>1. ptks \in Seq(PTKs) /\ PtkInstalledOnce
  BY DEF KeyDiscipline, TypeOK
<1>2. CASE ptks' = ptks
  BY <1>1, <1>2 DEF PtkInstalledOnce
<1>3. CASE ~v.installed /\ ptks' = Append(ptks, v.ptk)
  <2>1. v.ptk \in PTKs /\ \A i \in DOMAIN ptks : ptks[i] # v.ptk
    BY <1>3 DEF Usable
  <2>2. /\ ptks' \in Seq(PTKs)
        /\ DOMAIN ptks' = 1..Len(ptks) + 1
        /\ DOMAIN ptks = 1..Len(ptks)
        /\ Len(ptks) \in Nat
        /\ \A i \in 1..Len(ptks) : ptks'[i] = ptks[i]
        /\ ptks'[Len(ptks) + 1] = v.ptk
    BY <1>1, <1>3, <2>1
  <2>3. PtkInstalledOnce'
    BY <1>1, <2>1, <2>2 DEF PtkInstalledOnce
  <2> QED
    BY <2>2, <2>3
<1> QED
  BY <1>2, <1>3 DEF Grows

\* A frame with a MIC, whether its handler succeeds and keeps the keys or fails
\* and drops them, preserves the discipline of SNonces.
LEMMA VerifiedStep ==
    ASSUME KeyDiscipline, NEW v, Usable(v), Grows(v),
           snonce' = snonce, base' = base,
           v.renew => renew_snonce',
           ptks' # ptks => renew_snonce',
           \/ tptk' = NoKey /\ ptk' = NoKey
           \/ /\ tptk' = v.tptk /\ ptk' = v.ptk
              /\ ~installed' => ~v.installed /\ ptks' = ptks
    PROVE  TptkUnused' /\ PtkUsesSNonce' /\ InstalledUsesSNonce' /\ SNoncesFresh'
<1>1. \A i \in DOMAIN ptks' : \/ i \in DOMAIN ptks /\ ptks'[i] = ptks[i]
                              \/ ptks'[i] = v.ptk
  BY InstallOnce
<1>2. /\ v.ptk # NoKey
      /\ v.ptk[2] > base /\ v.ptk[2] <= snonce
      /\ v.ptk[2] = snonce => v.renew /\ v.tptk = NoKey
      /\ ~v.installed => \A i \in DOMAIN ptks : ptks[i] # v.ptk
      /\ v.tptk # NoKey => v.tptk = tptk
      /\ renew_snonce => v.renew
  BY PtkIsKey DEF Usable
<1>3. snonce \in Nat /\ base \in Nat
  BY RsnAssumption DEF KeyDiscipline, TypeOK
<1>4. TptkUnused'
  <2> SUFFICES ASSUME tptk' # NoKey
               PROVE  tptk'[2] = snonce' /\ \A i \in DOMAIN ptks' : ptks'[i] # tptk'
    BY DEF TptkUnused
  <2>1. tptk' = v.tptk /\ tptk' = tptk
    BY <1>2
  <2>2. tptk[2] = snonce /\ \A i \in DOMAIN ptks : ptks[i] # tptk
    BY <2>1 DEF KeyDiscipline, TptkUnused
  <2>3. v.ptk # tptk
    BY <1>2, <2>1, <2>2
  <2> QED
    BY <1>1, <2>1, <2>2, <2>3
<1>5. PtkUsesSNonce'
  <2> SUFFICES ASSUME ptk' # NoKey
               PROVE  /\ ptk'[2] <= snonce'
                      /\ ptk'[2] = snonce' => renew_snonce' /\ tptk' = NoKey
                      /\ ~installed' => \A i \in DOMAIN ptks' : ptks'[i] # ptk'
    BY DEF PtkUsesSNonce
  <2> QED
    BY <1>2
<1>6. InstalledUsesSNonce'
  <2>1. \A i \in DOMAIN ptks : ptks[i][2] <= snonce /\ (ptks[i][2] = snonce => renew_snonce)
    BY DEF KeyDiscipline, InstalledUsesSNonce
  <2> SUFFICES ASSUME NEW i \in DOMAIN ptks'
               PROVE  ptks'[i][2] <= snonce' /\ (ptks'[i][2] = snonce' => renew_snonce')
    BY DEF InstalledUsesSNonce
  <2>2. CASE i \in DOMAIN ptks /\ ptks'[i] = ptks[i]
    BY <1>2, <2>1, <2>2
  <2>3. CASE ptks'[i] = v.ptk
    BY <1>2, <2>3
  <2> QED
    BY <1>1, <2>2, <2>3
<1>7. SNoncesFresh'
  <2>1. /\ base <= snonce
        /\ ~renew_snonce => snonce > base
        /\ tptk # NoKey => tptk[2] > base
    BY DEF KeyDiscipline, SNoncesFresh
  <2>2. ~renew_snonce' => snonce' > base'
    BY <1>2, <2>1
  <2>3. tptk' # NoKey => tptk'[2] > base'
    BY <1>2, <2>1
  <2>4. ptk' # NoKey => ptk'[2] > base'
    BY <1>2
  <2> QED
    BY <2>1, <2>2, <2>3, <2>4 DEF SNoncesFresh
<1> QED
  BY <1>4, <1>5, <1>6, <1>7

\* Association and disassociation: keys are only dropped, and the SNonce is
\* renewed before the next one is made.
LEMMA AssocStep ==
    ASSUME KeyDiscipline,
           StartAssoc \/ StartAssocFails \/ EventAssoc \/ EventDisassoc \/ Deauthenticate
    PROVE  KeyDiscipline'
<1>1. CASE StartAssoc
  BY <1>1 DEF StartAssoc, handshake, keys, history, KeyDiscipline, TypeOK, PtkInstalledOnce,
     TptkUnused, PtkUsesSNonce, InstalledUsesSNonce, SNoncesFresh, PortNeedsFreshKey,
     CompletedHasGtk, NegotiationTimed
<1>2. CASE EventAssoc
  <2> USE <1>2 DEF EventAssoc, KeyDiscipline
  <2>1. TypeOK'
    <3>1. rx_replay_counter' \in 0..MaxCounter /\ gtks' \in Seq(GTKs)
      BY RsnAssumption
    <3>2. wpa_state' \in {"DISCONNECTED", "ASSOCIATING", "ASSOCIATED", "4WAY_HANDSHAKE", "COMPLETED"}
      OBVIOUS
    <3> QED
      BY <3>1, <3>2 DEF TypeOK, RenewOnAssoc, TimeoutOnAssoc
  <2>2. PtkInstalledOnce' /\ TptkUnused' /\ PtkUsesSNonce'
    BY DEF PtkInstalledOnce, TptkUnused, PtkUsesSNonce
  <2>3. InstalledUsesSNonce'
    BY DEF InstalledUsesSNonce, RenewOnAssoc
  <2>4. SNoncesFresh'
    BY RsnAssumption DEF SNoncesFresh, TypeOK, RenewOnAssoc
  <2>5. PortNeedsFreshKey' /\ CompletedHasGtk' /\ NegotiationTimed'
    BY DEF PortNeedsFreshKey, CompletedHasGtk, NegotiationTimed, TimeoutOnAssoc
  <2> QED
    BY <2>1, <2>2, <2>3, <2>4, <2>5
<1>3. CASE EventDisassoc
  BY <1>3 DEF EventDisassoc, Disassociated, history, KeyDiscipline, TypeOK,
     PtkInstalledOnce, TptkUnused, PtkUsesSNonce, InstalledUsesSNonce, SNoncesFresh,
     PortNeedsFreshKey, CompletedHasGtk, NegotiationTimed
<1>4. CASE Deauthenticate
  BY <1>4 DEF Deauthenticate, Deauthenticated, Disassociated, history, KeyDiscipline, TypeOK,
     PtkInstalledOnce, TptkUnused, PtkUsesSNonce, InstalledUsesSNonce, SNoncesFresh,
     PortNeedsFreshKey, CompletedHasGtk, NegotiationTimed
<1>5. CASE StartAssocFails
  BY <1>5 DEF StartAssocFails, handshake, keys, history, KeyDiscipline, TypeOK, PtkInstalledOnce,
     TptkUnused, PtkUsesSNonce, InstalledUsesSNonce, SNoncesFresh, PortNeedsFreshKey,
     CompletedHasGtk, NegotiationTimed
<1> QED
  BY <1>1, <1>2, <1>3, <1>4, <1>5

\* Message 1/4 makes a temporary PTK from an SNonce that no installed key has used.
LEMMA UnprotectedStep ==
    ASSUME KeyDiscipline, NEW ctr \in Counters, NEW nonce \in ANonces,
           RxEapolUnprotected(ctr, nonce)
    PROVE  KeyDiscipline'
<1>1. /\ snonce \in Nat /\ base \in Nat /\ MaxSNonce \in Nat
      /\ renew_snonce \in BOOLEAN
      /\ \A i \in DOMAIN ptks : /\ ptks[i] \in PTKs
                                /\ ptks[i][2] \in Nat
  BY RsnAssumption, PtkIsKey DEF KeyDiscipline, TypeOK
<1>2. /\ base <= snonce
      /\ ~renew_snonce => snonce > base
      /\ ptk # NoKey => ptk[2] <= snonce /\ ptk[2] > base /\ (ptk[2] = snonce => renew_snonce)
      /\ \A i \in DOMAIN ptks : ptks[i][2] <= snonce /\ (ptks[i][2] = snonce => renew_snonce)
  BY DEF KeyDiscipline, SNoncesFresh, PtkUsesSNonce, InstalledUsesSNonce
<1>3. /\ NextSNonce > base /\ NextSNonce \in Nat
      /\ ptk # NoKey => ptk[2] < NextSNonce
      /\ \A i \in DOMAIN ptks : ptks[i][2] < NextSNonce
  <2>1. ptk # NoKey => ptk[2] \in Nat
    BY PtkIsKey DEF KeyDiscipline, TypeOK
  <2> QED
    BY <1>1, <1>2, <2>1 DEF NextSNonce
<1>4. CASE Process1of4(nonce)
  <2> USE <1>4 DEF Process1of4
  <2>1. tptk' \in PTKs /\ tptk'[2] = snonce' /\ snonce' = NextSNonce
    BY <1>1, <1>3 DEF PTKs
  <2>2. TypeOK'
    <3>1. snonce' \in 0..MaxSNonce
      BY <1>1, <1>3
    <3>2. wpa_state' \in {"DISCONNECTED", "ASSOCIATING", "ASSOCIATED", "4WAY_HANDSHAKE", "COMPLETED"}
      OBVIOUS
    <3> QED
      BY <2>1, <3>1, <3>2 DEF KeyDiscipline, TypeOK, keys, history
  <2>3. PtkInstalledOnce' /\ PortNeedsFreshKey'
    BY DEF KeyDiscipline, PtkInstalledOnce, PortNeedsFreshKey, keys, history
  <2>4. TptkUnused' /\ InstalledUsesSNonce'
    BY <1>1, <1>3, <2>1 DEF TptkUnused, InstalledUsesSNonce, history
  <2>5. PtkUsesSNonce'
    <3>1. ptk' = ptk /\ installed' = installed /\ ptks' = ptks
      BY DEF keys, history
    <3>2. ptk # NoKey => ptk[2] \in Nat
      BY PtkIsKey DEF KeyDiscipline, TypeOK
    <3>3. ptk # NoKey => (~installed => \A i \in DOMAIN ptks : ptks[i] # ptk)
      BY DEF KeyDiscipline, PtkUsesSNonce
    <3> QED
      BY <1>3, <2>1, <3>1, <3>2, <3>3 DEF PtkUsesSNonce
  <2>6. SNoncesFresh'
    BY <1>1, <1>2, <1>3, <2>1 DEF SNoncesFresh, keys, history
  <2>7. CompletedHasGtk' /\ NegotiationTimed'
    BY <1>4 DEF RxEapolUnprotected, Receives, Associated, KeyDiscipline, CompletedHasGtk,
       NegotiationTimed, keys, history
  <2> QED
    BY <2>2, <2>3, <2>4, <2>5, <2>6, <2>7 DEF KeyDiscipline
<1>5. CASE Process1of4Fails
  <2> USE <1>5 DEF Process1of4Fails, Deauthenticated, Disassociated
  <2>1. \/ snonce' = snonce /\ renew_snonce' = renew_snonce
        \/ NextSNonce <= MaxSNonce /\ snonce' = NextSNonce /\ renew_snonce' = FALSE
    OBVIOUS
  <2>2. TypeOK'
    <3>1. snonce' \in 0..MaxSNonce
      BY <1>1, <1>3, <2>1 DEF KeyDiscipline, TypeOK
    <3>2. renew_snonce' \in BOOLEAN
      BY <1>1, <2>1
    <3>3. rx_replay_counter' \in 0..MaxCounter /\ base' \in 0..MaxSNonce
      BY DEF KeyDiscipline, TypeOK, history
    <3>4. wpa_state' \in {"DISCONNECTED", "ASSOCIATING", "ASSOCIATED", "4WAY_HANDSHAKE", "COMPLETED"}
      OBVIOUS
    <3> QED
      BY <3>1, <3>2, <3>3, <3>4 DEF KeyDiscipline, TypeOK, history
  <2>3. InstalledUsesSNonce' /\ SNoncesFresh'
    BY <1>1, <1>2, <1>3, <2>1 DEF InstalledUsesSNonce, SNoncesFresh, history
  <2>4. /\ PtkInstalledOnce' /\ TptkUnused' /\ PtkUsesSNonce'
        /\ PortNeedsFreshKey' /\ CompletedHasGtk' /\ NegotiationTimed'
    BY DEF KeyDiscipline, PtkInstalledOnce, TptkUnused, PtkUsesSNonce, PortNeedsFreshKey,
       CompletedHasGtk, NegotiationTimed, history
  <2> QED
    BY <2>2, <2>3, <2>4 DEF KeyDiscipline
<1> QED
  BY <1>4, <1>5 DEF RxEapolUnprotected

\* Message 3/4 installs the PTK at most once, whether it succeeds or fails.
LEMMA PairwiseStep ==
    ASSUME KeyDiscipline, NEW ctr \in Counters, NEW k \in PTKs, NEW nonce \in ANonces,
           NEW g \in GTKs \cup {NoKey}, NEW install \in BOOLEAN, NEW secure \in BOOLEAN,
           RxEapolPairwise(ctr, k, nonce, g, install, secure)
    PROVE  KeyDiscipline'
<1> DEFINE v == Verified(k)
<1>1. Usable(v) /\ rx_replay_counter' = ctr
  BY VerifiedUsable DEF RxEapolPairwise
<1>2. CASE Process3of4(v, nonce, g, install, secure)
  <2> HIDE DEF v
  <2> USE <1>2 DEF Process3of4
  <2>1. Grows(v) /\ (ptks' # ptks => renew_snonce')
    BY DEF Grows, InstallPtk
  <2>2. ~installed' => ~v.installed /\ ptks' = ptks
    BY DEF InstallPtk
  <2>3. TptkUnused' /\ PtkUsesSNonce' /\ InstalledUsesSNonce' /\ SNoncesFresh'
    BY <1>1, <2>1, <2>2, VerifiedStep
  <2>4. ptks' \in Seq(PTKs) /\ PtkInstalledOnce'
    BY <1>1, <2>1, InstallOnce
  <2>5. ptk' \in PTKs /\ ptk'[2] > base' /\ ptk' # NoKey
    BY <1>1, PtkIsKey DEF Usable
  <2>6. gtk' \in GTKs \cup {NoKey} /\ gtks' \in Seq(GTKs) /\ gtks' # <<>>
    BY DEF InstallGtk, InUse, KeyDiscipline, TypeOK, CompletedHasGtk
  <2>7. TypeOK'
    <3>1. rx_replay_counter' \in 0..MaxCounter
      BY <1>1, RsnAssumption DEF Counters
    <3>2. wpa_state' \in {"DISCONNECTED", "ASSOCIATING", "ASSOCIATED", "4WAY_HANDSHAKE", "COMPLETED"}
      OBVIOUS
    <3>3. tptk' \in PTKs \cup {NoKey} /\ installed' \in BOOLEAN /\ portValid' \in BOOLEAN
      BY <1>1 DEF Usable, KeyDiscipline, TypeOK
    <3> QED
      BY <2>4, <2>5, <2>6, <3>1, <3>2, <3>3 DEF KeyDiscipline, TypeOK
  <2>8. PortNeedsFreshKey' /\ CompletedHasGtk' /\ NegotiationTimed'
    BY <2>5, <2>6 DEF PortNeedsFreshKey, CompletedHasGtk, NegotiationTimed
  <2> QED
    BY <2>3, <2>4, <2>7, <2>8 DEF KeyDiscipline
<1>3. CASE Process3of4Fails(v, nonce, install)
  <2> HIDE DEF v
  <2> USE <1>3 DEF Process3of4Fails, Deauthenticated, Disassociated
  <2>1. /\ Grows(v) /\ (ptks' # ptks => renew_snonce')
        /\ v.renew => renew_snonce'
        /\ renew_snonce' \in BOOLEAN
    BY <1>1 DEF Grows, InstallPtk, Usable
  <2>2. TptkUnused' /\ PtkUsesSNonce' /\ InstalledUsesSNonce' /\ SNoncesFresh'
    BY <1>1, <2>1, VerifiedStep
  <2>3. ptks' \in Seq(PTKs) /\ PtkInstalledOnce'
    BY <1>1, <2>1, InstallOnce
  <2>4. TypeOK'
    <3>1. rx_replay_counter' \in 0..MaxCounter
      BY <1>1, RsnAssumption DEF Counters
    <3>2. wpa_state' \in {"DISCONNECTED", "ASSOCIATING", "ASSOCIATED", "4WAY_HANDSHAKE", "COMPLETED"}
      OBVIOUS
    <3> QED
      BY <2>1, <2>3, <3>1, <3>2 DEF KeyDiscipline, TypeOK
  <2>5. PortNeedsFreshKey' /\ CompletedHasGtk' /\ NegotiationTimed'
    BY DEF PortNeedsFreshKey, CompletedHasGtk, NegotiationTimed
  <2> QED
    BY <2>2, <2>3, <2>4, <2>5 DEF KeyDiscipline
<1> QED
  BY <1>2, <1>3 DEF RxEapolPairwise

\* A group key message may turn the temporary PTK into the PTK, and installs none.
LEMMA GroupStep ==
    ASSUME KeyDiscipline, NEW ctr \in Counters, NEW k \in PTKs, NEW g \in GTKs,
           NEW secure \in BOOLEAN, RxEapolGroup(ctr, k, g, secure)
    PROVE  KeyDiscipline'
<1> DEFINE v == Verified(k)
<1>1. Usable(v) /\ rx_replay_counter' = ctr
  BY VerifiedUsable DEF RxEapolGroup
<1>2. ptks' = ptks /\ snonce' = snonce /\ base' = base /\ renew_snonce' = v.renew
  BY DEF RxEapolGroup, Process1of2, Process1of2Fails, history
<1>3. PtkInstalledOnce' /\ ptks' \in Seq(PTKs)
  BY <1>2 DEF KeyDiscipline, TypeOK, PtkInstalledOnce
<1>4. CASE Process1of2(v, g, secure)
  <2> HIDE DEF v
  <2> USE <1>4 DEF Process1of2
  <2>1. TptkUnused' /\ PtkUsesSNonce' /\ InstalledUsesSNonce' /\ SNoncesFresh'
    BY <1>1, <1>2, VerifiedStep DEF Grows
  <2>2. ptk' \in PTKs /\ ptk'[2] > base' /\ ptk' # NoKey
    BY <1>1, PtkIsKey DEF Usable
  <2>3. gtk' \in GTKs \cup {NoKey} /\ gtks' \in Seq(GTKs) /\ gtks' # <<>>
    <3>1. g # NoKey
      BY RsnAssumption
    <3> QED
      BY <3>1 DEF InstallGtk, InUse, KeyDiscipline, TypeOK, CompletedHasGtk
  <2>4. TypeOK'
    <3>1. rx_replay_counter' \in 0..MaxCounter
      BY <1>1, RsnAssumption DEF Counters
    <3>2. wpa_state' \in {"DISCONNECTED", "ASSOCIATING", "ASSOCIATED", "4WAY_HANDSHAKE", "COMPLETED"}
      OBVIOUS
    <3>3. /\ tptk' \in PTKs \cup {NoKey} /\ installed' \in BOOLEAN
          /\ portValid' \in BOOLEAN /\ renew_snonce' \in BOOLEAN
      BY <1>1 DEF Usable, KeyDiscipline, TypeOK
    <3> QED
      BY <1>3, <2>2, <2>3, <3>1, <3>2, <3>3 DEF KeyDiscipline, TypeOK
  <2>5. PortNeedsFreshKey' /\ CompletedHasGtk' /\ NegotiationTimed'
    BY <2>2, <2>3 DEF PortNeedsFreshKey, CompletedHasGtk, NegotiationTimed
  <2> QED
    BY <1>3, <2>1, <2>4, <2>5 DEF KeyDiscipline
<1>5. CASE Process1of2Fails(v)
  <2> HIDE DEF v
  <2> USE <1>5 DEF Process1of2Fails, Deauthenticated, Disassociated
  <2>1. TptkUnused' /\ PtkUsesSNonce' /\ InstalledUsesSNonce' /\ SNoncesFresh'
    BY <1>1, <1>2, VerifiedStep DEF Grows
  <2>2. TypeOK'
    <3>1. rx_replay_counter' \in 0..MaxCounter
      BY <1>1, RsnAssumption DEF Counters
    <3>2. wpa_state' \in {"DISCONNECTED", "ASSOCIATING", "ASSOCIATED", "4WAY_HANDSHAKE", "COMPLETED"}
      OBVIOUS
    <3>3. renew_snonce' \in BOOLEAN
      BY <1>1 DEF Usable
    <3> QED
      BY <3>1, <3>2, <3>3 DEF KeyDiscipline, TypeOK, history
  <2>3. PortNeedsFreshKey' /\ CompletedHasGtk' /\ NegotiationTimed'
    BY DEF PortNeedsFreshKey, CompletedHasGtk, NegotiationTimed
  <2> QED
    BY <1>3, <2>1, <2>2, <2>3 DEF KeyDiscipline
<1> QED
  BY <1>4, <1>5 DEF RxEapolGroup

\* A frame that is dropped after its MIC was verified installs nothing.
LEMMA DroppedStep ==
    ASSUME KeyDiscipline, NEW ctr \in Counters, NEW k \in PTKs, RxEapolDropped(ctr, k)
    PROVE  KeyDiscipline'
<1> DEFINE v == Verified(k)
<1>1. Usable(v) /\ rx_replay_counter' = ctr /\ DroppedAfterMic(v)
  BY VerifiedUsable DEF RxEapolDropped
<1> HIDE DEF v
<1> USE <1>1 DEF DroppedAfterMic
<1>2. ptks' = ptks /\ base' = base /\ gtks' = gtks
  BY DEF history
<1>3. TptkUnused' /\ PtkUsesSNonce' /\ InstalledUsesSNonce' /\ SNoncesFresh'
  BY <1>2, VerifiedStep DEF Grows
<1>4. ptk' \in PTKs /\ ptk'[2] > base' /\ ptk' # NoKey
  BY <1>2, PtkIsKey DEF Usable
<1>5. TypeOK'
  <2>1. rx_replay_counter' \in 0..MaxCounter
    BY RsnAssumption DEF Counters
  <2>2. tptk' \in PTKs \cup {NoKey} /\ installed' \in BOOLEAN /\ renew_snonce' \in BOOLEAN
    BY DEF Usable
  <2> QED
    BY <1>2, <1>4, <2>1, <2>2 DEF KeyDiscipline, TypeOK
<1>6. PtkInstalledOnce' /\ PortNeedsFreshKey' /\ CompletedHasGtk' /\ NegotiationTimed'
  BY <1>2, <1>4 DEF KeyDiscipline, PtkInstalledOnce, PortNeedsFreshKey, CompletedHasGtk,
     NegotiationTimed
<1> QED
  BY <1>3, <1>5, <1>6 DEF KeyDiscipline

\* The discipline of keys and SNonces holds from the start and after every step
\* of the supplicant, whatever frames and events come.
THEOREM KeysDisciplined == Spec => []KeyDiscipline
<1>1. Init => KeyDiscipline
  <2> SUFFICES ASSUME Init PROVE KeyDiscipline
    OBVIOUS
  <2> USE DEF Init
  <2>1. TypeOK
    <3>1. /\ 0 \in 0..MaxSNonce /\ 0 \in 0..MaxCounter
          /\ <<>> \in Seq(PTKs) /\ <<>> \in Seq(GTKs)
      BY RsnAssumption
    <3>2. wpa_state \in {"DISCONNECTED", "ASSOCIATING", "ASSOCIATED", "4WAY_HANDSHAKE", "COMPLETED"}
      OBVIOUS
    <3> QED
      BY <3>1, <3>2 DEF TypeOK
  <2>2. PtkInstalledOnce /\ TptkUnused /\ PtkUsesSNonce /\ InstalledUsesSNonce
    BY DEF PtkInstalledOnce, TptkUnused, PtkUsesSNonce, InstalledUsesSNonce
  <2>3. SNoncesFresh /\ PortNeedsFreshKey /\ CompletedHasGtk /\ NegotiationTimed
    BY DEF SNoncesFresh, PortNeedsFreshKey, CompletedHasGtk, NegotiationTimed
  <2> QED
    BY <2>1, <2>2, <2>3 DEF KeyDiscipline
<1>2. KeyDiscipline /\ [Next]_vars => KeyDiscipline'
  <2> SUFFICES ASSUME KeyDiscipline, [Next]_vars
               PROVE  KeyDiscipline'
    OBVIOUS
  <2>1. CASE Next
    BY <2>1, AssocStep, UnprotectedStep, PairwiseStep, GroupStep, DroppedStep DEF Next
  <2>2. CASE UNCHANGED vars
    BY <2>2 DEF vars, handshake, keys, history, KeyDiscipline, TypeOK, PtkInstalledOnce,
       TptkUnused, PtkUsesSNonce, InstalledUsesSNonce, SNoncesFresh, PortNeedsFreshKey,
       CompletedHasGtk, NegotiationTimed
  <2> QED
    BY <2>1, <2>2
<1> QED
  BY <1>1, <1>2, PTL DEF Spec

\* The same PTK is only installed once (the comment in
\* wpa_supplicant_verify_eapol_key_mic), in any environment.
THEOREM PtkNeverReinstalled == Spec => []PtkInstalledOnce
<1>1. KeyDiscipline => PtkInstalledOnce
  BY DEF KeyDiscipline
<1> QED
  BY <1>1, KeysDisciplined, PTL

\* The port is open only with a PTK of this association (eapol_sm_notify_portValid
\* after a frame whose MIC is under a key with a new SNonce).
THEOREM PortOpensFresh == Spec => []PortNeedsFreshKey
<1>1. KeyDiscipline => PortNeedsFreshKey
  BY DEF KeyDiscipline
<1> QED
  BY <1>1, KeysDisciplined, PTL

\* A first negotiation always has its authentication timeout registered.
THEOREM NegotiationsTimed == Spec => []NegotiationTimed
<1>1. KeyDiscipline => NegotiationTimed
  BY DEF KeyDiscipline
<1> QED
  BY <1>1, KeysDisciplined, PTL

-----------------------------------------------------------------------------
(* Group keys                                                               *)

\* The key in use is the one installed last, while there is an association.
GtkDiscipline ==
    /\ GtkNotReinstalled
    /\ Associated /\ gtks # <<>> => gtk = gtks[Len(gtks)]

\* wpa_supplicant_install_gtk looks at the key that was installed last.
LEMMA InstallGtkStep ==
    ASSUME KeyDiscipline, GtkDiscipline, Associated, NEW g \in GTKs, InstallGtk(g)
    PROVE  GtkDiscipline'
<1>1. gtks \in Seq(GTKs) /\ gtk' = g
  BY DEF KeyDiscipline, TypeOK, InstallGtk
<1>2. CASE g = gtk
  <2>1. gtks' = gtks
    BY <1>2 DEF InstallGtk, InUse
  <2> QED
    BY <1>1, <1>2, <2>1 DEF GtkDiscipline, GtkNotReinstalled
<1>3. CASE g # gtk
  <2>1. gtks' = Append(gtks, g)
    BY <1>3 DEF InstallGtk, InUse
  <2>2. /\ Len(gtks) \in Nat
        /\ DOMAIN gtks = 1..Len(gtks)
        /\ DOMAIN gtks' = 1..Len(gtks) + 1
        /\ Len(gtks') = Len(gtks) + 1
        /\ \A i \in 1..Len(gtks) : gtks'[i] = gtks[i]
        /\ gtks'[Len(gtks) + 1] = g
    BY <1>1, <2>1
  <2>3. Len(gtks) # 0 => gtks[Len(gtks)] # g
    BY <1>1, <1>3 DEF GtkDiscipline
  <2>4. GtkNotReinstalled'
    <3> SUFFICES ASSUME NEW i \in 1..Len(gtks) + 1, i + 1 \in 1..Len(gtks) + 1
                 PROVE  gtks'[i] # gtks'[i + 1]
      BY <2>2 DEF GtkNotReinstalled
    <3>1. CASE i = Len(gtks)
      BY <2>2, <2>3, <3>1
    <3>2. CASE i # Len(gtks)
      <4>1. Len(gtks) \in Nat
        BY <2>2
      <4>2. i \in 1..Len(gtks) /\ i + 1 \in 1..Len(gtks)
        BY <3>2, <4>1
      <4> QED
        BY <2>2, <4>2 DEF GtkDiscipline, GtkNotReinstalled
    <3> QED
      BY <3>1, <3>2
  <2> QED
    BY <1>1, <2>2, <2>4 DEF GtkDiscipline
<1> QED
  BY <1>2, <1>3

\* Whatever else happens: no group key is installed, and the one in use is forgotten only
\* when the association ends or begins.
LEMMA NoGtkStep ==
    ASSUME GtkDiscipline,
           \/ gtks' = gtks /\ ~Associated'
           \/ gtks' = gtks /\ gtk' = gtk /\ Associated
           \/ gtks' = <<>>
    PROVE  GtkDiscipline'
  BY DEF GtkDiscipline, GtkNotReinstalled

LEMMA GtkStep ==
    ASSUME KeyDiscipline, GtkDiscipline, [Next]_vars
    PROVE  GtkDiscipline'
<1> USE DEF Associated, history, keys, Deauthenticated, Disassociated
<1>1. CASE StartAssoc \/ StartAssocFails \/ EventAssoc \/ EventDisassoc \/ Deauthenticate
  BY <1>1, NoGtkStep DEF StartAssoc, StartAssocFails, EventAssoc, EventDisassoc, Deauthenticate
<1>2. ASSUME NEW ctr \in Counters, NEW nonce \in ANonces, RxEapolUnprotected(ctr, nonce)
      PROVE  GtkDiscipline'
  BY <1>2, NoGtkStep DEF RxEapolUnprotected, Receives, Process1of4, Process1of4Fails
<1>3. ASSUME NEW ctr \in Counters, NEW k \in PTKs, NEW nonce \in ANonces,
             NEW g \in GTKs \cup {NoKey}, NEW install \in BOOLEAN, NEW secure \in BOOLEAN,
             RxEapolPairwise(ctr, k, nonce, g, install, secure)
      PROVE  GtkDiscipline'
  <2>1. CASE Process3of4(Verified(k), nonce, g, install, secure)
    <3>1. g \in GTKs /\ InstallGtk(g) /\ Associated
      BY <1>3, <2>1 DEF Process3of4, RxEapolPairwise, Receives
    <3> QED
      BY <3>1, InstallGtkStep
  <2>2. CASE Process3of4Fails(Verified(k), nonce, install)
    BY <2>2, NoGtkStep DEF Process3of4Fails
  <2> QED
    BY <1>3, <2>1, <2>2 DEF RxEapolPairwise
<1>4. ASSUME NEW ctr \in Counters, NEW k \in PTKs, NEW g \in GTKs, NEW secure \in BOOLEAN,
             RxEapolGroup(ctr, k, g, secure)
      PROVE  GtkDiscipline'
  <2>1. CASE Process1of2(Verified(k), g, secure)
    <3>1. InstallGtk(g) /\ Associated
      BY <1>4, <2>1 DEF Process1of2, RxEapolGroup, Receives
    <3> QED
      BY <3>1, InstallGtkStep
  <2>2. CASE Process1of2Fails(Verified(k))
    BY <2>2, NoGtkStep DEF Process1of2Fails
  <2> QED
    BY <1>4, <2>1, <2>2 DEF RxEapolGroup
<1>5. ASSUME NEW ctr \in Counters, NEW k \in PTKs, RxEapolDropped(ctr, k)
      PROVE  GtkDiscipline'
  BY <1>5, NoGtkStep DEF RxEapolDropped, Receives, DroppedAfterMic
<1>6. CASE UNCHANGED vars
  BY <1>6, NoGtkStep DEF vars
<1> QED
  BY <1>1, <1>2, <1>3, <1>4, <1>5, <1>6 DEF Next

\* The group key in use is not installed again (wpa_supplicant_install_gtk), however 3/4
\* and 1/2 are repeated, delayed and mixed.
THEOREM GtkNeverReinstalled == Spec => []GtkNotReinstalled
<1>1. Init => GtkDiscipline
  BY DEF Init, GtkDiscipline, GtkNotReinstalled
<1>2. KeyDiscipline /\ GtkDiscipline /\ [Next]_vars => GtkDiscipline'
  BY GtkStep
<1>3. GtkDiscipline => GtkNotReinstalled
  BY DEF GtkDiscipline
<1> QED
  BY <1>1, <1>2, <1>3, KeysDisciplined, PTL DEF Spec
===============================================================================
