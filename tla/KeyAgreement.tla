---------------------------- MODULE KeyAgreement ----------------------------
(***************************************************************************)
(* What the 4-way handshake is for, without messages, counters, timers and *)
(* state machines: the two sides come to use the same pairwise keys.  A    *)
(* key is a pair, the number of the authenticator's nonce and that of the  *)
(* supplicant's.                                                           *)
(***************************************************************************)
EXTENDS Naturals

CONSTANT PTKs

VARIABLES
    confirmed,    \* the keys that the supplicant has confirmed
    staKeys,      \* the keys that it has installed
    apKeys        \* the keys that the authenticator has installed

vars == <<confirmed, staKeys, apKeys>>

Init ==
    /\ confirmed = {}
    /\ staKeys = {}
    /\ apKeys = {}

\* The supplicant confirms a key made with a fresh nonce, and installs it now or
\* never.
Confirm(k) ==
    /\ \A j \in confirmed : j[2] < k[2]
    /\ confirmed' = confirmed \cup {k}
    /\ staKeys' \in {staKeys, staKeys \cup {k}}
    /\ UNCHANGED apKeys

\* The authenticator installs a key that was confirmed, and never goes back to an
\* earlier one.
Install(k) ==
    /\ k \in confirmed
    /\ \A j \in apKeys : j[1] < k[1]
    /\ apKeys' = apKeys \cup {k}
    /\ UNCHANGED <<confirmed, staKeys>>

Next == \E k \in PTKs : Confirm(k) \/ Install(k)

Spec == Init /\ [][Next]_vars
=============================================================================
