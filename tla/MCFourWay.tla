----------------------------- MODULE MCFourWay -----------------------------
(***************************************************************************)
(* The configurations of the authenticator that TLC goes through together  *)
(* with a supplicant.                                                      *)
(***************************************************************************)
EXTENDS FourWay

Conf(pairwise, groupwise, keys, events) ==
    [wpa_pairwise_update_count |-> pairwise, wpa_group_update_count |-> groupwise,
     MaxGtk |-> keys, MaxCtr |-> 5, Events |-> events]

\* Associations that follow one another; retransmissions and a rekeying of the PTK;
\* several rekeyings of the group with retransmissions.
ApConfs ==
    {Conf(1, 1, 3, {"reassoc", "rekey_ptk", "disassoc"}),
     Conf(2, 1, 3, {"rekey_ptk"}),
     Conf(1, 2, 4, {})}
============================================================================
