----------------------------- MODULE MCWpaAuth -----------------------------
(***************************************************************************)
(* The configurations of the authenticator that TLC goes through.          *)
(***************************************************************************)
EXTENDS WpaAuth

Conf(pairwise, groupwise, keys, counter, events) ==
    [wpa_pairwise_update_count |-> pairwise, wpa_group_update_count |-> groupwise,
     MaxGtk |-> keys, MaxCtr |-> counter, Events |-> events]

\* Everything that may happen beside the handshakes, without retransmissions; and
\* retransmissions, so that an SNonce may change between two 2/4, with requests or
\* rekeyings of the PTK.
StationConfs ==
    {Conf(1, 1, 3, 3, {"rekey_ptk", "reassoc", "disassoc", "fail"}),
     Conf(1, 1, 3, 3, {"rekey_ptk", "reassoc", "remove", "wnm"}),
     Conf(1, 1, 3, 3, {"request", "reassoc", "fail"}),
     Conf(2, 1, 2, 4, {"request"}),
     Conf(2, 1, 3, 4, {"rekey_ptk"})}

\* What a rekeying of the group has to cope with; in the second, also what may
\* keep it, or a 4-way handshake, from its end.
GroupConfs ==
    {Conf(1, 1, 4, 3, {"reassoc", "disassoc"}),
     Conf(1, 1, 3, 3, {"rekey_ptk", "remove"})}
============================================================================
