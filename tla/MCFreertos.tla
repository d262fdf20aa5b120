----------------------------- MODULE MCFreertos -----------------------------
(***************************************************************************)
(* FreertosSupp for TLC: a few events and API calls that work on one       *)
(* timeout, or an event and an API call that work on two.                  *)
(***************************************************************************)
EXTENDS FreertosSupp

CONSTANTS scan, auth

MCIds == {scan, auth}
MCWork == {[ids |-> {scan}, events |-> 2, calls |-> 1],
           [ids |-> {scan, auth}, events |-> 1, calls |-> 1]}
==============================================================================
