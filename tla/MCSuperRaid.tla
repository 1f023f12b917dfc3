---------------------------- MODULE MCSuperRaid ----------------------------
(* Model-checking instance of SuperRaid.                                   *)
EXTENDS SuperRaid
=============================================================================
