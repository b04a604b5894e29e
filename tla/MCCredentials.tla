---------------------------- MODULE MCCredentials ----------------------------
(* Two signing keys: one rotation back and forth. *)
EXTENDS Credentials

CONSTANTS k1, k2

TwoKeys == {k1, k2}
OneKey == {k1}
=============================================================================
