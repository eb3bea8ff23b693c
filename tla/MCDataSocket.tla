---------------------------- MODULE MCDataSocket ----------------------------
(* Small instances of DataSocket. *)
EXTENDS DataSocket, TLC
=============================================================================
