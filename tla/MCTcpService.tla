---------------------------- MODULE MCTcpService ----------------------------
(* Small instances of TcpService: sockets and loops are interchangeable. *)
EXTENDS TcpService, TLC

Symmetry == Permutations(Socks) \cup Permutations(Loops)
=============================================================================
