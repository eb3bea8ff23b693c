------------------------------ MODULE MCPacket ------------------------------
(* Packets with an empty and a short byte string. *)
EXTENDS Packet

Binaries == {<<>>, <<7, 9>>}
=============================================================================
