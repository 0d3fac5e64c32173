------------------------------ MODULE MCExits -------------------------------
(* The exits of a position with prices small enough for TLC. *)
EXTENDS Exits

MCProfits == {-4, 0, 4, 8, 12}
MCSl == -4
=============================================================================
