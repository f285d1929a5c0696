------------------------------ MODULE MCPorkIo ------------------------------
(* PorkIo for TLC: two objects and one descriptor besides the keyboard's;  *)
(* one node more than sources, so that an address may or may not come back. *)
EXTENDS PorkIo
=============================================================================
