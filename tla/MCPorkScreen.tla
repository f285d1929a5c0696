---------------------------- MODULE MCPorkScreen ----------------------------
(* Small instances of PorkScreen for TLC.  The windows other than the      *)
(* status window are interchangeable.                                      *)
EXTENDS PorkScreen

Symmetry == Permutations(Windows \ {StatusWin})
=============================================================================
