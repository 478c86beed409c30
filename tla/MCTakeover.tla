----------------------------- MODULE MCTakeover -----------------------------
(***************************************************************************)
(* Small instances of Takeover: two processes started with --stdio, one in *)
(* the foreground, two TCP ports.                                          *)
(***************************************************************************)
EXTENDS Takeover, TLC

CONSTANTS s1, s2, fg

MCProcs  == {s1, s2, fg}
MCStdio  == {s1, s2}
Symmetry == Permutations(MCStdio)
=============================================================================
