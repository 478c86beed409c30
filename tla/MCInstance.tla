----------------------------- MODULE MCInstance -----------------------------
(***************************************************************************)
(* A small instance of each part of Instance.                              *)
(***************************************************************************)
EXTENDS Instance

CONSTANTS m1, t1, pg, tk, bt, p1, p2, b1

MCMenus == {m1}
MCTools == {t1}
MCPorts == {p1, p2}
MCBauds == {b1}
MCSize  == [s \in Saved |-> IF s.port = p2 THEN 2 ELSE 1]
MCFirst == {Nothing, [port |-> p1, baud |-> b1, auto |-> TRUE]}

=============================================================================
