--------------------------- MODULE MCSerialManager ---------------------------
(***************************************************************************)
(* A small instance of SerialManager: two port names, one USB adapter that *)
(* may move between them, two other settings a user may choose.            *)
(***************************************************************************)
EXTENDS SerialManager, TLC

CONSTANTS p1, p2, b1, b2, usbA, plain

MCPorts  == {p1, p2}
MCPort   == {p1}
MCBauds  == {b1, b2}
MCBaud   == {b1}
MCIdents == {usbA, plain}

\* The adapter is behind one name, the other, or unplugged.
Unplugged == [p \in MCPorts |-> Absent]
MCLayouts == {Unplugged, [Unplugged EXCEPT ![p1] = usbA],
              [Unplugged EXCEPT ![p2] = usbA]}
\* It is behind the only name, or unplugged.
MCPlugs   == {[p \in MCPort |-> Absent], [p \in MCPort |-> usbA]}

Symmetry  == Permutations(MCPorts) \cup Permutations(MCBauds)
=============================================================================
