----------------------------- MODULE MCDataPath -----------------------------
(***************************************************************************)
(* Small instances of DataPath.                                            *)
(***************************************************************************)
EXTENDS DataPath, TLC

CONSTANTS p1, p2, r1, r2

MCPages   == {p1, p2}
MCPage    == {p1}
MCReaders == {r1, r2}
MCReader  == {r1}

\* The MCP side and the pages meet in forwardLoop only: the run explores one
\* of them with the other at rest.
Buffered == Len(sent) - Len(serial)
            - (IF forward.pc = "broadcast" THEN 1 ELSE 0)
OneSide == \/ \A p \in Pages : page[p].pc = "off"
           \/ /\ taken = <<>> /\ \A r \in Readers : reader[r].pc = "idle"
              /\ buffer # <<>> \/ Buffered = 0

Symmetry  == Permutations(MCPages) \cup Permutations(MCReaders)
=============================================================================
