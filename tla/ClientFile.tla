------------------------------ MODULE ClientFile ------------------------------
(***************************************************************************)
(* The configuration file of an MCP client, which the client itself edits  *)
(* at any time: mcp-setup puts an entry for this program into it           *)
(* (mergeJSON, mcpsetup.go), uninstall takes it out (uninstallJSON and     *)
(* writeFileAtomic, pkg/mcpsetup/uninstall.go).                            *)
(*                                                                         *)
(* A file is the client's own part, a version, and whether the entry is in *)
(* it, and the entry in the place where v0.5.0 put that of OpenCode.       *)
(***************************************************************************)
EXTENDS Integers

CONSTANTS
  MaxEdits,   \* bound: edits of the client
  MaxRuns     \* bound: runs of mcp-setup and uninstall

Lost == [own |-> -1, entry |-> FALSE, flat |-> FALSE] \* empty, or cut short
Content == [own : 0 .. MaxEdits, entry : BOOLEAN, flat : BOOLEAN] \cup {Lost}

VARIABLES
  client,    \* the file
  setup,     \* mcp-setup
  remover,   \* uninstall
  runs,
  edits,     \* history: the client's own part, as the client saved it last
  raced      \* history: an edit fell where nothing guards it, or a write failed

vars == <<client, setup, remover, runs, edits, raced>>

Setup   == [pc : {"idle", "confirm", "write", "sweep", "rewrite"},
            read : Content]
Remover == [pc : {"idle", "temp", "replace"}, read : Content]

TypeOK ==
  /\ client \in Content /\ setup \in Setup /\ remover \in Remover
  /\ runs \in 0 .. MaxRuns /\ edits \in 0 .. MaxEdits /\ raced \in BOOLEAN

Init ==
  /\ client \in [own : {0}, entry : BOOLEAN, flat : BOOLEAN]
  /\ setup = [pc |-> "idle", read |-> client] /\ remover = setup
  /\ runs = 0 /\ edits = 0 /\ raced = FALSE

\* Times at which a save of the client is not noticed any more.
Unguarded == \/ setup.pc \in {"confirm", "write", "rewrite"}
             \/ remover.pc = "replace"

\* The client saves: it keeps the entries it has read, or drops them.
Edit ==
  /\ edits < MaxEdits /\ edits' = edits + 1
  /\ client' \in [own : {edits'}, entry : {client.entry, FALSE},
                  flat : {client.flat, FALSE}]
  /\ raced' = (raced \/ Unguarded)
  /\ UNCHANGED <<setup, remover, runs>>

-----------------------------------------------------------------------------
(* mcp-setup.                                                               *)

\* A file that is not there, is blank or does not parse is left alone; an
\* entry that is there needs a confirmation.
SetupRead ==
  /\ setup.pc = "idle" /\ runs < MaxRuns /\ runs' = runs + 1
  /\ client # Lost
  /\ setup' = [pc |-> IF client.entry THEN "confirm" ELSE "write",
               read |-> client]
  /\ UNCHANGED <<client, remover, edits, raced>>

SetupConfirm ==
  /\ setup.pc = "confirm"
  /\ \E pc \in {"idle", "write"} : setup' = [setup EXCEPT !.pc = pc]
  /\ UNCHANGED <<client, remover, runs, edits, raced>>

\* os.WriteFile: whatever is in the file is replaced, and lost if this fails.
WriteFile(content) ==
  \/ client' = content /\ UNCHANGED raced
  \/ client' = Lost /\ raced' = TRUE
  \/ UNCHANGED <<client, raced>>

\* For OpenCode, what v0.5.0 wrote is looked for once the new entry is there.
SetupWrite ==
  /\ setup.pc = "write" /\ WriteFile([setup.read EXCEPT !.entry = TRUE])
  /\ \E pc \in {"idle", "sweep"} : setup' = [setup EXCEPT !.pc = pc]
  /\ UNCHANGED <<remover, runs, edits>>

SetupSweep ==
  /\ setup.pc = "sweep"
  /\ setup' = IF client.flat THEN [pc |-> "rewrite", read |-> client]
              ELSE [setup EXCEPT !.pc = "idle"]
  /\ UNCHANGED <<client, remover, runs, edits, raced>>

SetupRewrite ==
  /\ setup.pc = "rewrite" /\ WriteFile([setup.read EXCEPT !.flat = FALSE])
  /\ setup' = [setup EXCEPT !.pc = "idle"]
  /\ UNCHANGED <<remover, runs, edits>>

-----------------------------------------------------------------------------
(* uninstall.                                                               *)

RemoverRead ==
  /\ remover.pc = "idle" /\ runs < MaxRuns /\ runs' = runs + 1
  /\ client.entry
  /\ remover' = [pc |-> "temp", read |-> client]
  /\ UNCHANGED <<client, setup, edits, raced>>

\* The new text is in a file of its own, and the old one is read again: if it
\* changed, nothing is replaced.
Same == client = remover.read

RemoverCompare ==
  /\ remover.pc = "temp"
  /\ \/ Same /\ remover' = [remover EXCEPT !.pc = "replace"]
     \/ remover' = [remover EXCEPT !.pc = "idle"]
  /\ UNCHANGED <<client, setup, runs, edits, raced>>

RemoverReplace ==
  /\ remover.pc = "replace" /\ remover' = [remover EXCEPT !.pc = "idle"]
  /\ client' \in {client, [remover.read EXCEPT !.entry = FALSE]}
  /\ UNCHANGED <<setup, runs, edits, raced>>

Next == \/ Edit \/ SetupRead \/ SetupConfirm \/ SetupWrite \/ SetupSweep
        \/ SetupRewrite
        \/ RemoverRead \/ RemoverCompare \/ RemoverReplace

-----------------------------------------------------------------------------
\* What the client saved last is in its file, whatever mcp-setup and uninstall
\* do meanwhile and wherever they fail, unless the client saved while mcp-setup
\* held what it had read or between the comparison and the rename of uninstall,
\* or the write of mcp-setup failed (mcpsetup.go:253, uninstall.go:170-180).
EditsKept == ~raced => client.own = edits

=============================================================================
