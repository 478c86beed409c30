------------------------------ MODULE Migration ------------------------------
(***************************************************************************)
(* Where a process finds the configuration file, and how the file of an    *)
(* older release moves from the directory of the program to that of the    *)
(* user (resolveConfigPathImpl and migrateConfigFile, config_loader.go),   *)
(* while other processes do the same and the master saves.  Linux and      *)
(* macOS; elsewhere nothing moves.                                         *)
(*                                                                         *)
(* A file is its version.  Saving is one step here and three in Settings.  *)
(* A definition marked "mutant" is not part of the model.                  *)
(***************************************************************************)
EXTENDS Integers

CONSTANTS
  Starters,     \* processes that start
  MaxVersion,   \* bound: versions saved by masters
  MaxStarts     \* bound: starts

None    == -1     \* no file
Default == 0      \* what a process works with that found no file
First   == 1      \* what the older release left
Version == {None, Default} \cup First .. MaxVersion

VARIABLES
  legacy, target, \* the files beside the program and in the user's directory
  linked,         \* both names are one file
  proc,           \* the processes
  master,         \* the one that holds the instance lock
  starts,
  latest,         \* history: what was saved last
  stayed          \* history: someone settled beside the program for a failure

fileVars == <<legacy, target, linked>>
vars == <<fileVars, proc, master, starts, latest, stayed>>

Proc == [pc : {"off", "resolve", "link", "read", "publish", "remove", "load",
               "on"},
         at : {"legacy", "target"}, holds : Version]
Off == [pc |-> "off", at |-> "target", holds |-> None]

TypeOK ==
  /\ legacy \in Version /\ target \in Version /\ linked \in BOOLEAN
  /\ proc \in [Starters -> Proc]
  /\ master \in Starters \cup {"nobody"}
  /\ starts \in 0 .. MaxStarts
  /\ latest \in Version /\ stayed \in BOOLEAN

Init ==
  /\ legacy \in {First, None} /\ target = None /\ linked = FALSE
  /\ proc = [p \in Starters |-> Off] /\ master = "nobody"
  /\ starts = 0 /\ latest = legacy /\ stayed = FALSE

At(p, pc) == proc[p].pc = pc
Go(p, pc) == proc' = [proc EXCEPT ![p].pc = pc]
Settle(p, where) == proc' = [proc EXCEPT ![p].pc = "load", ![p].at = where]

\* The migration fails, and the process stays with the file beside the program.
Stay(p) == Settle(p, "legacy") /\ stayed' = TRUE
Adopt(p) == Settle(p, "target") /\ UNCHANGED stayed
Next1(p, pc) == Go(p, pc) /\ UNCHANGED stayed

Start(p) ==
  /\ At(p, "off") /\ starts < MaxStarts
  /\ starts' = starts + 1 /\ Go(p, "resolve")
  /\ UNCHANGED <<fileVars, master, latest, stayed>>

Resolve(p) ==
  /\ At(p, "resolve")
  /\ IF target = None /\ legacy # None THEN Next1(p, "link") ELSE Adopt(p)
  /\ UNCHANGED <<fileVars, master, starts, latest>>

\* The directory is made and the file linked to its new place.  That fails
\* when there is a file, when the old one has gone, or for another reason, of
\* which another file system is the usual one.
Link(p) ==
  /\ At(p, "link")
  /\ \/ target # None /\ Adopt(p) /\ UNCHANGED fileVars
     \/ target = None /\ legacy = None /\ Stay(p) /\ UNCHANGED fileVars
     \/ /\ target = None /\ legacy # None
        /\ \/ target' = legacy /\ linked' = TRUE /\ Next1(p, "remove")
              /\ UNCHANGED legacy
           \/ Next1(p, "read") /\ UNCHANGED fileVars
           \/ Stay(p) /\ UNCHANGED fileVars
  /\ UNCHANGED <<master, starts, latest>>

\* A copy in the new directory, under a name nobody else uses.
Read(p) ==
  /\ At(p, "read")
  /\ \/ /\ legacy # None /\ UNCHANGED stayed
        /\ proc' = [proc EXCEPT ![p].pc = "publish", ![p].holds = legacy]
     \/ Stay(p)
  /\ UNCHANGED <<fileVars, master, starts, latest>>

\* The copy gets its name by a link, which never replaces a file; a rename
\* would.
PublishOver(p) ==                                                  \* mutant
  /\ At(p, "publish")
  /\ target' = proc[p].holds /\ linked' = FALSE /\ Next1(p, "remove")
  /\ UNCHANGED <<legacy, master, starts, latest>>
Publish(p) ==
  /\ At(p, "publish")
  /\ \/ target # None /\ Adopt(p) /\ UNCHANGED fileVars
     \/ /\ target = None
        /\ target' = proc[p].holds /\ linked' = FALSE /\ Next1(p, "remove")
        /\ UNCHANGED legacy
     \/ target = None /\ Stay(p) /\ UNCHANGED fileVars
  /\ UNCHANGED <<master, starts, latest>>

\* Only who published removes the old file; failing to is no failure.
Remove(p) ==
  /\ At(p, "remove") /\ Adopt(p)
  /\ \/ legacy' = None /\ linked' = FALSE /\ UNCHANGED target
     \/ UNCHANGED fileVars
  /\ UNCHANGED <<master, starts, latest>>

FileAt(p) == IF proc[p].at = "target" THEN target ELSE legacy

Load(p) ==
  /\ At(p, "load")
  /\ proc' = [proc EXCEPT ![p].pc = "on",
                          ![p].holds = IF FileAt(p) = None THEN Default
                                       ELSE FileAt(p)]
  /\ UNCHANGED <<fileVars, master, starts, latest, stayed>>

Save(p, v) ==
  /\ IF proc[p].at = "target"
     THEN target' = v /\ legacy' = IF linked THEN v ELSE legacy
     ELSE legacy' = v /\ target' = IF linked THEN v ELSE target
  /\ latest' = v
  /\ UNCHANGED linked

\* The lock is free: p becomes the master and saves what it had loaded.
BecomeMaster(p) ==
  /\ At(p, "on") /\ master = "nobody"
  /\ master' = p /\ Save(p, proc[p].holds)
  /\ UNCHANGED <<proc, starts, stayed>>

\* The settings change.
SaveNew(p) ==
  /\ At(p, "on") /\ master = p
  /\ \E v \in First + 1 .. MaxVersion : v > latest /\ Save(p, v)
  /\ UNCHANGED <<proc, master, starts, stayed>>

\* The process ends, wherever it is; a copy it was making is left behind.
End(p) ==
  /\ ~At(p, "off")
  /\ proc' = [proc EXCEPT ![p] = Off]
  /\ master' = IF master = p THEN "nobody" ELSE master
  /\ UNCHANGED <<fileVars, starts, latest, stayed>>

Next ==
  \E p \in Starters :
     \/ Start(p) \/ Resolve(p) \/ Link(p) \/ Read(p) \/ Publish(p)
     \/ Remove(p) \/ Load(p) \/ BecomeMaster(p) \/ SaveNew(p) \/ End(p)

-----------------------------------------------------------------------------
\* At any moment, whoever starts finds what was saved last, or what the older
\* release left: the move neither loses a file nor replaces one that appeared
\* meanwhile, for every order of processes, crashes and saves, unless a failure
\* made a process stay beside the program (config_loader.go:193-265).
LatestFound ==
  ~stayed => (IF target # None THEN target ELSE legacy) = latest

=============================================================================
