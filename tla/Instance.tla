------------------------------ MODULE Instance ------------------------------
(***************************************************************************)
(* Settings and five modules about files, logs and the end of a process,   *)
(* which share no state with it: each behaviour is one of one module,      *)
(* chosen at the start.                                                    *)
(***************************************************************************)
EXTENDS Settings

CONSTANTS Starters, MaxVersion, MaxStarts,           \* Migration
          Upgraders, Docs, MaxUninstalls,            \* InstallDir
          MaxEdits, MaxRuns,                         \* ClientFile
          Sizes, MaxContent, MaxAdds, MaxFlushes     \* LogWindow

VARIABLES
  part,   \* which module this behaviour is of
  legacy, target, linked, proc, master, starts, latest, stayed,
  windows, exe, backup, temp, docs, scripts, state, entries, up, deleting, un,
  uninstalls, removed, finished, stripped,
  client, setup, remover, runs, edits, raced,
  count, total, shown, truncated, timer, epoch, armed, callbacks, adds,
  flushes, age, pieces, bytes, lines, cut,
  now, services, closeWaits, main, worker, due, flusher, flushDue, writer,
  output, forced, told, held

Moving   == INSTANCE Migration
Dir      == INSTANCE InstallDir
Client   == INSTANCE ClientFile
Window   == INSTANCE LogWindow
Stop     == INSTANCE Stopping

ASSUME MovingAssumption ==
  /\ "nobody" \notin Starters
  /\ MaxVersion \in Nat /\ MaxVersion >= Moving!First /\ MaxStarts \in Nat
ASSUME DirAssumption ==
  /\ Docs \cap Upgraders = {} /\ Docs \cap Dir!Launchers = {}
  /\ MaxUninstalls \in Nat
ASSUME ClientAssumption == MaxEdits \in Nat /\ MaxRuns \in Nat
ASSUME WindowAssumption ==
  /\ Sizes \subseteq Nat /\ MaxContent \in Nat
  /\ MaxAdds \in Nat /\ MaxFlushes \in Nat

Parts == {"settings", "moving", "dir", "client", "window", "stop"}

AllInit ==
  /\ part \in Parts
  /\ Init /\ Moving!Init /\ Dir!Init /\ Client!Init /\ Window!Init /\ Stop!Init
  \* One start for those the behaviour is not of.
  /\ part # "settings" => file = Nothing
  /\ part # "moving" => legacy = Moving!None
  /\ part # "dir" => scripts = {} /\ windows
  /\ part # "client" => client.entry /\ client.flat
  /\ part # "stop" => services /\ ~closeWaits
movingVars == <<legacy, target, linked, proc, master, starts, latest, stayed>>
dirVars    == <<windows, exe, backup, temp, docs, scripts, state, entries, up,
                deleting, un, uninstalls, removed, finished, stripped>>
clientVars == <<client, setup, remover, runs, edits, raced>>
windowVars == <<count, total, shown, truncated, timer, epoch, armed, callbacks,
                adds, flushes, age, pieces, bytes, lines, cut>>
stopVars   == <<now, services, closeWaits, main, worker, due, flusher,
                flushDue, writer, output, forced, told, held>>
fileVars   == <<movingVars, dirVars, clientVars>>

SettingsNext == /\ part = "settings" /\ Next
                /\ UNCHANGED <<fileVars, windowVars, stopVars>>
MovingNext   == /\ part = "moving" /\ Moving!Next
                /\ UNCHANGED <<vars, dirVars, clientVars, windowVars, stopVars>>
DirNext      == /\ part = "dir" /\ Dir!Next
                /\ UNCHANGED <<vars, movingVars, clientVars, windowVars, stopVars>>
ClientNext   == /\ part = "client" /\ Client!Next
                /\ UNCHANGED <<vars, movingVars, dirVars, windowVars, stopVars>>
WindowNext   == /\ part = "window" /\ Window!Next
                /\ UNCHANGED <<vars, fileVars, stopVars>>
StopNext     == /\ part = "stop" /\ Stop!Next
                /\ UNCHANGED <<vars, fileVars, windowVars>>

AllNext == /\ UNCHANGED part
           /\ \/ SettingsNext \/ MovingNext \/ DirNext \/ ClientNext
              \/ WindowNext \/ StopNext
AllSpec == AllInit /\ [][AllNext]_<<part, vars, fileVars, windowVars, stopVars>>

-----------------------------------------------------------------------------
\* All states are of their types.
TypesOK == /\ TypeOK /\ Moving!TypeOK /\ Dir!TypeOK /\ Client!TypeOK
           /\ Window!TypeOK /\ Stop!TypeOK

\* No part that hangs keeps the process from ending in time, unless it is a
\* write to the log file that closeLogger waits for (serve.go:311, 353).
StopsInTime == Stop!StopsInTime

\* What users keep in files survives: the configuration when it moves, and
\* the configurations of MCP clients (config_loader.go:193, mcpsetup.go:253).
UserFilesKept == Moving!LatestFound /\ Client!EditsKept

\* After any upgrade or uninstall that failed or was killed the program and
\* the way to repeat it are there (upgrade.go:348, uninstall.go:490).
ProgramRecoverable == Dir!ProgramRecoverable

\* Nothing is lost or doubled in the data logs (logagg.go:101-118).
LogsComplete == Window!LogsComplete
=============================================================================
