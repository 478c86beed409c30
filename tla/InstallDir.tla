------------------------------ MODULE InstallDir ------------------------------
(***************************************************************************)
(* The program and the files that came with it: serialhub upgrade          *)
(* (upgrade.go) and serialhub uninstall (uninstall.go), which may run at   *)
(* the same time, fail at any file and be killed between any two.          *)
(*                                                                         *)
(* A download is what it contains.  Whether an instance is running is in   *)
(* Takeover.  A definition marked "mutant" is not part of the model.       *)
(***************************************************************************)
EXTENDS Integers, FiniteSets

CONSTANTS
  Upgraders,     \* runs of serialhub upgrade
  Docs,          \* documents that come with a release
  MaxUninstalls  \* bound: runs of serialhub uninstall

Launchers == {"launcher", "legacy"}   \* the present names, those up to v0.5.1
Programs  == {"none", "old", "new", "bad", "part"}
Files     == Docs \cup Upgraders \cup Launchers  \* a backup has its upgrader's name

VARIABLES
  windows,    \* which of the two platforms
  exe,        \* the program
  backup,     \* serialhub.exe.old-<time>, one for each upgrader
  temp,       \* .serialhub-new-*
  docs, scripts, \* files of the release that are there
  state,      \* configuration and logs are there
  entries,    \* entries in configurations of MCP clients are there
  up,         \* the upgrades
  deleting,   \* upgrades whose backup a helper process will delete
  un,         \* the uninstall
  uninstalls,
  removed,    \* history: an uninstall removed the program or a backup
  finished,   \* history: an uninstall got to the program
  stripped    \* history: an upgrade took the last mark of the directory

dirVars == <<windows, exe, backup, temp, docs, scripts, state, entries>>
upVars  == <<up, deleting>>
unVars  == <<un, uninstalls, removed, finished>>
vars    == <<dirVars, upVars, unVars, stripped>>

Up == [pc : {"idle", "pick", "download", "prepare", "write", "swap", "install",
             "rollback", "tidy", "done"},
       got : {"new", "bad"}, sum : {"new", "empty"}]
Un == [pc : {"idle", "entries", "state", "list", "remove", "binary", "late"},
       layout : BOOLEAN, failed : BOOLEAN, manual : BOOLEAN,
       todo : SUBSET Files]

TypeOK ==
  /\ windows \in BOOLEAN /\ exe \in Programs
  /\ backup \in [Upgraders -> Programs] /\ temp \in [Upgraders -> Programs]
  /\ docs \subseteq Docs /\ scripts \subseteq Launchers
  /\ {state, entries, removed, finished, stripped} \subseteq BOOLEAN
  /\ up \in [Upgraders -> Up] /\ deleting \subseteq Upgraders
  /\ un \in Un /\ uninstalls \in 0 .. MaxUninstalls

\* A directory a release was unpacked into, or a program put somewhere.
Init ==
  /\ windows \in BOOLEAN /\ exe = "old"
  /\ backup = [u \in Upgraders |-> "none"] /\ temp = backup
  /\ scripts \in {{}, {"launcher"}, {"legacy"}}
  /\ docs = IF scripts = {} THEN {} ELSE Docs
  /\ state = TRUE /\ entries = TRUE
  /\ up = [u \in Upgraders |-> [pc |-> "idle", got |-> "new", sum |-> "new"]]
  /\ deleting = {}
  /\ un = [pc |-> "idle", layout |-> FALSE, failed |-> FALSE, manual |-> FALSE,
           todo |-> {}]
  /\ uninstalls = 0 /\ removed = FALSE /\ finished = FALSE /\ stripped = FALSE

Backups(b) == {u \in Upgraders : b[u] # "none"}

\* hasInstallLayout: a launcher or a backup marks the directory.
HasLayout(s, b) == s # {} \/ Backups(b) # {}

-----------------------------------------------------------------------------
(* serialhub upgrade.                                                       *)

UpAt(u, pc) == up[u].pc = pc
UpGo(u, pc) == up' = [up EXCEPT ![u].pc = pc]
Done       == [pc |-> "done", got |-> "new", sum |-> "new"]
End(u)      == up' = [up EXCEPT ![u] = Done]
GiveUp(u)   == End(u) /\ temp' = [temp EXCEPT ![u] = "none"]

\* A step of an upgrade may take the last mark with it.
Strips ==
  stripped' = (\/ stripped
               \/ /\ docs # {} /\ HasLayout(scripts, backup)
                  /\ ~HasLayout(scripts', backup'))

\* The newest release is looked for.
Fetch(u) ==
  /\ UpAt(u, "idle") /\ exe # "none"
  /\ \E pc \in {"pick", "done"} : UpGo(u, pc)
  /\ UNCHANGED <<dirVars, deleting, unVars, stripped>>

\* compareVersion, of the release and the program that runs.
Newer == exe = "old"

\* A release that is no news ends it, and one without an archive for this
\* platform and its checksum.
PickAssets(u) ==
  /\ UpAt(u, "pick")
  /\ \/ Newer /\ UpGo(u, "download")
     \/ UpGo(u, "done")
  /\ UNCHANGED <<dirVars, deleting, unVars, stripped>>

\* The archive and its checksum.
Download(u) ==
  /\ UpAt(u, "download")
  /\ \/ \E got \in {"new", "bad"}, sum \in {"new", "empty"} :
          up' = [up EXCEPT ![u] = [pc |-> "prepare", got |-> got, sum |-> sum]]
     \/ UpGo(u, "done")
  /\ UNCHANGED <<dirVars, deleting, unVars, stripped>>

\* verifySHA256.
Verified(u) == up[u].sum # "empty" /\ up[u].got = up[u].sum

\* The program is verified, taken out of the archive and given a file.
Prepare(u) ==
  /\ UpAt(u, "prepare")
  /\ \/ /\ Verified(u)
        /\ up' = [up EXCEPT ![u].pc = "write", ![u].sum = "new"]
        /\ temp' = [temp EXCEPT ![u] = "part"]
     \/ GiveUp(u)
  /\ UNCHANGED <<windows, exe, backup, docs, scripts, state, entries, deleting,
                 unVars, stripped>>

Write(u) ==
  /\ UpAt(u, "write")
  /\ \/ temp' = [temp EXCEPT ![u] = up[u].got] /\ UpGo(u, "swap")
     \/ GiveUp(u)
  /\ UNCHANGED <<windows, exe, backup, docs, scripts, state, entries, deleting,
                 unVars, stripped>>

\* One rename replaces the program, except on Windows, where a program that
\* runs has to be moved aside first.
Swap(u) ==
  /\ UpAt(u, "swap")
  /\ \/ /\ ~windows /\ UpGo(u, "tidy")
        /\ exe' = temp[u] /\ temp' = [temp EXCEPT ![u] = "none"]
        /\ UNCHANGED backup
     \/ /\ windows /\ exe # "none" /\ UpGo(u, "install")
        /\ backup' = [backup EXCEPT ![u] = exe] /\ exe' = "none"
        /\ UNCHANGED temp
     \/ GiveUp(u) /\ UNCHANGED <<exe, backup>>
  /\ UNCHANGED <<windows, docs, scripts, state, entries, deleting, unVars,
                 stripped>>

Install(u) ==
  /\ UpAt(u, "install")
  /\ \/ /\ exe' = temp[u] /\ temp' = [temp EXCEPT ![u] = "none"]
        /\ UpGo(u, "tidy")
        /\ deleting' \in {deleting, deleting \cup {u}}
     \/ UpGo(u, "rollback") /\ UNCHANGED <<exe, temp, deleting>>
  /\ UNCHANGED <<windows, backup, docs, scripts, state, entries, unVars,
                 stripped>>

\* The backup is put back; if that fails too, it stays and the user is told.
Rollback(u) ==
  /\ UpAt(u, "rollback") /\ GiveUp(u)
  /\ \/ /\ backup[u] # "none"
        /\ exe' = backup[u] /\ backup' = [backup EXCEPT ![u] = "none"]
     \/ UNCHANGED <<exe, backup>>
  /\ UNCHANGED <<windows, docs, scripts, state, entries, deleting, unVars>>
  /\ Strips

\* The helper process deletes the backup.
DeleteBackup(u) ==
  /\ u \in deleting /\ deleting' = deleting \ {u}
  /\ backup' = [backup EXCEPT ![u] = "none"]
  /\ UNCHANGED <<windows, exe, temp, docs, scripts, state, entries, up, unVars>>
  /\ Strips

\* cleanupLegacyLaunchers.
Tidy(u) ==
  /\ UpAt(u, "tidy") /\ End(u)
  /\ scripts' \in {scripts, scripts \ {"legacy"}}
  /\ UNCHANGED <<windows, exe, backup, temp, docs, state, entries, deleting,
                 unVars>>
  /\ Strips

\* The upgrade is killed, and leaves everything where it is.
Kill(u) ==
  /\ up[u].pc \notin {"idle", "done"} /\ End(u)
  /\ UNCHANGED <<dirVars, deleting, unVars, stripped>>

Upgrade(u) ==
  \/ Fetch(u) \/ PickAssets(u) \/ Download(u) \/ Prepare(u) \/ Write(u)
  \/ Swap(u) \/ Install(u) \/ Rollback(u) \/ DeleteBackup(u) \/ Tidy(u) \/ Kill(u)

-----------------------------------------------------------------------------
(* serialhub uninstall: entries, state, files of the release, the program.  *)

UnAt(pc) == un.pc = pc
UnGo(pc) == un' = [un EXCEPT !.pc = pc]
Fail(pc) == un' = [un EXCEPT !.pc = pc, !.failed = TRUE]
restVars == <<windows, exe, backup, temp, docs, scripts, uninstalls, removed,
              finished, upVars, stripped>>

\* buildUninstallActions decides here whether there are files to remove.
Begin ==
  /\ UnAt("idle") /\ exe # "none" /\ uninstalls < MaxUninstalls
  /\ uninstalls' = uninstalls + 1
  /\ un' = [pc |-> "entries", layout |-> HasLayout(scripts, backup),
            failed |-> FALSE, manual |-> un.manual, todo |-> {}]
  /\ UNCHANGED <<dirVars, upVars, removed, finished, stripped>>

\* Where a client's own program is missing, the user is told what to do.
RemoveEntries ==
  /\ UnAt("entries")
  /\ \/ entries' = FALSE /\ UnGo("state")
     \/ un' = [un EXCEPT !.pc = "state", !.manual = TRUE] /\ UNCHANGED entries
     \/ Fail("state") /\ UNCHANGED entries
  /\ UNCHANGED <<restVars, state>>

AfterState == IF un.layout THEN "list" ELSE "binary"
RemoveState ==
  /\ UnAt("state")
  /\ \/ state' = FALSE /\ UnGo(AfterState)
     \/ state' \in BOOLEAN /\ (state' => state) /\ Fail(AfterState)
  /\ UNCHANGED <<restVars, entries>>

\* removeInstallDirExtrasIn looks once more, and lists what is there.
List ==
  /\ UnAt("list")
  /\ un' = IF HasLayout(scripts, backup)
           THEN [un EXCEPT !.pc = "remove",
                           !.todo = docs \cup Backups(backup) \cup scripts]
           ELSE [un EXCEPT !.pc = "binary"]
  /\ UNCHANGED <<restVars, state, entries>>

\* Documents first, then backups, then launchers.
AnyOrder(f) == f \in un.todo                                       \* mutant
Turn(f) ==
  /\ f \in un.todo
  /\ f \notin Docs => un.todo \cap Docs = {}
  /\ f \in Launchers => un.todo \subseteq Launchers

\* The first failure ends the removal, so that what marks the directory stays.
RemoveFile(f) ==
  /\ UnAt("remove") /\ Turn(f)
  /\ \/ /\ un' = [un EXCEPT !.todo = @ \ {f}]
        /\ docs' = docs \ {f} /\ scripts' = scripts \ {f}
        /\ backup' = [u \in Upgraders |-> IF u = f THEN "none" ELSE backup[u]]
        /\ removed' = (removed \/ f \in Upgraders)
     \/ /\ un' = [un EXCEPT !.pc = "binary", !.failed = TRUE, !.todo = {}]
        /\ UNCHANGED <<docs, scripts, backup, removed>>
  /\ UNCHANGED <<windows, exe, temp, state, entries, uninstalls, finished,
                 upVars, stripped>>

FilesRemoved ==
  /\ UnAt("remove") /\ un.todo = {} /\ UnGo("binary")
  /\ UNCHANGED <<restVars, state, entries>>

\* The program goes last, and only if nothing failed.  On Windows a helper
\* process deletes it when the uninstall has ended.
RemoveProgram ==
  /\ exe' = "none" /\ removed' = TRUE /\ finished' = TRUE /\ UnGo("idle")
  /\ UNCHANGED <<windows, backup, temp, docs, scripts, state, entries,
                 uninstalls, upVars, stripped>>

Binary ==
  /\ UnAt("binary")
  /\ \/ ~un.failed /\ RemoveProgram
     \/ /\ un.failed \/ exe # "none"
        /\ UnGo(IF windows /\ ~un.failed THEN "late" ELSE "idle")
        /\ UNCHANGED <<restVars, state, entries>>

LateRemove == UnAt("late") /\ RemoveProgram

\* The uninstall is killed.
KillUninstall ==
  /\ ~UnAt("idle") /\ UnGo("idle")
  /\ UNCHANGED <<restVars, state, entries>>

Uninstall ==
  \/ Begin \/ RemoveEntries \/ RemoveState \/ List \/ FilesRemoved \/ Binary
  \/ LateRemove \/ KillUninstall
  \/ \E f \in Files : RemoveFile(f)

Next == Uninstall \/ \E u \in Upgraders : Upgrade(u)

-----------------------------------------------------------------------------
\* Until an uninstall removes it, the program or a backup of it is there, and
\* what is in its place is whole and verified, however many upgrades run,
\* fail, roll back or are killed (upgrade.go:344-392).
ProgramThere ==
  /\ exe = "none" => removed \/ Backups(backup) # {}
  /\ exe \in {"none", "old", "new"}

\* While documents of the release are left, the directory can be told from
\* one that is none of this program's, so an uninstall that failed or was
\* killed can be repeated; unless an upgrade took the last mark
\* (uninstall.go:490-545).
Recognised == docs # {} /\ ~stripped => HasLayout(scripts, backup)

\* An uninstall that got to the program left nothing of the release, no
\* settings and no entries except those the user was told of
\* (uninstall.go:108-126).
NothingStranded ==
  finished /\ ~stripped =>
    docs = {} /\ scripts = {} /\ ~state /\ (entries => un.manual)

ProgramRecoverable == ProgramThere /\ Recognised /\ NothingStranded

=============================================================================
