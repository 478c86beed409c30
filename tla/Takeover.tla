------------------------------ MODULE Takeover ------------------------------
(***************************************************************************)
(* internal/instance/instance.go and the serve modes of                    *)
(* cmd/serialhub/serve.go: several processes started by one user, of which *)
(* the one that holds the lock on the instance file is the master and the  *)
(* others are proxies to it, take over when it dies, or give up.           *)
(*                                                                         *)
(* The lock is an OS lock on an open file: a file has at most one holder,  *)
(* and a holder that dies lets go.  Metadata in the file are written under *)
(* the lock, truncated first, and read without it.  A definition marked     *)
(* "mutant" is not part of the model, see SerialManager.                   *)
(***************************************************************************)
EXTENDS Integers

CONSTANTS
  Procs,         \* processes
  Stdio,         \* those started with --stdio; the others run in foreground
  Nobody,        \* no process
  Stranger,      \* another program, which may occupy a TCP port
  NoInfo,        \* metadata that cannot be read (LockInfo with port 0)
  Nil,           \* Read found no master
  Base,          \* the configured TCP port
  MaxPort,       \* bound: TCP ports are Base .. MaxPort
  Fallback,      \* maxPortFallback
  MaxTakeovers,  \* maxStdioTakeovers
  MaxWaits,      \* maxWaitReadyWaits
  MaxPolls,      \* reads WaitForInfo makes before its time-out
  MaxCrashes,    \* bound: processes killed
  Uninstalling,  \* whether "serialhub uninstall" runs meanwhile
  MaxFiles       \* bound: lock files ever created

ASSUME ProcsAssumption ==
  /\ Stdio \subseteq Procs
  /\ Nobody \notin Procs /\ Stranger \notin Procs /\ Nobody # Stranger
ASSUME NumbersAssumption ==
  /\ Base \in Nat \ {0} /\ MaxPort \in Nat /\ Base <= MaxPort
  /\ Fallback \in Nat /\ MaxTakeovers \in Nat /\ MaxWaits \in Nat
  /\ MaxPolls \in Nat /\ MaxCrashes \in Nat /\ MaxFiles \in Nat
  /\ Uninstalling \in BOOLEAN

PortNums == Base .. MaxPort
Files    == 1 .. MaxFiles
Info     == [pid : Procs, port : PortNums]

ASSUME NullsAssumption ==
  NoInfo \notin Info /\ Nil \notin Info /\ NoInfo # Nil

VARIABLES
  proc,     \* per process: where it is and what it knows
  file,     \* the file under the lock's path, or 0
  made,     \* lock files created so far
  holder,   \* per file: the process that holds the lock
  meta,     \* per file: the metadata in it
  listen,   \* per TCP port: who listens
  crashes,  \* processes killed so far
  uninst    \* the uninstall command

lockVars == <<file, made, holder, meta>>
vars == <<proc, lockVars, listen, crashes, uninst>>

Pc == {"off", "find", "poll", "lost", "probe", "probed", "look",
       "acquire", "trylock", "peek", "truncate", "write", "resolve",
       "retruncate", "rewrite", "bind", "serving", "stopping",
       "ready", "forward", "ended", "gaveup"}

Proc == [pc : Pc,
         ret : {"find", "poll", "lost"},   \* on whose behalf Read runs
         file : 0 .. MaxFiles,             \* the file opened
         seen : Info \cup {NoInfo},        \* the master that was found
         port : PortNums,                  \* the port to serve on
         polls : 0 .. MaxPolls + 1,
         takeovers : 0 .. MaxTakeovers + 1,
         waits : 0 .. MaxWaits + 1]

TypeOK ==
  /\ proc \in [Procs -> Proc]
  /\ file \in 0 .. MaxFiles /\ made \in 0 .. MaxFiles
  /\ holder \in [Files -> Procs \cup {Nobody}]
  /\ meta \in [Files -> Info \cup {NoInfo}]
  /\ listen \in [PortNums -> Procs \cup {Nobody, Stranger}]
  /\ crashes \in 0 .. MaxCrashes
  /\ uninst \in {"no", "checked", "done"}

\* Owning the lock, other than for the moment of a probe.
Master(p)  == proc[p].pc \in {"truncate", "write", "resolve", "retruncate",
                              "rewrite", "bind", "serving", "stopping"}
Serving(p) == proc[p].pc = "serving"
Alive(p)   == proc[p].pc \notin {"off", "ended", "gaveup"}

\* Some port may be taken by another program from the start.
Init ==
  /\ proc = [p \in Procs |->
              [pc |-> "off", ret |-> "find", file |-> 0, seen |-> NoInfo,
               port |-> Base, polls |-> 0, takeovers |-> 0, waits |-> 0]]
  /\ file = 0 /\ made = 0
  /\ holder = [f \in Files |-> Nobody]
  /\ meta = [f \in Files |-> NoInfo]
  /\ listen \in [PortNums -> {Nobody, Stranger}]
  /\ crashes = 0
  /\ uninst = "no"

-----------------------------------------------------------------------------
Go(p, r) == proc' = [proc EXCEPT ![p] = r]
At(p, pc) == [proc[p] EXCEPT !.pc = pc]

\* Where the loops of runMaster and runStdio begin.
Entry(p) == IF p \in Stdio THEN "find" ELSE "acquire"

Start(p) ==
  /\ proc[p].pc = "off"
  /\ Go(p, At(p, Entry(p)))
  /\ UNCHANGED <<lockVars, listen, crashes, uninst>>

\* A master was found: its port is remembered, to be inherited.
Follow(p, info) ==
  [proc[p] EXCEPT !.pc = "ready", !.seen = info, !.port = info.port]

-----------------------------------------------------------------------------
(* Read, and what its three callers make of the answer: the master's        *)
(* metadata, NoInfo when they cannot be read, Nil when the lock was free.  *)

\* runStdio.
Found(p, ans) ==
  IF ans = Nil THEN At(p, "acquire")
  ELSE IF ans = NoInfo THEN [At(p, "poll") EXCEPT !.polls = 0]
  ELSE Follow(p, ans)

PolledForEver(p, ans) ==                                          \* mutant
  IF ans \in Info THEN Follow(p, ans) ELSE At(p, "poll")
\* WaitForInfo.
Polled(p, ans) ==
  IF ans \in Info THEN Follow(p, ans)
  ELSE [proc[p] EXCEPT !.polls = @ + 1,
                       !.pc = IF proc[p].polls < MaxPolls
                              THEN "poll" ELSE "gaveup"]

ClassifyUnlimited(p, ans) ==                                      \* mutant
  IF ans = Nil
  THEN [At(p, Entry(p)) EXCEPT !.waits = 0, !.takeovers = @ + 1]
  ELSE [At(p, Entry(p)) EXCEPT !.waits = @ + 1]
\* takeoverBudget.classify.
Classify(p, ans) ==
  IF ans = Nil
  THEN [proc[p] EXCEPT !.waits = 0, !.takeovers = @ + 1,
                       !.pc = IF proc[p].takeovers < MaxTakeovers
                              THEN Entry(p) ELSE "gaveup"]
  ELSE IF ans = NoInfo THEN At(p, Entry(p))
  ELSE [proc[p] EXCEPT !.waits = @ + 1,
                       !.pc = IF proc[p].waits < MaxWaits
                              THEN Entry(p) ELSE "gaveup"]

Answered(p, ret, ans) ==
  IF ret = "find" THEN Found(p, ans)
  ELSE IF ret = "poll" THEN Polled(p, ans)
  ELSE Classify(p, ans)
Answer(p, ret, ans) == Go(p, Answered(p, ret, ans))

ReadOpen(p) ==
  /\ proc[p].pc \in {"find", "poll", "lost"}
  /\ IF file = 0 THEN Answer(p, proc[p].pc, Nil)
     ELSE Go(p, [proc[p] EXCEPT !.pc = "probe", !.ret = proc[p].pc,
                                !.file = file])
  /\ UNCHANGED <<lockVars, listen, crashes, uninst>>

\* Whether the lock is taken is found out by taking it.
ReadProbe(p) ==
  /\ proc[p].pc = "probe"
  /\ IF holder[proc[p].file] = Nobody
     THEN /\ holder' = [holder EXCEPT ![proc[p].file] = p]
          /\ Go(p, At(p, "probed"))
     ELSE UNCHANGED holder /\ Go(p, At(p, "look"))
  /\ UNCHANGED <<file, made, meta, listen, crashes, uninst>>

ReadFree(p) ==
  /\ proc[p].pc = "probed"
  /\ holder' = [holder EXCEPT ![proc[p].file] = Nobody]
  /\ Answer(p, proc[p].ret, Nil)
  /\ UNCHANGED <<file, made, meta, listen, crashes, uninst>>

ReadBusy(p) ==
  /\ proc[p].pc = "look"
  /\ Answer(p, proc[p].ret, meta[proc[p].file])
  /\ UNCHANGED <<lockVars, listen, crashes, uninst>>

-----------------------------------------------------------------------------
(* Acquire.                                                                *)

AcquireOpen(p) ==
  /\ proc[p].pc = "acquire"
  /\ IF file = 0
     THEN made < MaxFiles /\ made' = made + 1 /\ file' = made + 1
     ELSE UNCHANGED <<file, made>>
  /\ Go(p, [proc[p] EXCEPT !.pc = "trylock", !.file = file'])
  /\ UNCHANGED <<holder, meta, listen, crashes, uninst>>

MayLockAlways(f) == TRUE                                          \* mutant
MayLock(f) == holder[f] = Nobody

AcquireLock(p) ==
  /\ proc[p].pc = "trylock"
  /\ IF MayLock(proc[p].file)
     THEN /\ holder' = [holder EXCEPT ![proc[p].file] = p]
          /\ Go(p, At(p, "truncate"))
     ELSE UNCHANGED holder /\ Go(p, At(p, "peek"))
  /\ UNCHANGED <<file, made, meta, listen, crashes, uninst>>

\* ErrActive: in the foreground the metadata read on the way are used when
\* they are there; --stdio reads the file again.
AcquireBusy(p) ==
  /\ proc[p].pc = "peek"
  /\ LET info == meta[proc[p].file] IN
     Go(p, IF p \notin Stdio /\ info # NoInfo THEN Follow(p, info)
           ELSE [At(p, "poll") EXCEPT !.polls = 0])
  /\ UNCHANGED <<lockVars, listen, crashes, uninst>>

Overwrite(p, from, to, text) ==
  /\ proc[p].pc = from
  /\ meta' = [meta EXCEPT ![proc[p].file] = text]
  /\ Go(p, At(p, to))
  /\ UNCHANGED <<file, made, holder, listen, crashes, uninst>>

Own(p) == [pid |-> p, port |-> proc[p].port]

\* writeInfo, of Acquire and then of UpdatePort.
WriteInfo(p) ==
  \/ Overwrite(p, "truncate", "write", NoInfo)
  \/ Overwrite(p, "write", "resolve", Own(p))
  \/ Overwrite(p, "retruncate", "rewrite", NoInfo)
  \/ Overwrite(p, "rewrite", "bind", Own(p))

-----------------------------------------------------------------------------
(* Being the master.                                                       *)

\* The process ends; its lock and its listener go with it.
Vanish(p, pc) ==
  /\ Go(p, At(p, pc))
  /\ holder' = [f \in Files |-> IF holder[f] = p THEN Nobody ELSE holder[f]]
  /\ listen' = [n \in PortNums |-> IF listen[n] = p THEN Nobody
                                   ELSE listen[n]]
  /\ UNCHANGED <<file, made, meta, uninst>>

AfterResolveQuietly(p, n) == "bind"                               \* mutant
AfterResolve(p, n) == IF n = proc[p].port THEN "bind" ELSE "retruncate"

\* resolveListenPort: the first free port from the requested one on, tried
\* and let go again.
Candidates(p) == {n \in PortNums : /\ n >= proc[p].port
                                   /\ n <= proc[p].port + Fallback
                                   /\ listen[n] = Nobody}
ResolvePort(p) ==
  /\ proc[p].pc = "resolve"
  /\ \/ /\ Candidates(p) = {}
        /\ Vanish(p, "ended")
     \/ \E n \in Candidates(p) :
          /\ \A m \in Candidates(p) : n <= m
          /\ Go(p, [proc[p] EXCEPT !.pc = AfterResolve(p, n), !.port = n])
          /\ UNCHANGED <<lockVars, listen, uninst>>
  /\ UNCHANGED crashes

\* StartHTTPServer; when it fails the process ends.
Bind(p) ==
  /\ proc[p].pc = "bind"
  /\ \/ /\ listen[proc[p].port] = Nobody
        /\ listen' = [listen EXCEPT ![proc[p].port] = p]
        /\ Go(p, At(p, "serving"))
        /\ UNCHANGED <<lockVars, uninst>>
     \/ listen[proc[p].port] # Nobody /\ Vanish(p, "ended")
  /\ UNCHANGED crashes

\* A signal, the page's exit button, or the end of the client of --stdio:
\* gracefulShutdown closes the listener first.
StopServing(p) ==
  /\ proc[p].pc = "serving"
  /\ listen' = [listen EXCEPT ![proc[p].port] = Nobody]
  /\ Go(p, At(p, "stopping"))
  /\ UNCHANGED <<lockVars, crashes, uninst>>

Release(p) ==
  /\ proc[p].pc = "stopping"
  /\ Vanish(p, "ended")
  /\ UNCHANGED crashes

-----------------------------------------------------------------------------
(* Being a proxy (proxyToMaster).                                          *)

Healthy(n) == listen[n] \in Procs

\* WaitReady succeeds: any instance that answers will do.
MasterReady(p) ==
  /\ proc[p].pc = "ready"
  /\ Healthy(proc[p].seen.port)
  /\ Go(p, At(p, "forward"))
  /\ UNCHANGED <<lockVars, listen, crashes, uninst>>

\* WaitReady times out, or the health probe fails twice.
MasterGone(p) ==
  /\ proc[p].pc \in {"ready", "forward"}
  /\ ~Healthy(proc[p].seen.port)
  /\ Go(p, At(p, "lost"))
  /\ UNCHANGED <<lockVars, listen, crashes, uninst>>

\* The same for a master that is there but does not answer in time, or
\* fails a request.
MasterMute(p) ==
  /\ proc[p].pc \in {"ready", "forward"}
  /\ Healthy(proc[p].seen.port)
  /\ Go(p, At(p, "lost"))
  /\ UNCHANGED <<lockVars, listen, crashes, uninst>>

ClientLeaves(p) ==
  /\ proc[p].pc = "forward"
  /\ Go(p, At(p, "ended"))
  /\ UNCHANGED <<lockVars, listen, crashes, uninst>>

-----------------------------------------------------------------------------
(* The rest of the world.                                                  *)

Crash(p) ==
  /\ Alive(p) /\ crashes < MaxCrashes
  /\ crashes' = crashes + 1
  /\ Vanish(p, "ended")

\* runUninstall looks for an instance on the configured port, asks the user,
\* and removes the directory with the lock file.
UninstallCheck ==
  /\ Uninstalling /\ uninst = "no"
  /\ ~Healthy(Base)
  /\ uninst' = "checked"
  /\ UNCHANGED <<proc, lockVars, listen, crashes>>

UninstallRemove ==
  /\ uninst = "checked"
  /\ uninst' = "done"
  /\ file' = 0
  /\ UNCHANGED <<proc, made, holder, meta, listen, crashes>>

-----------------------------------------------------------------------------
Discover(p) == ReadOpen(p) \/ ReadProbe(p) \/ ReadFree(p) \/ ReadBusy(p)
Acquire(p)  == \/ AcquireOpen(p) \/ AcquireLock(p) \/ AcquireBusy(p)
               \/ WriteInfo(p)
Serve(p)    == ResolvePort(p) \/ Bind(p) \/ Release(p)
Proxy(p)    == MasterReady(p) \/ MasterGone(p)

\* What a process does by itself.
Step(p) == Discover(p) \/ Acquire(p) \/ Serve(p) \/ Proxy(p)
\* What happens to it.
Fate(p) == \/ Start(p) \/ StopServing(p) \/ MasterMute(p)
           \/ ClientLeaves(p) \/ Crash(p)

Next == \/ \E p \in Procs : Step(p) \/ Fate(p)
        \/ UninstallCheck \/ UninstallRemove

Spec     == Init /\ [][Next]_vars
FairSpec == Spec /\ \A p \in Procs : WF_vars(Step(p))

-----------------------------------------------------------------------------
(* Properties.                                                             *)

\* There is one master: no two processes are past Acquire and not yet past
\* Release, whoever probes, crashes or is late (MCP.md, docs/CONTEXT.md).
OneMaster == \A p, q \in Procs : Master(p) /\ Master(q) => p = q

\* Whoever looks up a master that serves finds its address: the file says
\* the process and the port it listens on, after a fallback too (UpdatePort).
Discoverable ==
  \A p \in Procs :
    Serving(p) => /\ file # 0 /\ meta[file] = Own(p)
                  /\ listen[proc[p].port] = p

\* Only the master listens, so a proxy is never connected to a process that
\* does not hold the lock.
ListenersAreMasters ==
  \A n \in PortNums : \A p \in Procs : listen[n] = p => Master(p)

\* Both: nobody is led astray, to a dead address or to one who is not master.
MasterFound == Discoverable /\ ListenersAreMasters

\* Processes do not end up waiting for each other or for a dead master: as
\* long as one is alive there will be a master that serves, or none is left.
Recovers ==
  (\E p \in Procs : Alive(p)) ~>
     (\E p \in Procs : Serving(p)) \/ (\A p \in Procs : ~Alive(p))

=============================================================================
