--------------------------- MODULE SerialManager ---------------------------
(***************************************************************************)
(* pkg/serial/manager.go: the owner of the one serial connection.  Every   *)
(* critical section under sm.mu is one action; everything a goroutine does *)
(* between two critical sections is an action of its own, so that user     *)
(* calls, read loops, reconnect tasks and Close interleave as they do in   *)
(* the program.                                                            *)
(*                                                                         *)
(* A connection (a Port returned by openPort) is a number, given out in    *)
(* increasing order; the read loop that serves it, and the reconnect task  *)
(* started when it is lost, carry the same number.                         *)
(***************************************************************************)
EXTENDS Integers, Sequences, FiniteSets

CONSTANTS
  Ports,      \* names of serial ports ("COM3", "/dev/ttyUSB0")
  Bauds,      \* what a configuration holds besides the port name
  Idents,     \* USB identities (VID/PID pairs) of the devices there are
  NonUsb,     \* the identity of a device without VID/PID
  Absent,     \* no device behind a port name
  Layouts,    \* bound: the assignments of devices to port names considered
  NoConfig,   \* a configuration UpdateConfig rejects (nil, or no port name)
  NoPort,     \* no port name
  Scripting,  \* bound: whether a client runs scripts
  Listening,  \* whether an event handler has been installed
  MaxConn,    \* bound: connections ever opened
  MaxGen,     \* bound: generation beyond which users issue no more changes
  MaxTries,   \* reconnectMaxAttempts
  DataCap,    \* capacity of dataChan
  ErrCap      \* capacity of errChan

ASSUME BoundsAssumption ==
  /\ Scripting \in BOOLEAN /\ Listening \in BOOLEAN
  /\ MaxConn \in Nat /\ MaxGen \in Nat
  /\ MaxTries \in Nat \ {0} /\ DataCap \in Nat /\ ErrCap \in Nat
ASSUME IdentsAssumption == NonUsb \in Idents /\ Absent \notin Idents
ASSUME LayoutsAssumption == Layouts \subseteq [Ports -> Idents \cup {Absent}]
ASSUME NullsAssumption ==
  NoPort \notin Ports /\ NoConfig \notin [port : Ports, baud : Bauds]

NoConn == 0
Conns  == 1 .. MaxConn
Config == [port : Ports, baud : Bauds]

VARIABLES
  port,       \* sm.port: the current connection, or NoConn
  last,       \* the connection opened last; numbers are never reused
  usb,        \* sm.portVID / sm.portPID
  cfg,        \* sm.config
  gen,        \* sm.reconnectGen
  closed,     \* sm.closed; sm.ctx is cancelled in the same critical section
  chClosed,   \* Close has closed dataChan and errChan
  dataChan,   \* sm.dataChan: the connection each queued chunk came from
  errs,       \* number of errors queued in sm.errChan
  fd,         \* per connection: the state of the driver's handle
  rd,         \* per connection: where its readLoop goroutine is
  task,       \* per connection: its reconnectLoop goroutine
  devs,       \* the device behind each port name
  events,     \* event handler goroutines started and not yet run, by kind
  page,       \* whether a web page opened at the start shows "connected"
  ended,      \* history: how often the end of each connection was announced
  script,     \* the one running serial_script, a client of WriteIfSameGen
  out,        \* history: the connection of the last chunk taken by the bridge
  off         \* history: the user's last word is not "connect"

connVars   == <<port, last, usb, fd>>
notifyVars == <<events, page, ended>>
queueVars  == <<dataChan, errs, out>>
vars == <<connVars, cfg, gen, closed, chClosed, queueVars, rd, task, devs,
          notifyVars, script, off>>

ReaderPc == {"none", "top", "read", "got", "pub", "err", "lost", "notify",
             "done"}
TaskPc   == {"none", "wait", "list", "config", "update", "connect", "retry",
             "giveup", "done"}
Task     == [pc : TaskPc, gen : Nat, name : Ports \cup {NoPort},
             usb : Idents, target : Ports \cup {NoPort},
             conf : Config \cup {NoConfig}, tries : 0 .. MaxTries]
EventKind == {"up", "down"}   \* EventConnected; the two others
Script   == [pc : {"idle", "checked", "run"}, gen : Nat, to : SUBSET Conns]

\* The locals of a goroutine that does not run.
Locals(pc) == [pc |-> pc, gen |-> 0, name |-> NoPort, usb |-> NonUsb,
               target |-> NoPort, conf |-> NoConfig, tries |-> 0]

TypeOK ==
  /\ port \in Conns \cup {NoConn}
  /\ last \in 0 .. MaxConn
  /\ usb \in Idents
  /\ cfg \in Config
  /\ gen \in Nat
  /\ closed \in BOOLEAN
  /\ chClosed \in BOOLEAN
  /\ dataChan \in Seq(Conns)
  /\ errs \in 0 .. ErrCap
  /\ fd \in [Conns -> {"none", "open", "closing", "closed"}]
  /\ rd \in [Conns -> ReaderPc]
  /\ task \in [Conns -> Task]
  /\ devs \in Layouts
  /\ events \in [EventKind -> Nat]
  /\ page \in BOOLEAN
  /\ ended \in [Conns -> Nat]
  /\ script \in Script
  /\ out \in Conns \cup {NoConn}
  /\ off \in BOOLEAN

NoScript    == [pc |-> "idle", gen |-> 0, to |-> {}]
LiveReaders == {c \in Conns : rd[c] \notin {"none", "done"}}

Init ==
  /\ port = NoConn /\ last = 0 /\ usb = NonUsb
  /\ cfg \in Config
  /\ gen = 0
  /\ closed = FALSE /\ chClosed = FALSE
  /\ dataChan = <<>> /\ errs = 0 /\ out = NoConn
  /\ fd = [c \in Conns |-> "none"]
  /\ rd = [c \in Conns |-> "none"]
  /\ task = [c \in Conns |-> Locals("none")]
  /\ devs \in Layouts
  /\ events = [k \in EventKind |-> 0] /\ page = FALSE
  /\ ended = [c \in Conns |-> 0]
  /\ script = NoScript
  /\ off = TRUE

-----------------------------------------------------------------------------
(* Pieces of critical sections.  A definition marked "mutant" is not part   *)
(* of the model: it is the definition that follows it with a plausible bug, *)
(* and shows that the properties below can tell the difference.             *)

SameGen == gen                                                    \* mutant
NextGen == gen + 1

\* emitEvent: a goroutine that will run the handler.
Announce(k) ==
  events' = IF Listening THEN [events EXCEPT ![k] = @ + 1] ELSE events
AnnounceEnd(c) ==
  /\ Announce("down")
  /\ ended' = [ended EXCEPT ![c] = @ + 1]

MayOpenAfterClose == port = NoConn                                \* mutant
MayOpen == ~closed /\ port = NoConn

\* connectLocked, when it succeeds: the port is opened, its identity looked
\* up, its read loop started and the event emitted.
Establish ==
  LET c == last + 1 IN
  /\ MayOpen
  /\ devs[cfg.port] # Absent
  /\ last < MaxConn
  /\ port' = c /\ last' = c
  /\ usb' = devs[cfg.port]
  /\ fd' = [fd EXCEPT ![c] = "open"]
  /\ rd' = [rd EXCEPT ![c] = "top"]
  /\ Announce("up")

\* The current port is taken away and closed asynchronously.
Detach ==
  /\ port' = NoConn
  /\ usb' = NonUsb
  /\ fd' = [c \in Conns |-> IF c = port THEN "closing" ELSE fd[c]]
  /\ UNCHANGED last

\* A non-blocking send of an error.
SendErr == errs' = IF errs < ErrCap THEN errs + 1 ELSE errs

-----------------------------------------------------------------------------
(* What users do: the web page, the tray and the MCP tools.                *)

\* A refused or failed Connect changes nothing.
Connect ==
  /\ Establish
  /\ off' = FALSE
  /\ UNCHANGED <<cfg, gen, closed, chClosed, queueVars, task, devs, page,
                 ended, script>>

Disconnect ==
  /\ gen < MaxGen
  /\ gen' = NextGen
  /\ off' = TRUE
  /\ \/ /\ port = NoConn
        /\ UNCHANGED <<connVars, events, ended>>
     \/ /\ port # NoConn
        /\ Detach
        /\ AnnounceEnd(port)
  /\ UNCHANGED <<cfg, closed, chClosed, queueVars, rd, task, devs, page,
                 script>>

\* The generation advances before the checks, so a refused update advances
\* it as well.
UpdateConfig(new) ==
  /\ gen < MaxGen
  /\ gen' = NextGen
  /\ off' = (off \/ port = NoConn)
  /\ cfg' = IF port = NoConn /\ new # NoConfig THEN new ELSE cfg
  /\ UNCHANGED <<connVars, closed, chClosed, queueVars, rd, task, devs,
                 notifyVars, script>>

\* Write on a live connection whose driver reports an error.
WriteFails ==
  /\ port # NoConn
  /\ SendErr
  /\ UNCHANGED <<connVars, cfg, gen, closed, chClosed, dataChan, out, rd,
                 task, devs, notifyVars, script, off>>

\* First critical section of Close; later calls return at once.
CloseBegin ==
  /\ ~closed
  /\ closed' = TRUE
  /\ Detach
  /\ UNCHANGED <<cfg, gen, chClosed, queueVars, rd, task, devs, notifyVars,
                 script, off>>

\* wg.Wait has returned: second critical section of Close.
CloseEnd ==
  /\ closed /\ ~chClosed
  /\ LiveReaders = {}
  /\ chClosed' = TRUE
  /\ UNCHANGED <<connVars, cfg, gen, closed, queueVars, rd, task, devs,
                 notifyVars, script, off>>

-----------------------------------------------------------------------------
(* readLoop and handleUnexpectedDisconnect.                                *)

ReaderOnly(c, pc) ==
  /\ rd' = [rd EXCEPT ![c] = pc]
  /\ UNCHANGED <<connVars, cfg, gen, closed, chClosed, queueVars, task, devs,
                 notifyVars, script, off>>

ReadTop(c) ==
  /\ rd[c] = "top"
  /\ ReaderOnly(c, IF closed \/ port # c THEN "done" ELSE "read")

\* Read returns: nothing within 500 ms, bytes, or an error.  Once the driver
\* has closed the handle it can only return an error.
ReadReturns(c) ==
  /\ rd[c] = "read"
  /\ \/ fd[c] # "closed" /\ ReaderOnly(c, "top")
     \/ fd[c] # "closed" /\ ReaderOnly(c, "got")
     \/ ReaderOnly(c, "err")

\* First ownership check; then the bytes are merged with the held-back tail
\* of a UTF-8 sequence, and may all be held back again.
ReadGot(c) ==
  /\ rd[c] = "got"
  /\ \/ port # c /\ ReaderOnly(c, "done")
     \/ port = c /\ ReaderOnly(c, "pub")
     \/ port = c /\ ReaderOnly(c, "top")

MayPublishStale(c) == Len(dataChan) < DataCap                     \* mutant
MayPublish(c) == port = c /\ Len(dataChan) < DataCap

\* Second ownership check and non-blocking send, under one read lock.
Publish(c) ==
  /\ rd[c] = "pub"
  /\ rd' = [rd EXCEPT ![c] = IF port = c THEN "top" ELSE "done"]
  /\ dataChan' = IF MayPublish(c)
                 THEN Append(dataChan, c) ELSE dataChan
  /\ UNCHANGED <<connVars, cfg, gen, closed, chClosed, errs, out, task, devs,
                 notifyVars, script, off>>

ReadErrRetries(c) ==                                              \* mutant
  rd[c] = "err" /\ ReaderOnly(c, IF port # c THEN "read" ELSE "lost")
ReadErr(c) ==
  /\ rd[c] = "err"
  /\ ReaderOnly(c, IF port # c THEN "done" ELSE "lost")

\* The arguments of the reconnect task, captured inside the critical section.
Captured == [pc |-> "none", gen |-> NextGen, name |-> cfg.port, usb |-> usb,
             target |-> NoPort, conf |-> NoConfig, tries |-> 0]

MayLoseAnyway(c) == TRUE                                          \* mutant
MayLose(c) == port = c

\* Critical section of handleUnexpectedDisconnect, which checks again.
Lose(c) ==
  /\ rd[c] = "lost"
  /\ \/ ~MayLose(c) /\ ReaderOnly(c, "done")
     \/ /\ MayLose(c)
        /\ Detach
        /\ gen' = NextGen
        /\ rd' = [rd EXCEPT ![c] = "notify"]
        /\ task' = [task EXCEPT ![c] = Captured]
        /\ UNCHANGED <<cfg, closed, chClosed, queueVars, devs, notifyVars,
                       script, off>>

\* The rest of it, after the lock is released.
LoseNotify(c) ==
  /\ rd[c] = "notify"
  /\ rd' = [rd EXCEPT ![c] = "done"]
  /\ SendErr
  /\ AnnounceEnd(c)
  /\ task' = [task EXCEPT ![c] = IF closed THEN Locals("none")
                                ELSE [@ EXCEPT !.pc = "wait"]]
  /\ UNCHANGED <<connVars, cfg, gen, closed, chClosed, dataChan, out, devs,
                 page, script, off>>

-----------------------------------------------------------------------------
(* reconnectLoop.                                                          *)

ActiveWhateverGen(c) == ~closed /\ port = NoConn                  \* mutant
\* reconnectActive, and the guard of reconnectUpdateConfig and
\* reconnectConnect.
Active(c) == task[c].gen = gen /\ ~closed /\ port = NoConn

\* matchReconnectPort: the original name if a device is there, otherwise a
\* port whose device has the remembered identity.
Matches(name, id) ==
  IF devs[name] # Absent THEN {name}
  ELSE {p \in Ports : id # NonUsb /\ devs[p] = id}

Ended == Locals("done")

TaskOnly(c, t) ==
  /\ task' = [task EXCEPT ![c] = t]
  /\ UNCHANGED <<connVars, cfg, gen, closed, chClosed, queueVars, rd, devs,
                 notifyVars, script, off>>

\* The back-off timer fires (or the context is done) and the task asks
\* whether it is still wanted.
TaskWake(c) ==
  /\ task[c].pc = "wait"
  /\ TaskOnly(c, IF Active(c)
                 THEN [task[c] EXCEPT !.pc = "list", !.tries = @ + 1]
                 ELSE Ended)

\* ListPorts fails, nothing matches, or there is a target.
TaskList(c) ==
  /\ task[c].pc = "list"
  /\ \/ TaskOnly(c, [task[c] EXCEPT !.pc = "retry"])
     \/ \E p \in Matches(task[c].name, task[c].usb) :
          TaskOnly(c, [task[c] EXCEPT !.pc = "config", !.target = p])

\* GetConfig: a copy, modified later and written back whole.
TaskConfig(c) ==
  /\ task[c].pc = "config"
  /\ TaskOnly(c, IF cfg.port = task[c].target
                 THEN [task[c] EXCEPT !.pc = "connect", !.target = NoPort]
                 ELSE [task[c] EXCEPT
                         !.pc = "update", !.target = NoPort,
                         !.conf = [cfg EXCEPT !.port = task[c].target]])

\* reconnectUpdateConfig.
TaskUpdate(c) ==
  /\ task[c].pc = "update"
  /\ cfg' = IF Active(c) THEN task[c].conf ELSE cfg
  /\ task' = [task EXCEPT ![c] =
                IF Active(c)
                THEN [@ EXCEPT !.pc = "connect", !.conf = NoConfig]
                ELSE Ended]
  /\ UNCHANGED <<connVars, gen, closed, chClosed, queueVars, rd, devs,
                 notifyVars, script, off>>

\* reconnectConnect: no longer wanted, openPort fails, or connected.
TaskConnect(c) ==
  /\ task[c].pc = "connect"
  /\ \/ ~Active(c) /\ TaskOnly(c, Ended)
     \/ Active(c) /\ TaskOnly(c, [task[c] EXCEPT !.pc = "retry"])
     \/ /\ Active(c)
        /\ Establish
        /\ task' = [task EXCEPT ![c] = Ended]
        /\ UNCHANGED <<cfg, gen, closed, chClosed, queueVars, devs, page,
                       ended, script, off>>

MayRetryOnceMore(c) == task[c].tries <= MaxTries                  \* mutant
MayRetry(c) == task[c].tries < MaxTries

TaskRetryUncounted(c) ==                                          \* mutant
  /\ task[c].pc = "retry"
  /\ TaskOnly(c, [task[c] EXCEPT !.pc = "wait", !.tries = 0])
TaskRetry(c) ==
  /\ task[c].pc = "retry"
  /\ TaskOnly(c, [task[c] EXCEPT
                    !.pc = IF MayRetry(c) THEN "wait"
                           ELSE "giveup"])

\* All attempts failed: the failure is announced if the task still matters.
TaskGiveUp(c) ==
  /\ task[c].pc = "giveup"
  /\ task' = [task EXCEPT ![c] = Ended]
  /\ IF Active(c) THEN Announce("down") ELSE UNCHANGED events
  /\ UNCHANGED <<connVars, cfg, gen, closed, chClosed, queueVars, rd, devs,
                 page, ended, script, off>>

-----------------------------------------------------------------------------
(* The goroutines around them.                                             *)

\* The asynchronous port.Close.
CloseHandle(c) ==
  /\ fd[c] = "closing"
  /\ fd' = [fd EXCEPT ![c] = "closed"]
  /\ UNCHANGED <<port, last, usb, cfg, gen, closed, chClosed, queueVars, rd,
                 task, devs, notifyVars, script, off>>

\* One event handler runs and tells the page, which derives its buttons and
\* its light from the kind of the event.  Handlers run in any order.
Deliver(k) ==
  /\ events[k] > 0
  /\ events' = [events EXCEPT ![k] = @ - 1]
  /\ page' = (k = "up")
  /\ UNCHANGED <<connVars, cfg, gen, closed, chClosed, queueVars, rd, task,
                 devs, ended, script, off>>

\* The bridge takes a chunk.
Forward ==
  /\ dataChan # <<>>
  /\ out' = Head(dataChan)
  /\ dataChan' = Tail(dataChan)
  /\ UNCHANGED <<connVars, cfg, gen, closed, chClosed, errs, rd, task, devs,
                 notifyVars, script, off>>

\* A device is plugged in, unplugged, or comes back under another name.
Replug ==
  /\ devs' \in Layouts
  /\ UNCHANGED <<connVars, cfg, gen, closed, chClosed, queueVars, rd, task,
                 notifyVars, script, off>>

-----------------------------------------------------------------------------
(* ExecuteSerialScript, as far as it uses the manager: it checks that there *)
(* is a connection, later captures the generation, then writes under it.   *)

ScriptOnly(s) ==
  /\ script' = s
  /\ UNCHANGED <<connVars, cfg, gen, closed, chClosed, queueVars, rd, task,
                 devs, notifyVars, off>>

ScriptCheck ==
  /\ Scripting
  /\ script.pc = "idle" /\ port # NoConn
  /\ ScriptOnly([script EXCEPT !.pc = "checked"])

ScriptBegin ==
  /\ script.pc = "checked"
  /\ ScriptOnly([pc |-> "run", gen |-> gen, to |-> {}])

\* WriteIfSameGen succeeds.
ScriptWrite ==
  /\ script.pc = "run"
  /\ port # NoConn /\ script.gen = gen
  /\ ScriptOnly([script EXCEPT !.to = @ \cup {port}])

\* WriteIfSameGen, or the check in the event loop, finds the generation
\* changed: the script reports a lost connection.
ScriptStale ==
  /\ script.pc = "run"
  /\ port = NoConn \/ script.gen # gen
  /\ ScriptOnly(NoScript)

\* Completion, time-out or cancellation.
ScriptEnd ==
  /\ script.pc = "run"
  /\ ScriptOnly(NoScript)

-----------------------------------------------------------------------------
User   == \/ Connect \/ Disconnect \/ WriteFails
          \/ \E new \in Config \cup {NoConfig} : UpdateConfig(new)
          \/ CloseBegin \/ CloseEnd
ReaderStep(c) == \/ ReadTop(c) \/ ReadReturns(c) \/ ReadGot(c)
                 \/ Publish(c) \/ ReadErr(c) \/ Lose(c) \/ LoseNotify(c)
Reader == \E c \in Conns : ReaderStep(c)
TaskStep(c) == \/ TaskWake(c) \/ TaskList(c) \/ TaskConfig(c)
               \/ TaskUpdate(c) \/ TaskConnect(c) \/ TaskRetry(c)
               \/ TaskGiveUp(c)
Reconnect == \E c \in Conns : TaskStep(c)
Around == \/ \E c \in Conns : CloseHandle(c)
          \/ \E k \in EventKind : Deliver(k)
          \/ Forward \/ Replug
Scripts == \/ ScriptCheck \/ ScriptBegin \/ ScriptWrite \/ ScriptStale
           \/ ScriptEnd

Next == User \/ Reader \/ Reconnect \/ Around \/ Scripts

\* Goroutines run; a Read comes back within its 500 ms time-out.  Users,
\* devices and scripts owe nothing.
Fairness ==
  /\ \A c \in Conns : /\ WF_vars(ReaderStep(c))
                      /\ WF_vars(TaskStep(c))
                      /\ WF_vars(CloseHandle(c))
  /\ \A k \in EventKind : WF_vars(Deliver(k))
  /\ WF_vars(CloseEnd) /\ WF_vars(Forward)

Spec     == Init /\ [][Next]_vars
FairSpec == Spec /\ Fairness

-----------------------------------------------------------------------------
(* Properties.                                                             *)

\* Once the channels are closed nobody is left who could send on them (a
\* panic): no read loop is alive, no connection exists to write to, and
\* none can come (Close, connectLocked).
ClosedChannelsSilent == chClosed => port = NoConn /\ LiveReaders = {}

\* "Any time at most one valid task": two reconnect tasks never both hold
\* the current generation, counting those about to be started.
Pending(c) == rd[c] = "notify" \/ task[c].pc \notin {"none", "done"}
OneValidTask ==
  \A c, d \in Conns :
    Pending(c) /\ Pending(d) /\ Active(c) /\ Active(d) => c = d

\* After the user disconnected, or reconfigured a link that was down, only a
\* user's Connect brings a connection back; a reconnect task already past
\* its checks does not.
OffStaysOff == off => port = NoConn

\* One run of a script writes to one connection only, whatever is lost and
\* re-established between its writes (WriteIfSameGen).
ScriptOneConnection == \A c, d \in script.to : c = d

\* The bridge sees the bytes of a connection before any byte of a later one:
\* in-flight data of a replaced connection is never published after it.
StreamInOrder ==
  /\ \A i, j \in 1 .. Len(dataChan) : i <= j => dataChan[i] <= dataChan[j]
  /\ \A i \in 1 .. Len(dataChan) : out <= dataChan[i]

\* A connection that is no longer current has had its Close started.
NoLeakedHandle == \A c \in Conns : fd[c] = "open" => port = c

\* The end of a connection is announced once, by whoever ended it, although a
\* Disconnect, a read error and Close may all find it current (Disconnect,
\* handleUnexpectedDisconnect).  Close announces nothing.
EndsAnnouncedOnce ==
  \A c \in Conns :
    /\ ended[c] \in {0, 1}
    /\ ended[c] = 1 => c <= last /\ port # c
    /\ ~closed /\ c <= last /\ port # c /\ rd[c] # "notify" => ended[c] = 1

\* When nothing is left to be announced the page shows whether there is a
\* connection.
PageFollowsLink ==
  /\ ~closed
  /\ \A k \in EventKind : events[k] = 0
  /\ \A c \in Conns : rd[c] # "notify"
  => page = (port # NoConn)

\* A configuration written without advancing the generation, which only a
\* reconnect task does, changes the port name alone, and never the
\* configuration a user left behind with the link off.
ReconnectKeepsSettings ==
  [][cfg' # cfg /\ gen' = gen => ~off /\ cfg'.baud = cfg.baud]_vars

\* Close returns.
CloseCompletes == closed ~> chClosed

\* The manager implements the abstract link: what users see is a link that
\* goes up, drops, recovers and gives up in the ways SerialLink allows; and a
\* recovery ends.
linkMode ==
  IF closed THEN "shut"
  ELSE IF port # NoConn THEN "up"
  ELSE IF \E c \in Conns : Pending(c) /\ Active(c) THEN "recovering"
  ELSE "idle"

WithPort(conf, p) == [conf EXCEPT !.port = p]
Link     == INSTANCE SerialLink WITH mode <- linkMode, conf <- cfg
LinkSafe == Link!SafeSpec
LinkSpec == Link!Spec

=============================================================================
