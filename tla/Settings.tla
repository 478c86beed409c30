------------------------------ MODULE Settings ------------------------------
(***************************************************************************)
(* Who may change the serial settings, and where they are kept: the tray   *)
(* (pkg/tray/tray_windows.go), serial_connect and serial_disconnect        *)
(* (pkg/mcp/tools), commands of a page (command_handler.go), a reconnect   *)
(* task that follows a device to another port name, and the start of the   *)
(* process (serve.go, config_loader.go, pkg/config/config.go).             *)
(*                                                                         *)
(* The settings exist three times: in the manager (conf, guarded by sm.mu),*)
(* in the shared cfg.Serial (guarded by nothing) and in the file.  The     *)
(* manager is the one of SerialLink, which SerialManager implements; here  *)
(* sm.mu shows, because UpdateConfig runs the handler that saves under it. *)
(* A definition marked "mutant" is not part of the model.                  *)
(***************************************************************************)
EXTENDS Integers, FiniteSets

CONSTANTS
  Menus,        \* goroutines of tray menu items
  Tools,        \* calls of serial_connect and serial_disconnect
  Page,         \* the goroutine that runs commands of pages (cmdLoop)
  Task,         \* the reconnect task
  Boot,         \* the start of the process
  Nobody,       \* nobody holds a lock
  Ports, NoPort,
  Bauds,        \* stand for every setting other than the port
  DefaultBaud,
  Size,         \* length of a file, by what is saved in it
  Empty, Torn,  \* a file truncated, a file no parser reads
  Nothing,      \* no file
  FirstFiles,   \* bound: what the file may be at first
  MaxCalls,     \* bound: calls of users
  MaxRestarts   \* bound: restarts

Actors == Menus \cup Tools \cup {Page, Task, Boot}
Conf   == [port : Ports \cup {NoPort}, baud : Bauds]
Saved  == [port : Ports \cup {NoPort}, baud : Bauds, auto : BOOLEAN]

ASSUME ActorsAssumption ==
  /\ Page # Task /\ Page # Boot /\ Task # Boot /\ Menus \cap Tools = {}
  /\ {Page, Task, Boot} \cap (Menus \cup Tools) = {}
  /\ Nobody \notin Actors
ASSUME ValuesAssumption ==
  /\ NoPort \notin Ports /\ DefaultBaud \in Bauds
  /\ Size \in [Saved -> Nat]
  /\ Empty # Torn /\ Empty # Nothing /\ Torn # Nothing
  /\ {Empty, Torn, Nothing} \cap Saved = {}
  /\ FirstFiles \subseteq {Nothing} \cup Saved
  /\ MaxCalls \in Nat /\ MaxRestarts \in Nat

VARIABLES
  mode, conf,   \* the link and the manager's settings, as in SerialLink
  lock,         \* who runs the handler under sm.mu
  connectMu,    \* who runs serial_connect
  cfg,          \* the shared settings of the process
  file,         \* the configuration file
  act,          \* where each actor is
  calls,        \* calls begun
  restarts,
  mishaps       \* history: what may have let the copies drift apart

linkVars == <<mode, conf>>
vars == <<linkVars, lock, connectMu, cfg, file, act, calls, restarts,
          mishaps>>

WithPort(c, p) == [c EXCEPT !.port = p]
Link == INSTANCE SerialLink WITH Config <- Conf

Pcs == {"idle", "mutex", "look", "off", "change", "snapshot", "update",
        "assign", "assignrest", "truncate", "encode", "write", "flip",
        "notify", "after", "toggle", "connect", "existing", "recheck",
        "report", "disconnect", "boot"}
Actor == [pc : Pcs,
          val : Conf,         \* the settings asked for, or read from cfg
          was : BOOLEAN,      \* wasConnected
          text : Saved,       \* what is about to be written
          opened : BOOLEAN,   \* history: the port asked for was open
          overtaken : BOOLEAN] \* history: others reconfigured before Connect

Default == [port |-> NoPort, baud |-> DefaultBaud, auto |-> TRUE]
Serial(s) == [port |-> s.port, baud |-> s.baud]
Rest == [pc |-> "idle", val |-> Serial(Default), was |-> FALSE,
         text |-> Default, opened |-> FALSE, overtaken |-> FALSE]

TypeOK ==
  /\ mode \in {"idle", "up", "recovering"} /\ conf \in Conf
  /\ lock \in Actors \cup {Nobody} /\ connectMu \in Tools \cup {Nobody}
  /\ cfg \in Saved /\ file \in Saved \cup {Empty, Torn, Nothing}
  /\ act \in [Actors -> Actor]
  /\ calls \in 0 .. MaxCalls /\ restarts \in 0 .. MaxRestarts
  /\ mishaps \subseteq {"crossed", "refused", "failed"}

\* Load: what a file says, or the defaults.
Loaded(f) == IF f \in Saved THEN f ELSE Default

\* The process starts: loadConfig applies the flags of this start to what it
\* read, and the master saves the result (persistConfig).
Begin(loaded) ==
  /\ \E p \in {loaded.port} \cup Ports : cfg' = [loaded EXCEPT !.port = p]
  /\ conf' = Serial(cfg') /\ mode' = "idle"
  /\ act' = [a \in Actors |-> IF a = Boot THEN [Rest EXCEPT !.pc = "truncate"]
                              ELSE Rest]
  /\ lock' = Nobody /\ connectMu' = Nobody /\ mishaps' = {}

Init ==
  /\ file \in FirstFiles
  /\ cfg = Loaded(file) /\ conf = Serial(cfg) /\ mode = "idle"
  /\ act = [a \in Actors |-> IF a = Boot THEN [Rest EXCEPT !.pc = "truncate"]
                             ELSE Rest]
  /\ lock = Nobody /\ connectMu = Nobody
  /\ calls = 0 /\ restarts = 0 /\ mishaps = {}

-----------------------------------------------------------------------------
At(a, pc)    == act[a].pc = pc
Put(a, r)    == act' = [act EXCEPT ![a] = r]
Go(a, pc)    == Put(a, [act[a] EXCEPT !.pc = pc])
Return(a)    == Put(a, Rest)
Unlocked     == lock = Nobody
Saving(a)    == act[a].pc \in {"assign", "assignrest", "truncate", "encode",
                               "write"}

\* The handler of a begins: two at a time are only possible because the tray
\* calls it without sm.mu.
Crossing(a)  == IF \E b \in Actors \ {a} : Saving(b) THEN {"crossed"} ELSE {}

\* connectMu is let go when serial_connect returns.
Unlock(a) == connectMu' = IF connectMu = a THEN Nobody ELSE connectMu

\* A tool in progress keeps the history of what it is about.
Opened(t, m, c) == m = "up" /\ c.port = act[t].val.port

-----------------------------------------------------------------------------
(* UpdateConfig and the handler it calls (createSaveConfigFunc).            *)

\* Where an actor goes on.
RefusedTo(a) == IF a \in Menus THEN "notify"
                ELSE IF a \in Tools THEN "recheck" ELSE "idle"
SavedTo(a) ==
  IF a \in Menus THEN IF lock = a THEN "notify" ELSE "after"
  ELSE IF a = Boot THEN "boot" ELSE IF a = Task THEN "idle" ELSE "connect"

\* Refused while connected and without a port; the attempt alone ends a
\* recovery.
UpdateConfig(a) ==
  /\ At(a, "update") /\ Unlocked
  /\ LET val == act[a].val IN
     \/ /\ mode # "up" /\ val.port # NoPort
        /\ Link!Reconfigure(val)
        /\ lock' = a /\ mishaps' = mishaps \cup Crossing(a)
        /\ act' = [b \in Actors |->
                     IF b = a THEN [act[a] EXCEPT !.pc = "assign"]
                     ELSE IF b \in Tools
                     THEN [act[b] EXCEPT !.overtaken = @ \/ At(b, "connect")]
                     ELSE act[b]]
     \/ /\ mode = "up" \/ val.port = NoPort
        /\ IF mode = "up" THEN UNCHANGED linkVars ELSE Link!Reconfigure(conf)
        /\ Go(a, RefusedTo(a))
        /\ mishaps' = mishaps \cup IF a \in Menus /\ val.port # NoPort
                                   THEN {"refused"} ELSE {}
        /\ UNCHANGED lock
  /\ UNCHANGED <<connectMu, cfg, file, calls, restarts>>

\* The fields of cfg.Serial are assigned one by one.
Assign(a) ==
  /\ At(a, "assign")
  /\ cfg' = [cfg EXCEPT !.port = act[a].val.port] /\ Go(a, "assignrest")
  /\ UNCHANGED <<linkVars, lock, connectMu, file, calls, restarts,
                 mishaps>>

AssignRest(a) ==
  /\ At(a, "assignrest")
  /\ cfg' = [cfg EXCEPT !.baud = act[a].val.baud] /\ Go(a, "truncate")
  /\ UNCHANGED <<linkVars, lock, connectMu, file, calls, restarts,
                 mishaps>>

\* The handler returns, and UpdateConfig with it if it was called from there.
HandlerKeepsLock(a) == Go(a, SavedTo(a)) /\ UNCHANGED lock         \* mutant
HandlerReturns(a) ==
  /\ Go(a, SavedTo(a))
  /\ lock' = IF lock = a THEN Nobody ELSE lock

\* Save: os.Create truncates, or fails, which is logged only.
Truncate(a) ==
  /\ At(a, "truncate")
  /\ \/ file' = Empty /\ Go(a, "encode") /\ UNCHANGED <<lock, mishaps>>
     \/ /\ HandlerReturns(a)
        /\ mishaps' = mishaps \cup {"failed"} /\ UNCHANGED file
  /\ UNCHANGED <<linkVars, connectMu, cfg, calls, restarts>>

\* The encoder reads cfg.
Encode(a) ==
  /\ At(a, "encode")
  /\ Put(a, [act[a] EXCEPT !.pc = "write", !.text = cfg])
  /\ UNCHANGED <<linkVars, lock, connectMu, cfg, file, calls,
                 restarts, mishaps>>

\* Two writers of one file: the end of the longer text stays behind.
Written(old, text) ==
  IF old \in Saved /\ Size[old] > Size[text] THEN Torn
  ELSE IF old = Torn THEN Torn ELSE text

Write(a) ==
  /\ At(a, "write")
  /\ \/ file' = Written(file, act[a].text) /\ UNCHANGED mishaps
     \/ UNCHANGED file /\ mishaps' = mishaps \cup {"failed"}
  /\ HandlerReturns(a)
  /\ UNCHANGED <<linkVars, connectMu, cfg, calls, restarts>>

Handler(a) == \/ Assign(a) \/ AssignRest(a) \/ Truncate(a) \/ Encode(a)
              \/ Write(a)

-----------------------------------------------------------------------------
(* Connect and Disconnect.                                                  *)

\* Connect succeeds, or fails: connected already, no port, the driver.
ConnectTo(a, ok, failed) ==
  \/ conf.port # NoPort /\ Link!UserConnect /\ ok
  \/ UNCHANGED linkVars /\ failed

\* Disconnect is idempotent and ends a recovery.
DisconnectLink ==
  IF mode = "idle" THEN UNCHANGED linkVars ELSE Link!UserDisconnect

-----------------------------------------------------------------------------
(* The tray: choosing a port or another setting, connecting, and the switch *)
(* for connecting at the start.                                             *)

Ready    == At(Boot, "idle")
TrayOn   == act[Boot].pc \in {"boot", "idle"}
MayCall  == calls < MaxCalls
Called   == calls' = calls + 1
callVars == <<linkVars, lock, connectMu, cfg, file, restarts, mishaps>>

\* setPort, setBaudRate and the others; toggleSerial; toggleAutoConnect.
Click(m) ==
  /\ At(m, "idle") /\ TrayOn /\ MayCall /\ Called
  /\ \E pc \in {"look", "toggle", "flip"} : Go(m, pc)
  /\ UNCHANGED callVars

MenuLook(m) ==
  /\ At(m, "look") /\ Unlocked
  /\ Put(m, [act[m] EXCEPT !.was = (mode = "up"),
                           !.pc = IF mode = "up" THEN "off" ELSE "change"])
  /\ UNCHANGED <<callVars, calls>>

MenuOff(m) ==
  /\ At(m, "off") /\ Unlocked
  /\ DisconnectLink
  /\ Go(m, "change")
  /\ UNCHANGED <<lock, connectMu, cfg, file, calls, restarts, mishaps>>

MenuChange(m) ==
  /\ At(m, "change")
  /\ \/ \E p \in Ports : cfg' = [cfg EXCEPT !.port = p]
     \/ \E b \in Bauds : cfg' = [cfg EXCEPT !.baud = b]
  /\ Go(m, "snapshot")
  /\ UNCHANGED <<linkVars, lock, connectMu, file, calls, restarts,
                 mishaps>>

MenuFlip(m) ==
  /\ At(m, "flip")
  /\ cfg' = [cfg EXCEPT !.auto = ~@]
  /\ Go(m, "notify")
  /\ UNCHANGED <<linkVars, lock, connectMu, file, calls, restarts,
                 mishaps>>

\* syncSerialConfig reads cfg, then calls UpdateConfig.
SnapshotStale(m) ==                                                \* mutant
  /\ At(m, "snapshot")
  /\ Put(m, [act[m] EXCEPT !.pc = "notify", !.val = Serial(cfg)])
  /\ UNCHANGED <<callVars, calls>>
Snapshot(m) ==
  /\ At(m, "snapshot")
  /\ Put(m, [act[m] EXCEPT !.pc = "update", !.val = Serial(cfg)])
  /\ UNCHANGED <<callVars, calls>>

\* notifyConfigChangedAndReconnect reads cfg again and calls the handler.
Notify(m) ==
  /\ At(m, "notify")
  /\ Put(m, [act[m] EXCEPT !.pc = "assign", !.val = Serial(cfg)])
  /\ mishaps' = mishaps \cup Crossing(m)
  /\ UNCHANGED <<linkVars, lock, connectMu, cfg, file, calls,
                 restarts>>

\* autoReconnect, if there was a connection and there is a port.
MenuAfter(m) ==
  /\ At(m, "after")
  /\ IF act[m].was /\ cfg.port # NoPort THEN Go(m, "connect") ELSE Return(m)
  /\ UNCHANGED <<callVars, calls>>

MenuToggle(m) ==
  /\ At(m, "toggle") /\ Unlocked
  /\ Go(m, IF mode = "up" THEN "disconnect" ELSE "connect")
  /\ UNCHANGED <<callVars, calls>>

Menu(m) == \/ MenuLook(m) \/ MenuOff(m) \/ MenuChange(m) \/ MenuFlip(m)
           \/ Snapshot(m) \/ Notify(m) \/ MenuAfter(m) \/ MenuToggle(m)

-----------------------------------------------------------------------------
(* serial_connect and serial_disconnect.                                    *)

ToolCall(t) ==
  /\ At(t, "idle") /\ Ready /\ MayCall /\ Called
  /\ \/ \E c \in Conf : /\ c.port # NoPort
                        /\ Put(t, [Rest EXCEPT !.pc = "mutex", !.val = c])
     \/ Go(t, "toggle")
  /\ UNCHANGED callVars

\* serial_disconnect refuses unless connected.
ToolDisconnect(t) ==
  /\ At(t, "toggle") /\ Unlocked
  /\ IF mode = "up" THEN Go(t, "disconnect") ELSE Return(t)
  /\ UNCHANGED <<callVars, calls>>

ToolMutex(t) ==
  /\ At(t, "mutex") /\ connectMu = Nobody
  /\ connectMu' = t /\ Go(t, "look")
  /\ UNCHANGED <<linkVars, lock, cfg, file, calls, restarts, mishaps>>

ToolLook(t) ==
  /\ At(t, "look") /\ Unlocked
  /\ Go(t, IF mode = "up" THEN "existing" ELSE "update")
  /\ UNCHANGED <<callVars, calls>>

\* recheckResult, after a refusal or a failure.
ToolRecheck(t) ==
  /\ At(t, "recheck") /\ Unlocked
  /\ \/ mode = "up" /\ Go(t, "existing") /\ UNCHANGED connectMu
     \/ mode # "up" /\ Return(t) /\ Unlock(t)
  /\ UNCHANGED <<linkVars, lock, cfg, file, calls, restarts, mishaps>>

AnyPort(t) == mode = "up"                                          \* mutant
SamePort(t) == Opened(t, mode, conf)

\* existingConnectionResult: a success if it is the port asked for.
ToolExisting(t) ==
  /\ At(t, "existing") /\ Unlocked
  /\ \/ /\ SamePort(t) /\ UNCHANGED connectMu
        /\ Put(t, [act[t] EXCEPT !.pc = "report",
                                 !.opened = @ \/ Opened(t, mode, conf)])
     \/ ~SamePort(t) /\ Return(t) /\ Unlock(t)
  /\ UNCHANGED <<linkVars, lock, cfg, file, calls, restarts, mishaps>>

\* connectedResult reads the settings once more; the call succeeds.
ToolReport(t) ==
  /\ At(t, "report") /\ Unlocked
  /\ Return(t) /\ Unlock(t)
  /\ UNCHANGED <<linkVars, lock, cfg, file, calls, restarts, mishaps>>

Tool(t) == \/ ToolDisconnect(t) \/ ToolMutex(t) \/ ToolLook(t)
           \/ ToolRecheck(t) \/ ToolExisting(t) \/ ToolReport(t)

-----------------------------------------------------------------------------
(* Commands of pages, one at a time.                                        *)

PageCommand ==
  /\ At(Page, "idle") /\ Ready /\ MayCall /\ Called
  /\ \/ \E c \in Conf : /\ c.port # NoPort
                        /\ Put(Page, [Rest EXCEPT !.pc = "update", !.val = c])
     \/ Go(Page, "disconnect")
  /\ UNCHANGED callVars

-----------------------------------------------------------------------------
(* The ends that calls have in common.                                      *)

\* Connect, on behalf of anyone.
Connect(a) ==
  /\ At(a, "connect") /\ Unlocked
  /\ IF a \in Tools
     THEN ConnectTo(a, Put(a, [act[a] EXCEPT !.pc = "report",
                                             !.opened = Opened(a, "up", conf)]),
                    Go(a, "recheck"))
     ELSE ConnectTo(a, Return(a), Return(a))
  /\ UNCHANGED <<lock, connectMu, cfg, file, calls, restarts, mishaps>>

Disconnect(a) ==
  /\ At(a, "disconnect") /\ Unlocked
  /\ DisconnectLink
  /\ Return(a)
  /\ UNCHANGED <<lock, connectMu, cfg, file, calls, restarts, mishaps>>

\* autoConnectSerial, which --stdio leaves out.
BootConnect ==
  /\ At(Boot, "boot") /\ Unlocked
  /\ IF cfg.auto THEN ConnectTo(Boot, Return(Boot), Return(Boot))
     ELSE UNCHANGED linkVars /\ Return(Boot)
  /\ UNCHANGED <<lock, connectMu, cfg, file, calls, restarts, mishaps>>

-----------------------------------------------------------------------------
(* The link by itself, other processes, the end of this one.                *)

LinkMoves ==
  /\ Unlocked
  /\ Link!Drop \/ Link!AutoUp \/ Link!GiveUp
  /\ UNCHANGED <<lock, connectMu, cfg, file, act, calls, restarts,
                 mishaps>>

\* The task found the device behind another name (reconnectUpdateConfig).
TaskRenames ==
  /\ At(Task, "idle") /\ Unlocked
  /\ \E p \in Ports \ {conf.port} :
       /\ Link!AutoRename(p)
       /\ act' = [a \in Actors |->
                    IF a = Task
                    THEN [Rest EXCEPT !.pc = "assign",
                                      !.val = WithPort(conf, p)]
                    ELSE IF a \in Tools
                    THEN [act[a] EXCEPT !.overtaken = @ \/ At(a, "connect")]
                    ELSE act[a]]
  /\ lock' = Task /\ mishaps' = mishaps \cup Crossing(Task)
  /\ UNCHANGED <<connectMu, cfg, file, calls, restarts>>

\* The process ends, at whatever it was, and one is started.
Restart ==
  /\ restarts < MaxRestarts /\ restarts' = restarts + 1
  /\ Begin(Loaded(file))
  /\ UNCHANGED <<file, calls>>

-----------------------------------------------------------------------------
Step(a) ==
  \/ UpdateConfig(a) \/ Handler(a) \/ Connect(a) \/ Disconnect(a)
  \/ a \in Menus /\ Menu(a)
  \/ a \in Tools /\ Tool(a)
  \/ a = Boot /\ BootConnect

Next ==
  \/ \E a \in Actors : Step(a)
  \/ \E m \in Menus : Click(m)
  \/ \E t \in Tools : ToolCall(t)
  \/ PageCommand \/ LinkMoves \/ TaskRenames \/ Restart

Spec == Init /\ [][Next]_vars

-----------------------------------------------------------------------------
Quiet == \A a \in Actors : At(a, "idle")

\* The three copies of the settings agree whenever nobody is at work on them,
\* through every order of tray, tools, pages, recovery under another name,
\* crash and restart, unless the tray's handler ran at the same
\* time as another's, the tray's update was refused after it had changed cfg,
\* or a save failed (tray_windows.go:516, serve.go:687).  Without a port the
\* manager takes no settings.
SettingsAgree ==
  Quiet /\ mishaps = {} =>
    /\ file = cfg
    /\ cfg.port # NoPort => conf = Serial(cfg)

\* serial_connect reports a success only if the port it was asked for was
\* open during the call, whatever pages, tray and recovery do meanwhile,
\* unless one of them reconfigured the link between the call's UpdateConfig
\* and its Connect (serial_connect.go:58, 63).
ConnectTruthful ==
  \A t \in Tools : At(t, "report") => act[t].opened \/ act[t].overtaken

\* The steps that call the manager, which takes sm.mu.
CallsManager == {"look", "off", "toggle", "update", "connect", "disconnect",
                 "existing", "recheck", "report", "boot"}
Waits(a)  == \/ act[a].pc \in CallsManager /\ ~Unlocked
             \/ At(a, "mutex") /\ connectMu # Nobody
Holder(a) == IF At(a, "mutex") THEN connectMu ELSE lock
GoesOn(a) == ~At(a, "idle") /\ ~Waits(a)

\* Whoever waits for a mutex waits for someone who is at work and can go on, or
\* who waits for such a one in turn: connectMu is taken before sm.mu, never
\* after it, and the handler that UpdateConfig runs under sm.mu takes no mutex
\* (manager.go:402, serial_connect.go:43).
NobodyStuck ==
  \A a \in Actors :
     Waits(a) => LET h == Holder(a) IN GoesOn(h) \/ (Waits(h) /\ GoesOn(Holder(h)))

=============================================================================
