# SerialHub in TLA+

SerialHub connects one serial port to people (web terminals, a tray icon) and to
AI clients (MCP). It is one Go program that may run in several processes of one
user: one of them, the *master*, holds the port and serves; the others are
*proxies* that stand between an MCP client on stdio and the master.

This directory holds TLA+ modules translated from the source, TLC
configurations that check them on small instances, and theorems about them that
TLAPS proves for every value of the constants. `PROJECT.json` lists components,
runs, mutants, hazards, findings and theorems, and maps every definition to the
lines it models. Source paths below are relative to the repository.

## 1. Inventory

State, operations, interactions, what is hard, and what makes each part correct.

**Serial manager** (`pkg/serial/manager.go`). State: the open port, the
configuration, a *generation* that counts what the user decided, whether it is
closed, two channels (`dataChan`, `errChan`), the USB identity of the device.
Operations: `Connect`, `Disconnect`, `UpdateConfig`, `Write`, `WriteIfSameGen`,
`Close`; goroutines: a read loop for each connection, a reconnect task after
each loss, one goroutine per event. Hard: every one of them may find its port
taken away or replaced between two critical sections. Correct when: users have
the last word, a task that is out of date changes nothing, no byte of an old
connection follows one of a newer connection, handles do not leak, nothing is
sent on a closed channel, `Close` returns.

**Serial configuration** (`pkg/serial/config.go`). A record with validation and
formatting; a copy is handed out by `GetConfig`.

**Data bridge** (`pkg/bridge`). Two goroutines between the manager's `dataChan`,
the pages and the MCP buffer. Correct when a page that lags delays nobody and
both loops end on `Stop`.

**Read buffer** (`internal/buffer`). Bytes under one mutex, bounded, with
observers called inside `Append`. Correct when it keeps the newest bytes without
a gap and hands each out once.

**WebSocket server and clients** (`pkg/web`). A set of clients under a mutex; per
client a bounded queue and two goroutines. Every send is given up when the queue
is full. Correct when a page gets the stream in order from its registration on
and its goroutines end when the browser goes away.

**Web terminal page** (`pkg/web/static/terminal.html`). Shows the stream, derives
its connection state from events, reconnects a bounded number of times.

**Web command handler** (`cmd/serialhub/command_handler.go`). JSON commands of
pages, run by the bridge's `cmdLoop`; answers are broadcast to all pages.

**MCP tools** (`pkg/mcp/tools`). `serial_connect` (serialised by a mutex of its
own), `serial_disconnect`, `serial_write`, `serial_status`, `serial_list`;
`serial_read` and `serial_clear` on the buffer. Correct when an answer is true of
the call it answers, although page, tray and recovery act in between.

**Script tool** (`pkg/mcp/tools/serial_script.go`). An event loop with a deadline,
timed and delayed writes, and patterns matched in a sliding window; fed by an
observer of the buffer through an inbox with a signal channel; one at a time.
Correct when every hit is counted once, nothing that came in time is missed and
nothing that came late counts, writes stay on one connection, and the report is true.

**MCP server** (`pkg/mcp/server.go`). HTTP and stdio transports of the MCP library.

**Stdio proxy** (`pkg/mcp/proxy.go`). Forwards messages between the client and the
master, probes the master's health, hands the client's connection and the
messages in flight to the next round when the master is lost. Hard: which
message was delivered, and who is told.

**Single-instance lock** (`internal/instance`). An OS lock on a file whose content
names the master. Operations: `Read`, `WaitForInfo`, `Acquire`, `UpdatePort`,
`Release`, `WaitReady`. Hard: crashes, readers that probe the lock, metadata
that are missing, half-written or out of date. Correct when there is one master
and the others find it.

**Serve modes, takeover, shutdown** (`cmd/serialhub/serve.go`). The loops of the
foreground and the `--stdio` mode: become master or follow one; classify the loss
of a master within a budget; resolve a port; shut down in bounded time whatever
hangs (section 3 names an exception).

**Tray** (`pkg/tray`). Menu items, each served by goroutines of its own, that read
and change the shared `cfg` and call the manager; **configuration file**
(`pkg/config`, `cmd/serialhub/config_loader.go`), saved by a handler that
`UpdateConfig` runs under `sm.mu` and that the tray calls without it, and moved
from its old place at a start. Hard: the settings exist three times (manager,
memory, file) and the tray takes no lock. Correct when the three agree whenever
nobody is at work, and when a move of the file never loses or replaces one.

**MCP client setup** (`pkg/mcpsetup`), **uninstall**, **self upgrade**
(`cmd/serialhub`). Commands that edit files other programs own, or the program
itself. Hard: each step may fail or be killed, and others act in between. Correct
when the client's own part of its file survives, when a program or its backup is
always there, and when a removal that failed can be repeated.

**Log aggregation** (`internal/logagg`). A window per source, ended by a timer or
by `FlushAll`. Correct when everything is in exactly one line and no timer ends a
window that is not its own.

How they interact: read loops send to `dataChan`; the bridge receives, sends to
the pages' queues and appends to the buffer, whose observer feeds a script; pages,
tray and tools call the manager; the manager's events call handlers that broadcast
to pages, its configuration handler saves the file; processes meet in the lock
file, the configuration file, the installation directory and on TCP ports.

## 2. Modules

| module | models | theorems |
|---|---|---|
| `SerialManager` | the serial manager, a script's writes, event handlers, what a page makes of events | `SerialManagerProofs` |
| `SerialLink` | abstract: what the manager promises its users | |
| (refinement) | `SerialManager` implements `SerialLink` (`Link == INSTANCE SerialLink WITH ...`) | `SerialLinkProofs` |
| `Takeover` | the lock file and the processes of a user that compete for it | `TakeoverProofs` |
| `DataPath` | bridge, pages, buffer, `serial_read` and `serial_clear` | `DataPathProofs` |
| `StdioProxy` | one process with `--stdio`: rounds as a proxy, the hand-over, the session that takes over | `StdioProxyProofs` |
| `ScriptRun` | one call of `serial_script`, with the observer of the buffer that feeds it | `ScriptRunProofs` |
| `Settings` | tray, tools, page commands, recovery and start on the three copies of the settings; uses `SerialLink` as the manager | `SettingsProofs` |
| `Migration` | choice and move of the configuration file, several processes | `InstanceProofs` |
| `InstallDir` | `upgrade` and `uninstall` on the installation directory | `InstanceProofs` |
| `ClientFile` | `mcp-setup` and `uninstall` on the file of an MCP client that saves | `InstanceProofs` |
| `LogWindow` | one log aggregator | `InstanceProofs` |
| `Stopping` | the order and the time-outs of a shutdown | `InstanceProofs` |
| `Instance` | `Settings` beside the five modules above, each with its own constants and variables; what they promise together | `InstanceProofs` |
| `MCSerialManager`, `MCTakeover`, `MCDataPath`, `MCScriptRun`, `MCInstance` | values of the constants for TLC | |

Conventions. A critical section is one action; what a goroutine does between two
of them is an action of its own. A comment in a constant's declaration that
begins with *bound* marks what limits the instance and not the program. History
variables and fields (marked *history*) are read by no guard. A definition marked
*mutant* is not part of the model: it is a plausible mistake which, put in the
place of the definition named in `PROJECT.json`, makes TLC report the property
named there; it shows that the property depends on the code.

### SerialManager

A connection is a number, given out in order of `openPort`; its read loop and
the reconnect task that follows its loss carry the same number. `port`, `cfg`,
`gen`, `closed`, `usb` are the fields of the struct under `sm.mu`; `rd`, `task`
are the program counters and locals of the goroutines; `fd` is the driver's
handle; `dataChan` holds for each chunk the connection it came from; `events` are
handlers started and not yet run. `Connect`, `Disconnect`, `UpdateConfig`,
`CloseBegin`/`CloseEnd` are the calls; `ReadTop` ... `Publish`, `ReadErr` are the
read loop; `Lose`, `LoseNotify` are `handleUnexpectedDisconnect`; `TaskWake` ...
`TaskGiveUp` are `reconnectLoop`, in which every read of shared state is a step.
Devices move between port names at any moment (`Layouts`). `SerialLink` is the
view of a user: *idle*, *up*, *recovering*, *closed*, with the promise that what
is recovering does not stay so.

### Takeover

One record per process: where it is in `runMaster` or `runStdio`, the file it
opened, the master it found, its budgets. `holder` is the OS lock of each file,
`meta` the content, `listen` the owner of each TCP port. `Read` is four actions
(open, probe, let go, read), because the probe *takes* the lock for a moment;
`Acquire` is open, lock, truncate, write; `UpdatePort` truncates and writes again.
A crash may come between any two. Another program may hold a port.
`UninstallCheck` and `UninstallRemove` are the command that removes the file.
What follows the opening of the file and is not a busy lock (permission, disk
full) makes a process end with an error, which `Crash` covers.

### DataPath

Bytes are numbered along the stream, so that loss, duplication and disorder show.
`forward` and `command` are the two loops of the bridge with the rest of the
broadcast they are in; `page` holds per page the handler, the two goroutines, the
queue, and as history what the browser got. `SerialPublish` is the last step of
the manager's read loop, the only thing `DataPath` and `SerialManager` share.

### StdioProxy

The client sends the requests 1, 2, ...; the first is `initialize` and stands for
the handshake. `client`, `said`, `read`, `got` are the two ends of stdin and
stdout; `main` is the goroutine that runs `runStdio`, `RunStdioProxy` and, in the
end, `RunStdioConnection`; `kept` is what these hand to each other
(`StdioHandoff`: the request whose write failed, the reply that was not written,
the recorded handshake). `up`, `down`, `probe` are the goroutines of a round,
`errs` is `errCh`, `gone` is `clientGone`. `RoundEnds` waits for the forwarders
(`forwarders.Wait`) and resolves the result; without that wait a request could be
in the forwarder's hand and in the hand-over at once.

`master` says whether the master of this round answers. Which process that is,
and how it is found, is the subject of `Takeover`: `Connects`, `ConnectFails`,
`TakeOver` and `GiveUp` are what can come of it, and `MaxRounds` stands for the
budgets. A master that does not answer may have taken a request all the same
(`UpWriteFails`). It never sends a reply for a request that was in its hands when
it died; the client waits for that one until its own time-out, which the code
accepts. The context given to `RunStdioProxy` is never cancelled (`proxyToMaster`
passes `Background`), so that branch is left out. Probes are asked for with a
client of their own and go on while the forwarders are stuck. The client is
assumed to read its stdout, or to be gone: a write to a full pipe ends with
neither the context nor the connection, and the barrier would wait for it.

### ScriptRun

`Call`, `Subscribe`, `CaptureGen` and `Expand` are what `handleScript` does before
its loop, every early return included; `Top` ... `Wait` are the loop:
the check of context and link, `inbox.drain`, `process` piece by piece and hit by
hit (`TakePiece`, `Serve`), the deadline with the *barrier* (`buf.Length()`, which
waits for whoever is inside `Append`), the timed and the delayed writes, and the
`select`. `Append1` ... `Append3` are the read loop inside `DataBuffer.Append`
while it holds the buffer's lock: the time is taken, the piece queued, the signal
given, and the script may act between any two. The clock advances between any two
steps. Device data is a sequence of letters and a pattern a word, so that what
matters about the window is there: offsets, pieces longer than the window, words
cut by a piece boundary, hits that overlap. `FindAll` is what a search from the left
returns, told without the search: the places that no earlier hit reaches into. The
hits of a piece are a set (`work`), served in the order of the two loops (`First`).
`Accepted`, `Text`, `Places` and `Expected` tell the reference answer without window
and offsets.

`ScriptRun` meets `SerialManager` in the link and its generation, which `LinkChanges`
moves freely; that a script's write reaches only the connection of its generation
is `ScriptOneConnection` there.

### Settings

`conf` and `mode` are the manager as `SerialLink` describes it (`Link`), which
`SerialManager` is proved to implement; every action on them is one of `SerialLink`'s.
`lock` is `sm.mu` where it shows: while `UpdateConfig` or a task's
`reconnectUpdateConfig` runs the handler that saves. `cfg` is the shared record,
assigned field by field (`Assign`, `AssignRest`); `file` is truncated, and written
with what the encoder read of `cfg` (`Truncate`, `Encode`, `Write`); two writers
may leave a torn file (`Written`). `act` says where each goroutine is: menu items
of the tray, calls of `serial_connect` and `serial_disconnect`, the loop that runs
commands of pages, the reconnect task, the start of the process. `Restart` ends the
process anywhere and starts one from the file. `mishaps` records what may let the
copies differ for good: two handlers at a time (`crossed`), an update that was
refused after the tray had changed `cfg` (`refused`), a save that failed (`failed`).

### Migration, InstallDir, ClientFile, LogWindow, Stopping

`Migration`: `resolveConfigPathImpl` and `migrateConfigFile` step by step, for
several processes, with the master's saves and with crashes. A file is the version
that was saved in it; `linked` says that both names are one file (the moment between
`os.Link` and `os.Remove`).

`InstallDir`: `upgrade` from the choice of a release to the removal of old
launchers (`Fetch` ... `Tidy`, the helper that deletes a backup included), with a
failure of each step and a kill between any two; `uninstall` from the plan to the
program (`Begin` ... `Binary`, `LateRemove`), on both platforms.

`ClientFile`: the client saves at any time; `mcp-setup` reads, asks and writes;
`uninstall` reads, writes a file of its own, compares and renames.

`LogWindow`: a window, its timer and its epoch; a timer that is due starts a
goroutine that gets the mutex later (`callbacks`), which is where it races `FlushAll`.

`Stopping`: the goroutine that closes the parts (`worker`), the one that writes the
last logs (`flusher`), and the main one, which waits three seconds for the first, half
a second for the second, and closes the log file (`main`); time in tenths of a
second. A message goes through logrus' mutex to the standard output and the file
(`writer`, `output`), for these goroutines and any other. Closing a part and writing to
an output may be taken at any time or never, which is how they are slow or hang, from
whenever on. The last step of the main goroutine, `closeLogger`, has no time-out:
`os.File.Close` lets later writes fail and, on Windows, waits for one that is going on
(`closeWaits`, `FileBusy`; elsewhere a file that is not a pipe or a socket does not wait).

## 3. Runs

All bounds are in the `.cfg` files. `CHECK_DEADLOCK FALSE` is said where the
system may stop: after `Close`, when all processes have ended, when the bridge
has stopped and all pages are gone, when a script has ended, when the calls,
starts, edits and time that the bounds allow are used up.

| run | shows | bounds, and why they are enough |
|---|---|---|
| `serial_manager` | `TypeOK`; no send on a closed channel; one valid reconnect task; off stays off; bytes in order; each end announced once; tasks keep the user's settings; the safety of `SerialLink` | two connections (the old and the new one of every race), two names, an adapter that moves, two settings, generation 2, two retries |
| `serial_link` | `SerialLink` with its liveness; `Close` returns; a script stays on one connection | fair goroutines, one port that is unplugged and comes back, one change by a user, one retry, event handlers installed, a script, an error queue of one |
| `takeover` | one master (`OneMaster`); the file names it and only masters listen (`MasterFound`) | three processes (a master and two that race), two ports, one crash, one of everything counted, so that every budget runs out |
| `takeover_live` | someone serves, or none is left | three processes, one port, one crash, an uninstallation meanwhile, two lock files |
| `data_path` | pages get the stream in step; bytes are read once; the newest bytes are kept | two pages with queues of one (one lags, one does not), three chunks, two concurrent reads; explored with either the pages or the reads at rest (`OneSide`), because they meet in `forwardLoop` only |
| `data_live` | chunks reach the buffer past a page that does not read; goroutines of lost pages end; the bridge stops | one page, two chunks, one message from the page |
| `stdio_proxy` | `NothingDropped`: no request or reply is lost in a process; `InOrder`; `TakeoverSound`: the handshake is known after a take-over, and a process whose client is gone takes over nothing; `RoundsEnd`: a mute master is left and the process ends with its client; every request arrives | two requests (the handshake and one more), three rounds (the hand-over of a hand-over), two failed probes, so that one does not suffice |
| `script` | `HitsRight`: every rule is served once for each place its word stands at, and a time-out has missed nothing; `TruthfulEnd`; `NoLostWakeup`; a script ends | nine scripts (repeated and single rules, delays, repeated writes, four that are invalid), two pieces of which one is longer than the window, limits of two, one change of the link |
| `instance` | `SettingsAgree`; `ConnectTruthful`; `NobodyStuck`: whoever waits for a mutex waits for someone who goes on; `StopsInTime`: a shutdown ends in time, unless `closeLogger` waits for a write; `UserFilesKept`: the configuration and the clients' files survive; `ProgramRecoverable`; `LogsComplete` | one menu, one tool, a page, a recovery and the start on two ports, two calls, one restart (files of two lengths, so that they tear); two starting processes, three starts and three versions; two upgrades and two uninstalls; two saves of a client and three commands; four additions and two flushes around a limit; every part, output or message slow or hanging from any moment on, on Windows or not |

`instance` explores behaviours of six modules that share no variable: which one a
behaviour is of is chosen at the start (`part`), the others stay as they are. Every
state of each module is reached; only the product, which would show nothing, is not
formed. `Settings` has also been checked with two values of the other settings
(two menus or a tool as well), with the same result.

Three runs end in a counterexample; they are the findings:

* `page_order`: event handlers run in goroutines of their own and may overtake each
  other; a page may show the opposite of the state (`manager.go:431`).
* `text_stays_text`: a typed `{` is taken for a command and lost; a chunk of the
  device that is JSON is taken for an event and not shown (`client.go:138`).
* `reply_lost`: a reply the old master gave and the client did not get is written to
  the next master, not to the client, unless the process takes over itself
  (`proxy.go:203`). `RepliesKept` is what remains true, and is proved.

What the models show beside these, without a run of its own:

* Waits for a mute master are counted over the whole life of a proxy
  (`serve.go:497`), while the comments speak of waits in a row (`serve.go:470`,
  `serve.go:484`): slow moments of one master that are hours apart add up, and the
  process gives up. `Takeover` counts as the code does.
* `MCTakeover` with `Uninstalling = TRUE` violates `OneMaster`: `uninstall` checks
  that no instance runs and removes the directory with the lock file later
  (`uninstall.go:440`); an instance that started in between keeps the lock of a file
  nobody sees, and the next one locks a new file (against `instance.go:8` and
  `docs/MCP.md:358`). `Recovers` holds in that case too.
* `StopsInTime` excepts the time that `closeLogger` waits for a write to the log file,
  and without that exception TLC finds a process that is not gone after three and a
  half seconds: on Windows, with a write to the file that hangs, the main goroutine
  calls `logFile.Close` by itself (`serve.go:353`, and `serve.go:294`, `:438` and the
  deferred calls at `:58` and `:63` when it was not forced; `logger.go:65`) and
  may never come to `os.Exit`. The comments promise a forced exit whatever is stuck
  (`serve.go:307`) and name a log file that is (`serve.go:346`), for which the messages
  were moved off this goroutine; the test of that (`serve_test.go:30`) ends before the close.
* The exceptions in `Settings` are real: the tray's handler runs without `sm.mu`
  and may cross with another (`crossed`), and after an update that the manager refused
  the tray saves its own values all the same (`refused`, `tray_windows.go:516`). A
  crash in the middle of `Save` makes the next start use the defaults.
* `ConnectTruthful` needs its exception: a page that reconfigures between the tool's
  `UpdateConfig` and its `Connect` makes `serial_connect` report a success for
  another port (`serial_connect.go:58`; `docs/MCP.md:92`).
* `Recognised` and `NothingStranded` need theirs: an upgrade from v0.5.1 on Windows may
  remove the last launcher and backup that mark the directory (`stripped`), and
  `uninstall` then leaves the documents. A copy named `.serialhub-new-*` that a killed
  upgrade left is removed by nobody.
* `mcp-setup` writes without comparing and in place (`mcpsetup.go:253`): what the
  client saves meanwhile is lost (`raced`), which `uninstall` prevents but for the
  moment between comparison and rename.

### Fairness

Assumed: Go runs every goroutine that can run; `select` picks at random among the
cases that are ready, so none is passed over for ever (strong fairness of the
single case); the driver's calls return, `Read` within its 500 ms time-out; a
process takes its next step, time-outs and health probes included; a read or ping
on a connection that is down fails; a write to a master that is gone ends when
the context is cancelled, and that of a replay by its own time-out; the MCP client
reads its stdout; time passes while a script runs, and whoever is inside `Append`
comes out of it. Not assumed: that a read from a mute master ever returns (the
probe is what ends the round, `LossNoticed`), that users, devices, browsers, a
page on a living connection, scripts or MCP clients ever do anything, or that a
master ever stops. `NobodyStuck` and `StopsInTime` are invariants and need no fairness: `NobodyStuck`
says of every actor in a call what it waits for (`Waits`, `Holder`), by the locks the
code takes at that step. That an actor who waits for nothing can indeed take a step is
`ENABLED`: the guards of its actions ask for nothing but the step it is at and those
locks, TLC was asked once, and the proofs do not say it.

## 4. Theorems

TLAPS proves, for every value of the constants that meets the named assumptions:

* `SerialManagerProofs`: type correctness, every safety property of run
  `serial_manager`, and `ScriptOneConnection` of run `serial_link`. The inductive invariant `IInv` adds to the
  properties: the numbering of connections and goroutines (`Numbering`), what
  `Close` has ended (`Closing`), how generations of tasks, scripts and manager
  compare (`Generations`), what a task's locals say of the connection it follows
  (`TaskLocals`), the order of chunks in the channel (`Stream`), where a script may
  write (`Writing`) and which ends are still to be announced (`Ends`). Each action
  has a step. The heart is `Generations`: every change a user makes advances the
  generation, so a task that compares equal was started after the last of them.
* `SerialLinkProofs`: `ImplementsLink`, initial states map to initial states and
  steps to steps or stuttering, under the same invariant.
* `TakeoverProofs`: `TypeOK`, `OneMaster` and `MasterFound`,
  for any number of processes, ports and crashes, provided nobody uninstalls
  (`~Uninstalling`; without it `OneMaster` is false, see section 3). `IInv`
  says that one file exists at most, that a process past `Acquire` holds its lock
  (`Holding`), that a listener is past `Bind` (`Listening`), and that the metadata
  are those of the holder when it has written them (`Truthful`); `Budget` bounds
  the counters, and is what `TypeOK` needs.
* `StdioProxyProofs`: `TypeOK`, `NothingDropped`, `InOrder` and `TakeoverSound`,
  for any number of requests, rounds, failures and any capacity of
  `errCh`. `IInv` adds that goroutines run in a round only (`Rounds`), that the one
  request on its way is the last one read, in the forwarder's hand or pending, and
  that nothing newer has reached a master (`OneOnTheWay`), where the knowledge of
  the handshake is (`Handshake`), and that no reply is read while one is kept
  (`OneReply`). `NothingLost` alone is not inductive: it needs that what is pending
  was never overwritten, which `OneOnTheWay` says.
* `ScriptRunProofs`: `TypeOK`, `HitsRight`, `NoLostWakeup` and `TruthfulEnd`, for any
  scripts, limits, letters, words and pieces. `Announced`: from the drain on, a
  piece behind it has its signal or will get it. `Lateness` and `LookedAt`: behind the
  barrier no piece that is to come was timed before the deadline, and what is
  drained was looked at. `Balance`, `NoneTooMany` and `Asked`: hits are writes sent
  or queued, and no entry is written more often than it asks for. A lemma
  (`DoneStays`) says that nothing moves once the script has ended, so that what the
  report says stays true.

  `HitsRight` compares counters with the places of a word in all that came, while the
  code sees a window of it; it says nothing while hits wait in `work`, and so is not
  inductive. `Matched` is: the window is the end of the text and full once
  something was cut (so a word that fits in it and ends in the new piece lies in
  it entirely), and for each rule `RuleFits`: it has answered for at most as many places
  as end before its offset, the offset is the end of a place, the hits in `work` are
  places behind the offset that do not overlap, and, if the word is simple, answers and
  hits together are all its places or all its limit allows. It is kept when a piece comes
  (`FitsNew`) and when a hit is served (`FitsServed`), and gives the counts once `work` is
  empty (`FitsExactly`, `CountsAgree`). Below it lie lemmas on the operators: the places
  of a word in a text that grows or is cut (`StandingGrows`, `StandingInTail`), that the
  places of a simple word keep apart (`SimpleApart`), that the hits of a search exist,
  do not overlap, and are all places of a simple word (`FindAllHits`), what a limit takes
  from them (`Taking`), and that another piece comes behind the text (`FlattenAppend`). The
  last and `PlannedSum` are about recursive functions; they are proved by induction over a
  set of numbers (`NatInduct`), which follows from the well-foundedness of finite sets
  without a theorem that takes an operator. For `TypeOK`, `ExpandedFits` shows that the
  checks by subtraction and division (`serial_script.go:246`, `:256`) bound the sum and
  every offset.
* `SettingsProofs`: `ConnectTruthful`, `SettingsAgree`, `NobodyStuck` and `TypeOK`, for any
  number of menus, tools, ports, settings, calls and restarts. `Locks`: whoever holds `sm.mu` is in the handler
  and saves the settings in force. `Truth`: where a tool stands, what it has seen.
  `Agree`: as long as nothing has crossed, at most one goroutine saves (`Sole`),
  the file is `cfg` unless somebody is about to save (`FileKept`), whoever is about to
  change one copy brings it to the others (`Brings`), and manager and memory differ only while
  such a debt is open (`ConfKept`). `NobodyStuck` follows from `Locks` (whoever holds
  `sm.mu` is in the handler, which takes no mutex) and `Gate`: whoever holds `connectMu` is
  between the mutex of `serial_connect` and its return, so it may wait for `sm.mu`, and
  never the other way round.
* `InstanceProofs`: `UserFilesKept`, `ProgramRecoverable`, `LogsComplete`, `StopsInTime` and
  `TypesOK` of run `instance`, one inductive invariant for each module. `MovingInv`: unless
  one stayed beside the program all processes are for the user's directory
  (`NobodyBeside`), and whoever is about to publish holds a copy of the only file
  (`InHand`). `DirInv`, for any number of upgrades and documents: what is put in the
  place of the program is verified (`Sound`), a backup that is to be deleted is of an
  upgrade that is over (`Aside`), and what an uninstall that did not fail has left at each
  step (`Progress`); documents go before what marks the directory. `ClientInv`: what
  `mcp-setup` or `uninstall` is about to write was whole and, unless there was a race, is
  what the client saved last. `WindowInv`, for any sizes and any limit: what is counted
  (`Counted`) and that timers and callbacks of the open window's epoch are its own, in time
  (`Timed`). `StopInv`: what the main goroutine has waited for, and for how
  long, and that time passes in `closeLogger` only where it waits for a write
  (`Deadlines`); that who holds the logger's mutex stays where he is, so that a late
  message undoes nothing (`Unforced`); and that the announcement and its pause come
  first (`Announced`). `PartStep` says that a step of `Instance` is a step of one module and a
  stutter of the others, so that `Settings`' theorems hold of it too.
* `DataPathProofs`: `TypeOK`, `ReadOnce`, `NewestKept` and `PagesInStep`, for any number of
  pages and calls of `serial_read` and any capacities. None of the invariants is inductive: `ReadOnce`
  says nothing of the chunks still on their way. `Chain` (chunks follow each other),
  `Channel` (`dataChan` holds the last of them, what is broadcast is the one before) and
  `Filled` (the buffer ends with the last byte that passed, what was read is older) say
  where every byte is. For the pages, every step is shown to have one of six
  effects on a page (`Effect`: it is left alone, sent a note, given the next chunk, must
  wait for one, has one written, joins); `InStep` (what is seen and what waits is in order,
  none ahead of the broadcast, and all since it joined if nothing was missed) is kept by
  each of them, and `Joined` says that nothing reaches a page before it registers.

Every safety property of a passing run is a theorem (and `NoLeakedHandle`, which no run
checks: every port that was taken away is being closed). Only checked by TLC is liveness:
`LinkSpec` (whose safety part, `LinkSafe`, is proved), `CloseCompletes`, `Recovers`,
`ChunksBuffered`, `LoopsEnd`, `RoundsEnd`, `RequestsArrive` and `ScriptEnds`, since
fairness and `ENABLED` are out of the prover's reach; for the same reason that an actor
who waits for nothing can step (`NobodyStuck` says only whom it waits for).

## 5. Not modelled

* Driver calls that never return; with one, `Disconnect`, `Connect` and `Close` wait
  behind the lock that `Write` holds for reading (`manager.go:286`).
* `readLoop`'s hold on incomplete UTF-8 (`manager.go:567`) and the choice among several
  matching ports; the text inside a chunk is abstracted.
* That a refused `UpdateConfig` ends a running script (`manager.go:381`) is in the
  models (`LinkChanges`, `Reconfigure`), as is what the code does; no property forbids it.
* In `DataPath`: the conversion of line ends itself, chunk by chunk (`bridge.go:166`);
  the counts that `serial_clear` (which asks for the length before it clears) and
  `Broadcast` report; the handlers of serial events, which broadcast as well
  (`SerialManager` has them); what a command does (`Settings` has it).
* In `StdioProxy`: the tracking of the logging level, which is recorded with the
  handshake and used likewise; the foreground mode (`runMaster`), which hands over
  between rounds alike but has a terminal for a client, and reads nothing from it
  once it is the master; a client that lives and does not read.
* In `Takeover`: the messages a proxy forwards (`StdioProxy` has them); a program other than SerialHub that
  answers `/health` (the proxy's probe accepts any 200, `proxy.go:252`).
* In `ScriptRun`: regular expressions beyond words, the wording and sizes of the
  report, and the second script that `scriptMu` refuses.
* In `Settings`: the tray's display (its status, computed and then applied, may be
  out of date for a moment: `tray_windows.go:639`; at the start the port is connected
  before the tray is told of events, `serve.go:242`), the console window, the list of
  ports; `serial_write`, `serial_status` and `serial_list`.
* In `Settings`, too: `cfg` is assigned field by field but read in one step by the
  tray and the encoder (`Snapshot`, `Notify`, `Encode`), so that of the torn reads only
  those of a half assigned record show. With reads in two steps (one menu, one tool,
  two ports, two other settings, two calls) TLC found `SettingsAgree` to hold as
  well, if `crossed` counts from the first read of the tray's handler call.
* In `ScriptRun`, too: the width of integers; the checks of the expansion divide
  and subtract so that nothing larger than a limit is ever computed.
* In `Stopping`: `logFile` that could not be opened (then nothing waits for it, as where
  `closeWaits` is false); what the parts log while they are closed (any goroutine may log).
* In `InstallDir`: the contents of archives, the network, the quoting of the helper
  scripts. In `ClientFile`: the syntax trees of JSON and the clients' own commands.
* Everything `PROJECT.json` lists as `not_modelled`, with the reason: command line,
  logging and messages hold no state beyond what is read once at the start;
  installers and tests are not part of the running program.

## 6. Plan

Done: `SerialManager` and `SerialLink`, `Takeover`, `DataPath`, `StdioProxy`,
`ScriptRun`, `Settings` on top of `SerialLink`, and the modules about files, logs and
the end of the process, with the theorems of section 4. Next, in order of importance:

1. Text algorithms as functions with reference definitions: the UTF-8 tail,
   conversion of line ends chunk by chunk, `compareVersion`, the matching of ports.
2. Theorems about those, by the induction of `ScriptRunProofs`.
3. Reads of `cfg` field by field in `Settings`, and the proof of `SettingsAgree` for them.
4. The tray's status display and the start-up order of its event handler.
