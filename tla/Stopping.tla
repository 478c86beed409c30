------------------------------- MODULE Stopping -------------------------------
(***************************************************************************)
(* The end of a process that serves (gracefulShutdown, flushBoundedLog and *)
(* closeLogger, serve.go and logger.go): a goroutine closes one part after *)
(* the other, while the main goroutine waits for it, but not for long; a   *)
(* third writes the last logs, waited for not for long either; then the    *)
(* main goroutine itself closes the log file.  Closing a part and writing  *)
(* to an output are never urgent: what hangs is a step that is not taken.  *)
(* Time counts in tenths of a second.  A definition marked "mutant" is not *)
(* part of the model.                                                      *)
(***************************************************************************)
EXTENDS Integers

Notice  == 3    \* time.Sleep after the broadcast
HTTP    == 20   \* what http.Server.Shutdown may take
Patience == 30  \* what the main goroutine waits for the parts
Logs    == 5    \* and for the logs
Never   == Patience + Logs + 1  \* bound: where time ends

VARIABLES
  now,        \* since the request to stop
  services,   \* the services had started
  closeWaits, \* closing a file waits for a write to it (Windows)
  main,       \* the main goroutine
  worker,     \* the one that closes the parts
  due,        \* when its sleep or its wait for HTTP ends, otherwise 0
  flusher,    \* the one that writes the logs
  flushDue,
  writer,     \* who holds logrus' mutex, and which output he writes to
  output,
  forced,     \* history: the main goroutine lost its patience
  told,       \* history: the terminals were told
  held        \* history: time passed in closeLogger, a write going on

vars == <<now, services, closeWaits, main, worker, due, flusher, flushDue,
          writer, output, forced, told, held>>
fixed   == <<services, closeWaits>>
logger  == <<writer, output>>
history == <<forced, told, held>>

TypeOK ==
  /\ now \in 0 .. Never /\ services \in BOOLEAN /\ closeWaits \in BOOLEAN
  /\ main \in {"wait", "flush", "close", "gone"}
  /\ worker \in {"announce", "sleep", "log", "bridge", "http", "serial", "done"}
  /\ due \in 0 .. Never + HTTP /\ flushDue \in 0 .. Never + Logs
  /\ flusher \in {"none", "message", "flush", "done"}
  /\ writer \in {"nobody", "worker", "flusher", "other"}
  /\ output \in {"stdout", "file"}
  /\ forced \in BOOLEAN /\ told \in BOOLEAN /\ held \in BOOLEAN

Init ==
  /\ now = 0 /\ services \in BOOLEAN /\ closeWaits \in BOOLEAN
  /\ main = "wait" /\ worker = "announce" /\ due = 0
  /\ flusher = "none" /\ flushDue = 0 /\ writer = "nobody" /\ output = "stdout"
  /\ forced = FALSE /\ told = FALSE /\ held = FALSE

-----------------------------------------------------------------------------
Announce ==
  /\ worker = "announce"
  /\ IF services THEN worker' = "sleep" /\ due' = now + Notice /\ told' = TRUE
     ELSE worker' = "log" /\ UNCHANGED <<due, told>>
  /\ UNCHANGED <<fixed, now, main, flusher, flushDue, logger, forced, held>>

Wake ==
  /\ worker = "sleep" /\ now >= due /\ worker' = "log" /\ due' = 0
  /\ UNCHANGED <<fixed, now, main, flusher, flushDue, logger, history>>

\* A part is closed, if ever; Shutdown gives up by itself.
After == [log    |-> IF services THEN "bridge" ELSE "serial",
          bridge |-> "http",
          http   |-> "serial",
          serial |-> "done"]
Close ==
  /\ worker \in {"bridge", "http", "serial"}
  /\ worker' = After[worker]
  /\ due' = IF worker = "bridge" THEN now + HTTP ELSE 0
  /\ UNCHANGED <<fixed, now, main, flusher, flushDue, logger, history>>

-----------------------------------------------------------------------------
(* A message: logrus' mutex, the standard output (a process started with    *)
(* --stdio leaves it out), the log file.                                    *)

\* "other" is any other goroutine that logs.
MayLog(w) ==
  \/ w = "worker" /\ worker = "log"
  \/ w = "flusher" /\ flusher \in {"message", "flush"}
  \/ w = "other"
LogBegins ==
  /\ writer = "nobody"
  /\ \E w \in {"worker", "flusher", "other"} : MayLog(w) /\ writer' = w
  /\ output' = "stdout"
  /\ UNCHANGED <<fixed, now, main, worker, due, flusher, flushDue, history>>

\* Once Close has begun a write to the file fails at once.
ToFile ==
  /\ writer # "nobody" /\ output = "stdout" /\ main # "close"
  /\ output' = "file"
  /\ UNCHANGED <<fixed, now, main, worker, due, flusher, flushDue, writer,
                 history>>

Flushed == IF flusher = "message" THEN "flush" ELSE "done"
Logged ==
  /\ writer # "nobody" /\ (output = "file" \/ main = "close")
  /\ writer' = "nobody"
  /\ worker' = IF writer = "worker" THEN After.log ELSE worker
  /\ flusher' = IF writer = "flusher" THEN Flushed ELSE flusher
  /\ UNCHANGED <<fixed, now, main, due, flushDue, output, history>>

\* FlushAll finds no open window.
NoWindows ==
  /\ flusher = "flush" /\ writer # "flusher" /\ flusher' = "done"
  /\ UNCHANGED <<fixed, now, main, worker, due, flushDue, logger, history>>

-----------------------------------------------------------------------------
(* The main goroutine.                                                      *)

EndsWait  == worker = "done" \/ now >= Patience
StopWaiting ==
  /\ main = "wait"
  /\ \/ worker = "done" /\ forced' = FALSE
     \/ now >= Patience /\ forced' = TRUE
  /\ main' = "flush" /\ flusher' = "message" /\ flushDue' = now + Logs
  /\ UNCHANGED <<fixed, now, worker, due, logger, told, held>>

\* As if the main goroutine wrote its last message itself.
EndsFlushWritten == flusher = "done"                               \* mutant
EndsFlush == flusher = "done" \/ now >= flushDue
StopFlushing ==
  /\ main = "flush" /\ EndsFlush
  /\ main' = "close"
  /\ UNCHANGED <<fixed, now, worker, due, flusher, flushDue, logger, history>>

\* closeLogger, then os.Exit or the return from main: os.File.Close has no
\* time-out.
FileBusy == closeWaits /\ writer # "nobody" /\ output = "file"
Exit ==
  /\ main = "close" /\ ~FileBusy
  /\ main' = "gone"
  /\ UNCHANGED <<fixed, now, worker, due, flusher, flushDue, logger, history>>

\* Timers are on time, and the main goroutine and the one that announces run
\* when they can.
Tick ==
  /\ now < Never /\ worker # "announce"
  /\ ~(main = "wait" /\ EndsWait) /\ ~(main = "flush" /\ EndsFlush)
  /\ main = "close" => FileBusy
  /\ worker \in {"sleep", "http"} => now < due
  /\ now' = now + 1 /\ held' = (held \/ (main = "close" /\ FileBusy))
  /\ UNCHANGED <<fixed, main, worker, due, flusher, flushDue, logger, forced,
                 told>>

Next ==
  /\ main # "gone"
  /\ \/ Announce \/ Wake \/ Close \/ LogBegins \/ ToFile \/ Logged
     \/ NoWindows \/ StopWaiting \/ StopFlushing \/ Exit \/ Tick

-----------------------------------------------------------------------------
\* Whatever hangs, and from whenever on, the process is gone three and a half
\* seconds after the request, unless closeLogger waits for a write to the log
\* file, as it may on Windows only (serve.go:353); before that the terminals
\* were told and had their time to show it, and unless it was forced every
\* part was closed (serve.go:306-356).
StopsInTime ==
  /\ now > Patience + Logs => held /\ closeWaits
  /\ main = "gone" /\ ~forced => worker = "done"
  /\ main = "gone" /\ services => told /\ now >= Notice

=============================================================================
