----------------------------- MODULE StdioProxy -----------------------------
(***************************************************************************)
(* pkg/mcp/proxy.go, the session that takes over (pkg/mcp/server.go) and   *)
(* the loop of runStdio around them (cmd/serialhub/serve.go): one process  *)
(* started with --stdio forwards the messages of its MCP client to the     *)
(* master and the replies back, and keeps the client through the masters   *)
(* that come and go, until it becomes the master itself.                   *)
(*                                                                         *)
(* The client sends the requests 1, 2, ... of which the first is           *)
(* "initialize".  Which process is master is the subject of Takeover; here *)
(* a master answers or does not.  A definition marked "mutant" is not part *)
(* of the model, see SerialManager.                                        *)
(***************************************************************************)
EXTENDS Integers, Sequences

CONSTANTS
  MaxSaid,      \* bound: requests of the client
  MaxRounds,    \* bound: times the process runs as a proxy
  MaxFailures,  \* masterProbeFailures
  ErrCap,       \* capacity of errCh
  Notes         \* bound: whether masters send messages that are no replies

ASSUME NumbersAssumption ==
  /\ MaxSaid \in Nat /\ MaxRounds \in Nat /\ Notes \in BOOLEAN
  /\ MaxFailures \in Nat \ {0} /\ ErrCap \in Nat \ {0}

VARIABLES
  client,  \* the client's end of stdin and stdout
  said,    \* requests it has sent
  read,    \* requests taken from stdin
  got,     \* replies it has received
  main,    \* runStdio, RunStdioProxy or RunStdioConnection
  kept,    \* what is handed from one stage to the next (StdioHandoff)
  up,      \* the goroutine that forwards to the master
  down,    \* the goroutine that forwards to the client
  probe,   \* the goroutine that asks for /health
  errs,    \* errCh
  gone,    \* clientGone
  master,  \* whether the master of this round answers
  inbox,   \* its messages, not yet read; in a session, replies not yet written
  ready,   \* whether the session knows the client's initialize
  given,   \* history: requests that reached a master, in order
  taken,   \* history: replies read from a master by the proxy
  stray,   \* history: replies written to a master
  refused  \* history: requests a session refused as premature

clientVars == <<client, said, got>>
roundVars  == <<up, down, probe, errs, gone>>
histVars   == <<given, taken, stray, refused>>
vars == <<clientVars, read, main, kept, roundVars, master, inbox, ready,
          histVars>>

Reqs    == 1 .. MaxSaid
None    == 0
Note    == MaxSaid + 1      \* a request or notification of the master
Results == {"closed", "lost"}
Off     == [pc |-> "off", msg |-> None]

MainPc == {"find", "resend", "run", "barrier", "lost", "session", "exit"}
Up     == [pc : {"off", "replay", "read", "write"}, msg : Reqs \cup {None}]
Down   == [pc : {"off", "read", "write"}, msg : Reqs \cup {None, Note}]
Probe  == [on : BOOLEAN, failures : 0 .. MaxFailures]
Kept   == [pending : Reqs \cup {None}, undelivered : Reqs \cup {None},
           known : BOOLEAN]     \* State: initialize has been recorded

TypeOK ==
  /\ client \in {"open", "closed", "broken"}
  /\ said \in 0 .. MaxSaid /\ read \in 0 .. said /\ got \subseteq Reqs
  /\ main \in [pc : MainPc, rounds : 0 .. MaxRounds,
               result : Results \cup {"none"}]
  /\ kept \in Kept
  /\ up \in Up /\ down \in Down /\ probe \in Probe
  /\ errs \in Seq(Results) /\ Len(errs) <= ErrCap
  /\ gone \in BOOLEAN /\ master \in BOOLEAN /\ ready \in BOOLEAN
  /\ inbox \subseteq Reqs \cup {Note}
  /\ given \in Seq(Reqs)
  /\ taken \subseteq Reqs /\ stray \subseteq Reqs /\ refused \subseteq Reqs

Init ==
  /\ client = "open" /\ said = 0 /\ read = 0 /\ got = {}
  /\ main = [pc |-> "find", rounds |-> 0, result |-> "none"]
  /\ kept = [pending |-> None, undelivered |-> None, known |-> FALSE]
  /\ up = Off /\ down = Off /\ probe = [on |-> FALSE, failures |-> 0]
  /\ errs = <<>> /\ gone = FALSE
  /\ master = FALSE /\ inbox = {} /\ ready = FALSE
  /\ given = <<>> /\ taken = {} /\ stray = {} /\ refused = {}

-----------------------------------------------------------------------------
(* The client and the masters.                                             *)

Say ==
  /\ client = "open" /\ said < MaxSaid
  /\ said' = said + 1
  /\ UNCHANGED <<client, got, read, main, kept, roundVars, master, inbox,
                 ready, histVars>>

\* It closes its pipes, or they fail in a way stdioGone does not know.
Leave ==
  /\ client = "open"
  /\ client' \in {"closed", "broken"}
  /\ UNCHANGED <<said, got, read, main, kept, roundVars, master, inbox,
                 ready, histVars>>

\* The master dies or hangs: nothing more is heard of it.
MasterFails ==
  /\ master /\ master' = FALSE
  /\ UNCHANGED <<clientVars, read, main, kept, roundVars, inbox, ready,
                 histVars>>

MasterNotes ==
  /\ Notes /\ master /\ main.pc = "run" /\ Note \notin inbox
  /\ inbox' = inbox \cup {Note}
  /\ UNCHANGED <<clientVars, read, main, kept, roundVars, master, ready,
                 histVars>>

-----------------------------------------------------------------------------
(* runStdio and the main goroutine of RunStdioProxy.                        *)

Goto(pc)  == main' = [main EXCEPT !.pc = pc]
Cancelled == main.pc # "run"         \* innerCtx, and clientConn is closed

StartRound ==
  /\ up' = [pc |-> IF kept.pending = None THEN "read" ELSE "replay",
            msg |-> kept.pending]
  /\ down' = [pc |-> "read", msg |-> None]
  /\ probe' = [on |-> TRUE, failures |-> 0]
  /\ errs' = <<>> /\ gone' = FALSE

\* proxyToMaster finds the master ready and a connection to it is made.
Connects ==
  /\ main.pc = "find" /\ main.rounds < MaxRounds
  /\ master' = TRUE /\ inbox' = {}
  /\ main' = [main EXCEPT !.rounds = @ + 1, !.result = "none",
                !.pc = IF kept.undelivered = None THEN "run" ELSE "resend"]
  /\ IF kept.undelivered = None THEN StartRound ELSE UNCHANGED roundVars
  /\ UNCHANGED <<clientVars, read, kept, ready, histVars>>

\* The wait for the master, or the connection, fails.
ConnectFails ==
  /\ main.pc = "find" /\ main.rounds < MaxRounds
  /\ main' = [main EXCEPT !.pc = "lost", !.rounds = @ + 1]
  /\ UNCHANGED <<clientVars, read, kept, roundVars, master, inbox, ready,
                 histVars>>

\* The reply the previous round could not write is written, to clientConn.
Resend ==
  /\ main.pc = "resend" /\ master
  /\ stray' = stray \cup {kept.undelivered}
  /\ kept' = [kept EXCEPT !.undelivered = None]
  /\ Goto("run") /\ StartRound
  /\ UNCHANGED <<clientVars, read, master, inbox, ready, given, taken,
                 refused>>

ResendFails ==
  /\ main.pc = "resend"
  /\ Goto("lost")
  /\ UNCHANGED <<clientVars, read, kept, roundVars, master, inbox, ready,
                 histVars>>

\* The first goroutine to report ends the round: the context is cancelled
\* and the connection to the master closed.
FirstReport ==
  /\ main.pc = "run" /\ errs # <<>>
  /\ main' = [main EXCEPT !.pc = "barrier", !.result = Head(errs)]
  /\ errs' = Tail(errs)
  /\ UNCHANGED <<clientVars, read, kept, up, down, probe, gone, master, inbox,
                 ready, histVars>>

NobodyAwaited == TRUE                                       \* mutant
\* forwarders.Wait.
ForwardersDone == up.pc = "off" /\ down.pc = "off"

ResolveAsReported == main.result                                  \* mutant
\* resolveProxyExit.
Resolve == IF gone THEN "closed" ELSE main.result

RoundEnds ==
  /\ main.pc = "barrier" /\ ForwardersDone
  /\ Goto(IF Resolve = "lost" THEN "lost" ELSE "exit")
  /\ UNCHANGED <<clientVars, read, kept, roundVars, master, inbox, ready,
                 histVars>>

\* After a back-off runStdio looks for a master again: the old one, a new
\* one, or none, and then the process tries to become the master.
LookAgain ==
  /\ main.pc = "lost"
  /\ Goto("find")
  /\ UNCHANGED <<clientVars, read, kept, roundVars, master, inbox, ready,
                 histVars>>

\* The budget is spent, no metadata appear, or the services do not start.
GiveUp ==
  /\ main.pc \in {"find", "lost"}
  /\ Goto("exit")
  /\ UNCHANGED <<clientVars, read, kept, roundVars, master, inbox, ready,
                 histVars>>

-----------------------------------------------------------------------------
(* The goroutine that forwards to the master.                               *)

Report(r) == Len(errs) < ErrCap /\ errs' = Append(errs, r)

\* tracker.record.
Recorded(m) == kept.known \/ m = 1

Reaches(m) == given' = Append(given, m)

\* The replayed message is recorded and no longer pending.
Replayed ==
  kept' = [kept EXCEPT !.pending = None, !.known = Recorded(up.msg)]

NothingElse == Off                                                \* mutant
AfterReplay == [pc |-> "read", msg |-> None]

Replay ==
  /\ up.pc = "replay" /\ master
  /\ Reaches(up.msg) /\ Replayed
  /\ inbox' = inbox \cup {up.msg}
  /\ up' = AfterReplay
  /\ UNCHANGED <<clientVars, read, main, down, probe, errs, gone, master,
                 ready, taken, stray, refused>>

UpRead ==
  /\ up.pc = "read" /\ read < said
  /\ read' = read + 1
  /\ up' = [pc |-> "write", msg |-> read + 1]
  /\ UNCHANGED <<clientVars, main, kept, down, probe, errs, gone, master,
                 inbox, ready, histVars>>

UpEndQuietly == /\ gone' = TRUE /\ UNCHANGED errs                 \* mutant
UpEnd        == /\ gone' = TRUE /\ Report("closed")
\* End of file.
UpReadsEnd ==
  /\ up.pc = "read" /\ client = "closed" /\ read = said
  /\ UpEnd /\ up' = Off
  /\ UNCHANGED <<clientVars, read, main, kept, down, probe, master, inbox,
                 ready, histVars>>

\* Another error, or the context is cancelled.
UpReadFails ==
  /\ up.pc = "read" /\ (client = "broken" \/ Cancelled)
  /\ Report("closed") /\ up' = Off
  /\ UNCHANGED <<clientVars, read, main, kept, down, probe, gone, master,
                 inbox, ready, histVars>>

\* The POST returns the reply (the server runs with JSONResponse).
UpWrite ==
  /\ up.pc = "write" /\ master
  /\ Reaches(up.msg)
  /\ kept' = [kept EXCEPT !.known = Recorded(up.msg)]
  /\ inbox' = inbox \cup {up.msg}
  /\ up' = [pc |-> "read", msg |-> None]
  /\ UNCHANGED <<clientVars, read, main, down, probe, errs, gone, master,
                 ready, taken, stray, refused>>

\* A write, of a replay or not, fails or times out: the master may have
\* received the request all the same.
UpWriteFails ==
  /\ up.pc \in {"replay", "write"}
  /\ Reaches(up.msg) \/ UNCHANGED given
  /\ kept' = [kept EXCEPT !.pending = up.msg]
  /\ Report("lost") /\ up' = Off
  /\ UNCHANGED <<clientVars, read, main, down, probe, gone, master, inbox,
                 ready, taken, stray, refused>>

-----------------------------------------------------------------------------
(* The goroutine that forwards to the client.                               *)

DownRead(m) ==
  /\ down.pc = "read" /\ m \in inbox
  /\ inbox' = inbox \ {m}
  /\ taken' = taken \cup ({m} \ {Note})
  /\ down' = [pc |-> "write", msg |-> m]
  /\ UNCHANGED <<clientVars, read, main, kept, up, probe, errs, gone, master,
                 ready, given, stray, refused>>

DownReadFails ==
  /\ down.pc = "read" /\ (~master \/ Cancelled)
  /\ Report("lost") /\ down' = Off
  /\ UNCHANGED <<clientVars, read, main, kept, up, probe, gone, master, inbox,
                 ready, histVars>>

DownWrite ==
  /\ down.pc = "write" /\ client = "open"
  /\ got' = got \cup ({down.msg} \ {Note})
  /\ down' = [pc |-> "read", msg |-> None]
  /\ UNCHANGED <<client, said, read, main, kept, up, probe, errs, gone, master,
                 inbox, ready, histVars>>

\* A broken pipe.
DownFindsEnd ==
  /\ down.pc = "write" /\ client = "closed"
  /\ gone' = TRUE /\ Report("closed") /\ down' = Off
  /\ UNCHANGED <<clientVars, read, main, kept, up, probe, master, inbox,
                 ready, histVars>>

\* A reply that cancellation kept from the client is kept for later; what
\* the master sent of its own accord means nothing to the next one.
KeepReply ==
  IF Cancelled /\ down.msg # Note
  THEN kept' = [kept EXCEPT !.undelivered = down.msg] ELSE UNCHANGED kept

DownWriteFails ==
  /\ down.pc = "write" /\ (client = "broken" \/ Cancelled)
  /\ KeepReply
  /\ Report("closed") /\ down' = Off
  /\ UNCHANGED <<clientVars, read, main, up, probe, gone, master, inbox,
                 ready, histVars>>

-----------------------------------------------------------------------------
(* The goroutine that asks for the master's health.                         *)

ProbeOk ==
  /\ probe.on /\ master
  /\ probe' = [probe EXCEPT !.failures = 0]
  /\ UNCHANGED <<clientVars, read, main, kept, up, down, errs, gone, master,
                 inbox, ready, histVars>>

MoreFailures == probe.failures + 1

ProbeGoesOn(n) == [on |-> TRUE, failures |-> n]                   \* mutant
\* The goroutine ends when it has reported.
Probed(n) == [on |-> n < MaxFailures, failures |-> n]

\* No answer within the time-out, or not 200.
ProbeFails ==
  /\ probe.on
  /\ probe' = Probed(MoreFailures)
  /\ IF MoreFailures < MaxFailures THEN UNCHANGED errs ELSE Report("lost")
  /\ UNCHANGED <<clientVars, read, main, kept, up, down, gone, master, inbox,
                 ready, histVars>>

ProbeStops ==
  /\ probe.on /\ Cancelled
  /\ probe' = [probe EXCEPT !.on = FALSE]
  /\ UNCHANGED <<clientVars, read, main, kept, up, down, errs, gone, master,
                 inbox, ready, histVars>>

-----------------------------------------------------------------------------
(* RunStdioConnection: the process has become the master.                   *)

\* No master is found and the lock is won: a session with the state that
\* was recorded.
TakeOver ==
  /\ main.pc = "find"
  /\ Goto("session")
  /\ ready' = kept.known /\ inbox' = {}
  /\ UNCHANGED <<clientVars, read, kept, roundVars, master, histVars>>

\* The session reads while this is done; failure is logged only.
SessionResend ==
  /\ main.pc = "session" /\ kept.undelivered # None
  /\ got' = IF client = "open" THEN got \cup {kept.undelivered} ELSE got
  /\ kept' = [kept EXCEPT !.undelivered = None]
  /\ UNCHANGED <<client, said, read, main, roundVars, master, inbox, ready,
                 histVars>>

SessionNextFresh ==                                               \* mutant
  IF read < said THEN read + 1 ELSE kept.pending
\* pendingConnection.Read: the message of the last round comes first.
SessionNext ==
  IF kept.pending # None THEN kept.pending
  ELSE IF read < said THEN read + 1 ELSE None

\* Until it knows initialize a session refuses everything else.
SessionTakes ==
  LET m == SessionNext IN
  /\ main.pc = "session" /\ m # None
  /\ IF m = kept.pending THEN /\ kept' = [kept EXCEPT !.pending = None]
                              /\ UNCHANGED read
                         ELSE /\ read' = m /\ UNCHANGED kept
  /\ ready' = (ready \/ m = 1)
  /\ refused' = IF ready' THEN refused ELSE refused \cup {m}
  /\ Reaches(m)
  /\ inbox' = inbox \cup {m}
  /\ UNCHANGED <<clientVars, main, roundVars, master, taken, stray>>

SessionReplies(m) ==
  /\ main.pc = "session" /\ m \in inbox /\ client = "open"
  /\ inbox' = inbox \ {m} /\ got' = got \cup {m}
  /\ UNCHANGED <<client, said, read, main, kept, roundVars, master, ready,
                 histVars>>

\* The client has closed its end.
SessionEnds ==
  /\ main.pc = "session" /\ kept.pending = None
  /\ \/ client = "closed" /\ read = said
     \/ client = "broken"
  /\ Goto("exit")
  /\ UNCHANGED <<clientVars, read, kept, roundVars, master, inbox, ready,
                 histVars>>

\* A signal, or the page asks for it.
Interrupt ==
  /\ main.pc = "session"
  /\ Goto("exit")
  /\ UNCHANGED <<clientVars, read, kept, roundVars, master, inbox, ready,
                 histVars>>

-----------------------------------------------------------------------------
Finding == Connects \/ ConnectFails \/ LookAgain \/ GiveUp \/ TakeOver
Resending == Resend \/ ResendFails
Main    == Finding \/ Resending \/ FirstReport \/ RoundEnds
UpStep  == \/ Replay \/ UpRead \/ UpReadsEnd \/ UpReadFails
           \/ UpWrite \/ UpWriteFails
Reads   == \E m \in Reqs \cup {Note} : DownRead(m)
DownStep == \/ Reads \/ DownReadFails
            \/ DownWrite \/ DownFindsEnd \/ DownWriteFails
ProbeStep == ProbeOk \/ ProbeFails \/ ProbeStops
Session == \/ SessionResend \/ SessionTakes \/ SessionEnds \/ Interrupt
           \/ \E m \in Reqs : SessionReplies(m)
Around  == Say \/ Leave \/ MasterFails \/ MasterNotes

Next == Main \/ UpStep \/ DownStep \/ ProbeStep \/ Session \/ Around

Spec == Init /\ [][Next]_vars

\* Goroutines run, the client reads its stdout, and a master that answers
\* answers.  From one that does not, a write comes back only when the context
\* is cancelled or, for a replay, by its own time-out; a read may never.
FairSpec ==
  /\ Spec
  /\ WF_vars(Finding) /\ WF_vars(Resending)
  /\ WF_vars(FirstReport) /\ WF_vars(RoundEnds)
  /\ WF_vars(UpRead \/ UpReadsEnd \/ UpReadFails)
  /\ WF_vars((master \/ Cancelled \/ up.pc = "replay")
             /\ (Replay \/ UpWrite \/ UpWriteFails))
  /\ WF_vars(Reads) /\ WF_vars(Cancelled /\ DownReadFails)
  /\ WF_vars(DownWrite \/ DownFindsEnd \/ DownWriteFails)
  /\ WF_vars(ProbeStep)
  /\ WF_vars(SessionTakes) /\ WF_vars(SessionEnds)

-----------------------------------------------------------------------------
(* Properties.                                                             *)

Reached(m) == \E i \in 1 .. Len(given) : given[i] = m

\* A request taken from stdin is never lost on the way to a master: it has
\* reached one, is being written, or is handed on (pending), whatever fails
\* and whoever takes over.
NothingLost ==
  \A m \in 1 .. read :
    Reached(m) \/ up.msg = m \/ kept.pending = m \/ main.pc = "exit"

\* Masters get the client's requests in the client's order: one that is
\* repeated after a failure comes before everything that followed it.
InOrder ==
  \A i, j \in 1 .. Len(given) : i < j => given[i] <= given[j]

\* A process whose client has been found gone does not go on without it as a
\* proxy or as the master, even if the loss of the master came first.
NoOrphanMaster == gone => main.pc \in {"run", "barrier", "exit"}

\* A session that takes over knows the handshake its client has made with
\* earlier masters, and refuses none of its requests.
HandshakeKept == refused = {}

\* Both: who takes over has a client, and knows what was agreed with it.
TakeoverSound == NoOrphanMaster /\ HandshakeKept

\* A reply read from a master reaches the client, or is kept for it, as
\* long as the client is there, except those sent to the next master.
RepliesKept ==
  \A m \in taken : \/ m \in got \cup {down.msg, kept.undelivered} \cup stray
                   \/ client # "open" \/ main.pc = "exit"

\* Within a process no message is dropped, in either direction.
NothingDropped == NothingLost /\ RepliesKept

\* A reply read from a master reaches the client, or is kept for it, as long
\* as the client is there.
RepliesReachClient ==
  \A m \in taken : \/ m \in got \cup {down.msg, kept.undelivered}
                   \/ client # "open" \/ main.pc = "exit"

\* A proxy does not stay with a master that has stopped to answer.
LossNoticed == main.pc = "run" /\ ~master ~> main.pc # "run"

\* The process ends when its client is gone.
EndsWithClient == client # "open" ~> main.pc = "exit"

\* Both: a round with a master or a client that is gone comes to an end.
RoundsEnd == LossNoticed /\ EndsWithClient

\* Every request gets to a master unless the process ends.
RequestsArrive ==
  \A m \in Reqs : said >= m ~> Reached(m) \/ main.pc = "exit"
=============================================================================
