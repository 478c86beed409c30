------------------------------ MODULE DataPath ------------------------------
(***************************************************************************)
(* pkg/bridge, pkg/web and internal/buffer with the tools that read it:    *)
(* the way of a chunk from the serial port to every page and to the MCP    *)
(* read buffer, and of a page's messages to the port.                      *)
(*                                                                         *)
(* The bytes of the serial stream are numbered from 1 on, after the        *)
(* conversion of line ends; a chunk is a range of them.  A page's messages *)
(* are of three kinds: a command (JSON), text, and text that begins with   *)
(* a brace.  WebSocketServer.Stop is never called and so has no action.    *)
(* A definition marked "mutant" is not part of the model, see              *)
(* SerialManager.                                                          *)
(***************************************************************************)
EXTENDS Integers, Sequences

CONSTANTS
  Pages,      \* connections of web pages; none is used twice
  Readers,    \* calls of serial_read that run at the same time
  Kinds,      \* bound: what pages send, out of "command", "text", "brace"
  Looks,      \* bound: whether a chunk may look like JSON
  Sizes,      \* bound: sizes of chunks
  MaxBytes,   \* bound: length of the serial stream
  MaxSaid,    \* bound: messages sent by pages
  Greetings,  \* messages a new page gets: 2 after a take-over, else 1
  SerialCap,  \* capacity of the serial manager's dataChan
  TextCap,    \* capacity of the WebSocket server's dataChan
  CmdCap,     \* capacity of cmdChan
  PageCap,    \* capacity of a page's writeChan
  BufCap,     \* maxSize of the buffer
  MaxRead     \* the most serial_read returns

ASSUME BoundsAssumption ==
  /\ Kinds \subseteq {"command", "text", "brace"} /\ Looks \subseteq BOOLEAN
  /\ MaxBytes \in Nat /\ MaxSaid \in Nat /\ Greetings \in Nat \ {0}
  /\ SerialCap \in Nat \ {0} /\ TextCap \in Nat \ {0}
  /\ CmdCap \in Nat \ {0} /\ PageCap \in Nat \ {0}
  /\ BufCap \in Nat \ {0} /\ MaxRead \in Nat \ {0}
\* A read of the port is 4096 bytes, which conversion can double.
ASSUME SizesAssumption == Sizes \subseteq 1 .. BufCap

VARIABLES
  sent,      \* history: the chunks the serial manager has handed over
  serial,    \* its dataChan: indices of chunks in sent
  forward,   \* the goroutine forwardLoop
  command,   \* the goroutine cmdLoop
  dataChan,  \* the WebSocket server's: text for the port
  cmdChan,   \* the WebSocket server's: commands
  said,      \* messages sent by pages so far
  clients,   \* the pages that are broadcast to
  page,      \* per page: its connection and its two goroutines
  buffer,    \* the MCP read buffer
  taken,     \* history: bytes handed out by serial_read
  reader,    \* per call of serial_read
  stopping   \* DataBridge.Stop has been called

vars == <<sent, serial, forward, command, dataChan, cmdChan, said, clients,
          page, buffer, taken, reader, stopping>>
serialSide == <<sent, serial>>
pageSide   == <<dataChan, cmdChan, said, clients, page>>
mcpSide    == <<buffer, taken, reader>>

Other == 0        \* a message to a page that is not a chunk
Bytes == 1 .. MaxBytes
Chunk == [lo : Bytes, hi : Bytes, json : BOOLEAN]
Msgs  == 0 .. MaxBytes

Page == [pc : {"off", "greet", "open"},
         greeted : 0 .. Greetings,
         conn : BOOLEAN,                              \* the connection is up
         rd : {"no", "run", "close", "done"},         \* readLoop
         wr : {"no", "run", "done"},                  \* writeLoop
         queue : Seq(Msgs),                           \* writeChan
         seen : Seq(Msgs),      \* history: chunks that reached the browser
         since : Nat,           \* history: chunks forwarded before it joined
         missed : BOOLEAN,      \* history: a chunk found the queue full
         hidden : BOOLEAN]      \* history: a chunk was not shown as data

TypeOK ==
  /\ sent \in Seq(Chunk) /\ serial \in Seq(1 .. MaxBytes)
  /\ Len(serial) <= SerialCap
  /\ forward \in [pc : {"select", "broadcast", "write", "done"},
                  msg : Msgs, todo : SUBSET Pages]
  /\ command \in [pc : {"select", "handle", "broadcast", "done"},
                  kind : {"command", "text", "brace"}, todo : SUBSET Pages]
  /\ dataChan \in Seq(Kinds) /\ Len(dataChan) <= TextCap
  /\ cmdChan \in Seq(Kinds) /\ Len(cmdChan) <= CmdCap
  /\ said \in 0 .. MaxSaid
  /\ clients \subseteq Pages
  /\ page \in [Pages -> Page]
  /\ \A p \in Pages : Len(page[p].queue) <= PageCap
  /\ buffer \in Seq(Bytes) /\ Len(buffer) <= BufCap
  /\ taken \in Seq(Bytes)
  /\ reader \in [Readers -> [pc : {"idle", "poll", "take"}, timed : BOOLEAN]]
  /\ stopping \in BOOLEAN

NoPage == [pc |-> "off", greeted |-> 0, conn |-> FALSE, rd |-> "no",
           wr |-> "no", queue |-> <<>>, seen |-> <<>>, since |-> 0,
           missed |-> FALSE, hidden |-> FALSE]

Init ==
  /\ sent = <<>> /\ serial = <<>>
  /\ forward = [pc |-> "select", msg |-> Other, todo |-> {}]
  /\ command = [pc |-> "select", kind |-> "text", todo |-> {}]
  /\ dataChan = <<>> /\ cmdChan = <<>> /\ said = 0
  /\ clients = {} /\ page = [p \in Pages |-> NoPage]
  /\ buffer = <<>> /\ taken = <<>>
  /\ reader = [r \in Readers |-> [pc |-> "idle", timed |-> FALSE]]
  /\ stopping = FALSE

-----------------------------------------------------------------------------
(* The serial manager publishes a chunk, or drops it when dataChan is full *)
(* (then nothing changes here).                                            *)

End(chunks) == IF chunks = <<>> THEN 0 ELSE chunks[Len(chunks)].hi

SerialPublish(size, json) ==
  /\ Len(serial) < SerialCap
  /\ End(sent) + size <= MaxBytes
  /\ sent' = Append(sent, [lo |-> End(sent) + 1, hi |-> End(sent) + size,
                           json |-> json])
  /\ serial' = Append(serial, Len(sent) + 1)
  /\ UNCHANGED <<forward, command, pageSide, mcpSide, stopping>>

-----------------------------------------------------------------------------
(* Broadcast takes a copy of the set of clients and then sends to one      *)
(* after the other; a send to a full queue is given up.                    *)

SendAlways(pg, m) == [pg EXCEPT !.queue = Append(@, m)]           \* mutant
Send(pg, m) ==
  IF Len(pg.queue) < PageCap THEN [pg EXCEPT !.queue = Append(@, m)]
  ELSE [pg EXCEPT !.missed = @ \/ m # Other]

SendTo(p, m) == page' = [page EXCEPT ![p] = Send(page[p], m)]

-----------------------------------------------------------------------------
(* forwardLoop.  The receipt of a chunk is one action with the copy of the *)
(* set of clients, nothing being shared in between.                        *)

TakeChunk ==
  /\ forward.pc = "select" /\ serial # <<>>
  /\ forward' = [pc |-> "broadcast", msg |-> Head(serial), todo |-> clients]
  /\ serial' = Tail(serial)
  /\ UNCHANGED <<sent, command, pageSide, mcpSide, stopping>>

ForwardChunkOrStop(p) ==                                          \* mutant
  /\ forward.pc = "broadcast" /\ p \in forward.todo
  /\ SendTo(p, forward.msg)
  /\ forward' = [forward EXCEPT
       !.todo = IF Len(page[p].queue) < PageCap THEN @ \ {p} ELSE {}]
  /\ UNCHANGED <<serialSide, command, dataChan, cmdChan, said, clients,
                 mcpSide, stopping>>
SendToWhenRoom(p, m) == Len(page[p].queue) < PageCap /\ SendTo(p, m)  \* mutant
ForwardChunkWaits(p) ==                                           \* mutant
  /\ forward.pc = "broadcast" /\ p \in forward.todo
  /\ SendToWhenRoom(p, forward.msg)
  /\ forward' = [forward EXCEPT !.todo = @ \ {p}]
  /\ UNCHANGED <<serialSide, command, dataChan, cmdChan, said, clients,
                 mcpSide, stopping>>
ForwardChunk(p) ==
  /\ forward.pc = "broadcast" /\ p \in forward.todo
  /\ SendTo(p, forward.msg)
  /\ forward' = [forward EXCEPT !.todo = @ \ {p}]
  /\ UNCHANGED <<serialSide, command, dataChan, cmdChan, said, clients,
                 mcpSide, stopping>>

Content(c) == [i \in 1 .. c.hi - c.lo + 1 |-> c.lo + i - 1]

AppendedTooLittle(old, new) ==                                    \* mutant
  IF Len(old) + Len(new) > BufCap THEN new ELSE old \o new
\* DataBuffer.Append.
Appended(old, new) ==
  LET discard == Len(old) + Len(new) - BufCap IN
  IF discard <= 0 THEN old \o new
  ELSE IF discard >= Len(old) THEN new
  ELSE SubSeq(old, discard + 1, Len(old)) \o new

BufferChunk ==
  /\ forward.pc = "broadcast" /\ forward.todo = {}
  /\ buffer' = Appended(buffer, Content(sent[forward.msg]))
  /\ forward' = [forward EXCEPT !.pc = "select"]
  /\ UNCHANGED <<serialSide, command, pageSide, taken, reader, stopping>>

TakeText ==
  /\ forward.pc = "select" /\ dataChan # <<>>
  /\ dataChan' = Tail(dataChan)
  /\ forward' = [forward EXCEPT !.pc = "write"]
  /\ UNCHANGED <<serialSide, command, cmdChan, said, clients, page, mcpSide,
                 stopping>>

\* The write succeeds or fails; nothing else happens here.
WriteText ==
  /\ forward.pc = "write"
  /\ forward' = [forward EXCEPT !.pc = "select"]
  /\ UNCHANGED <<serialSide, command, pageSide, mcpSide, stopping>>

ForwardStops ==
  /\ forward.pc = "select" /\ stopping
  /\ forward' = [forward EXCEPT !.pc = "done"]
  /\ UNCHANGED <<serialSide, command, pageSide, mcpSide, stopping>>

-----------------------------------------------------------------------------
(* cmdLoop.                                                                *)

TakeCommand ==
  /\ command.pc = "select" /\ cmdChan # <<>>
  /\ command' = [command EXCEPT !.pc = "handle", !.kind = Head(cmdChan)]
  /\ cmdChan' = Tail(cmdChan)
  /\ UNCHANGED <<serialSide, forward, dataChan, said, clients, page, mcpSide,
                 stopping>>

\* handleCommand: there is no answer to what is not JSON.
HandleCommand ==
  /\ command.pc = "handle"
  /\ command' = IF command.kind = "command"
                THEN [command EXCEPT !.pc = "broadcast", !.todo = clients]
                ELSE [command EXCEPT !.pc = "select"]
  /\ UNCHANGED <<serialSide, forward, pageSide, mcpSide, stopping>>

AnswerPage(p) ==
  /\ command.pc = "broadcast" /\ p \in command.todo
  /\ SendTo(p, Other)
  /\ command' = [command EXCEPT !.todo = @ \ {p}]
  /\ UNCHANGED <<serialSide, forward, dataChan, cmdChan, said, clients,
                 mcpSide, stopping>>

Answered ==
  /\ command.pc = "broadcast" /\ command.todo = {}
  /\ command' = [command EXCEPT !.pc = "select"]
  /\ UNCHANGED <<serialSide, forward, pageSide, mcpSide, stopping>>

CommandsStop ==
  /\ command.pc = "select" /\ stopping
  /\ command' = [command EXCEPT !.pc = "done"]
  /\ UNCHANGED <<serialSide, forward, pageSide, mcpSide, stopping>>

\* DataBridge.Stop, from gracefulShutdown.
Stop ==
  /\ ~stopping /\ stopping' = TRUE
  /\ UNCHANGED <<serialSide, forward, command, pageSide, mcpSide>>

-----------------------------------------------------------------------------
(* A page: HandleWebSocket registers it, greets it and starts its two      *)
(* goroutines.                                                             *)

OnlyPage(p, pg) ==
  /\ page' = [page EXCEPT ![p] = pg]
  /\ UNCHANGED <<serialSide, forward, command, dataChan, cmdChan, said,
                 mcpSide, stopping>>

Register(p) ==
  /\ page[p].pc = "off"
  /\ clients' = clients \cup {p}
  /\ OnlyPage(p, [page[p] EXCEPT !.pc = "greet", !.conn = TRUE,
                                 !.since = Len(sent) - Len(serial)])

Greet(p) ==
  /\ page[p].pc = "greet" /\ page[p].greeted < Greetings
  /\ OnlyPage(p, [Send(page[p], Other) EXCEPT !.greeted = @ + 1])
  /\ UNCHANGED clients

StartLoops(p) ==
  /\ page[p].pc = "greet" /\ page[p].greeted = Greetings
  /\ OnlyPage(p, [page[p] EXCEPT !.pc = "open", !.rd = "run", !.wr = "run"])
  /\ UNCHANGED clients

\* readLoop: a message that begins with a brace is taken for a command;
\* it is dropped when the channel is full.
IsCommand(kind) == kind \in {"command", "brace"}

Push(chan, cap, kind) == IF Len(chan) < cap THEN Append(chan, kind) ELSE chan

PageSays(p, kind) ==
  /\ page[p].rd = "run" /\ page[p].conn
  /\ said < MaxSaid /\ said' = said + 1
  /\ IF IsCommand(kind)
     THEN cmdChan' = Push(cmdChan, CmdCap, kind) /\ UNCHANGED dataChan
     ELSE dataChan' = Push(dataChan, TextCap, kind) /\ UNCHANGED cmdChan
  /\ UNCHANGED <<serialSide, forward, command, clients, page, mcpSide,
                 stopping>>

\* The browser leaves, or the connection breaks.
PageLeaves(p) ==
  /\ page[p].conn
  /\ OnlyPage(p, [page[p] EXCEPT !.conn = FALSE])
  /\ UNCHANGED clients

\* ReadMessage fails: the connection is down, no pong came in time, or a
\* message was too long.
ReadFails(p) ==
  /\ page[p].rd = "run"
  /\ clients' = clients \ {p}
  /\ OnlyPage(p, [page[p] EXCEPT !.rd = "close"])

ReadEnds(p) ==
  /\ page[p].rd = "close"
  /\ OnlyPage(p, [page[p] EXCEPT !.rd = "done", !.conn = FALSE])
  /\ UNCHANGED clients

\* What a browser shows as data: a message sent as text that parses as JSON
\* is an event to it, and a chunk that begins with a brace is sent as text.
Shown(m) == m = Other \/ ~sent[m].json

\* writeLoop.
WriteMessage(p) ==
  /\ page[p].wr = "run" /\ page[p].conn /\ page[p].queue # <<>>
  /\ LET m == Head(page[p].queue) IN
     OnlyPage(p, [page[p] EXCEPT
       !.queue = Tail(@),
       !.seen = IF m = Other THEN @ ELSE Append(@, m),
       !.hidden = @ \/ ~Shown(m)])
  /\ UNCHANGED clients

WriteFailsNever(p) == FALSE                                       \* mutant
\* A message or a ping cannot be written: the connection is down or stuck.
\* The message, if there was one, is as good as still in the queue.
WriteFails(p) ==
  /\ page[p].wr = "run"
  /\ OnlyPage(p, [page[p] EXCEPT !.wr = "done", !.conn = FALSE])
  /\ UNCHANGED clients

-----------------------------------------------------------------------------
(* The MCP tools serial_read and serial_clear.                             *)

OnlyMcp == UNCHANGED <<serialSide, forward, command, pageSide, stopping>>

ReadCall(r, timed) ==
  /\ reader[r].pc = "idle"
  /\ reader' = [reader EXCEPT ![r] = [pc |-> "poll", timed |-> timed]]
  /\ UNCHANGED <<buffer, taken>> /\ OnlyMcp

\* Length, every 10 ms.
ReadPoll(r) ==
  /\ reader[r].pc = "poll" /\ buffer # <<>>
  /\ reader' = [reader EXCEPT ![r].pc = "take"]
  /\ UNCHANGED <<buffer, taken>> /\ OnlyMcp

\* DataBuffer.Read.
Least(a, b) == IF a < b THEN a ELSE b
Count == Least(MaxRead, Len(buffer))
RestUnread == buffer                                              \* mutant
Rest == SubSeq(buffer, Count + 1, Len(buffer))
Read ==
  /\ taken' = taken \o SubSeq(buffer, 1, Count)
  /\ buffer' = Rest

\* It finds nothing when somebody else was quicker: the call fails.
ReadTake(r) ==
  /\ reader[r].pc = "take"
  /\ Read
  /\ reader' = [reader EXCEPT ![r].pc = "idle"]
  /\ OnlyMcp

ReadTimeout(r) ==
  /\ reader[r].pc = "poll" /\ reader[r].timed
  /\ Read
  /\ reader' = [reader EXCEPT ![r].pc = "idle"]
  /\ OnlyMcp

ReadCancel(r) ==
  /\ reader[r].pc = "poll"
  /\ reader' = [reader EXCEPT ![r].pc = "idle"]
  /\ UNCHANGED <<buffer, taken>> /\ OnlyMcp

\* The number of bytes it reports, which Length has returned before, may be
\* too small; it is left out.
ClearBuffer ==
  /\ buffer # <<>> /\ buffer' = <<>>
  /\ UNCHANGED <<taken, reader>> /\ OnlyMcp

-----------------------------------------------------------------------------
ForwardLoop == \/ TakeChunk \/ BufferChunk \/ TakeText \/ WriteText
               \/ ForwardStops
               \/ \E p \in Pages : ForwardChunk(p)
CmdLoop     == \/ TakeCommand \/ HandleCommand \/ Answered \/ CommandsStop
               \/ \E p \in Pages : AnswerPage(p)
PageLoops(p) == \/ Register(p) \/ Greet(p) \/ StartLoops(p)
                \/ ReadFails(p) \/ ReadEnds(p)
                \/ WriteMessage(p) \/ WriteFails(p)
Browser(p)   == PageLeaves(p) \/ \E kind \in Kinds : PageSays(p, kind)
SerialRead(r) == \/ \E timed \in BOOLEAN : ReadCall(r, timed)
                 \/ ReadPoll(r) \/ ReadTake(r) \/ ReadTimeout(r)
                 \/ ReadCancel(r)

Next == \/ \E size \in Sizes, json \in Looks : SerialPublish(size, json)
        \/ ForwardLoop \/ CmdLoop \/ Stop
        \/ \E p \in Pages : PageLoops(p) \/ Browser(p)
        \/ \E r \in Readers : SerialRead(r)
        \/ ClearBuffer

Spec == Init /\ [][Next]_vars

\* Go runs every goroutine that can run, and select chooses at random among
\* the cases that are ready, so that none is passed over for ever.  A page
\* on a connection that is down notices: its next read fails at once, its
\* next ping within 54 s.  Nothing is assumed of browsers, of pages on a
\* connection that is up, of the port or of MCP clients.
FairSpec ==
  /\ Spec
  /\ SF_vars(TakeChunk) /\ SF_vars(TakeText) /\ SF_vars(ForwardStops)
  /\ WF_vars(BufferChunk) /\ WF_vars(WriteText)
  /\ SF_vars(TakeCommand) /\ SF_vars(CommandsStop)
  /\ WF_vars(HandleCommand) /\ WF_vars(Answered)
  /\ \A p \in Pages :
       /\ WF_vars(ForwardChunk(p)) /\ WF_vars(AnswerPage(p))
       /\ WF_vars(Greet(p)) /\ WF_vars(StartLoops(p))
       /\ WF_vars(~page[p].conn /\ ReadFails(p)) /\ WF_vars(ReadEnds(p))
       /\ WF_vars(~page[p].conn /\ WriteFails(p))

-----------------------------------------------------------------------------
(* Properties.                                                             *)

\* Everything that went or is to go to the browser of page p, and the chunks
\* among it.
Got(p)    == page[p].seen \o page[p].queue
Chunks(p) == {Got(p)[i] : i \in 1 .. Len(Got(p))} \ {Other}

\* How far the broadcast of the stream has come for page p.
Reached(p) ==
  LET forwarded == Len(sent) - Len(serial) IN
  IF forward.pc = "broadcast" /\ p \in forward.todo
  THEN forwarded - 1 ELSE forwarded

\* A page gets every chunk from its registration on, once and in order,
\* however pages come, go and lag: the only chunks it misses are those that
\* found its own queue full or its connection broken (Broadcast, Send).
PagesInStep ==
  \A p \in Pages :
    LET got == Got(p) IN
    /\ \A i, j \in 1 .. Len(got) :
         i < j /\ Other \notin {got[i], got[j]} => got[i] < got[j]
    /\ p \in clients /\ page[p].conn /\ ~page[p].missed
       => Chunks(p) = page[p].since + 1 .. Reached(p)

\* The buffer holds the newest bytes of the stream without a gap, and only
\* bytes newer than those serial_read has handed out; these are handed out
\* once and in order, also to calls that run at the same time.
ReadOnce ==
  LET all == taken \o buffer IN
  /\ \A i, j \in 1 .. Len(all) : i < j => all[i] < all[j]
  /\ \A i \in 1 .. Len(buffer) - 1 : buffer[i + 1] = buffer[i] + 1

\* Bytes are given up only to make room, and no more than necessary.
NewestKept ==
  [][\A i \in 1 .. Len(buffer) :
       forward.pc = "broadcast" /\ forward'.pc = "select"
       => \/ \E j \in 1 .. Len(buffer') : buffer'[j] = buffer[i]
          \/ Len(buffer') = BufCap]_vars

\* A page that does not read does not hold up the others or the MCP side:
\* every chunk gets to the buffer unless the bridge is stopped.
ChunksBuffered ==
  \A n \in 1 .. MaxBytes :
    Len(sent) >= n ~>
       \/ forward.pc = "done"
       \/ Len(sent) - Len(serial) >= n /\ forward.pc # "broadcast"

\* When one side of a page's connection is gone, both its goroutines end and
\* it is broadcast to no more.
PagesEnd ==
  \A p \in Pages :
    page[p].pc # "off" /\ ~page[p].conn ~>
       page[p].rd = "done" /\ page[p].wr = "done" /\ p \notin clients

\* Stop returns: both loops end.
BridgeStops == stopping ~> forward.pc = "done" /\ command.pc = "done"

\* Both: no goroutine of a page or of the bridge outlives its purpose.
LoopsEnd == PagesEnd /\ BridgeStops

\* What is typed goes to the port and what the device sends is shown as it
\* is: nothing is taken for a command or an event.
TextStaysText ==
  /\ command.pc = "handle" => command.kind = "command"
  /\ \A p \in Pages : ~page[p].hidden

=============================================================================
