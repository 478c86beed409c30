------------------------ MODULE SerialManagerProofs ------------------------
(***************************************************************************)
(* Safety of SerialManager for every number of connections, ports and      *)
(* settings.  The inductive invariant IInv adds to the types what relates  *)
(* generations, connections and the locals of the goroutines.              *)
(***************************************************************************)
EXTENDS SerialManager, SequenceTheorems, TLAPS

\* Connections are numbered in the order they are opened; those not yet
\* opened have no goroutine.  The current connection is the last one, and its
\* read loop has not left.
Numbering ==
  /\ \A c \in Conns : c > last => rd[c] = "none" /\ task[c].pc = "none"
  /\ port # NoConn => port = last /\ rd[port] \notin {"none", "done", "notify"}

\* What Close leaves behind.
Closing ==
  /\ closed => port = NoConn
  /\ chClosed => closed /\ LiveReaders = {}

\* Generations held by pending reconnect tasks are distinct and not in the
\* future, and past ones once the user turned the link off.
Generations ==
  /\ \A c \in Conns : Pending(c) => task[c].gen <= gen
  /\ \A c, d \in Conns :
       Pending(c) /\ Pending(d) /\ task[c].gen = task[d].gen => c = d
  /\ off => port = NoConn
  /\ off => \A c \in Conns : Pending(c) => task[c].gen # gen

\* The locals a reconnect task needs where it is.
TaskLocals ==
  \A c \in Conns :
    /\ rd[c] = "notify" => task[c].pc = "none" /\ task[c].tries = 0
                           /\ task[c].name \in Ports
    /\ task[c].pc \in TaskPc \ {"none", "done"} => task[c].name \in Ports
    /\ task[c].pc = "wait" => task[c].tries < MaxTries
    /\ task[c].pc = "config" => task[c].target \in Ports
    /\ task[c].pc = "update" => task[c].conf \in Config
    /\ task[c].pc = "update" /\ task[c].gen = gen
         => task[c].conf.baud = cfg.baud

\* Bytes queued and taken are never newer than the last connection.
Stream ==
  /\ StreamInOrder
  /\ out <= last
  /\ \A i \in 1 .. Len(dataChan) : dataChan[i] <= last

\* A script whose generation is still the present one has written to the
\* present connection only.
Writing ==
  /\ script.pc = "run" => script.gen <= gen
  /\ script.pc # "run" => script.to = {}
  /\ script.to # {} /\ script.gen = gen /\ ~closed
       => port # NoConn /\ script.to = {port}
  /\ \A c, d \in script.to : c = d

\* What was announced lies behind the read loops.
Ends ==
  /\ EndsAnnouncedOnce
  /\ \A c \in Conns : ended[c] = 1 => rd[c] # "notify"

IInv == /\ TypeOK /\ Numbering /\ Closing /\ Generations /\ TaskLocals
        /\ Stream /\ Writing /\ NoLeakedHandle /\ Ends

-----------------------------------------------------------------------------
USE DEF NoConn, Conns

\* The locals of a goroutine that is not running have their types.
LEMMA LocalsType ==
  ASSUME NEW pc \in {"none", "done"}
  PROVE  Locals(pc) \in Task
BY BoundsAssumption, IdentsAssumption DEF Locals, Task, TaskPc

\* The initial states satisfy the inductive invariant.
LEMMA InitIInv == Init => IInv
<1> SUFFICES ASSUME Init PROVE IInv
  OBVIOUS
<1> USE DEF Init
<1>1. TypeOK
  <2>1. task \in [Conns -> Task]
    BY LocalsType
  <2>2. script \in Script
    BY DEF Script, NoScript
  <2>3. errs \in 0 .. ErrCap /\ last \in 0 .. MaxConn
    BY BoundsAssumption
  <2>4. rd \in [Conns -> ReaderPc]
    BY DEF ReaderPc
  <2>5. usb \in Idents
    BY IdentsAssumption
  <2>6. dataChan \in Seq(Conns) /\ gen \in Nat
        /\ events \in [EventKind -> Nat] /\ ended \in [Conns -> Nat]
    OBVIOUS
  <2>7. fd \in [Conns -> {"none", "open", "closing", "closed"}]
    OBVIOUS
  <2>8. QED
    BY <2>1, <2>2, <2>3, <2>4, <2>5, <2>6, <2>7 DEF TypeOK
<1>2. Numbering
  BY BoundsAssumption DEF Numbering, Locals
<1>3. Closing
  BY DEF Closing
<1>4. Generations
  BY BoundsAssumption DEF Generations, Pending, Locals
<1>5. TaskLocals
  BY BoundsAssumption DEF TaskLocals, Locals, TaskPc
<1>6. Stream
  BY BoundsAssumption DEF Stream, StreamInOrder
<1>7. Writing
  BY BoundsAssumption DEF Writing, NoScript
<1>8. NoLeakedHandle /\ Ends
  BY DEF NoLeakedHandle, Ends, EndsAnnouncedOnce
<1>9. QED
  BY <1>1, <1>2, <1>3, <1>4, <1>5, <1>6, <1>7, <1>8 DEF IInv

-----------------------------------------------------------------------------
(* Steps.                                                                   *)

\* A read loop moves on, or leaves because its connection is not current.
LEMMA ReaderOnlyStep ==
  ASSUME IInv, NEW c \in Conns, NEW pc \in ReaderPc \ {"none", "notify"},
         rd[c] \notin {"none", "done", "notify"},
         pc = "done" => port # c,
         ReaderOnly(c, pc)
  PROVE  IInv'
<1> USE DEF ReaderOnly, connVars, queueVars, notifyVars
<1>1. rd' = [rd EXCEPT ![c] = pc] /\ rd \in [Conns -> ReaderPc]
  BY DEF IInv, TypeOK
<1>2. TypeOK'
  BY <1>1 DEF IInv, TypeOK
<1>3. Numbering'
  BY <1>1 DEF IInv, Numbering
<1>4. Closing'
  BY <1>1 DEF IInv, Closing, LiveReaders
<1>5. \A d \in Conns : Pending(d)' <=> Pending(d)
  BY <1>1 DEF Pending
<1>6. Generations'
  BY <1>5 DEF IInv, Generations
<1>7. TaskLocals'
  BY <1>1 DEF IInv, TaskLocals
<1>8. Stream' /\ Writing' /\ NoLeakedHandle'
  BY DEF IInv, Stream, StreamInOrder, Writing, NoLeakedHandle
<1>9. Ends'
  BY <1>1 DEF IInv, Ends, EndsAnnouncedOnce
<1>10. QED
  BY <1>2, <1>3, <1>4, <1>6, <1>7, <1>8, <1>9 DEF IInv

\* A reconnect task moves on with locals fit for where it goes, or ends.
LEMMA TaskOnlyStep ==
  ASSUME IInv, NEW c \in Conns, NEW t \in Task,
         task[c].pc \notin {"none", "done"},
         t.pc # "none",
         t.pc # "done" => t.gen = task[c].gen /\ t.name \in Ports,
         t.pc = "wait" => t.tries < MaxTries,
         t.pc = "config" => t.target \in Ports,
         t.pc = "update" => t.conf \in Config,
         t.pc = "update" /\ t.gen = gen => t.conf.baud = cfg.baud,
         TaskOnly(c, t)
  PROVE  IInv'
<1> USE DEF TaskOnly, connVars, queueVars, notifyVars
<1>1. task' = [task EXCEPT ![c] = t] /\ task \in [Conns -> Task]
  BY DEF IInv, TypeOK
<1>2. TypeOK'
  BY <1>1 DEF IInv, TypeOK
<1>3. Numbering'
  BY <1>1 DEF IInv, Numbering
<1>4. Closing'
  BY DEF IInv, Closing, LiveReaders
<1>5. /\ \A d \in Conns : d # c => (Pending(d)' <=> Pending(d))
      /\ \A d \in Conns : d # c => task'[d] = task[d]
      /\ Pending(c)
      /\ rd[c] # "notify"
      /\ Pending(c)' => task'[c].gen = task[c].gen
  BY <1>1 DEF Pending, IInv, TaskLocals
<1>6. Generations'
  BY <1>5 DEF IInv, Generations
<1>7. TaskLocals'
  BY <1>1, <1>5 DEF IInv, TaskLocals
<1>8. Stream' /\ Writing' /\ NoLeakedHandle' /\ Ends'
  BY DEF IInv, Stream, StreamInOrder, Writing, NoLeakedHandle,
         Ends, EndsAnnouncedOnce
<1>9. QED
  BY <1>2, <1>3, <1>4, <1>6, <1>7, <1>8 DEF IInv

\* A step that only touches devices, queued errors or delivered events.
LEMMA AroundStep ==
  ASSUME IInv, WriteFails \/ (\E k \in EventKind : Deliver(k)) \/ Replug
  PROVE  IInv'
<1> USE DEF WriteFails, SendErr, Deliver, Replug, connVars, queueVars,
            notifyVars
<1>1. TypeOK'
  <2>1. CASE WriteFails
    BY <2>1, BoundsAssumption DEF IInv, TypeOK
  <2>2. CASE \E k \in EventKind : Deliver(k)
    BY <2>2 DEF IInv, TypeOK
  <2>3. CASE Replug
    BY <2>3 DEF IInv, TypeOK
  <2>4. QED
    BY <2>1, <2>2, <2>3
<1>2. Numbering' /\ Closing' /\ TaskLocals' /\ NoLeakedHandle'
  BY DEF IInv, Numbering, Closing, LiveReaders, TaskLocals, NoLeakedHandle
<1>3. Generations'
  BY DEF IInv, Generations, Pending
<1>4. Stream' /\ Writing'
  BY DEF IInv, Stream, StreamInOrder, Writing
<1>5. Ends'
  BY DEF IInv, TypeOK, Ends, EndsAnnouncedOnce
<1>6. QED
  BY <1>1, <1>2, <1>3, <1>4, <1>5 DEF IInv

\* The driver closes a handle.
LEMMA CloseHandleStep ==
  ASSUME IInv, NEW c \in Conns, CloseHandle(c)
  PROVE  IInv'
<1> USE DEF CloseHandle, queueVars, notifyVars
<1>1. TypeOK' /\ NoLeakedHandle'
  BY DEF IInv, TypeOK, NoLeakedHandle
<1>2. Numbering' /\ Closing' /\ TaskLocals'
  BY DEF IInv, Numbering, Closing, LiveReaders, TaskLocals
<1>3. Generations'
  BY DEF IInv, Generations, Pending
<1>4. Stream' /\ Writing' /\ Ends'
  BY DEF IInv, Stream, StreamInOrder, Writing, Ends, EndsAnnouncedOnce
<1>5. QED
  BY <1>1, <1>2, <1>3, <1>4 DEF IInv

\* Everything a script does.
LEMMA ScriptStep ==
  ASSUME IInv, Scripts
  PROVE  IInv'
<1>1. PICK s : ScriptOnly(s)
  BY DEF Scripts, ScriptCheck, ScriptBegin, ScriptWrite, ScriptStale,
         ScriptEnd
<1>2. UNCHANGED <<connVars, cfg, gen, closed, chClosed, queueVars, rd, task,
                  devs, notifyVars, off>>
  BY <1>1 DEF ScriptOnly
<1> USE <1>2 DEF connVars, queueVars, notifyVars
<1>3. script' \in Script /\ Writing'
  <2> USE DEF IInv, TypeOK, Script, NoScript, Writing, ScriptOnly
  <2>1. CASE ScriptCheck
    BY <2>1 DEF ScriptCheck
  <2>2. CASE ScriptBegin
    BY <2>2 DEF ScriptBegin
  <2>3. CASE ScriptWrite
    <3>1. script' = [script EXCEPT !.to = script.to \cup {port}]
          /\ port \in Conns /\ script.gen = gen /\ ~closed
          /\ script.pc = "run"
      BY <2>3 DEF ScriptWrite, Closing
    <3>2. script.to = {} \/ script.to = {port}
      BY <3>1
    <3>3. script'.to = {port} /\ script'.gen = script.gen
          /\ script'.pc = script.pc /\ script' \in Script
      BY <3>1, <3>2
    <3>4. QED
      BY <3>1, <3>3
  <2>4. CASE ScriptStale \/ ScriptEnd
    BY <2>4 DEF ScriptStale, ScriptEnd
  <2>5. QED
    BY <2>1, <2>2, <2>3, <2>4 DEF Scripts
<1>4. TypeOK'
  BY <1>3 DEF IInv, TypeOK
<1>5. Numbering' /\ Closing' /\ TaskLocals' /\ NoLeakedHandle'
  BY DEF IInv, Numbering, Closing, LiveReaders, TaskLocals, NoLeakedHandle
<1>6. Generations' /\ Stream' /\ Ends'
  BY DEF IInv, Generations, Pending, Stream, StreamInOrder, Ends, EndsAnnouncedOnce
<1>7. QED
  BY <1>3, <1>4, <1>5, <1>6 DEF IInv

-----------------------------------------------------------------------------
(* The user's steps and the channels.                                       *)

LEMMA DetachFrame ==
  ASSUME IInv, Detach
  PROVE  /\ port' = NoConn /\ last' = last /\ usb' \in Idents
         /\ fd' \in [Conns -> {"none", "open", "closing", "closed"}]
         /\ NoLeakedHandle'
BY IdentsAssumption DEF IInv, TypeOK, Detach, NoLeakedHandle

LEMMA CloseStep ==
  ASSUME IInv, CloseBegin \/ CloseEnd
  PROVE  IInv'
<1>1. CASE CloseBegin
  <2> USE <1>1 DEF CloseBegin, queueVars, notifyVars
  <2>1. TypeOK' /\ NoLeakedHandle'
    BY DetachFrame DEF IInv, TypeOK
  <2>2. Numbering' /\ Closing' /\ TaskLocals'
    BY DetachFrame DEF IInv, Numbering, Closing, LiveReaders, TaskLocals
  <2>3. Generations' /\ Ends'
    BY DetachFrame DEF IInv, Generations, Pending, Ends, EndsAnnouncedOnce
  <2>4. Stream' /\ Writing'
    BY DetachFrame DEF IInv, Stream, StreamInOrder, Writing
  <2>5. QED
    BY <2>1, <2>2, <2>3, <2>4 DEF IInv
<1>2. CASE CloseEnd
  <2> USE <1>2 DEF CloseEnd, connVars, queueVars, notifyVars
  <2>1. TypeOK' /\ NoLeakedHandle'
    BY DEF IInv, TypeOK, NoLeakedHandle
  <2>2. Numbering' /\ Closing' /\ TaskLocals'
    BY DEF IInv, Numbering, Closing, LiveReaders, TaskLocals
  <2>3. Generations' /\ Ends'
    BY DEF IInv, Generations, Pending, Ends, EndsAnnouncedOnce
  <2>4. Stream' /\ Writing'
    BY DEF IInv, Stream, StreamInOrder, Writing
  <2>5. QED
    BY <2>1, <2>2, <2>3, <2>4 DEF IInv
<1>3. QED
  BY <1>1, <1>2

\* Advancing the generation keeps the past ones in the past.
LEMMA AdvanceStep ==
  ASSUME IInv, gen' = gen + 1, task' = task, rd' = rd, off' => port' = NoConn
  PROVE  Generations'
<1>1. gen \in Nat /\ \A c \in Conns : task[c].gen \in Nat
  BY DEF IInv, TypeOK, Task
<1>2. \A c \in Conns : Pending(c)' <=> Pending(c)
  BY DEF Pending
<1>3. QED
  BY <1>1, <1>2 DEF IInv, Generations

LEMMA DisconnectStep ==
  ASSUME IInv, Disconnect
  PROVE  IInv'
<1> USE DEF Disconnect, NextGen, queueVars, notifyVars
<1>1. /\ port' = NoConn /\ last' = last /\ usb' \in Idents
      /\ fd' \in [Conns -> {"none", "open", "closing", "closed"}]
      /\ NoLeakedHandle'
  BY DetachFrame DEF IInv, TypeOK, NoLeakedHandle, connVars
<1>2. /\ events' \in [EventKind -> Nat] /\ ended' \in [Conns -> Nat]
      /\ ended' = IF port = NoConn THEN ended
                  ELSE [ended EXCEPT ![port] = @ + 1]
  BY DEF IInv, TypeOK, Announce, AnnounceEnd, EventKind
<1>3. TypeOK'
  BY <1>1, <1>2 DEF IInv, TypeOK
<1>4. Numbering' /\ Closing'
  BY <1>1 DEF IInv, Numbering, Closing, LiveReaders
<1>5. Generations'
  BY <1>1, AdvanceStep
<1>6. TaskLocals'
  BY DEF IInv, TaskLocals, Pending, Generations, TypeOK
<1>7. Stream' /\ Writing'
  BY <1>1 DEF IInv, Stream, StreamInOrder, Writing, TypeOK, Script
<1>8. Ends'
  <2>1. CASE port = NoConn
    BY <1>1, <1>2, <2>1 DEF IInv, Ends, EndsAnnouncedOnce
  <2>2. CASE port # NoConn
    <3>1. /\ port \in Conns /\ port = last /\ rd[port] # "notify"
          /\ ended[port] = 0 /\ ended \in [Conns -> Nat]
      BY <2>2 DEF IInv, TypeOK, Numbering, Ends, EndsAnnouncedOnce
    <3>2. ended'[port] = 1
          /\ \A c \in Conns : c # port => ended'[c] = ended[c]
      BY <1>2, <2>2, <3>1
    <3>3. last \in Int
      BY BoundsAssumption DEF IInv, TypeOK
    <3>4. QED
      BY <1>1, <2>2, <3>1, <3>2, <3>3 DEF IInv, Ends, EndsAnnouncedOnce
  <2>3. QED
    BY <2>1, <2>2
<1>9. QED
  BY <1>1, <1>3, <1>4, <1>5, <1>6, <1>7, <1>8 DEF IInv

LEMMA UpdateConfigStep ==
  ASSUME IInv, NEW new \in Config \cup {NoConfig}, UpdateConfig(new)
  PROVE  IInv'
<1> USE DEF UpdateConfig, NextGen, connVars, queueVars, notifyVars
<1>1. TypeOK'
  BY DEF IInv, TypeOK
<1>2. Numbering' /\ Closing' /\ NoLeakedHandle' /\ Ends'
  BY DEF IInv, Numbering, Closing, LiveReaders, NoLeakedHandle,
         Ends, EndsAnnouncedOnce
<1>3. Generations'
  BY AdvanceStep DEF IInv, Generations
<1>4. TaskLocals'
  BY DEF IInv, TaskLocals, Pending, Generations, TypeOK
<1>5. Stream' /\ Writing'
  BY DEF IInv, Stream, StreamInOrder, Writing, TypeOK, Script
<1>6. QED
  BY <1>1, <1>2, <1>3, <1>4, <1>5 DEF IInv

\* The bridge takes the oldest chunk.
LEMMA ForwardStep ==
  ASSUME IInv, Forward
  PROVE  IInv'
<1> USE DEF Forward, connVars, notifyVars
<1>1. /\ dataChan \in Seq(Conns) /\ dataChan # <<>>
      /\ Len(dataChan) \in Nat /\ Len(dataChan) > 0
      /\ out' = dataChan[1] /\ out' \in Conns /\ dataChan' \in Seq(Conns)
      /\ Len(dataChan') = Len(dataChan) - 1
      /\ \A i \in 1 .. Len(dataChan') : dataChan'[i] = dataChan[i + 1]
  <2>a. dataChan \in Seq(Conns) /\ dataChan # <<>>
    BY DEF IInv, TypeOK
  <2>1. dataChan \in Seq(Conns) /\ Len(dataChan) \in Nat
        /\ Len(dataChan) > 0
    BY <2>a
  <2>2. dataChan[1] \in Conns /\ out' = dataChan[1]
    <3>1. out' = Head(dataChan) /\ Head(dataChan) \in Conns
      BY <2>a, HeadTailProperties
    <3>2. Head(dataChan) = dataChan[1]
      OBVIOUS
    <3>3. QED
      BY <3>1, <3>2
  <2>3. /\ dataChan' \in Seq(Conns) /\ Len(dataChan') = Len(dataChan) - 1
        /\ \A i \in 1 .. Len(dataChan') : dataChan'[i] = dataChan[i + 1]
    BY <2>1
  <2>4. QED
    BY <2>a, <2>1, <2>2, <2>3
<1>2. TypeOK'
  BY <1>1 DEF IInv, TypeOK
<1>3. Stream'
  <2>1. \A i \in 1 .. Len(dataChan') :
          i \in Nat /\ i + 1 \in 1 .. Len(dataChan)
    BY <1>1
  <2>2. \A i, j \in 1 .. Len(dataChan') :
          i <= j => dataChan'[i] <= dataChan'[j]
    <3> TAKE i, j \in 1 .. Len(dataChan')
    <3> HAVE i <= j
    <3>1. i + 1 <= j + 1
      BY <2>1
    <3>2. dataChan[i + 1] <= dataChan[j + 1]
      BY <2>1, <3>1 DEF IInv, Stream, StreamInOrder
    <3>3. QED
      BY <1>1, <3>2
  <2>3. \A i \in 1 .. Len(dataChan') : out' <= dataChan'[i]
    BY <1>1, <2>1 DEF IInv, Stream, StreamInOrder
  <2>4. out' <= last' /\ \A i \in 1 .. Len(dataChan') : dataChan'[i] <= last'
    BY <1>1, <2>1 DEF IInv, Stream
  <2>5. QED
    BY <2>2, <2>3, <2>4 DEF Stream, StreamInOrder
<1>4. Numbering' /\ Closing' /\ TaskLocals' /\ NoLeakedHandle'
  BY DEF IInv, Numbering, Closing, LiveReaders, TaskLocals, NoLeakedHandle
<1>5. Generations' /\ Writing' /\ Ends'
  BY DEF IInv, Generations, Pending, Writing, Ends, EndsAnnouncedOnce
<1>6. QED
  BY <1>2, <1>3, <1>4, <1>5 DEF IInv

-----------------------------------------------------------------------------
(* Connections come and go.                                                 *)

\* What every successful connectLocked establishes.
LEMMA EstablishFrame ==
  ASSUME IInv, Establish
  PROVE  /\ last + 1 \in Conns /\ last' = last + 1 /\ port' = last + 1
         /\ port = NoConn /\ ~closed
         /\ usb' \in Idents
         /\ fd' = [fd EXCEPT ![last + 1] = "open"]
         /\ rd' = [rd EXCEPT ![last + 1] = "top"]
         /\ rd[last + 1] = "none" /\ task[last + 1].pc = "none"
         /\ events' \in [EventKind -> Nat]
<1> USE DEF Establish, MayOpen, Announce
<1>1. last + 1 \in Conns /\ ~closed /\ port = NoConn
  BY BoundsAssumption DEF IInv, TypeOK
<1>2. usb' \in Idents
  BY LayoutsAssumption DEF IInv, TypeOK, Config
<1>3. rd[last + 1] = "none" /\ task[last + 1].pc = "none"
  BY <1>1 DEF IInv, TypeOK, Numbering
<1>4. events' \in [EventKind -> Nat]
  BY DEF IInv, TypeOK, EventKind
<1>5. QED
  BY <1>1, <1>2, <1>3, <1>4

\* The parts of the invariant a new connection could disturb, whether a user
\* or a reconnect task opened it.
LEMMA EstablishInv ==
  ASSUME IInv, Establish,
         UNCHANGED <<cfg, gen, closed, chClosed, queueVars, devs, page, ended,
                     script>>,
         \A d \in Conns : task'[d].pc = "none" <=> task[d].pc = "none"
  PROVE  /\ Numbering' /\ Closing' /\ Stream' /\ Writing'
         /\ NoLeakedHandle' /\ Ends'
<1> USE DEF queueVars
<1>a. /\ last + 1 \in Conns /\ last' = last + 1 /\ port' = last + 1
      /\ port = NoConn /\ ~closed
      /\ fd' = [fd EXCEPT ![last + 1] = "open"]
      /\ rd' = [rd EXCEPT ![last + 1] = "top"]
      /\ last \in Int
      /\ rd \in [Conns -> ReaderPc] /\ DOMAIN fd = Conns
  BY EstablishFrame DEF IInv, TypeOK
<1>1. Numbering'
  <2>1. rd'[last + 1] = "top" /\ \A d \in Conns : d # last + 1 => rd'[d] = rd[d]
    BY <1>a
  <2>2. \A d \in Conns : d > last' => d > last /\ d # last + 1
    BY <1>a
  <2>3. QED
    BY <1>a, <2>1, <2>2 DEF IInv, Numbering
<1>2. Closing'
  BY <1>a DEF IInv, Closing
<1>3. Stream'
  <2>1. /\ out \in Int
        /\ \A i \in 1 .. Len(dataChan) : dataChan[i] \in Conns
    BY BoundsAssumption DEF IInv, TypeOK
  <2>2. out <= last' /\ \A i \in 1 .. Len(dataChan) : dataChan[i] <= last'
    BY <1>a, <2>1 DEF IInv, Stream
  <2>3. QED
    BY <2>2 DEF IInv, Stream, StreamInOrder
<1>4. Writing'
  BY <1>a DEF IInv, Writing
<1>5. NoLeakedHandle'
  BY <1>a DEF IInv, NoLeakedHandle
<1>6. Ends'
  BY <1>a DEF IInv, Ends, EndsAnnouncedOnce
<1>7. QED
  BY <1>1, <1>2, <1>3, <1>4, <1>5, <1>6


\* A user connects.
LEMMA ConnectStep ==
  ASSUME IInv, Connect
  PROVE  IInv'
<1> USE DEF Connect, queueVars
<1>1. Establish /\ \A d \in Conns : task'[d].pc = "none" <=> task[d].pc = "none"
  OBVIOUS
<1>2. /\ Numbering' /\ Closing' /\ Stream' /\ Writing'
      /\ NoLeakedHandle' /\ Ends'
  BY <1>1, EstablishInv
<1>3. /\ last + 1 \in Conns /\ last' = last + 1 /\ port' = last + 1
      /\ usb' \in Idents /\ events' \in [EventKind -> Nat]
      /\ fd' = [fd EXCEPT ![last + 1] = "open"]
      /\ rd' = [rd EXCEPT ![last + 1] = "top"]
      /\ task[last + 1].pc = "none" /\ rd[last + 1] = "none"
  BY <1>1, EstablishFrame
<1>4. TypeOK'
  <2>1. rd' \in [Conns -> ReaderPc]
    BY <1>3 DEF IInv, TypeOK, ReaderPc
  <2>2. fd' \in [Conns -> {"none", "open", "closing", "closed"}]
    BY <1>3 DEF IInv, TypeOK
  <2>3. port' \in Conns \cup {NoConn} /\ last' \in 0 .. MaxConn
    BY <1>3, BoundsAssumption
  <2>4. off' \in BOOLEAN
    OBVIOUS
  <2>5. QED
    BY <1>3, <2>1, <2>2, <2>3, <2>4 DEF IInv, TypeOK
<1>5. \A d \in Conns : Pending(d)' <=> Pending(d)
  BY <1>3 DEF Pending, IInv, TypeOK
<1>6. Generations'
  BY <1>5 DEF IInv, Generations
<1>7. TaskLocals'
  BY <1>3 DEF IInv, TaskLocals, TypeOK
<1>8. QED
  BY <1>2, <1>4, <1>6, <1>7 DEF IInv

\* A reconnect task gives up, or tries to connect.
LEMMA TaskConnectStep ==
  ASSUME IInv, NEW c \in Conns, TaskConnect(c)
  PROVE  IInv'
<1> USE DEF TaskConnect, queueVars
<1>1. task[c] \in Task /\ task[c].pc = "connect" /\ task[c].name \in Ports
  BY DEF IInv, TypeOK, TaskLocals, TaskPc
<1>2. CASE TaskOnly(c, Ended)
  BY <1>1, <1>2, LocalsType, TaskOnlyStep DEF Ended, Locals
<1>3. CASE TaskOnly(c, [task[c] EXCEPT !.pc = "retry"])
  <2> DEFINE t == [task[c] EXCEPT !.pc = "retry"]
  <2>1. t \in Task /\ t.pc = "retry" /\ t.gen = task[c].gen
        /\ t.name \in Ports
    BY <1>1 DEF Task, TaskPc
  <2>2. TaskOnly(c, t)
    BY <1>3
  <2> HIDE DEF t
  <2>3. QED
    BY <1>1, <2>1, <2>2, TaskOnlyStep
<1>4. CASE /\ Active(c)
           /\ Establish
           /\ task' = [task EXCEPT ![c] = Ended]
           /\ UNCHANGED <<cfg, gen, closed, chClosed, queueVars, devs, page,
                          ended, script, off>>
  <2> USE <1>4
  <2>1. \A d \in Conns : task'[d].pc = "none" <=> task[d].pc = "none"
    BY <1>1 DEF IInv, TypeOK, Ended, Locals
  <2>2. /\ Numbering' /\ Closing' /\ Stream' /\ Writing'
        /\ NoLeakedHandle' /\ Ends'
    BY <2>1, EstablishInv
  <2>3. /\ last + 1 \in Conns /\ last' = last + 1 /\ port' = last + 1
        /\ usb' \in Idents /\ events' \in [EventKind -> Nat]
        /\ fd' = [fd EXCEPT ![last + 1] = "open"]
        /\ rd' = [rd EXCEPT ![last + 1] = "top"]
        /\ task[last + 1].pc = "none" /\ rd[last + 1] = "none"
    BY EstablishFrame
  <2>4. task' \in [Conns -> Task]
    BY LocalsType DEF IInv, TypeOK, Ended
  <2>5. TypeOK'
    <3>1. /\ port' \in Conns \cup {NoConn} /\ last' \in 0 .. MaxConn
      BY <2>3, BoundsAssumption DEF Conns
    <3>2. /\ fd' \in [Conns -> {"none", "open", "closing", "closed"}]
          /\ rd' \in [Conns -> ReaderPc]
      BY <2>3 DEF IInv, TypeOK, ReaderPc
    <3>3. UNCHANGED <<cfg, gen, closed, chClosed, queueVars, devs, page,
                      ended, script, off>>
      OBVIOUS
    <3>4. QED
      BY <2>3, <2>4, <3>1, <3>2, <3>3 DEF IInv, TypeOK, queueVars
  <2>6. rd[c] # "notify" /\ c # last + 1
    BY <1>1, <2>3 DEF IInv, TaskLocals
  <2>7. /\ ~Pending(c)'
        /\ \A d \in Conns : d # c => (Pending(d)' <=> Pending(d))
        /\ \A d \in Conns : d # c => task'[d] = task[d]
    BY <2>3, <2>6 DEF Pending, IInv, TypeOK, Ended, Locals
  <2>8. ~off
    BY <1>1 DEF IInv, Generations, Active, Pending
  <2>9. Generations'
    BY <2>7, <2>8 DEF IInv, Generations
  <2>10. TaskLocals'
    BY <2>3, <2>6, <2>7 DEF IInv, TaskLocals, TypeOK, Ended, Locals, TaskPc
  <2>11. QED
    BY <2>2, <2>5, <2>9, <2>10 DEF IInv
<1>5. QED
  BY <1>2, <1>3, <1>4


-----------------------------------------------------------------------------
(* The read loop.                                                           *)

\* Bytes are published for the current connection only.
LEMMA PublishStep ==
  ASSUME IInv, NEW c \in Conns, Publish(c)
  PROVE  IInv'
<1> USE DEF Publish, MayPublish, connVars, notifyVars
<1>1. /\ dataChan \in Seq(Conns)
      /\ rd \in [Conns -> ReaderPc]
      /\ rd' = [rd EXCEPT ![c] = IF port = c THEN "top" ELSE "done"]
      /\ rd[c] = "pub"
  BY DEF IInv, TypeOK
<1>2. dataChan' \in Seq(Conns)
  BY <1>1, AppendProperties
<1>3. TypeOK'
  BY <1>1, <1>2 DEF IInv, TypeOK, ReaderPc
<1>4. Stream'
  <2>1. CASE dataChan' = dataChan
    BY <2>1 DEF IInv, Stream, StreamInOrder
  <2>2. CASE port = c /\ dataChan' = Append(dataChan, c)
    <3>1. c = last
      BY <2>2 DEF IInv, Numbering
    <3>2. /\ Len(dataChan') = Len(dataChan) + 1 /\ Len(dataChan) \in Nat
          /\ \A i \in 1 .. Len(dataChan) : dataChan'[i] = dataChan[i]
          /\ dataChan'[Len(dataChan) + 1] = c
      BY <1>1, <2>2, AppendProperties
    <3>3. \A i \in 1 .. Len(dataChan') :
            i \in 1 .. Len(dataChan) \/ i = Len(dataChan) + 1
      BY <3>2
    <3>4. \A i \in 1 .. Len(dataChan) : dataChan[i] <= c
      BY <3>1 DEF IInv, Stream
    <3>5. \A i, j \in 1 .. Len(dataChan') :
            i <= j => dataChan'[i] <= dataChan'[j]
      <4> TAKE i, j \in 1 .. Len(dataChan')
      <4> HAVE i <= j
      <4>1. CASE j \in 1 .. Len(dataChan)
        <5>1. i \in 1 .. Len(dataChan)
          BY <3>2, <4>1
        <5>2. QED
          BY <3>2, <4>1, <5>1 DEF IInv, Stream, StreamInOrder
      <4>2. CASE j = Len(dataChan) + 1
        <5>1. dataChan'[i] <= c
          BY <3>2, <3>3, <3>4
        <5>2. QED
          BY <3>2, <4>2, <5>1
      <4>3. QED
        BY <3>3, <4>1, <4>2
    <3>6. \A i \in 1 .. Len(dataChan') : out <= dataChan'[i]
      BY <3>1, <3>2, <3>3 DEF IInv, Stream, StreamInOrder
    <3>7. \A i \in 1 .. Len(dataChan') : dataChan'[i] <= last
      BY <3>1, <3>2, <3>3, <3>4
    <3>8. QED
      BY <3>5, <3>6, <3>7 DEF IInv, Stream, StreamInOrder
  <2>3. QED
    BY <2>1, <2>2
<1>5. Numbering'
  BY <1>1 DEF IInv, Numbering
<1>6. Closing'
  BY <1>1 DEF IInv, Closing, LiveReaders
<1>7. \A d \in Conns : Pending(d)' <=> Pending(d)
  BY <1>1 DEF Pending
<1>8. Generations' /\ Writing' /\ NoLeakedHandle'
  BY <1>7 DEF IInv, Generations, Writing, NoLeakedHandle
<1>9. TaskLocals'
  BY <1>1 DEF IInv, TaskLocals
<1>10. Ends'
  BY <1>1 DEF IInv, Ends, EndsAnnouncedOnce
<1>11. QED
  BY <1>3, <1>4, <1>5, <1>6, <1>8, <1>9, <1>10 DEF IInv

\* The connection is found lost: its task-to-be gets a generation nobody
\* else has.
LEMMA LoseStep ==
  ASSUME IInv, NEW c \in Conns, Lose(c)
  PROVE  IInv'
<1> USE DEF MayLose
<1>1. CASE port # c /\ ReaderOnly(c, "done")
  BY <1>1, ReaderOnlyStep DEF Lose, ReaderPc
<1>2. CASE /\ port = c
           /\ Detach
           /\ gen' = NextGen
           /\ rd' = [rd EXCEPT ![c] = "notify"]
           /\ task' = [task EXCEPT ![c] = Captured]
           /\ UNCHANGED <<cfg, closed, chClosed, queueVars, devs, notifyVars,
                          script, off>>
  <2> USE <1>2 DEF NextGen, queueVars, notifyVars
  <2>1. /\ port' = NoConn /\ last' = last /\ usb' \in Idents
        /\ fd' \in [Conns -> {"none", "open", "closing", "closed"}]
        /\ NoLeakedHandle'
    BY DetachFrame
  <2>2. /\ rd[c] = "lost" /\ gen \in Nat /\ port = last /\ ~off /\ ~closed
        /\ rd \in [Conns -> ReaderPc] /\ task \in [Conns -> Task]
        /\ cfg.port \in Ports /\ usb \in Idents
    BY DEF IInv, TypeOK, Lose, Numbering, Generations, Closing, Config
  <2> DEFINE t == Captured
  <2>3. /\ t \in Task /\ t.pc = "none" /\ t.tries = 0
        /\ t.gen = gen + 1 /\ t.name \in Ports
    <3>1. t = [pc |-> "none", gen |-> gen + 1, name |-> cfg.port,
               usb |-> usb, target |-> NoPort, conf |-> NoConfig,
               tries |-> 0]
      BY DEF Captured
    <3>2. gen + 1 \in Nat /\ 0 \in 0 .. MaxTries
      BY <2>2, BoundsAssumption
    <3> HIDE DEF t
    <3>3. QED
      BY <2>2, <3>1, <3>2 DEF Task, TaskPc
  <2>4. task' = [task EXCEPT ![c] = t]
    OBVIOUS
  <2> HIDE DEF t
  <2>5. TypeOK'
    BY <2>1, <2>2, <2>3, <2>4 DEF IInv, TypeOK, ReaderPc
  <2>6. Numbering' /\ Closing'
    BY <2>1, <2>2, <2>3, <2>4 DEF IInv, Numbering, Closing, LiveReaders
  <2>7. /\ task'[c].gen = gen + 1
        /\ \A d \in Conns : d # c => task'[d] = task[d]
                                     /\ (Pending(d)' <=> Pending(d))
    BY <2>2, <2>3, <2>4 DEF Pending
  <2>8. \A d \in Conns : d # c /\ Pending(d)' => task'[d].gen <= gen
    BY <2>7 DEF IInv, Generations
  <2>9. \A d \in Conns : d # c => task[d].gen \in Nat
    BY <2>2 DEF Task
  <2>10. Generations'
    BY <2>2, <2>7, <2>8, <2>9 DEF IInv, Generations
  <2>11. TaskLocals'
    <3>1. \A d \in Conns : d # c /\ task[d].pc = "update" => task[d].gen <= gen
      BY DEF IInv, Generations, Pending
    <3>2. \A d \in Conns : d # c /\ task[d].pc = "update"
                           => task[d].gen # gen + 1
      BY <2>2, <2>9, <3>1
    <3>3. \A d \in Conns : d # c => task'[d] = task[d] /\ rd'[d] = rd[d]
      BY <2>2, <2>7
    <3>4. task'[c].pc = "none" /\ task'[c].tries = 0
          /\ task'[c].name \in Ports
      BY <2>2, <2>3, <2>4
    <3>5. QED
      BY <3>2, <3>3, <3>4 DEF IInv, TaskLocals, TaskPc
  <2>12. Stream' /\ Writing'
    BY <2>1, <2>2 DEF IInv, Stream, StreamInOrder, Writing, TypeOK, Script
  <2>13. Ends'
    BY <2>1, <2>2 DEF IInv, Ends, EndsAnnouncedOnce
  <2>14. QED
    BY <2>1, <2>5, <2>6, <2>10, <2>11, <2>12, <2>13 DEF IInv
<1>3. QED
  BY <1>1, <1>2 DEF Lose

\* The loss is announced and the task started.
LEMMA LoseNotifyStep ==
  ASSUME IInv, NEW c \in Conns, LoseNotify(c)
  PROVE  IInv'
<1> USE DEF LoseNotify, SendErr, Announce, AnnounceEnd, connVars
<1> DEFINE t == IF closed THEN Locals("none")
                ELSE [task[c] EXCEPT !.pc = "wait"]
<1>1. /\ rd[c] = "notify" /\ rd' = [rd EXCEPT ![c] = "done"]
      /\ task' = [task EXCEPT ![c] = t]
      /\ rd \in [Conns -> ReaderPc] /\ task \in [Conns -> Task]
      /\ events' \in [EventKind -> Nat]
      /\ ended \in [Conns -> Nat] /\ ended' = [ended EXCEPT ![c] = @ + 1]
      /\ ended[c] = 0 /\ c <= last /\ port # c
      /\ task[c].pc = "none" /\ task[c].tries = 0 /\ task[c].name \in Ports
  BY DEF IInv, TypeOK, TaskLocals, EventKind, Ends, EndsAnnouncedOnce,
         Numbering
<1>2. /\ t \in Task
      /\ t.pc = "none" \/ (/\ t.pc = "wait" /\ t.gen = task[c].gen
                           /\ t.name \in Ports /\ t.tries = 0)
  BY <1>1, LocalsType DEF Task, TaskPc, Locals
<1> HIDE DEF t
<1>3. TypeOK'
  <2>1. errs' \in 0 .. ErrCap
    BY BoundsAssumption DEF IInv, TypeOK
  <2>2. task' \in [Conns -> Task] /\ rd' \in [Conns -> ReaderPc]
    BY <1>1, <1>2 DEF ReaderPc
  <2>3. QED
    BY <1>1, <2>1, <2>2 DEF IInv, TypeOK
<1>4. Numbering'
  BY <1>1, <1>2 DEF IInv, Numbering
<1>5. Closing'
  BY <1>1 DEF IInv, Closing, LiveReaders
<1>6. /\ Pending(c) /\ (Pending(c)' => task'[c].gen = task[c].gen)
      /\ \A d \in Conns : d # c => task'[d] = task[d]
                                   /\ (Pending(d)' <=> Pending(d))
  BY <1>1, <1>2 DEF Pending
<1>7. Generations'
  BY <1>6 DEF IInv, Generations
<1>8. TaskLocals'
  BY <1>1, <1>2, BoundsAssumption DEF IInv, TaskLocals, TaskPc
<1>9. Stream' /\ Writing' /\ NoLeakedHandle'
  BY DEF IInv, Stream, StreamInOrder, Writing, NoLeakedHandle
<1>10. Ends'
  BY <1>1 DEF IInv, Ends, EndsAnnouncedOnce
<1>11. QED
  BY <1>3, <1>4, <1>5, <1>7, <1>8, <1>9, <1>10 DEF IInv

\* Every step of a read loop.
LEMMA ReaderStepInv ==
  ASSUME IInv, NEW c \in Conns, ReaderStep(c)
  PROVE  IInv'
<1>1. closed => port # c
  BY DEF IInv, Closing
<1>2. CASE ReadTop(c)
  BY <1>1, <1>2, ReaderOnlyStep DEF ReadTop, ReaderPc
<1>3. CASE ReadReturns(c)
  BY <1>3, ReaderOnlyStep DEF ReadReturns, ReaderPc
<1>4. CASE ReadGot(c)
  BY <1>4, ReaderOnlyStep DEF ReadGot, ReaderPc
<1>5. CASE ReadErr(c)
  BY <1>5, ReaderOnlyStep DEF ReadErr, ReaderPc
<1>6. QED
  BY <1>2, <1>3, <1>4, <1>5, PublishStep, LoseStep, LoseNotifyStep
  DEF ReaderStep


-----------------------------------------------------------------------------
(* The reconnect task.                                                      *)

\* Every step of a reconnect task.
LEMMA TaskStepInv ==
  ASSUME IInv, NEW c \in Conns, TaskStep(c)
  PROVE  IInv'
<1>a. task[c] \in Task /\ cfg \in Config /\ gen \in Nat
  BY DEF IInv, TypeOK
<1>b. Ended \in Task /\ Ended.pc = "done"
  BY LocalsType DEF Ended, Locals
<1>1. CASE TaskWake(c)
  <2>1. /\ task[c].pc = "wait" /\ task[c].name \in Ports
        /\ task[c].tries < MaxTries
    BY <1>1 DEF TaskWake, IInv, TaskLocals, TaskPc
  <2>2. CASE TaskOnly(c, Ended)
    BY <1>b, <2>1, <2>2, TaskOnlyStep
  <2>3. CASE TaskOnly(c, [task[c] EXCEPT !.pc = "list", !.tries = @ + 1])
    <3> DEFINE t == [task[c] EXCEPT !.pc = "list", !.tries = @ + 1]
    <3>1. /\ t \in Task /\ t.pc = "list" /\ t.gen = task[c].gen
          /\ t.name \in Ports
      <4>1. task[c].tries + 1 \in 0 .. MaxTries
        BY <1>a, <2>1, BoundsAssumption DEF Task
      <4>2. QED
        BY <1>a, <2>1, <4>1 DEF Task, TaskPc
    <3>2. TaskOnly(c, t)
      BY <2>3
    <3> HIDE DEF t
    <3>3. QED
      BY <2>1, <3>1, <3>2, TaskOnlyStep
  <2>4. QED
    BY <1>1, <2>2, <2>3 DEF TaskWake
<1>2. CASE TaskList(c)
  <2>1. task[c].pc = "list" /\ task[c].name \in Ports
    BY <1>2 DEF TaskList, IInv, TaskLocals, TaskPc
  <2>2. CASE TaskOnly(c, [task[c] EXCEPT !.pc = "retry"])
    <3> DEFINE t == [task[c] EXCEPT !.pc = "retry"]
    <3>1. /\ t \in Task /\ t.pc = "retry" /\ t.gen = task[c].gen
          /\ t.name \in Ports
      BY <1>a, <2>1 DEF Task, TaskPc
    <3>2. TaskOnly(c, t)
      BY <2>2
    <3> HIDE DEF t
    <3>3. QED
      BY <2>1, <3>1, <3>2, TaskOnlyStep
  <2>3. ASSUME NEW p \in Matches(task[c].name, task[c].usb),
               TaskOnly(c, [task[c] EXCEPT !.pc = "config", !.target = p])
        PROVE  IInv'
    <3> DEFINE t == [task[c] EXCEPT !.pc = "config", !.target = p]
    <3>1. p \in Ports
      BY <2>1, <2>3 DEF Matches
    <3>2. /\ t \in Task /\ t.pc = "config" /\ t.gen = task[c].gen
          /\ t.name \in Ports /\ t.target \in Ports
      BY <1>a, <2>1, <3>1 DEF Task, TaskPc
    <3>3. TaskOnly(c, t)
      BY <2>3
    <3> HIDE DEF t
    <3>4. QED
      BY <2>1, <3>2, <3>3, TaskOnlyStep
  <2>4. QED
    BY <1>2, <2>2, <2>3 DEF TaskList
<1>3. CASE TaskConfig(c)
  <2>1. /\ task[c].pc = "config" /\ task[c].name \in Ports
        /\ task[c].target \in Ports
    BY <1>3 DEF TaskConfig, IInv, TaskLocals, TaskPc
  <2> DEFINE t1 == [task[c] EXCEPT !.pc = "connect", !.target = NoPort]
             t2 == [task[c] EXCEPT !.pc = "update", !.target = NoPort,
                             !.conf = [cfg EXCEPT !.port = task[c].target]]
  <2>2. /\ t1 \in Task /\ t1.pc = "connect" /\ t1.gen = task[c].gen
        /\ t1.name \in Ports
    BY <1>a, <2>1 DEF Task, TaskPc
  <2>3. [cfg EXCEPT !.port = task[c].target] \in Config
        /\ [cfg EXCEPT !.port = task[c].target].baud = cfg.baud
    BY <1>a, <2>1 DEF Config
  <2>4. /\ t2 \in Task /\ t2.pc = "update" /\ t2.gen = task[c].gen
        /\ t2.name \in Ports /\ t2.conf \in Config
        /\ t2.conf.baud = cfg.baud
    BY <1>a, <2>1, <2>3 DEF Task, TaskPc
  <2>5. TaskOnly(c, t1) \/ TaskOnly(c, t2)
    BY <1>3 DEF TaskConfig
  <2> HIDE DEF t1, t2
  <2>6. CASE TaskOnly(c, t1)
    BY <2>1, <2>2, <2>6, TaskOnlyStep
  <2>7. CASE TaskOnly(c, t2)
    BY <2>1, <2>4, <2>7, TaskOnlyStep
  <2>8. QED
    BY <2>5, <2>6, <2>7
<1>4. CASE TaskUpdate(c) /\ Active(c)
  <2> USE <1>4 DEF TaskUpdate, Active, connVars, queueVars, notifyVars
  <2> DEFINE t == [task[c] EXCEPT !.pc = "connect", !.conf = NoConfig]
  <2>1. /\ task[c].pc = "update" /\ task[c].name \in Ports
        /\ task[c].conf \in Config /\ task[c].gen = gen
        /\ task[c].conf.baud = cfg.baud
    BY DEF IInv, TaskLocals, TaskPc
  <2>2. /\ t \in Task /\ t.pc = "connect" /\ t.gen = task[c].gen
        /\ t.name \in Ports
    BY <1>a, <2>1 DEF Task, TaskPc
  <2>3. /\ task' = [task EXCEPT ![c] = t] /\ task \in [Conns -> Task]
        /\ cfg' = task[c].conf
    BY DEF IInv, TypeOK
  <2> HIDE DEF t
  <2>4. TypeOK'
    BY <2>1, <2>2, <2>3 DEF IInv, TypeOK
  <2>5. Numbering' /\ Closing' /\ NoLeakedHandle'
    BY <2>1, <2>2, <2>3 DEF IInv, Numbering, Closing, LiveReaders,
                            NoLeakedHandle
  <2>6. \A d \in Conns : /\ Pending(d)' <=> Pending(d)
                         /\ task'[d].gen = task[d].gen
    BY <2>1, <2>2, <2>3 DEF Pending
  <2>7. Generations'
    BY <2>6 DEF IInv, Generations
  <2>8. TaskLocals'
    BY <2>1, <2>2, <2>3 DEF IInv, TaskLocals
  <2>9. Stream' /\ Writing' /\ Ends'
    BY DEF IInv, Stream, StreamInOrder, Writing, Ends, EndsAnnouncedOnce
  <2>10. QED
    BY <2>4, <2>5, <2>7, <2>8, <2>9 DEF IInv
<1>5. CASE TaskUpdate(c) /\ ~Active(c)
  <2>1. TaskOnly(c, Ended) /\ task[c].pc = "update"
    BY <1>5 DEF TaskUpdate, TaskOnly
  <2>2. QED
    BY <1>b, <2>1, TaskOnlyStep
<1>6. CASE TaskRetry(c)
  <2>1. task[c].pc = "retry" /\ task[c].name \in Ports
    BY <1>6 DEF TaskRetry, IInv, TaskLocals, TaskPc
  <2> DEFINE t == [task[c] EXCEPT !.pc = IF MayRetry(c) THEN "wait"
                                         ELSE "giveup"]
  <2>2. /\ t \in Task /\ t.pc \in {"wait", "giveup"}
        /\ t.gen = task[c].gen /\ t.name \in Ports
        /\ t.pc = "wait" => t.tries < MaxTries
    BY <1>a, <2>1 DEF Task, TaskPc, MayRetry
  <2>3. TaskOnly(c, t)
    BY <1>6 DEF TaskRetry
  <2> HIDE DEF t
  <2>4. QED
    BY <2>1, <2>2, <2>3, TaskOnlyStep
<1>7. CASE TaskGiveUp(c)
  <2> USE <1>7 DEF TaskGiveUp, connVars, queueVars
  <2>1. /\ task[c].pc = "giveup"
        /\ task' = [task EXCEPT ![c] = Ended] /\ task \in [Conns -> Task]
        /\ events' \in [EventKind -> Nat]
    BY DEF IInv, TypeOK, Announce, EventKind
  <2>2. TypeOK'
    BY <1>b, <2>1 DEF IInv, TypeOK
  <2>3. Numbering' /\ Closing' /\ NoLeakedHandle'
    BY <1>b, <2>1 DEF IInv, Numbering, Closing, LiveReaders, NoLeakedHandle
  <2>4. /\ \A d \in Conns : Pending(d)' => Pending(d) /\ d # c
        /\ \A d \in Conns : d # c => task'[d] = task[d]
    BY <1>b, <2>1 DEF Pending, IInv, TaskLocals
  <2>5. Generations'
    BY <2>4 DEF IInv, Generations
  <2>6. TaskLocals'
    BY <1>b, <2>1 DEF IInv, TaskLocals, TaskPc
  <2>7. Stream' /\ Writing' /\ Ends'
    BY <2>1 DEF IInv, Stream, StreamInOrder, Writing, Ends, EndsAnnouncedOnce
  <2>8. QED
    BY <2>2, <2>3, <2>5, <2>6, <2>7 DEF IInv
<1>8. QED
  BY <1>1, <1>2, <1>3, <1>4, <1>5, <1>6, <1>7, TaskConnectStep DEF TaskStep

-----------------------------------------------------------------------------
(* The invariant is inductive, and what it implies.                         *)

LEMMA StepIInv == IInv /\ [Next]_vars => IInv'
<1> SUFFICES ASSUME IInv, [Next]_vars PROVE IInv'
  OBVIOUS
<1>1. CASE User
  BY <1>1, ConnectStep, DisconnectStep, AroundStep, UpdateConfigStep,
     CloseStep DEF User
<1>2. CASE Reader
  BY <1>2, ReaderStepInv DEF Reader
<1>3. CASE Reconnect
  BY <1>3, TaskStepInv DEF Reconnect
<1>4. CASE Around
  BY <1>4, CloseHandleStep, AroundStep, ForwardStep DEF Around
<1>5. CASE Scripts
  BY <1>5, ScriptStep
<1>6. CASE UNCHANGED vars
  <2> USE <1>6 DEF vars, connVars, queueVars, notifyVars
  <2>1. TypeOK' /\ NoLeakedHandle'
    BY DEF IInv, TypeOK, NoLeakedHandle
  <2>2. Numbering' /\ Closing' /\ TaskLocals'
    BY DEF IInv, Numbering, Closing, LiveReaders, TaskLocals
  <2>3. Generations' /\ Ends'
    BY DEF IInv, Generations, Pending, Ends, EndsAnnouncedOnce
  <2>4. Stream' /\ Writing'
    BY DEF IInv, Stream, StreamInOrder, Writing
  <2>5. QED
    BY <2>1, <2>2, <2>3, <2>4 DEF IInv
<1>7. QED
  BY <1>1, <1>2, <1>3, <1>4, <1>5, <1>6 DEF Next

LEMMA SpecIInv == Spec => []IInv
BY InitIInv, StepIInv, PTL DEF Spec

\* Every variable keeps its type; in particular no reconnect task tries more
\* often than reconnectMaxAttempts.
THEOREM TypeCorrect == Spec => []TypeOK
<1>1. IInv => TypeOK
  BY DEF IInv
<1>2. QED
  BY <1>1, SpecIInv, PTL

\* No send on a channel Close has closed (manager.go, Close and its callers).
THEOREM ChannelsSafe == Spec => []ClosedChannelsSilent
<1>1. IInv => ClosedChannelsSilent
  BY DEF IInv, Closing, ClosedChannelsSilent
<1>2. QED
  BY <1>1, SpecIInv, PTL

\* At most one reconnect task is valid at any time (manager.go:88).
THEOREM AtMostOneTask == Spec => []OneValidTask
<1>1. IInv => OneValidTask
  BY DEF IInv, Generations, OneValidTask, Active
<1>2. QED
  BY <1>1, SpecIInv, PTL

\* A user's Disconnect or reconfiguration wins over any reconnect task,
\* wherever in its loop that task is.
THEOREM UserIntentWins == Spec => []OffStaysOff
<1>1. IInv => OffStaysOff
  BY DEF IInv, Generations, OffStaysOff
<1>2. QED
  BY <1>1, SpecIInv, PTL

\* WriteIfSameGen keeps a script on one connection.
THEOREM ScriptStaysOnConnection == Spec => []ScriptOneConnection
<1>1. IInv => ScriptOneConnection
  BY DEF IInv, Writing, ScriptOneConnection
<1>2. QED
  BY <1>1, SpecIInv, PTL

\* The data channel never delivers bytes of an old connection after bytes of
\* a newer one.
THEOREM StreamOrdered == Spec => []StreamInOrder
<1>1. IInv => StreamInOrder
  BY DEF IInv, Stream
<1>2. QED
  BY <1>1, SpecIInv, PTL

\* Every port that is taken away is being closed.
THEOREM HandlesClosed == Spec => []NoLeakedHandle
<1>1. IInv => NoLeakedHandle
  BY DEF IInv
<1>2. QED
  BY <1>1, SpecIInv, PTL

\* Every connection's end is announced exactly once, unless Close ended it.
THEOREM EndsAnnounced == Spec => []EndsAnnouncedOnce
<1>1. IInv => EndsAnnouncedOnce
  BY DEF IInv, Ends
<1>2. QED
  BY <1>1, SpecIInv, PTL

\* Of the steps that leave the generation alone only a reconnect task's
\* update writes the configuration.
LEMMA OnlyTaskUpdate ==
  ASSUME IInv, [Next]_vars, cfg' # cfg, gen' = gen
  PROVE  \E c \in Conns : TaskUpdate(c) /\ Active(c)
<1> USE DEF queueVars, connVars, notifyVars
<1>1. ASSUME NEW new, UpdateConfig(new) PROVE FALSE
  BY <1>1 DEF UpdateConfig, NextGen, IInv, TypeOK
<1>2. CASE User
  BY <1>1, <1>2 DEF User, Connect, Disconnect, WriteFails, CloseBegin,
                    CloseEnd
<1>3. CASE Reader
  BY <1>3 DEF Reader, ReaderStep, ReaderOnly, ReadTop, ReadReturns, ReadGot,
              Publish, ReadErr, Lose, LoseNotify
<1>4. CASE Reconnect
  BY <1>4 DEF Reconnect, TaskStep, TaskOnly, TaskWake, TaskList, TaskConfig,
              TaskUpdate, TaskConnect, TaskRetry, TaskGiveUp
<1>5. CASE Around
  BY <1>5 DEF Around, CloseHandle, Deliver, Forward, Replug
<1>6. CASE Scripts
  BY <1>6 DEF Scripts, ScriptOnly, ScriptCheck, ScriptBegin, ScriptWrite,
              ScriptStale, ScriptEnd
<1>7. QED
  BY <1>2, <1>3, <1>4, <1>5, <1>6 DEF Next, vars

\* A reconnect task that follows a renamed device keeps the user's settings
\* and never overwrites what the user configured with the link off.
THEOREM SettingsKept == Spec => ReconnectKeepsSettings
<1>1. ASSUME IInv, [Next]_vars, cfg' # cfg, gen' = gen
      PROVE  ~off /\ cfg'.baud = cfg.baud
  <2>1. PICK c \in Conns : TaskUpdate(c) /\ Active(c)
    BY <1>1, OnlyTaskUpdate
  <2>2. /\ task[c].pc = "update" /\ task[c].gen = gen
        /\ cfg' = task[c].conf
    BY <2>1 DEF TaskUpdate, Active
  <2>3. Pending(c)
    BY <2>2 DEF Pending
  <2>4. QED
    BY <1>1, <2>2, <2>3 DEF IInv, Generations, TaskLocals
<1>2. IInv /\ [Next]_vars
      => [cfg' # cfg /\ gen' = gen => ~off /\ cfg'.baud = cfg.baud]_vars
  BY <1>1
<1>3. QED
  BY <1>2, SpecIInv, PTL DEF Spec, ReconnectKeepsSettings

=============================================================================
