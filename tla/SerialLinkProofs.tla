-------------------------- MODULE SerialLinkProofs --------------------------
(***************************************************************************)
(* SerialManager implements the safety part of SerialLink: under the       *)
(* mapping linkMode, cfg every step of the manager is a step of the        *)
(* abstract link or leaves it unchanged.                                   *)
(***************************************************************************)
EXTENDS SerialManagerProofs

\* The tasks that keep the link in recovery.
Wanted(c) == Pending(c) /\ Active(c)

USE DEF NoConn, Conns

\* The mode depends on these only.
LEMMA ModeFrame ==
  ASSUME port' = port, closed' = closed,
         \A c \in Conns : Wanted(c)' <=> Wanted(c)
  PROVE  linkMode' = linkMode
BY DEF linkMode, Wanted

\* What the four modes mean.
LEMMA Modes ==
  /\ linkMode = "shut" <=> closed
  /\ linkMode = "up" <=> ~closed /\ port # NoConn
  /\ linkMode = "recovering"
       <=> ~closed /\ port = NoConn /\ \E c \in Conns : Wanted(c)
  /\ linkMode = "idle"
       <=> ~closed /\ port = NoConn /\ \A c \in Conns : ~Wanted(c)
BY DEF linkMode, Wanted

\* The same after a step.
LEMMA ModesPrime ==
  /\ linkMode' = "shut" <=> closed'
  /\ linkMode' = "up" <=> ~closed' /\ port' # NoConn
  /\ linkMode' = "recovering"
       <=> ~closed' /\ port' = NoConn /\ \E c \in Conns : Wanted(c)'
  /\ linkMode' = "idle"
       <=> ~closed' /\ port' = NoConn /\ \A c \in Conns : ~Wanted(c)'
BY DEF linkMode, Wanted

\* Whoever advances the generation ends every recovery.
LEMMA AdvanceEnds ==
  ASSUME IInv, gen' = gen + 1, task' = task, rd' = rd
  PROVE  \A c \in Conns : ~Wanted(c)'
<1>1. gen \in Nat /\ \A c \in Conns : task[c].gen \in Nat
  BY DEF IInv, TypeOK, Task
<1>2. \A c \in Conns : Pending(c)' => task[c].gen <= gen
  BY DEF IInv, Generations, Pending
<1>3. QED
  BY <1>1, <1>2 DEF Wanted, Active

LEMMA LinkInit == Init => Link!Init
<1> SUFFICES ASSUME Init PROVE Link!Init
  OBVIOUS
<1>1. linkMode = "idle"
  BY DEF Init, linkMode, Pending, Locals
<1>2. QED
  BY <1>1 DEF Init, Link!Init

LinkStep == Link!Next \/ UNCHANGED Link!vars

\* User calls.
LEMMA LinkConnect == IInv /\ Connect => LinkStep
<1> SUFFICES ASSUME IInv, Connect PROVE Link!UserConnect
  BY DEF LinkStep, Link!Next
<1>1. ~closed /\ port = NoConn /\ closed' = closed /\ port' # NoConn
      /\ cfg' = cfg
  BY DEF Connect, Establish, MayOpen, IInv, TypeOK
<1>2. QED
  BY <1>1, Modes, ModesPrime DEF Link!UserConnect

LEMMA LinkDisconnect == IInv /\ Disconnect => LinkStep
<1> SUFFICES ASSUME IInv, Disconnect PROVE LinkStep
  OBVIOUS
<1>1. /\ port' = NoConn /\ closed' = closed /\ cfg' = cfg
      /\ gen' = gen + 1 /\ task' = task /\ rd' = rd
  BY DEF Disconnect, Detach, connVars, NextGen
<1>2. \A c \in Conns : ~Wanted(c)'
  BY <1>1, AdvanceEnds
<1>3. CASE closed
  <2>1. linkMode = "shut" /\ linkMode' = "shut"
    BY <1>1, <1>3, Modes, ModesPrime
  <2>2. QED
    BY <1>1, <2>1 DEF LinkStep, Link!vars
<1>4. CASE ~closed
  <2>1. linkMode' = "idle"
    BY <1>1, <1>2, <1>4, ModesPrime
  <2>2. linkMode \in {"up", "recovering", "idle"}
    BY <1>4 DEF linkMode
  <2>3. QED
    BY <1>1, <2>1, <2>2 DEF LinkStep, Link!Next, Link!UserDisconnect,
                            Link!vars
<1>5. QED
  BY <1>3, <1>4

LEMMA LinkUpdateConfig ==
  ASSUME IInv, NEW new \in Config \cup {NoConfig}, UpdateConfig(new)
  PROVE  LinkStep
<1>1. /\ port' = port /\ closed' = closed /\ gen' = gen + 1
      /\ task' = task /\ rd' = rd
  BY DEF UpdateConfig, connVars, NextGen
<1>2. \A c \in Conns : ~Wanted(c)'
  BY <1>1, AdvanceEnds
<1>3. CASE port # NoConn
  <2>1. cfg' = cfg /\ ~closed
    BY <1>3 DEF UpdateConfig, IInv, Closing
  <2>2. linkMode' = linkMode
    BY <1>1, <1>3, <2>1, Modes, ModesPrime
  <2>3. QED
    BY <2>1, <2>2 DEF LinkStep, Link!vars
<1>4. CASE port = NoConn
  <2>1. cfg' \in Config
    BY <1>4 DEF UpdateConfig, IInv, TypeOK
  <2>2. linkMode' = IF linkMode = "shut" THEN "shut" ELSE "idle"
    BY <1>1, <1>2, <1>4, Modes, ModesPrime
  <2>3. linkMode # "up"
    BY <1>4, Modes
  <2>4. Link!Reconfigure(cfg')
    BY <2>2, <2>3 DEF Link!Reconfigure
  <2>5. QED
    BY <2>1, <2>4 DEF LinkStep, Link!Next
<1>5. QED
  BY <1>3, <1>4

LEMMA LinkCloseBegin == CloseBegin => LinkStep
<1> SUFFICES ASSUME CloseBegin PROVE Link!Shut
  BY DEF LinkStep, Link!Next
<1>1. closed' /\ cfg' = cfg
  BY DEF CloseBegin
<1>2. QED
  BY <1>1, ModesPrime DEF Link!Shut

\* Steps the link does not see.
LEMMA LinkFrame ==
  ASSUME cfg' = cfg, port' = port, closed' = closed, gen' = gen,
         \A c \in Conns : /\ Pending(c)' <=> Pending(c)
                          /\ task'[c].gen = task[c].gen
  PROVE  LinkStep
<1>1. \A c \in Conns : Wanted(c)' <=> Wanted(c)
  BY DEF Wanted, Active
<1>2. QED
  BY <1>1, ModeFrame DEF LinkStep, Link!vars

LEMMA LinkUnseen ==
  (\/ WriteFails \/ CloseEnd \/ Around \/ Scripts \/ UNCHANGED vars) => LinkStep
<1> SUFFICES ASSUME \/ WriteFails \/ CloseEnd \/ Around \/ Scripts
                    \/ UNCHANGED vars
             PROVE  LinkStep
  OBVIOUS
<1> USE DEF queueVars, connVars, notifyVars
<1>1. /\ cfg' = cfg /\ port' = port /\ closed' = closed /\ gen' = gen
      /\ task' = task /\ rd' = rd
  <2>1. CASE Around
    BY <2>1 DEF Around, CloseHandle, Deliver, Forward, Replug
  <2>2. CASE Scripts
    BY <2>2 DEF Scripts, ScriptOnly, ScriptCheck, ScriptBegin, ScriptWrite,
                ScriptStale, ScriptEnd
  <2>3. QED
    BY <2>1, <2>2 DEF WriteFails, CloseEnd, vars
<1>2. \A c \in Conns : Pending(c)' <=> Pending(c)
  BY <1>1 DEF Pending
<1>3. QED
  BY <1>1, <1>2, LinkFrame

\* Read loops: only finding the current connection lost is visible.
LEMMA LinkReaderOnly ==
  ASSUME IInv, NEW c \in Conns, NEW pc, ReaderOnly(c, pc),
         rd[c] # "notify", pc # "notify"
  PROVE  LinkStep
<1>1. /\ cfg' = cfg /\ port' = port /\ closed' = closed /\ gen' = gen
      /\ task' = task
  BY DEF ReaderOnly, connVars
<1>2. rd' = [rd EXCEPT ![c] = pc] /\ rd \in [Conns -> ReaderPc]
  BY DEF ReaderOnly, IInv, TypeOK
<1>3. \A d \in Conns : Pending(d)' <=> Pending(d)
  BY <1>1, <1>2 DEF Pending
<1>4. QED
  BY <1>1, <1>3, LinkFrame

LEMMA LinkLose ==
  ASSUME IInv, NEW c \in Conns, Lose(c)
  PROVE  LinkStep
<1> USE DEF MayLose
<1>1. CASE port # c /\ ReaderOnly(c, "done")
  BY <1>1, LinkReaderOnly DEF Lose
<1>2. CASE /\ port = c
           /\ Detach
           /\ gen' = NextGen
           /\ rd' = [rd EXCEPT ![c] = "notify"]
           /\ task' = [task EXCEPT ![c] = Captured]
           /\ cfg' = cfg /\ closed' = closed
  <2>1. ~closed /\ port # NoConn /\ port' = NoConn
    BY <1>2 DEF IInv, Closing, Detach
  <2>2. rd'[c] = "notify" /\ task'[c].gen = gen'
    BY <1>2 DEF IInv, TypeOK, Captured
  <2>3. Wanted(c)'
    BY <1>2, <2>1, <2>2 DEF Wanted, Pending, Active
  <2>4. linkMode = "up" /\ linkMode' = "recovering"
    BY <1>2, <2>1, <2>3, Modes, ModesPrime
  <2>5. QED
    BY <1>2, <2>4 DEF LinkStep, Link!Next, Link!Drop
<1>3. QED
  BY <1>1, <1>2 DEF Lose

LEMMA LinkReader ==
  ASSUME IInv, NEW c \in Conns, ReaderStep(c)
  PROVE  LinkStep
<1>1. CASE ReadTop(c)
  BY <1>1, LinkReaderOnly DEF ReadTop
<1>2. CASE ReadReturns(c)
  BY <1>2, LinkReaderOnly DEF ReadReturns
<1>3. CASE ReadGot(c)
  BY <1>3, LinkReaderOnly DEF ReadGot
<1>4. CASE ReadErr(c)
  BY <1>4, LinkReaderOnly DEF ReadErr
<1>5. CASE Publish(c)
  <2>1. /\ cfg' = cfg /\ port' = port /\ closed' = closed /\ gen' = gen
        /\ task' = task
    BY <1>5 DEF Publish, connVars
  <2>2. /\ rd[c] = "pub" /\ rd \in [Conns -> ReaderPc]
        /\ rd' = [rd EXCEPT ![c] = IF port = c THEN "top" ELSE "done"]
    BY <1>5 DEF Publish, IInv, TypeOK
  <2>3. \A d \in Conns : Pending(d)' <=> Pending(d)
    BY <2>1, <2>2 DEF Pending
  <2>4. QED
    BY <2>1, <2>3, LinkFrame
<1>6. CASE LoseNotify(c)
  <2>1. /\ cfg' = cfg /\ port' = port /\ closed' = closed /\ gen' = gen
    BY <1>6 DEF LoseNotify, connVars
  <2>2. /\ rd[c] = "notify" /\ rd' = [rd EXCEPT ![c] = "done"]
        /\ rd \in [Conns -> ReaderPc] /\ task \in [Conns -> Task]
    BY <1>6 DEF LoseNotify, IInv, TypeOK
  <2>3. CASE closed
    <3>1. linkMode' = linkMode
      BY <2>1, <2>3, Modes, ModesPrime
    <3>2. QED
      BY <2>1, <3>1 DEF LinkStep, Link!vars
  <2>4. CASE ~closed
    <3>1. task' = [task EXCEPT ![c] = [task[c] EXCEPT !.pc = "wait"]]
      BY <1>6, <2>4 DEF LoseNotify
    <3>2. \A d \in Conns : Pending(d)' <=> Pending(d)
      BY <2>2, <3>1 DEF Pending, Task
    <3>3. \A d \in Conns : task'[d].gen = task[d].gen
      BY <2>2, <3>1 DEF Task
    <3>4. QED
      BY <2>1, <3>2, <3>3, LinkFrame
  <2>5. QED
    BY <2>3, <2>4
<1>7. QED
  BY <1>1, <1>2, <1>3, <1>4, <1>5, <1>6, LinkLose DEF ReaderStep

\* A task that keeps its generation and goes on, or ends when it is no
\* longer wanted, is not seen.
LEMMA LinkTaskOnly ==
  ASSUME IInv, NEW c \in Conns, NEW t, TaskOnly(c, t),
         task[c].pc \notin {"none", "done"},
         \/ t.pc \notin {"none", "done"} /\ t.gen = task[c].gen
         \/ t = Ended /\ ~Active(c)
  PROVE  LinkStep
<1>1. /\ cfg' = cfg /\ port' = port /\ closed' = closed /\ gen' = gen
      /\ rd' = rd /\ task \in [Conns -> Task]
      /\ task' = [task EXCEPT ![c] = t]
  BY DEF TaskOnly, connVars, IInv, TypeOK
<1>2. \A d \in Conns : d # c => (Wanted(d)' <=> Wanted(d))
  BY <1>1 DEF Wanted, Pending, Active
<1>3. Wanted(c)' <=> Wanted(c)
  <2>1. CASE t.pc \notin {"none", "done"} /\ t.gen = task[c].gen
    BY <1>1, <2>1 DEF Wanted, Pending, Active
  <2>2. CASE t = Ended /\ ~Active(c)
    <3>1. rd[c] # "notify"
      BY DEF IInv, TaskLocals
    <3>2. QED
      BY <1>1, <2>2, <3>1 DEF Wanted, Pending, Ended, Locals
  <2>3. QED
    BY <2>1, <2>2
<1>4. QED
  BY <1>1, <1>2, <1>3, ModeFrame DEF LinkStep, Link!vars

\* A reconnection by the task that is wanted is the recovery succeeding.
LEMMA LinkTaskConnect ==
  ASSUME IInv, NEW c \in Conns, TaskConnect(c)
  PROVE  LinkStep
<1>1. task[c] \in Task /\ task[c].pc = "connect"
  BY DEF TaskConnect, IInv, TypeOK
<1>2. CASE TaskOnly(c, Ended) /\ ~Active(c)
  BY <1>1, <1>2, LinkTaskOnly
<1>3. CASE TaskOnly(c, [task[c] EXCEPT !.pc = "retry"])
  BY <1>1, <1>3, LinkTaskOnly DEF Task
<1>4. CASE Active(c) /\ Establish /\ cfg' = cfg /\ closed' = closed
  <2>1. ~closed /\ port = NoConn /\ port' # NoConn
    BY <1>4 DEF Establish, MayOpen, IInv, TypeOK
  <2>2. Wanted(c)
    BY <1>1, <1>4 DEF Wanted, Pending
  <2>3. linkMode = "recovering" /\ linkMode' = "up"
    BY <1>4, <2>1, <2>2, Modes, ModesPrime
  <2>4. QED
    BY <1>4, <2>3 DEF LinkStep, Link!Next, Link!AutoUp
<1>5. QED
  BY <1>2, <1>3, <1>4 DEF TaskConnect

\* Following a device to another name is the abstract rename.
LEMMA LinkTaskUpdate ==
  ASSUME IInv, NEW c \in Conns, TaskUpdate(c)
  PROVE  LinkStep
<1>1. task[c] \in Task /\ task[c].pc = "update"
  BY DEF TaskUpdate, IInv, TypeOK
<1>2. CASE ~Active(c)
  <2>1. TaskOnly(c, Ended)
    BY <1>2 DEF TaskUpdate, TaskOnly
  <2>2. QED
    BY <1>1, <1>2, <2>1, LinkTaskOnly
<1>3. CASE Active(c)
  <2>1. /\ port' = port /\ closed' = closed /\ gen' = gen /\ rd' = rd
        /\ task' = [task EXCEPT ![c] = [task[c] EXCEPT !.pc = "connect",
                                                     !.conf = NoConfig]]
        /\ cfg' = task[c].conf
    BY <1>3 DEF TaskUpdate, connVars
  <2>2. /\ task'[c].pc = "connect" /\ task'[c].gen = task[c].gen
        /\ \A d \in Conns : d # c => task'[d] = task[d]
    BY <1>1, <2>1 DEF IInv, TypeOK, Task
  <2>3. \A d \in Conns : Wanted(d)' <=> Wanted(d)
    BY <1>1, <2>1, <2>2 DEF Wanted, Pending, Active
  <2>4. linkMode = "recovering" /\ linkMode' = linkMode
    <3>1. Wanted(c)
      BY <1>1, <1>3 DEF Wanted, Pending
    <3>2. QED
      BY <1>3, <2>1, <2>3, <3>1, ModeFrame, Modes DEF Active
  <2>5. PICK p \in Ports : cfg' = WithPort(cfg, p)
    <3>1. /\ cfg \in Config /\ task[c].conf \in Config
          /\ task[c].conf.baud = cfg.baud
      BY <1>1, <1>3 DEF IInv, TypeOK, TaskLocals, Active
    <3>2. task[c].conf.port \in Ports
          /\ task[c].conf = [cfg EXCEPT !.port = task[c].conf.port]
      BY <3>1 DEF Config
    <3>3. QED
      BY <2>1, <3>2 DEF WithPort
  <2>6. QED
    BY <2>4, <2>5 DEF LinkStep, Link!Next, Link!AutoRename
<1>4. QED
  BY <1>2, <1>3

\* The only task that was wanted gives up.
LEMMA LinkTaskGiveUp ==
  ASSUME IInv, NEW c \in Conns, TaskGiveUp(c)
  PROVE  LinkStep
<1>1. /\ task[c] \in Task /\ task[c].pc = "giveup"
      /\ task' = [task EXCEPT ![c] = Ended] /\ task \in [Conns -> Task]
      /\ port' = port /\ closed' = closed /\ gen' = gen /\ rd' = rd
      /\ cfg' = cfg
  BY DEF TaskGiveUp, IInv, TypeOK, connVars
<1>2. CASE ~Active(c)
  <2>1. TaskOnly(c, Ended)
    BY <1>2 DEF TaskGiveUp, TaskOnly, notifyVars
  <2>2. QED
    BY <1>1, <1>2, <2>1, LinkTaskOnly
<1>3. CASE Active(c)
  <2>1. Wanted(c) /\ linkMode = "recovering"
    BY <1>1, <1>3, Modes DEF Wanted, Pending, Active
  <2>2. \A d \in Conns : Wanted(d) => d = c
    BY <2>1 DEF Wanted, Active, IInv, Generations
  <2>3. rd[c] # "notify"
    BY <1>1 DEF IInv, TaskLocals
  <2>4. \A d \in Conns : ~Wanted(d)'
    BY <1>1, <2>2, <2>3 DEF Wanted, Pending, Active, Ended, Locals
  <2>5. linkMode' = "idle"
    BY <1>1, <1>3, <2>4, ModesPrime DEF Active
  <2>6. QED
    BY <1>1, <2>1, <2>5 DEF LinkStep, Link!Next, Link!GiveUp
<1>4. QED
  BY <1>2, <1>3

\* The other steps of a task are not seen.
LEMMA LinkTask ==
  ASSUME IInv, NEW c \in Conns, TaskStep(c)
  PROVE  LinkStep
<1>1. task[c] \in Task
  BY DEF IInv, TypeOK
<1>2. CASE TaskWake(c)
  BY <1>1, <1>2, LinkTaskOnly DEF TaskWake, Task
<1>3. CASE TaskList(c)
  BY <1>1, <1>3, LinkTaskOnly DEF TaskList, Task
<1>4. CASE TaskConfig(c)
  BY <1>1, <1>4, LinkTaskOnly DEF TaskConfig, Task
<1>5. CASE TaskRetry(c)
  BY <1>1, <1>5, LinkTaskOnly DEF TaskRetry, Task
<1>6. QED
  BY <1>2, <1>3, <1>4, <1>5, LinkTaskConnect, LinkTaskUpdate, LinkTaskGiveUp
  DEF TaskStep

-----------------------------------------------------------------------------
\* The manager implements the safety part of the abstract link: the user's
\* connect, disconnect and reconfigure, a drop, and a recovery that ends in
\* one of the ways SerialLink allows.
THEOREM ImplementsLink == Spec => LinkSafe
<1>1. IInv /\ [Next]_vars => LinkStep
  <2> SUFFICES ASSUME IInv, [Next]_vars PROVE LinkStep
    OBVIOUS
  <2>1. CASE User
    BY <2>1, LinkConnect, LinkDisconnect, LinkUpdateConfig, LinkCloseBegin,
       LinkUnseen DEF User
  <2>2. CASE Reader
    BY <2>2, LinkReader DEF Reader
  <2>3. CASE Reconnect
    BY <2>3, LinkTask DEF Reconnect
  <2>4. QED
    BY <2>1, <2>2, <2>3, LinkUnseen DEF Next
<1>2. IInv /\ [Next]_vars => [Link!Next]_(Link!vars)
  BY <1>1 DEF LinkStep
<1>3. QED
  BY <1>2, LinkInit, SpecIInv, PTL DEF Spec, LinkSafe, Link!SafeSpec

=============================================================================
