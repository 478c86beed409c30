-------------------------- MODULE StdioProxyProofs --------------------------
(***************************************************************************)
(* Proofs about StdioProxy for any number of requests and rounds.  The     *)
(* argument: between stdin and the masters there is at most one request,   *)
(* the last one that was read, and it is in the forwarder's hand or        *)
(* pending; the barrier keeps it from being in both places or in none.     *)
(* What was read is in order, so what reaches the masters is; and whoever  *)
(* starts a session has recorded "initialize" or has it pending.           *)
(***************************************************************************)
EXTENDS StdioProxy, TLAPS

\* The forwarders run only while the main goroutine is in the round, and
\* hold a message only while they write one.
Rounds ==
  /\ up.pc # "off" \/ down.pc # "off" => main.pc \in {"run", "barrier"}
  /\ up.pc \in {"off", "read"} => up.msg = None
  /\ down.pc \in {"off", "read"} => down.msg = None
  /\ down.pc = "write" => down.msg # None
  /\ probe.on => probe.failures < MaxFailures

\* At most one request is between stdin and a master: the last one read.
OneOnTheWay ==
  /\ kept.pending \in {None, read}
  /\ up.pc = "replay" => up.msg = kept.pending /\ up.msg # None
  /\ up.pc = "write" => up.msg = read /\ up.msg # None
  /\ up.pc \in {"read", "write"} => kept.pending = None
  /\ \A i \in 1 .. Len(given) : given[i] <= read
  /\ \A m \in 1 .. read : Reached(m) \/ up.msg = m \/ kept.pending = m

\* An initialize that was read is known, or on the way.
Handshake ==
  /\ refused = {}
  /\ main.pc \notin {"session", "exit"} /\ read > 0
       => kept.known \/ kept.pending = 1 \/ up.msg = 1
  /\ main.pc = "session" /\ read > 0 => ready \/ kept.pending = 1

\* At most one reply is kept: while replies are read none is.
OneReply ==
  /\ down.pc # "off" => kept.undelivered = None
  /\ main.pc = "resend" => kept.undelivered # None
  /\ RepliesKept

IInv == /\ TypeOK /\ Rounds /\ OneOnTheWay /\ InOrder /\ Handshake
        /\ OneReply /\ NoOrphanMaster

-----------------------------------------------------------------------------
\* A request that reaches a master and is the last one read keeps the order.
LEMMA ReachesInOrder ==
  ASSUME TypeOK, InOrder, \A i \in 1 .. Len(given) : given[i] <= read,
         NEW m \in Reqs, m >= read, Reaches(m)
  PROVE  /\ given' \in Seq(Reqs)
         /\ InOrder'
         /\ Reached(m)'
         /\ \A n \in Reqs : Reached(n) => Reached(n)'
         /\ \A i \in 1 .. Len(given') : given'[i] <= m
<1>1. given \in Seq(Reqs) /\ read \in Nat /\ m \in Nat
  BY NumbersAssumption DEF TypeOK, Reqs
<1>2. /\ given' \in Seq(Reqs) /\ Len(given') = Len(given) + 1
      /\ \A i \in 1 .. Len(given) : given'[i] = given[i] /\ given[i] \in Nat
      /\ given'[Len(given) + 1] = m
      /\ Len(given) \in Nat
  BY <1>1, NumbersAssumption DEF Reaches, Reqs
<1>3. \A i \in 1 .. Len(given') : i \in 1 .. Len(given) \/ i = Len(given) + 1
  BY <1>2
<1>4. \A i \in 1 .. Len(given') : given'[i] <= m
  BY <1>1, <1>2, <1>3
<1>5. InOrder'
  BY <1>2, <1>3, <1>4 DEF InOrder
<1>6. Reached(m)' /\ \A n \in Reqs : Reached(n) => Reached(n)'
  BY <1>2 DEF Reached
<1>7. QED
  BY <1>2, <1>4, <1>5, <1>6


\* What a round starts with is well typed.
LEMMA StartTypes ==
  ASSUME TypeOK, StartRound
  PROVE  /\ up' \in Up /\ down' \in Down /\ probe' \in Probe
         /\ errs' \in Seq(Results) /\ Len(errs') <= ErrCap /\ gone' \in BOOLEAN
<1>1. up' \in Up /\ down' \in Down
  BY DEF TypeOK, StartRound, Up, Down, Kept, None
<1>2. probe' \in Probe
  <2>1. 0 \in 0 .. MaxFailures
    BY NumbersAssumption
  <2>2. probe' = [on |-> TRUE, failures |-> 0]
    BY DEF StartRound
  <2>3. QED
    BY <2>1, <2>2, Zenon DEF Probe
<1>3. errs' \in Seq(Results) /\ Len(errs') <= ErrCap
  BY NumbersAssumption DEF StartRound
<1>4. gone' \in BOOLEAN
  BY DEF StartRound
<1>5. QED
  BY <1>1, <1>2, <1>3, <1>4

\* The main goroutine of a round, and runStdio around it.
LEMMA MainStep ==
  ASSUME IInv, Main
  PROVE  IInv'
<1> USE NumbersAssumption DEF vars, clientVars, roundVars, histVars, Reqs,
      None, Note, Off
<1>1. CASE Connects
  <2>1. TypeOK'
    <3>1. main' \in [pc : MainPc, rounds : 0 .. MaxRounds,
                      result : Results \cup {"none"}]
      <4> DEFINE to == IF kept.undelivered = None THEN "run" ELSE "resend"
      <4>1. main' = [main EXCEPT !.rounds = @ + 1, !.result = "none",
                                 !.pc = to]
        BY <1>1 DEF Connects
      <4>2. to \in MainPc /\ main.rounds + 1 \in 0 .. MaxRounds
        BY <1>1 DEF IInv, TypeOK, Connects, MainPc
      <4> HIDE DEF to
      <4>3. QED
        BY <4>1, <4>2 DEF IInv, TypeOK
    <3>2. /\ up' \in Up /\ down' \in Down /\ probe' \in Probe
          /\ errs' \in Seq(Results) /\ Len(errs') <= ErrCap
          /\ gone' \in BOOLEAN
      <4>1. CASE StartRound
        BY <4>1, StartTypes DEF IInv
      <4>2. CASE UNCHANGED roundVars
        BY <4>2 DEF IInv, TypeOK
      <4>3. QED
        BY <1>1, <4>1, <4>2 DEF Connects
    <3>3. QED
      BY <1>1, <3>1, <3>2 DEF IInv, TypeOK, Connects
  <2>2. Rounds' /\ NoOrphanMaster' /\ OneReply'
    BY <1>1 DEF IInv, TypeOK, Rounds, NoOrphanMaster, OneReply,
       RepliesKept, Up, Down, Kept, Probe, Connects, StartRound
  <2>3. OneOnTheWay' /\ InOrder'
    BY <1>1 DEF IInv, TypeOK, OneOnTheWay, InOrder, Reached, Rounds, Up,
       Kept, Connects, StartRound
  <2>4. Handshake'
    BY <1>1 DEF IInv, TypeOK, Handshake, Rounds, OneOnTheWay, Up, Kept,
       Connects, StartRound
  <2>5. QED
    BY <2>1, <2>2, <2>3, <2>4 DEF IInv
<1>2. CASE ConnectFails
  <2>1. TypeOK'
    <3>1. main.rounds + 1 \in 0 .. MaxRounds /\ "lost" \in MainPc
      BY <1>2 DEF IInv, TypeOK, ConnectFails, MainPc
    <3>2. main' \in [pc : MainPc, rounds : 0 .. MaxRounds,
                      result : Results \cup {"none"}]
      BY <1>2, <3>1 DEF IInv, TypeOK, ConnectFails
    <3>3. QED
      BY <1>2, <3>2 DEF IInv, TypeOK, ConnectFails
  <2>2. Rounds' /\ NoOrphanMaster' /\ OneReply'
    BY <1>2 DEF IInv, TypeOK, Rounds, NoOrphanMaster, OneReply,
       RepliesKept, Up, Down, Kept, Probe, ConnectFails
  <2>3. OneOnTheWay' /\ InOrder'
    BY <1>2 DEF IInv, TypeOK, OneOnTheWay, InOrder, Reached, Rounds, Up,
       Kept, ConnectFails
  <2>4. Handshake'
    BY <1>2 DEF IInv, TypeOK, Handshake, Rounds, OneOnTheWay, Up, Kept,
       ConnectFails
  <2>5. QED
    BY <2>1, <2>2, <2>3, <2>4 DEF IInv
<1>3. CASE LookAgain
  <2>1. TypeOK'
    BY <1>3 DEF IInv, TypeOK, LookAgain, Goto, Results, MainPc, Up, Down,
       Probe, Kept, Rounds, OneOnTheWay
  <2>2. Rounds' /\ NoOrphanMaster' /\ OneReply'
    BY <1>3 DEF IInv, TypeOK, Rounds, NoOrphanMaster, OneReply,
       RepliesKept, Up, Down, Kept, Probe, LookAgain, Goto
  <2>3. OneOnTheWay' /\ InOrder'
    BY <1>3 DEF IInv, TypeOK, OneOnTheWay, InOrder, Reached, Rounds, Up,
       Kept, LookAgain, Goto
  <2>4. Handshake'
    BY <1>3 DEF IInv, TypeOK, Handshake, Rounds, OneOnTheWay, Up, Kept,
       LookAgain, Goto
  <2>5. QED
    BY <2>1, <2>2, <2>3, <2>4 DEF IInv
<1>4. CASE GiveUp
  <2>1. TypeOK'
    BY <1>4 DEF IInv, TypeOK, GiveUp, Goto, Results, MainPc, Up, Down,
       Probe, Kept, Rounds, OneOnTheWay
  <2>2. Rounds' /\ NoOrphanMaster' /\ OneReply'
    BY <1>4 DEF IInv, TypeOK, Rounds, NoOrphanMaster, OneReply,
       RepliesKept, Up, Down, Kept, Probe, GiveUp, Goto
  <2>3. OneOnTheWay' /\ InOrder'
    BY <1>4 DEF IInv, TypeOK, OneOnTheWay, InOrder, Reached, Rounds, Up,
       Kept, GiveUp, Goto
  <2>4. Handshake'
    BY <1>4 DEF IInv, TypeOK, Handshake, Rounds, OneOnTheWay, Up, Kept,
       GiveUp, Goto
  <2>5. QED
    BY <2>1, <2>2, <2>3, <2>4 DEF IInv
<1>5. CASE TakeOver
  <2>1. TypeOK'
    BY <1>5 DEF IInv, TypeOK, TakeOver, Goto, Results, MainPc, Up, Down,
       Probe, Kept, Rounds, OneOnTheWay
  <2>2. Rounds' /\ NoOrphanMaster' /\ OneReply'
    BY <1>5 DEF IInv, TypeOK, Rounds, NoOrphanMaster, OneReply,
       RepliesKept, Up, Down, Kept, Probe, TakeOver, Goto
  <2>3. OneOnTheWay' /\ InOrder'
    BY <1>5 DEF IInv, TypeOK, OneOnTheWay, InOrder, Reached, Rounds, Up,
       Kept, TakeOver, Goto
  <2>4. Handshake'
    BY <1>5 DEF IInv, TypeOK, Handshake, Rounds, OneOnTheWay, Up, Kept,
       TakeOver, Goto
  <2>5. QED
    BY <2>1, <2>2, <2>3, <2>4 DEF IInv
<1>6. CASE Resend
  <2>1. TypeOK'
    <3>1. main' \in [pc : MainPc, rounds : 0 .. MaxRounds,
                      result : Results \cup {"none"}]
      BY <1>6 DEF IInv, TypeOK, Resend, Goto, MainPc
    <3>2. /\ up' \in Up /\ down' \in Down /\ probe' \in Probe
          /\ errs' \in Seq(Results) /\ Len(errs') <= ErrCap
          /\ gone' \in BOOLEAN
      BY <1>6, StartTypes DEF IInv, Resend
    <3>3. kept' \in Kept
      BY <1>6, Zenon DEF IInv, TypeOK, Resend, Kept
    <3>4. kept.undelivered \in Reqs
      BY <1>6 DEF IInv, TypeOK, Resend, Kept, OneReply
    <3>5. QED
      BY <1>6, <3>1, <3>2, <3>3, <3>4 DEF IInv, TypeOK, Resend
  <2>2. Rounds' /\ NoOrphanMaster' /\ OneReply'
    BY <1>6 DEF IInv, TypeOK, Rounds, NoOrphanMaster, OneReply,
       RepliesKept, Up, Down, Kept, Probe, Resend, Goto, StartRound
  <2>3. OneOnTheWay' /\ InOrder'
    BY <1>6 DEF IInv, TypeOK, OneOnTheWay, InOrder, Reached, Rounds, Up,
       Kept, Resend, Goto, StartRound
  <2>4. Handshake'
    BY <1>6 DEF IInv, TypeOK, Handshake, Rounds, OneOnTheWay, Up, Kept,
       Resend, Goto, StartRound
  <2>5. QED
    BY <2>1, <2>2, <2>3, <2>4 DEF IInv
<1>7. CASE ResendFails
  <2>1. TypeOK'
    BY <1>7 DEF IInv, TypeOK, ResendFails, Goto, Results, MainPc, Up,
       Down, Probe, Kept, Rounds, OneOnTheWay
  <2>2. Rounds' /\ NoOrphanMaster' /\ OneReply'
    BY <1>7 DEF IInv, TypeOK, Rounds, NoOrphanMaster, OneReply,
       RepliesKept, Up, Down, Kept, Probe, ResendFails, Goto
  <2>3. OneOnTheWay' /\ InOrder'
    BY <1>7 DEF IInv, TypeOK, OneOnTheWay, InOrder, Reached, Rounds, Up,
       Kept, ResendFails, Goto
  <2>4. Handshake'
    BY <1>7 DEF IInv, TypeOK, Handshake, Rounds, OneOnTheWay, Up, Kept,
       ResendFails, Goto
  <2>5. QED
    BY <2>1, <2>2, <2>3, <2>4 DEF IInv
<1>8. CASE FirstReport
  <2>1. TypeOK'
    <3>1. /\ Head(errs) \in Results /\ Tail(errs) \in Seq(Results)
          /\ Len(Tail(errs)) <= ErrCap
      BY <1>8 DEF IInv, TypeOK, FirstReport
    <3>2. main' \in [pc : MainPc, rounds : 0 .. MaxRounds,
                      result : Results \cup {"none"}]
      BY <1>8, <3>1 DEF IInv, TypeOK, FirstReport, MainPc
    <3>3. QED
      BY <1>8, <3>1, <3>2 DEF IInv, TypeOK, FirstReport
  <2>2. Rounds' /\ NoOrphanMaster' /\ OneReply'
    BY <1>8 DEF IInv, TypeOK, Rounds, NoOrphanMaster, OneReply,
       RepliesKept, Up, Down, Kept, Probe, FirstReport
  <2>3. OneOnTheWay' /\ InOrder'
    BY <1>8 DEF IInv, TypeOK, OneOnTheWay, InOrder, Reached, Rounds, Up,
       Kept, FirstReport
  <2>4. Handshake'
    BY <1>8 DEF IInv, TypeOK, Handshake, Rounds, OneOnTheWay, Up, Kept,
       FirstReport
  <2>5. QED
    BY <2>1, <2>2, <2>3, <2>4 DEF IInv
<1>9. CASE RoundEnds
  <2>1. TypeOK'
    BY <1>9 DEF IInv, TypeOK, RoundEnds, Goto, ForwardersDone, Resolve,
       Results, MainPc, Up, Down, Probe, Kept, Rounds, OneOnTheWay
  <2>2. Rounds' /\ NoOrphanMaster' /\ OneReply'
    BY <1>9 DEF IInv, TypeOK, Rounds, NoOrphanMaster, OneReply,
       RepliesKept, Up, Down, Kept, Probe, RoundEnds, Goto,
       ForwardersDone, Resolve
  <2>3. OneOnTheWay' /\ InOrder'
    BY <1>9 DEF IInv, TypeOK, OneOnTheWay, InOrder, Reached, Rounds, Up,
       Kept, RoundEnds, Goto, ForwardersDone, Resolve
  <2>4. Handshake'
    BY <1>9 DEF IInv, TypeOK, Handshake, Rounds, OneOnTheWay, Up, Kept,
       RoundEnds, Goto, ForwardersDone, Resolve
  <2>5. QED
    BY <2>1, <2>2, <2>3, <2>4 DEF IInv
<1>10. QED
  BY <1>1, <1>2, <1>3, <1>4, <1>5, <1>6, <1>7, <1>8, <1>9 DEF Main, Finding,
     Resending

\* The goroutine that forwards to the master.
LEMMA UpProof ==
  ASSUME IInv, UpStep
  PROVE  IInv'
<1> USE NumbersAssumption DEF vars, clientVars, roundVars, histVars, Reqs,
      None, Note, Off
<1>1. CASE Replay
  <2>1. TypeOK'
    <3>1. up.msg \in Reqs
      BY <1>1 DEF IInv, TypeOK, Replay, Up, OneOnTheWay
    <3>2. given' \in Seq(Reqs)
      BY <1>1, <3>1 DEF IInv, TypeOK, Replay, Reaches
    <3>3. kept' \in Kept /\ up' \in Up
      BY <1>1, <3>1 DEF IInv, TypeOK, Replay, Replayed, Recorded, AfterReplay, Kept, Up
    <3>4. QED
      BY <1>1, <3>1, <3>2, <3>3 DEF IInv, TypeOK, Replay
  <2>2. Rounds' /\ NoOrphanMaster' /\ OneReply'
    BY <1>1 DEF IInv, TypeOK, Rounds, NoOrphanMaster, OneReply,
       RepliesKept, Up, Down, Kept, Probe, Replay, Reaches, Replayed,
       Recorded, AfterReplay
  <2>3. OneOnTheWay' /\ InOrder'
    <3>1. up.msg \in Reqs /\ up.msg = read
      BY <1>1 DEF IInv, TypeOK, Replay, Up, OneOnTheWay
    <3>2. \A i \in 1 .. Len(given) : given[i] <= read
      BY DEF IInv, OneOnTheWay
    <3>3. /\ InOrder' /\ Reached(read)'
          /\ \A n \in Reqs : Reached(n) => Reached(n)'
          /\ \A i \in 1 .. Len(given') : given'[i] <= read
      BY <1>1, <3>1, <3>2, ReachesInOrder DEF IInv, TypeOK, Replay
    <3>4. \A m \in 1 .. read : m \in Reqs
      BY DEF IInv, TypeOK
    <3>5. QED
      BY <1>1, <3>1, <3>3, <3>4
         DEF IInv, TypeOK, OneOnTheWay, Replay, Replayed, AfterReplay, Kept
  <2>4. Handshake'
    BY <1>1 DEF IInv, TypeOK, Handshake, Rounds, OneOnTheWay, Up, Kept,
       Replay, Reaches, Replayed, Recorded, AfterReplay
  <2>5. QED
    BY <2>1, <2>2, <2>3, <2>4 DEF IInv
<1>2. CASE UpRead
  <2>1. TypeOK'
    BY <1>2 DEF IInv, TypeOK, UpRead, Results, MainPc, Up, Down, Probe,
       Kept, Rounds, OneOnTheWay
  <2>2. Rounds' /\ NoOrphanMaster' /\ OneReply'
    BY <1>2 DEF IInv, TypeOK, Rounds, NoOrphanMaster, OneReply,
       RepliesKept, Up, Down, Kept, Probe, UpRead
  <2>3. OneOnTheWay' /\ InOrder'
    BY <1>2 DEF IInv, TypeOK, OneOnTheWay, InOrder, Reached, Rounds, Up,
       Kept, UpRead
  <2>4. Handshake'
    BY <1>2 DEF IInv, TypeOK, Handshake, Rounds, OneOnTheWay, Up, Kept,
       UpRead
  <2>5. QED
    BY <2>1, <2>2, <2>3, <2>4 DEF IInv
<1>3. CASE UpReadsEnd
  <2>1. TypeOK'
    BY <1>3 DEF IInv, TypeOK, UpReadsEnd, UpEnd, Report, Results, MainPc,
       Up, Down, Probe, Kept, Rounds, OneOnTheWay
  <2>2. Rounds' /\ NoOrphanMaster' /\ OneReply'
    BY <1>3 DEF IInv, TypeOK, Rounds, NoOrphanMaster, OneReply,
       RepliesKept, Up, Down, Kept, Probe, UpReadsEnd, UpEnd, Report
  <2>3. OneOnTheWay' /\ InOrder'
    BY <1>3 DEF IInv, TypeOK, OneOnTheWay, InOrder, Reached, Rounds, Up,
       Kept, UpReadsEnd, UpEnd, Report
  <2>4. Handshake'
    BY <1>3 DEF IInv, TypeOK, Handshake, Rounds, OneOnTheWay, Up, Kept,
       UpReadsEnd, UpEnd, Report
  <2>5. QED
    BY <2>1, <2>2, <2>3, <2>4 DEF IInv
<1>4. CASE UpReadFails
  <2>1. TypeOK'
    BY <1>4 DEF IInv, TypeOK, UpReadFails, Report, Cancelled, Results,
       MainPc, Up, Down, Probe, Kept, Rounds, OneOnTheWay
  <2>2. Rounds' /\ NoOrphanMaster' /\ OneReply'
    BY <1>4 DEF IInv, TypeOK, Rounds, NoOrphanMaster, OneReply,
       RepliesKept, Up, Down, Kept, Probe, UpReadFails, Report, Cancelled
  <2>3. OneOnTheWay' /\ InOrder'
    BY <1>4 DEF IInv, TypeOK, OneOnTheWay, InOrder, Reached, Rounds, Up,
       Kept, UpReadFails, Report, Cancelled
  <2>4. Handshake'
    BY <1>4 DEF IInv, TypeOK, Handshake, Rounds, OneOnTheWay, Up, Kept,
       UpReadFails, Report, Cancelled
  <2>5. QED
    BY <2>1, <2>2, <2>3, <2>4 DEF IInv
<1>5. CASE UpWrite
  <2>1. TypeOK'
    <3>1. up.msg \in Reqs
      BY <1>5 DEF IInv, TypeOK, UpWrite, Up, OneOnTheWay
    <3>2. given' \in Seq(Reqs)
      BY <1>5, <3>1 DEF IInv, TypeOK, UpWrite, Reaches
    <3>3. kept' \in Kept /\ up' \in Up
      BY <1>5, <3>1 DEF IInv, TypeOK, UpWrite, Recorded, Kept, Up
    <3>4. QED
      BY <1>5, <3>1, <3>2, <3>3 DEF IInv, TypeOK, UpWrite
  <2>2. Rounds' /\ NoOrphanMaster' /\ OneReply'
    BY <1>5 DEF IInv, TypeOK, Rounds, NoOrphanMaster, OneReply,
       RepliesKept, Up, Down, Kept, Probe, UpWrite, Reaches, Recorded
  <2>3. OneOnTheWay' /\ InOrder'
    <3>1. up.msg \in Reqs /\ up.msg = read
      BY <1>5 DEF IInv, TypeOK, UpWrite, Up, OneOnTheWay
    <3>2. \A i \in 1 .. Len(given) : given[i] <= read
      BY DEF IInv, OneOnTheWay
    <3>3. /\ InOrder' /\ Reached(read)'
          /\ \A n \in Reqs : Reached(n) => Reached(n)'
          /\ \A i \in 1 .. Len(given') : given'[i] <= read
      BY <1>5, <3>1, <3>2, ReachesInOrder DEF IInv, TypeOK, UpWrite
    <3>4. \A m \in 1 .. read : m \in Reqs
      BY DEF IInv, TypeOK
    <3>5. QED
      BY <1>5, <3>1, <3>3, <3>4
         DEF IInv, TypeOK, OneOnTheWay, UpWrite, Up, Kept
  <2>4. Handshake'
    BY <1>5 DEF IInv, TypeOK, Handshake, Rounds, OneOnTheWay, Up, Kept,
       UpWrite, Reaches, Recorded
  <2>5. QED
    BY <2>1, <2>2, <2>3, <2>4 DEF IInv
<1>6. CASE UpWriteFails
  <2>1. TypeOK'
    <3>1. up.msg \in Reqs
      BY <1>6 DEF IInv, TypeOK, UpWriteFails, Up, OneOnTheWay
    <3>2. given' \in Seq(Reqs)
      <4>1. CASE Reaches(up.msg)
        BY <3>1, <4>1 DEF IInv, TypeOK, Reaches
      <4>2. CASE UNCHANGED given
        BY <4>2 DEF IInv, TypeOK
      <4>3. QED
        BY <1>6, <4>1, <4>2 DEF UpWriteFails
    <3>3. kept' \in Kept /\ up' \in Up
      BY <1>6, <3>1 DEF IInv, TypeOK, UpWriteFails, Kept, Up
    <3>4. QED
      BY <1>6, <3>1, <3>2, <3>3 DEF IInv, TypeOK, UpWriteFails, Report, Results
  <2>2. Rounds' /\ NoOrphanMaster' /\ OneReply'
    BY <1>6 DEF IInv, TypeOK, Rounds, NoOrphanMaster, OneReply,
       RepliesKept, Up, Down, Kept, Probe, UpWriteFails, Reaches, Report
  <2>3. OneOnTheWay' /\ InOrder'
    <3>1. up.msg \in Reqs /\ up.msg = read
      BY <1>6 DEF IInv, TypeOK, UpWriteFails, Up, OneOnTheWay
    <3>2. \A i \in 1 .. Len(given) : given[i] <= read
      BY DEF IInv, OneOnTheWay
    <3>3. /\ InOrder' /\ \A n \in Reqs : Reached(n) => Reached(n)'
          /\ \A i \in 1 .. Len(given') : given'[i] <= read
      <4>1. CASE Reaches(up.msg)
        BY <3>1, <3>2, <4>1, ReachesInOrder DEF IInv, TypeOK
      <4>2. CASE UNCHANGED given
        BY <3>2, <4>2 DEF IInv, InOrder, Reached
      <4>3. QED
        BY <1>6, <4>1, <4>2 DEF UpWriteFails
    <3>4. \A m \in 1 .. read : m \in Reqs
      BY DEF IInv, TypeOK
    <3>5. kept'.pending = up.msg /\ UNCHANGED read /\ up' = Off
      BY <1>6 DEF UpWriteFails, IInv, TypeOK, Kept
    <3>6. QED
      BY <3>1, <3>3, <3>4, <3>5 DEF IInv, OneOnTheWay
  <2>4. Handshake'
    BY <1>6 DEF IInv, TypeOK, Handshake, Rounds, OneOnTheWay, Up, Kept,
       UpWriteFails, Reaches, Report
  <2>5. QED
    BY <2>1, <2>2, <2>3, <2>4 DEF IInv
<1>7. QED
  BY <1>1, <1>2, <1>3, <1>4, <1>5, <1>6 DEF UpStep

\* The goroutine that forwards to the client.
LEMMA DownProof ==
  ASSUME IInv, DownStep
  PROVE  IInv'
<1> USE NumbersAssumption DEF vars, clientVars, roundVars, histVars, Reqs,
      None, Note, Off
<1>1. CASE Reads
  <2>1. TypeOK'
    BY <1>1 DEF IInv, TypeOK, Reads, DownRead, Results, MainPc, Up, Down,
       Probe, Kept, Rounds, OneOnTheWay
  <2>2. Rounds' /\ NoOrphanMaster' /\ OneReply'
    BY <1>1 DEF IInv, TypeOK, Rounds, NoOrphanMaster, OneReply,
       RepliesKept, Up, Down, Kept, Probe, Reads, DownRead
  <2>3. OneOnTheWay' /\ InOrder'
    BY <1>1 DEF IInv, TypeOK, OneOnTheWay, InOrder, Reached, Rounds, Up,
       Kept, Reads, DownRead
  <2>4. Handshake'
    BY <1>1 DEF IInv, TypeOK, Handshake, Rounds, OneOnTheWay, Up, Kept,
       Reads, DownRead
  <2>5. QED
    BY <2>1, <2>2, <2>3, <2>4 DEF IInv
<1>2. CASE DownReadFails
  <2>1. TypeOK'
    BY <1>2 DEF IInv, TypeOK, DownReadFails, Report, Cancelled, Results,
       MainPc, Up, Down, Probe, Kept, Rounds, OneOnTheWay
  <2>2. Rounds' /\ NoOrphanMaster' /\ OneReply'
    BY <1>2 DEF IInv, TypeOK, Rounds, NoOrphanMaster, OneReply,
       RepliesKept, Up, Down, Kept, Probe, DownReadFails, Report,
       Cancelled
  <2>3. OneOnTheWay' /\ InOrder'
    BY <1>2 DEF IInv, TypeOK, OneOnTheWay, InOrder, Reached, Rounds, Up,
       Kept, DownReadFails, Report, Cancelled
  <2>4. Handshake'
    BY <1>2 DEF IInv, TypeOK, Handshake, Rounds, OneOnTheWay, Up, Kept,
       DownReadFails, Report, Cancelled
  <2>5. QED
    BY <2>1, <2>2, <2>3, <2>4 DEF IInv
<1>3. CASE DownWrite
  <2>1. TypeOK'
    <3>1. down.msg \in Reqs \cup {None, Note} /\ down.msg # None
      BY <1>3 DEF IInv, TypeOK, Rounds, DownWrite, Down
    <3>2. got' \subseteq Reqs /\ down' \in Down
      BY <1>3, <3>1 DEF IInv, TypeOK, DownWrite, Down
    <3>3. QED
      BY <1>3, <3>2 DEF IInv, TypeOK, DownWrite
  <2>2. Rounds' /\ NoOrphanMaster' /\ OneReply'
    BY <1>3 DEF IInv, TypeOK, Rounds, NoOrphanMaster, OneReply,
       RepliesKept, Up, Down, Kept, Probe, DownWrite
  <2>3. OneOnTheWay' /\ InOrder'
    BY <1>3 DEF IInv, TypeOK, OneOnTheWay, InOrder, Reached, Rounds, Up,
       Kept, DownWrite
  <2>4. Handshake'
    BY <1>3 DEF IInv, TypeOK, Handshake, Rounds, OneOnTheWay, Up, Kept,
       DownWrite
  <2>5. QED
    BY <2>1, <2>2, <2>3, <2>4 DEF IInv
<1>4. CASE DownFindsEnd
  <2>1. TypeOK'
    BY <1>4 DEF IInv, TypeOK, DownFindsEnd, Report, Results, MainPc, Up,
       Down, Probe, Kept, Rounds, OneOnTheWay
  <2>2. Rounds' /\ NoOrphanMaster' /\ OneReply'
    BY <1>4 DEF IInv, TypeOK, Rounds, NoOrphanMaster, OneReply,
       RepliesKept, Up, Down, Kept, Probe, DownFindsEnd, Report
  <2>3. OneOnTheWay' /\ InOrder'
    BY <1>4 DEF IInv, TypeOK, OneOnTheWay, InOrder, Reached, Rounds, Up,
       Kept, DownFindsEnd, Report
  <2>4. Handshake'
    BY <1>4 DEF IInv, TypeOK, Handshake, Rounds, OneOnTheWay, Up, Kept,
       DownFindsEnd, Report
  <2>5. QED
    BY <2>1, <2>2, <2>3, <2>4 DEF IInv
<1>5. CASE DownWriteFails
  <2>1. TypeOK'
    <3>1. down.msg # Note => down.msg \in Reqs \cup {None}
      BY DEF IInv, TypeOK, Down
    <3>2. kept' \in Kept
      <4>1. CASE Cancelled /\ down.msg # Note
        BY <1>5, <3>1, <4>1 DEF IInv, TypeOK, DownWriteFails, KeepReply, Kept
      <4>2. CASE ~(Cancelled /\ down.msg # Note)
        BY <1>5, <4>2 DEF IInv, TypeOK, DownWriteFails, KeepReply
      <4>3. QED
        BY <4>1, <4>2
    <3>3. QED
      BY <1>5, <3>2
         DEF IInv, TypeOK, DownWriteFails, Report, Results, Down
  <2>2. Rounds' /\ NoOrphanMaster' /\ OneReply'
    BY <1>5 DEF IInv, TypeOK, Rounds, NoOrphanMaster, OneReply,
       RepliesKept, Up, Down, Kept, Probe, DownWriteFails, KeepReply,
       Cancelled, Report
  <2>3. OneOnTheWay' /\ InOrder'
    BY <1>5 DEF IInv, TypeOK, OneOnTheWay, InOrder, Reached, Rounds, Up,
       Kept, DownWriteFails, KeepReply, Cancelled, Report
  <2>4. Handshake'
    BY <1>5 DEF IInv, TypeOK, Handshake, Rounds, OneOnTheWay, Up, Kept,
       DownWriteFails, KeepReply, Cancelled, Report
  <2>5. QED
    BY <2>1, <2>2, <2>3, <2>4 DEF IInv
<1>6. QED
  BY <1>1, <1>2, <1>3, <1>4, <1>5 DEF DownStep

\* The probe.
LEMMA ProbeProof ==
  ASSUME IInv, ProbeStep
  PROVE  IInv'
<1> USE NumbersAssumption DEF vars, clientVars, roundVars, histVars, Reqs,
      None, Note, Off
<1>1. CASE ProbeOk
  <2>1. TypeOK'
    <3>1. probe' \in Probe
      <4>1. 0 \in 0 .. MaxFailures
        OBVIOUS
      <4>2. QED
        BY <1>1, <4>1, Zenon DEF IInv, TypeOK, ProbeOk, Probe
    <3>2. QED
      BY <1>1, <3>1 DEF IInv, TypeOK, ProbeOk
  <2>2. Rounds' /\ NoOrphanMaster' /\ OneReply'
    BY <1>1 DEF IInv, TypeOK, Rounds, NoOrphanMaster, OneReply,
       RepliesKept, Up, Down, Kept, Probe, ProbeOk
  <2>3. OneOnTheWay' /\ InOrder'
    BY <1>1 DEF IInv, TypeOK, OneOnTheWay, InOrder, Reached, Rounds, Up,
       Kept, ProbeOk
  <2>4. Handshake'
    BY <1>1 DEF IInv, TypeOK, Handshake, Rounds, OneOnTheWay, Up, Kept,
       ProbeOk
  <2>5. QED
    BY <2>1, <2>2, <2>3, <2>4 DEF IInv
<1>2. CASE ProbeFails
  <2>1. TypeOK'
    <3>1. probe.failures \in 0 .. MaxFailures /\ probe.failures < MaxFailures
      BY <1>2 DEF IInv, TypeOK, Rounds, ProbeFails, Probe
    <3>2. probe' \in Probe
      <4>1. probe.failures + 1 \in 0 .. MaxFailures
        BY <3>1
      <4>2. (probe.failures + 1 < MaxFailures) \in BOOLEAN
        OBVIOUS
      <4>3. QED
        BY <1>2, <4>1, <4>2, Zenon DEF ProbeFails, Probed, MoreFailures, Probe
    <3>3. errs' \in Seq(Results) /\ Len(errs') <= ErrCap
      <4>1. CASE MoreFailures < MaxFailures
        BY <1>2, <4>1 DEF IInv, TypeOK, ProbeFails
      <4>2. CASE ~(MoreFailures < MaxFailures)
        BY <1>2, <4>2 DEF IInv, TypeOK, ProbeFails, Report, Results, MoreFailures
      <4>3. QED
        BY <4>1, <4>2
    <3>4. QED
      BY <1>2, <3>2, <3>3 DEF IInv, TypeOK, ProbeFails
  <2>2. Rounds' /\ NoOrphanMaster' /\ OneReply'
    BY <1>2 DEF IInv, TypeOK, Rounds, NoOrphanMaster, OneReply,
       RepliesKept, Up, Down, Kept, Probe, ProbeFails, Probed,
       MoreFailures, Report
  <2>3. OneOnTheWay' /\ InOrder'
    BY <1>2 DEF IInv, TypeOK, OneOnTheWay, InOrder, Reached, Rounds, Up,
       Kept, ProbeFails, Probed, MoreFailures, Report
  <2>4. Handshake'
    BY <1>2 DEF IInv, TypeOK, Handshake, Rounds, OneOnTheWay, Up, Kept,
       ProbeFails, Probed, MoreFailures, Report
  <2>5. QED
    BY <2>1, <2>2, <2>3, <2>4 DEF IInv
<1>3. CASE ProbeStops
  <2>1. TypeOK'
    <3>1. probe' \in Probe
      BY <1>3 DEF IInv, TypeOK, ProbeStops, Probe
    <3>2. QED
      BY <1>3, <3>1 DEF IInv, TypeOK, ProbeStops
  <2>2. Rounds' /\ NoOrphanMaster' /\ OneReply'
    BY <1>3 DEF IInv, TypeOK, Rounds, NoOrphanMaster, OneReply,
       RepliesKept, Up, Down, Kept, Probe, ProbeStops, Cancelled
  <2>3. OneOnTheWay' /\ InOrder'
    BY <1>3 DEF IInv, TypeOK, OneOnTheWay, InOrder, Reached, Rounds, Up,
       Kept, ProbeStops, Cancelled
  <2>4. Handshake'
    BY <1>3 DEF IInv, TypeOK, Handshake, Rounds, OneOnTheWay, Up, Kept,
       ProbeStops, Cancelled
  <2>5. QED
    BY <2>1, <2>2, <2>3, <2>4 DEF IInv
<1>4. QED
  BY <1>1, <1>2, <1>3 DEF ProbeStep

\* The session of a process that took over.
LEMMA SessionProof ==
  ASSUME IInv, Session
  PROVE  IInv'
<1> USE NumbersAssumption DEF vars, clientVars, roundVars, histVars, Reqs,
      None, Note, Off
<1>1. CASE SessionResend
  <2>1. TypeOK'
    BY <1>1 DEF IInv, TypeOK, SessionResend, Results, MainPc, Up, Down,
       Probe, Kept, Rounds, OneOnTheWay
  <2>2. Rounds' /\ NoOrphanMaster' /\ OneReply'
    BY <1>1 DEF IInv, TypeOK, Rounds, NoOrphanMaster, OneReply,
       RepliesKept, Up, Down, Kept, Probe, SessionResend
  <2>3. OneOnTheWay' /\ InOrder'
    BY <1>1 DEF IInv, TypeOK, OneOnTheWay, InOrder, Reached, Rounds, Up,
       Kept, SessionResend
  <2>4. Handshake'
    BY <1>1 DEF IInv, TypeOK, Handshake, Rounds, OneOnTheWay, Up, Kept,
       SessionResend
  <2>5. QED
    BY <2>1, <2>2, <2>3, <2>4 DEF IInv
<1>2. CASE SessionTakes
  <2>1. PICK m : m = SessionNext
    OBVIOUS
  <2>2. /\ read \in Nat /\ read \in 0 .. said /\ said \in 0 .. MaxSaid
        /\ kept \in Kept /\ kept.pending \in {None, read}
        /\ up = Off /\ down.pc = "off" /\ main.pc = "session"
        /\ \A n \in 1 .. read : n \in Reqs
    BY <1>2 DEF SessionTakes, IInv, TypeOK, Rounds, OneOnTheWay, Up
  <2>3. \/ /\ kept.pending # None /\ m = kept.pending /\ m = read
           /\ kept' = [kept EXCEPT !.pending = None] /\ read' = read
        \/ /\ kept.pending = None /\ m = read + 1 /\ read < said
           /\ kept' = kept /\ read' = m
    BY <1>2, <2>1, <2>2 DEF SessionTakes, SessionNext
  <2>4. m \in Reqs /\ m >= read /\ read' = m /\ read' \in 0 .. said
    BY <2>2, <2>3
  <2>5. kept' \in Kept /\ kept'.pending = None
    <3>1. CASE kept' = [kept EXCEPT !.pending = None]
      BY <2>2, <3>1 DEF Kept
    <3>2. CASE kept' = kept /\ kept.pending = None
      BY <2>2, <3>2
    <3>3. QED
      BY <2>3, <3>1, <3>2
  <2>6. /\ Reaches(m) /\ ready' = (ready \/ m = 1)
        /\ refused' = IF ready' THEN refused ELSE refused \cup {m}
        /\ inbox' = inbox \cup {m}
        /\ UNCHANGED <<clientVars, main, roundVars, master, taken, stray>>
    BY <1>2, <2>1 DEF SessionTakes
  <2>7. /\ given' \in Seq(Reqs) /\ InOrder' /\ Reached(m)'
        /\ \A n \in Reqs : Reached(n) => Reached(n)'
        /\ \A i \in 1 .. Len(given') : given'[i] <= m
    <3>1. TypeOK /\ InOrder /\ \A i \in 1 .. Len(given) : given[i] <= read
      BY DEF IInv, OneOnTheWay
    <3>2. QED
      BY <2>4, <2>6, <3>1, ReachesInOrder
  <2>8. ready' = TRUE /\ refused' = {}
    <3>1. ready \/ m = 1
      BY <2>2, <2>3 DEF IInv, Handshake
    <3>2. QED
      BY <2>6, <3>1 DEF IInv, Handshake
  <2>9. TypeOK'
    BY <2>2, <2>4, <2>5, <2>6, <2>7, <2>8 DEF IInv, TypeOK
  <2>10. Rounds' /\ NoOrphanMaster'
    BY <2>6 DEF IInv, Rounds, NoOrphanMaster
  <2>11. OneReply'
    <3>1. kept'.undelivered = kept.undelivered
      BY <2>2, <2>3 DEF Kept
    <3>2. QED
      BY <2>6, <3>1 DEF IInv, OneReply, RepliesKept
  <2>12. OneOnTheWay'
    <3>1. \A n \in 1 .. m : n = m \/ n \in 1 .. read
      BY <2>2, <2>3
    <3>2. \A n \in 1 .. read : Reached(n) \/ n = m
      BY <2>2, <2>3 DEF IInv, OneOnTheWay
    <3>3. \A n \in 1 .. m : Reached(n)'
      BY <2>2, <2>7, <3>1, <3>2
    <3>4. up' = Off
      BY <2>2, <2>6
    <3>5. QED
      BY <2>4, <2>5, <2>7, <3>3, <3>4 DEF OneOnTheWay
  <2>13. Handshake'
    BY <2>2, <2>6, <2>8 DEF Handshake
  <2>14. QED
    BY <2>7, <2>9, <2>10, <2>11, <2>12, <2>13 DEF IInv
<1>3. CASE \E m \in Reqs : SessionReplies(m)
  <2>1. TypeOK'
    BY <1>3 DEF IInv, TypeOK, SessionReplies, Results, MainPc, Up, Down,
       Probe, Kept, Rounds, OneOnTheWay
  <2>2. Rounds' /\ NoOrphanMaster' /\ OneReply'
    BY <1>3 DEF IInv, TypeOK, Rounds, NoOrphanMaster, OneReply,
       RepliesKept, Up, Down, Kept, Probe, SessionReplies
  <2>3. OneOnTheWay' /\ InOrder'
    BY <1>3 DEF IInv, TypeOK, OneOnTheWay, InOrder, Reached, Rounds, Up,
       Kept, SessionReplies
  <2>4. Handshake'
    BY <1>3 DEF IInv, TypeOK, Handshake, Rounds, OneOnTheWay, Up, Kept,
       SessionReplies
  <2>5. QED
    BY <2>1, <2>2, <2>3, <2>4 DEF IInv
<1>4. CASE SessionEnds
  <2>1. TypeOK'
    BY <1>4 DEF IInv, TypeOK, SessionEnds, Goto, Results, MainPc, Up,
       Down, Probe, Kept, Rounds, OneOnTheWay
  <2>2. Rounds' /\ NoOrphanMaster' /\ OneReply'
    BY <1>4 DEF IInv, TypeOK, Rounds, NoOrphanMaster, OneReply,
       RepliesKept, Up, Down, Kept, Probe, SessionEnds, Goto
  <2>3. OneOnTheWay' /\ InOrder'
    BY <1>4 DEF IInv, TypeOK, OneOnTheWay, InOrder, Reached, Rounds, Up,
       Kept, SessionEnds, Goto
  <2>4. Handshake'
    BY <1>4 DEF IInv, TypeOK, Handshake, Rounds, OneOnTheWay, Up, Kept,
       SessionEnds, Goto
  <2>5. QED
    BY <2>1, <2>2, <2>3, <2>4 DEF IInv
<1>5. CASE Interrupt
  <2>1. TypeOK'
    BY <1>5 DEF IInv, TypeOK, Interrupt, Goto, Results, MainPc, Up, Down,
       Probe, Kept, Rounds, OneOnTheWay
  <2>2. Rounds' /\ NoOrphanMaster' /\ OneReply'
    BY <1>5 DEF IInv, TypeOK, Rounds, NoOrphanMaster, OneReply,
       RepliesKept, Up, Down, Kept, Probe, Interrupt, Goto
  <2>3. OneOnTheWay' /\ InOrder'
    BY <1>5 DEF IInv, TypeOK, OneOnTheWay, InOrder, Reached, Rounds, Up,
       Kept, Interrupt, Goto
  <2>4. Handshake'
    BY <1>5 DEF IInv, TypeOK, Handshake, Rounds, OneOnTheWay, Up, Kept,
       Interrupt, Goto
  <2>5. QED
    BY <2>1, <2>2, <2>3, <2>4 DEF IInv
<1>6. QED
  BY <1>1, <1>2, <1>3, <1>4, <1>5 DEF Session

\* The client and the masters.
LEMMA AroundProof ==
  ASSUME IInv, Around
  PROVE  IInv'
<1> USE NumbersAssumption DEF vars, clientVars, roundVars, histVars, Reqs,
      None, Note, Off
<1>1. CASE Say
  <2>1. TypeOK'
    BY <1>1 DEF IInv, TypeOK, Say, Results, MainPc, Up, Down, Probe, Kept,
       Rounds, OneOnTheWay
  <2>2. Rounds' /\ NoOrphanMaster' /\ OneReply'
    BY <1>1 DEF IInv, TypeOK, Rounds, NoOrphanMaster, OneReply,
       RepliesKept, Up, Down, Kept, Probe, Say
  <2>3. OneOnTheWay' /\ InOrder'
    BY <1>1 DEF IInv, TypeOK, OneOnTheWay, InOrder, Reached, Rounds, Up,
       Kept, Say
  <2>4. Handshake'
    BY <1>1 DEF IInv, TypeOK, Handshake, Rounds, OneOnTheWay, Up, Kept,
       Say
  <2>5. QED
    BY <2>1, <2>2, <2>3, <2>4 DEF IInv
<1>2. CASE Leave
  <2>1. TypeOK'
    BY <1>2 DEF IInv, TypeOK, Leave, Results, MainPc, Up, Down, Probe,
       Kept, Rounds, OneOnTheWay
  <2>2. Rounds' /\ NoOrphanMaster' /\ OneReply'
    BY <1>2 DEF IInv, TypeOK, Rounds, NoOrphanMaster, OneReply,
       RepliesKept, Up, Down, Kept, Probe, Leave
  <2>3. OneOnTheWay' /\ InOrder'
    BY <1>2 DEF IInv, TypeOK, OneOnTheWay, InOrder, Reached, Rounds, Up,
       Kept, Leave
  <2>4. Handshake'
    BY <1>2 DEF IInv, TypeOK, Handshake, Rounds, OneOnTheWay, Up, Kept,
       Leave
  <2>5. QED
    BY <2>1, <2>2, <2>3, <2>4 DEF IInv
<1>3. CASE MasterFails
  <2>1. TypeOK'
    <3>1. master' \in BOOLEAN
      BY <1>3 DEF MasterFails
    <3>2. QED
      BY <1>3, <3>1 DEF IInv, TypeOK, MasterFails
  <2>2. Rounds' /\ NoOrphanMaster' /\ OneReply'
    BY <1>3 DEF IInv, TypeOK, Rounds, NoOrphanMaster, OneReply,
       RepliesKept, Up, Down, Kept, Probe, MasterFails
  <2>3. OneOnTheWay' /\ InOrder'
    BY <1>3 DEF IInv, TypeOK, OneOnTheWay, InOrder, Reached, Rounds, Up,
       Kept, MasterFails
  <2>4. Handshake'
    BY <1>3 DEF IInv, TypeOK, Handshake, Rounds, OneOnTheWay, Up, Kept,
       MasterFails
  <2>5. QED
    BY <2>1, <2>2, <2>3, <2>4 DEF IInv
<1>4. CASE MasterNotes
  <2>1. TypeOK'
    BY <1>4 DEF IInv, TypeOK, MasterNotes, Results, MainPc, Up, Down,
       Probe, Kept, Rounds, OneOnTheWay
  <2>2. Rounds' /\ NoOrphanMaster' /\ OneReply'
    BY <1>4 DEF IInv, TypeOK, Rounds, NoOrphanMaster, OneReply,
       RepliesKept, Up, Down, Kept, Probe, MasterNotes
  <2>3. OneOnTheWay' /\ InOrder'
    BY <1>4 DEF IInv, TypeOK, OneOnTheWay, InOrder, Reached, Rounds, Up,
       Kept, MasterNotes
  <2>4. Handshake'
    BY <1>4 DEF IInv, TypeOK, Handshake, Rounds, OneOnTheWay, Up, Kept,
       MasterNotes
  <2>5. QED
    BY <2>1, <2>2, <2>3, <2>4 DEF IInv
<1>5. QED
  BY <1>1, <1>2, <1>3, <1>4 DEF Around

-----------------------------------------------------------------------------
\* The invariant holds at the start.
LEMMA InitIInv == Init => IInv
<1> SUFFICES ASSUME Init PROVE IInv
  OBVIOUS
<1> USE NumbersAssumption DEF Reqs, None, Note, Off
<1>1. TypeOK
  <2>1. main \in [pc : MainPc, rounds : 0 .. MaxRounds,
                 result : Results \cup {"none"}]
    BY DEF Init, MainPc
  <2>2. kept \in Kept /\ up \in Up /\ down \in Down
    BY DEF Init, Kept, Up, Down
  <2>3. probe \in Probe
    <3>1. 0 \in 0 .. MaxFailures
      OBVIOUS
    <3>2. QED
      BY <3>1, Zenon DEF Init, Probe
  <2>4. /\ client \in {"open", "closed", "broken"}
        /\ said \in 0 .. MaxSaid /\ read \in 0 .. said /\ got \subseteq Reqs
        /\ errs \in Seq(Results) /\ Len(errs) <= ErrCap
    BY DEF Init
  <2>5. gone \in BOOLEAN /\ master \in BOOLEAN /\ ready \in BOOLEAN
    BY Zenon DEF Init
  <2>6. /\ inbox \subseteq Reqs \cup {Note} /\ given \in Seq(Reqs)
        /\ taken \subseteq Reqs /\ stray \subseteq Reqs
        /\ refused \subseteq Reqs
    BY DEF Init
  <2>7. QED
    BY <2>1, <2>2, <2>3, <2>4, <2>5, <2>6 DEF TypeOK
<1>2. Rounds /\ NoOrphanMaster /\ OneReply
  BY DEF Init, Rounds, NoOrphanMaster, OneReply, RepliesKept
<1>3. OneOnTheWay /\ InOrder /\ Handshake
  BY DEF Init, OneOnTheWay, InOrder, Handshake, Reached
<1>4. QED
  BY <1>1, <1>2, <1>3 DEF IInv

\* A step that changes nothing keeps it.
LEMMA StutterStep ==
  ASSUME IInv, UNCHANGED vars
  PROVE  IInv'
<1> USE DEF vars, clientVars, roundVars, histVars
<1>1. TypeOK' /\ Rounds' /\ NoOrphanMaster' /\ OneReply'
  BY DEF IInv, TypeOK, Rounds, NoOrphanMaster, OneReply, RepliesKept
<1>2. OneOnTheWay' /\ InOrder' /\ Handshake'
  BY DEF IInv, OneOnTheWay, InOrder, Handshake, Reached
<1>3. QED
  BY <1>1, <1>2 DEF IInv

\* The invariant holds always.
LEMMA Invariance == Spec => []IInv
<1>1. IInv /\ [Next]_vars => IInv'
  BY MainStep, UpProof, DownProof, ProbeProof, SessionProof, AroundProof,
     StutterStep DEF Next
<1>2. QED
  BY <1>1, InitIInv, PTL DEF Spec

-----------------------------------------------------------------------------
\* Every variable keeps its type: no goroutine reports more than errCh holds,
\* and the probe ends at masterProbeFailures.
THEOREM ProxyTypes == Spec => []TypeOK
<1>1. IInv => TypeOK
  BY DEF IInv
<1>2. QED
  BY <1>1, Invariance, PTL

\* No request that was read from stdin is lost, through any number of rounds
\* and failed writes (UpWriteFails, the barrier, pendingConnection), and no
\* reply is dropped or overwritten within a process; only Resend sends one the
\* wrong way (undelivered).
THEOREM NoMessageDropped == Spec => []NothingDropped
<1>1. IInv => NothingLost
  BY DEF IInv, OneOnTheWay, NothingLost
<1>2. IInv => RepliesKept
  BY DEF IInv, OneReply
<1>3. IInv => NothingDropped
  BY <1>1, <1>2 DEF NothingDropped
<1>4. QED
  BY <1>3, Invariance, PTL

\* Requests reach the masters, and the session, in the order of stdin.
THEOREM RequestsOrdered == Spec => []InOrder
<1>1. IInv => InOrder
  BY DEF IInv
<1>2. QED
  BY <1>1, Invariance, PTL

\* A process whose client is gone does not take over (resolveProxyExit), and
\* a session that takes over refuses nothing for want of an initialize that
\* another master got (sessionStateTracker, StdioHandoff.State).
THEOREM TakesOverSoundly == Spec => []TakeoverSound
<1>1. IInv => NoOrphanMaster
  BY DEF IInv
<1>2. IInv => HandshakeKept
  BY DEF IInv, Handshake, HandshakeKept
<1>3. IInv => TakeoverSound
  BY <1>1, <1>2 DEF TakeoverSound
<1>4. QED
  BY <1>3, Invariance, PTL
=============================================================================
