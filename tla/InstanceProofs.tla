---------------------------- MODULE InstanceProofs ----------------------------
(***************************************************************************)
(* Proofs about the five modules of files, logs and the end of the process *)
(* that Instance puts beside Settings, for any number of processes,        *)
(* upgrades, documents, pieces and edits: for each module an inductive     *)
(* invariant, and then what Instance promises.                             *)
(***************************************************************************)
EXTENDS Instance, SettingsProofs

-----------------------------------------------------------------------------
(* The end of the process (Stopping).                                       *)

\* What the main goroutine has waited for, and for how long.
Deadlines ==
  /\ main = "wait" => now <= Stop!Patience
  /\ main = "flush" => now <= flushDue /\ flushDue <= Stop!Patience + Stop!Logs
  /\ now > Stop!Patience + Stop!Logs => held
  /\ held => closeWaits
\* The goroutine that closes the parts is done, or the main one is impatient;
\* who holds the logger's mutex stays where he is.
Unforced == /\ main = "wait" \/ forced \/ worker = "done"
            /\ writer = "worker" => worker = "log"
\* It announces at once, and sleeps before it goes on.
Announced ==
  /\ worker = "announce" => now = 0 /\ main = "wait"
  /\ services =>
       /\ worker # "announce" => told
       /\ worker = "sleep" => due >= Stop!Notice
       /\ worker \notin {"announce", "sleep"} => now >= Stop!Notice
       /\ main # "wait" => now >= Stop!Notice
StopInv == Stop!TypeOK /\ Deadlines /\ Unforced /\ Announced

LEMMA StopInit == Stop!Init => StopInv
<1> SUFFICES ASSUME Stop!Init PROVE StopInv
  OBVIOUS
<1> USE DEF Stop!Notice, Stop!HTTP, Stop!Patience, Stop!Logs, Stop!Never
<1>1. Stop!TypeOK
  <2>1. now \in 0 .. Stop!Never /\ services \in BOOLEAN /\ closeWaits \in BOOLEAN
    BY DEF Stop!Init
  <2>2. /\ main \in {"wait", "flush", "close", "gone"}
        /\ worker \in {"announce", "sleep", "log", "bridge", "http", "serial",
                       "done"}
    BY DEF Stop!Init
  <2>3. /\ due \in 0 .. Stop!Never + Stop!HTTP
        /\ flushDue \in 0 .. Stop!Never + Stop!Logs
    BY DEF Stop!Init
  <2>4. /\ flusher \in {"none", "message", "flush", "done"}
        /\ writer \in {"nobody", "worker", "flusher", "other"}
        /\ output \in {"stdout", "file"}
    BY DEF Stop!Init
  <2>5. forced \in BOOLEAN /\ told \in BOOLEAN /\ held \in BOOLEAN
    BY DEF Stop!Init
  <2> QED
    BY <2>1, <2>2, <2>3, <2>4, <2>5 DEF Stop!TypeOK
<1>2. Deadlines /\ Unforced
  BY DEF Stop!Init, Deadlines, Unforced
<1>3. Announced
  BY DEF Stop!Init, Announced
<1> QED
  BY <1>1, <1>2, <1>3 DEF StopInv

\* The steps of the goroutine that closes the parts.
LEMMA StopWorker ==
  ASSUME StopInv, Stop!Announce \/ Stop!Wake \/ Stop!Close
  PROVE  StopInv'
<1> USE DEF StopInv, Stop!TypeOK, Deadlines, Unforced, Announced, Stop!fixed,
            Stop!logger, Stop!history, Stop!Notice, Stop!HTTP, Stop!Patience,
            Stop!Logs, Stop!Never
<1>1. CASE Stop!Announce
  <2>1. CASE services
    BY <1>1, <2>1 DEF Stop!Announce
  <2>2. CASE ~services
    BY <1>1, <2>2 DEF Stop!Announce
  <2> QED
    BY <2>1, <2>2
<1>2. CASE Stop!Wake
  BY <1>2 DEF Stop!Wake
<1>3. CASE Stop!Close
  <2>1. worker' \in {"http", "serial", "done"} /\ due' \in {0, now + Stop!HTTP}
    BY <1>3 DEF Stop!Close, Stop!After
  <2>2. worker \in {"bridge", "http", "serial"}
    BY <1>3 DEF Stop!Close
  <2>3. UNCHANGED <<now, services, closeWaits, main, flusher, flushDue, writer,
                    output, forced, told, held>>
    BY <1>3 DEF Stop!Close
  <2> QED
    BY <2>1, <2>2, <2>3
<1> QED
  BY <1>1, <1>2, <1>3

\* The steps of whoever logs.
LEMMA StopLogging ==
  ASSUME StopInv,
         Stop!LogBegins \/ Stop!ToFile \/ Stop!Logged \/ Stop!NoWindows
  PROVE  StopInv'
<1> USE DEF StopInv, Stop!TypeOK, Deadlines, Unforced, Announced, Stop!fixed,
            Stop!logger, Stop!history, Stop!Notice, Stop!HTTP, Stop!Patience,
            Stop!Logs, Stop!Never
<1>1. CASE Stop!LogBegins
  BY <1>1 DEF Stop!LogBegins, Stop!MayLog
<1>2. CASE Stop!ToFile
  BY <1>2 DEF Stop!ToFile
<1>3. CASE Stop!Logged
  <2>1. writer' = "nobody" /\ flusher' \in {flusher, "flush", "done"}
    BY <1>3 DEF Stop!Logged, Stop!Flushed
  <2>2. \/ worker' = worker
        \/ worker = "log" /\ worker' \in {"bridge", "serial"}
    BY <1>3 DEF Stop!Logged, Stop!After
  <2>3. UNCHANGED <<now, services, closeWaits, main, due, flushDue, output,
                    forced, told, held>>
    BY <1>3 DEF Stop!Logged
  <2> QED
    BY <2>1, <2>2, <2>3
<1>4. CASE Stop!NoWindows
  BY <1>4 DEF Stop!NoWindows
<1> QED
  BY <1>1, <1>2, <1>3, <1>4

\* The steps of the main goroutine, and time.
LEMMA StopMain ==
  ASSUME StopInv,
         main # "gone",
         Stop!StopWaiting \/ Stop!StopFlushing \/ Stop!Exit \/ Stop!Tick
  PROVE  StopInv'
<1> USE DEF StopInv, Stop!TypeOK, Deadlines, Unforced, Announced, Stop!fixed,
            Stop!logger, Stop!history, Stop!Notice, Stop!HTTP, Stop!Patience,
            Stop!Logs, Stop!Never
<1>1. CASE Stop!StopWaiting
  <2>1. /\ main = "wait" /\ main' = "flush" /\ flusher' = "message"
        /\ flushDue' = now + Stop!Logs
    BY <1>1 DEF Stop!StopWaiting
  <2>2. \/ worker = "done" /\ forced' = FALSE
        \/ now >= Stop!Patience /\ forced' = TRUE
    BY <1>1 DEF Stop!StopWaiting
  <2>3. UNCHANGED <<now, services, closeWaits, worker, due, writer, output,
                    told, held>>
    BY <1>1 DEF Stop!StopWaiting
  <2>4. forced' \in BOOLEAN /\ Unforced'
    BY <2>1, <2>2, <2>3
  <2>5. Deadlines' /\ Announced'
    BY <2>1, <2>2, <2>3
  <2>6. flushDue' \in 0 .. Stop!Never + Stop!Logs
    BY <2>1
  <2> QED
    BY <2>1, <2>3, <2>4, <2>5, <2>6
<1>2. CASE Stop!StopFlushing
  BY <1>2 DEF Stop!StopFlushing
<1>3. CASE Stop!Exit
  BY <1>3 DEF Stop!Exit
<1>4. CASE Stop!Tick
  <2>1. /\ now < Stop!Never /\ now' = now + 1 /\ worker # "announce"
        /\ main = "wait" => now < Stop!Patience
        /\ main = "flush" => now < flushDue
    BY <1>4 DEF Stop!Tick, Stop!EndsWait, Stop!EndsFlush
  <2>2. UNCHANGED <<services, closeWaits, main, worker, due, flusher, flushDue,
                    writer, output, forced, told>>
    BY <1>4 DEF Stop!Tick
  <2>3. main \in {"wait", "flush", "close"}
    OBVIOUS
  <2>4. CASE main = "close"
    <3>1. held' = TRUE /\ closeWaits
      BY <1>4, <2>4 DEF Stop!Tick, Stop!FileBusy
    <3> QED
      BY <2>1, <2>2, <2>4, <3>1
  <2>5. CASE main # "close"
    <3>1. held' = held
      BY <1>4, <2>5 DEF Stop!Tick
    <3>2. Deadlines' /\ Unforced' /\ Announced'
      BY <2>1, <2>2, <2>3, <2>5, <3>1
    <3> QED
      BY <2>1, <2>2, <3>1, <3>2
  <2> QED
    BY <2>4, <2>5
<1> QED
  BY <1>1, <1>2, <1>3, <1>4

LEMMA StopStep == StopInv /\ [Stop!Next]_stopVars => StopInv'
<1> SUFFICES ASSUME StopInv, [Stop!Next]_stopVars PROVE StopInv'
  OBVIOUS
<1>1. CASE Stop!Next
  <2>1. main # "gone"
    BY <1>1 DEF Stop!Next
  <2>2. CASE Stop!Announce \/ Stop!Wake \/ Stop!Close
    BY <2>2, StopWorker
  <2>3. CASE Stop!LogBegins \/ Stop!ToFile \/ Stop!Logged \/ Stop!NoWindows
    BY <2>3, StopLogging
  <2>4. CASE Stop!StopWaiting \/ Stop!StopFlushing \/ Stop!Exit \/ Stop!Tick
    BY <2>1, <2>4, StopMain
  <2> QED
    BY <1>1, <2>2, <2>3, <2>4 DEF Stop!Next
<1>2. CASE UNCHANGED stopVars
  BY <1>2 DEF stopVars, StopInv, Stop!TypeOK, Deadlines, Unforced, Announced
<1> QED
  BY <1>1, <1>2

LEMMA StopRight == StopInv => Stop!TypeOK /\ StopsInTime
BY DEF StopInv, Deadlines, Unforced, Announced, StopsInTime, Stop!StopsInTime,
       Stop!TypeOK, Stop!Notice, Stop!Patience, Stop!Logs, Stop!Never

-----------------------------------------------------------------------------
(* The configuration file of an MCP client (ClientFile).                    *)

\* A file that is one: neither empty nor cut short.
Whole == [own : 0 .. MaxEdits, entry : BOOLEAN, flat : BOOLEAN]

\* What is about to be written was whole when it was read, and is what the
\* client saved last unless that was a race.
HeldBySetup ==
  setup.pc \in {"confirm", "write", "rewrite"} =>
    setup.read \in Whole /\ (~raced => setup.read.own = edits)
HeldByRemover ==
  /\ remover.pc \in {"temp", "replace"} => remover.read \in Whole
  /\ remover.pc = "replace" /\ ~raced => remover.read.own = edits
ClientInv == Client!TypeOK /\ HeldBySetup /\ HeldByRemover /\ Client!EditsKept

LEMMA WholeOrLost == \A f : f \in Client!Content <=> f \in Whole \/ f = Client!Lost
BY DEF Client!Content, Whole

LEMMA WholeNotLost == \A f \in Whole : f # Client!Lost /\ f.own \in 0 .. MaxEdits
BY ClientAssumption DEF Whole, Client!Lost

\* One part of a file, or of a record, is replaced.
LEMMA WholeWith ==
  ASSUME NEW f \in Whole, NEW b \in BOOLEAN
  PROVE  /\ [f EXCEPT !.entry = b] \in Whole /\ [f EXCEPT !.entry = b].own = f.own
         /\ [f EXCEPT !.flat = b] \in Whole /\ [f EXCEPT !.flat = b].own = f.own
BY DEF Whole

SetupPcs   == {"idle", "confirm", "write", "sweep", "rewrite"}
RemoverPcs == {"idle", "temp", "replace"}
LEMMA SetupWith ==
  ASSUME NEW s \in Client!Setup, NEW p \in SetupPcs, NEW q, q = [s EXCEPT !.pc = p]
  PROVE  q \in Client!Setup /\ q.pc = p /\ q.read = s.read
BY DEF Client!Setup, SetupPcs

LEMMA RemoverWith ==
  ASSUME NEW s \in Client!Remover, NEW p \in RemoverPcs, NEW q, q = [s EXCEPT !.pc = p]
  PROVE  q \in Client!Remover /\ q.pc = p /\ q.read = s.read
BY DEF Client!Remover, RemoverPcs

LEMMA ClientInit == Client!Init => ClientInv
<1> SUFFICES ASSUME Client!Init PROVE ClientInv
  OBVIOUS
<1>0. client \in [own : {0}, entry : BOOLEAN, flat : BOOLEAN] /\ 0 \in 0 .. MaxEdits
  BY ClientAssumption DEF Client!Init
<1>1. client \in Whole /\ client.own = 0 /\ client \in Client!Content
  <2>1. client.own = 0 /\ client \in Whole
    BY <1>0 DEF Whole
  <2> QED
    BY <2>1, WholeOrLost
<1>2. /\ setup = [pc |-> "idle", read |-> client] /\ remover = setup
      /\ runs = 0 /\ edits = 0 /\ raced = FALSE
  BY DEF Client!Init
<1>3. setup \in Client!Setup /\ remover \in Client!Remover
  BY <1>1, <1>2 DEF Client!Setup, Client!Remover
<1>4. Client!TypeOK
  <2>1. runs \in 0 .. MaxRuns /\ edits \in 0 .. MaxEdits
    BY <1>2, ClientAssumption
  <2>2. raced \in BOOLEAN
    BY <1>2
  <2> QED
    BY <1>1, <1>3, <2>1, <2>2 DEF Client!TypeOK
<1> QED
  BY <1>1, <1>2, <1>4
     DEF ClientInv, HeldBySetup, HeldByRemover, Client!EditsKept

LEMMA ClientEdit == ClientInv /\ Client!Edit => ClientInv'
<1> SUFFICES ASSUME ClientInv, Client!Edit PROVE ClientInv'
  OBVIOUS
<1>1. edits' \in 0 .. MaxEdits /\ UNCHANGED <<setup, remover, runs>>
  BY ClientAssumption DEF ClientInv, Client!TypeOK, Client!Edit
<1>2. client.entry \in BOOLEAN /\ client.flat \in BOOLEAN
  <2>1. client \in Whole \/ client = Client!Lost
    BY WholeOrLost DEF ClientInv, Client!TypeOK
  <2>2. CASE client \in Whole
    BY <2>2 DEF Whole
  <2>3. CASE client = Client!Lost
    BY <2>3 DEF Client!Lost
  <2> QED
    BY <2>1, <2>2, <2>3
<1>3. client' \in Whole /\ client'.own = edits'
  <2>1. PICK n \in {edits'}, e \in {client.entry, FALSE}, f \in {client.flat, FALSE} :
           client' = [own |-> n, entry |-> e, flat |-> f]
    BY DEF Client!Edit
  <2> QED
    BY <1>1, <1>2, <2>1 DEF Whole
<1>4. raced' = (raced \/ Client!Unguarded)
  BY DEF Client!Edit
<1>5. raced' \in BOOLEAN
  BY <1>4 DEF ClientInv, Client!TypeOK
<1>6. Client!TypeOK'
  BY <1>1, <1>3, <1>5, WholeOrLost DEF ClientInv, Client!TypeOK
<1>7. HeldBySetup' /\ HeldByRemover'
  BY <1>1, <1>4 DEF ClientInv, HeldBySetup, HeldByRemover, Client!Unguarded
<1> QED
  BY <1>3, <1>6, <1>7 DEF ClientInv, Client!EditsKept

\* os.WriteFile of what is whole and has the client's own part.
LEMMA ClientWrite ==
  ASSUME ClientInv, NEW f \in Whole, Client!WriteFile(f), ~raced => f.own = edits,
         UNCHANGED edits
  PROVE  /\ client' \in Client!Content /\ raced' \in BOOLEAN /\ Client!EditsKept'
         /\ raced => raced'
BY WholeOrLost DEF ClientInv, Client!TypeOK, Client!WriteFile, Client!EditsKept

LEMMA ClientSetup ==
  ClientInv /\ (\/ Client!SetupRead \/ Client!SetupConfirm \/ Client!SetupWrite
                \/ Client!SetupSweep \/ Client!SetupRewrite) => ClientInv'
<1> SUFFICES ASSUME ClientInv,
                    \/ Client!SetupRead \/ Client!SetupConfirm \/ Client!SetupWrite
                    \/ Client!SetupSweep \/ Client!SetupRewrite
             PROVE  ClientInv'
  OBVIOUS
<1>1. /\ setup \in Client!Setup /\ client \in Client!Content /\ runs \in 0 .. MaxRuns
      /\ edits \in 0 .. MaxEdits /\ raced \in BOOLEAN /\ remover \in Client!Remover
      /\ HeldBySetup /\ HeldByRemover /\ Client!EditsKept
  BY DEF ClientInv, Client!TypeOK
<1>2. UNCHANGED <<remover, edits>>
  BY DEF Client!SetupRead, Client!SetupConfirm, Client!SetupWrite, Client!SetupSweep,
         Client!SetupRewrite
\* It is enough to look at the file, at what was read, and at the race.
<1> SUFFICES /\ setup' \in Client!Setup /\ client' \in Client!Content
             /\ runs' \in 0 .. MaxRuns /\ raced' \in BOOLEAN
             /\ raced => raced'
             /\ HeldBySetup' /\ Client!EditsKept'
  BY <1>1, <1>2 DEF ClientInv, Client!TypeOK, HeldByRemover
<1>3. CASE Client!SetupRead
  <2>1. client \in Whole /\ UNCHANGED <<client, raced>> /\ runs' \in 0 .. MaxRuns
    BY <1>1, <1>3, WholeOrLost, ClientAssumption DEF Client!SetupRead
  <2>2. PICK p \in {"confirm", "write"} : setup' = [pc |-> p, read |-> client]
    BY <1>3 DEF Client!SetupRead
  <2>3. setup' \in Client!Setup
    BY <1>1, <2>2 DEF Client!Setup
  <2> QED
    BY <1>1, <1>2, <2>1, <2>2, <2>3 DEF HeldBySetup, Client!EditsKept
<1>4. CASE Client!SetupConfirm
  <2>1. PICK p \in {"idle", "write"} : setup' = [setup EXCEPT !.pc = p]
    BY <1>4 DEF Client!SetupConfirm
  <2>2. setup' \in Client!Setup /\ setup'.pc = p /\ setup'.read = setup.read
    BY <1>1, <2>1, SetupWith DEF SetupPcs
  <2> QED
    BY <1>1, <1>2, <1>4, <2>2 DEF Client!SetupConfirm, HeldBySetup, Client!EditsKept
<1>5. CASE Client!SetupWrite
  <2>1. PICK p \in {"idle", "sweep"} : setup' = [setup EXCEPT !.pc = p]
    BY <1>5 DEF Client!SetupWrite
  <2>2. setup' \in Client!Setup /\ setup'.pc = p
    BY <1>1, <2>1, SetupWith DEF SetupPcs
  <2>3. setup.read \in Whole /\ (~raced => setup.read.own = edits)
    BY <1>1, <1>5 DEF Client!SetupWrite, HeldBySetup
  <2> DEFINE f == [setup.read EXCEPT !.entry = TRUE]
  <2>4. f \in Whole /\ f.own = setup.read.own
    BY <2>3, WholeWith
  <2>5. Client!WriteFile(f) /\ UNCHANGED runs
    BY <1>5 DEF Client!SetupWrite
  <2> HIDE DEF f
  <2>6. /\ client' \in Client!Content /\ raced' \in BOOLEAN /\ Client!EditsKept'
        /\ raced => raced'
    BY <1>2, <2>3, <2>4, <2>5, ClientWrite
  <2> QED
    BY <1>1, <2>2, <2>5, <2>6 DEF HeldBySetup
<1>6. CASE Client!SetupSweep
  <2>1. UNCHANGED <<client, raced, runs>>
    BY <1>6 DEF Client!SetupSweep
  <2>2. CASE client.flat
    <3>1. setup' = [pc |-> "rewrite", read |-> client] /\ client \in Whole
      BY <1>1, <1>6, <2>2, WholeOrLost DEF Client!SetupSweep, Client!Lost
    <3>2. setup' \in Client!Setup
      BY <1>1, <3>1 DEF Client!Setup
    <3> QED
      BY <1>1, <1>2, <2>1, <3>1, <3>2 DEF HeldBySetup, Client!EditsKept
  <2>3. CASE ~client.flat
    <3>1. setup' \in Client!Setup /\ setup'.pc = "idle"
      BY <1>1, <1>6, <2>3, SetupWith DEF Client!SetupSweep, SetupPcs
    <3> QED
      BY <1>1, <1>2, <2>1, <3>1 DEF HeldBySetup, Client!EditsKept
  <2> QED
    BY <2>2, <2>3
<1>7. CASE Client!SetupRewrite
  <2>1. setup' \in Client!Setup /\ setup'.pc = "idle"
    BY <1>1, <1>7, SetupWith DEF Client!SetupRewrite, SetupPcs
  <2>2. setup.read \in Whole /\ (~raced => setup.read.own = edits)
    BY <1>1, <1>7 DEF Client!SetupRewrite, HeldBySetup
  <2> DEFINE f == [setup.read EXCEPT !.flat = FALSE]
  <2>3. f \in Whole /\ f.own = setup.read.own
    BY <2>2, WholeWith
  <2>4. Client!WriteFile(f) /\ UNCHANGED runs
    BY <1>7 DEF Client!SetupRewrite
  <2> HIDE DEF f
  <2>5. /\ client' \in Client!Content /\ raced' \in BOOLEAN /\ Client!EditsKept'
        /\ raced => raced'
    BY <1>2, <2>2, <2>3, <2>4, ClientWrite
  <2> QED
    BY <1>1, <2>1, <2>4, <2>5 DEF HeldBySetup
<1> QED
  BY <1>3, <1>4, <1>5, <1>6, <1>7

LEMMA ClientRemove ==
  ClientInv /\ (\/ Client!RemoverRead \/ Client!RemoverCompare
                \/ Client!RemoverReplace) => ClientInv'
<1> SUFFICES ASSUME ClientInv,
                    Client!RemoverRead \/ Client!RemoverCompare \/ Client!RemoverReplace
             PROVE  ClientInv'
  OBVIOUS
<1>1. /\ remover \in Client!Remover /\ client \in Client!Content
      /\ runs \in 0 .. MaxRuns /\ raced \in BOOLEAN
      /\ HeldByRemover /\ Client!EditsKept
  BY DEF ClientInv, Client!TypeOK
<1>2. UNCHANGED <<setup, edits, raced>>
  BY DEF Client!RemoverRead, Client!RemoverCompare, Client!RemoverReplace
<1> SUFFICES /\ remover' \in Client!Remover /\ client' \in Client!Content
             /\ runs' \in 0 .. MaxRuns
             /\ HeldByRemover' /\ Client!EditsKept'
  BY <1>1, <1>2 DEF ClientInv, Client!TypeOK, HeldBySetup
<1>3. CASE Client!RemoverRead
  <2>1. client \in Whole /\ UNCHANGED client /\ runs' \in 0 .. MaxRuns
    BY <1>1, <1>3, WholeOrLost, ClientAssumption DEF Client!RemoverRead, Client!Lost
  <2>2. remover' = [pc |-> "temp", read |-> client]
    BY <1>3 DEF Client!RemoverRead
  <2>3. remover' \in Client!Remover
    BY <1>1, <2>2 DEF Client!Remover
  <2> QED
    BY <1>1, <1>2, <2>1, <2>2, <2>3 DEF HeldByRemover, Client!EditsKept
<1>4. CASE Client!RemoverCompare
  <2>1. UNCHANGED <<client, runs>> /\ remover.pc = "temp"
    BY <1>4 DEF Client!RemoverCompare
  <2>2. PICK p \in {"idle", "replace"} :
           /\ remover' = [remover EXCEPT !.pc = p]
           /\ p = "replace" => client = remover.read
    BY <1>4 DEF Client!RemoverCompare, Client!Same
  <2>3. remover' \in Client!Remover /\ remover'.pc = p /\ remover'.read = remover.read
    BY <1>1, <2>2, RemoverWith DEF RemoverPcs
  <2> QED
    BY <1>1, <1>2, <2>1, <2>2, <2>3 DEF HeldByRemover, Client!EditsKept
<1>5. CASE Client!RemoverReplace
  <2>1. remover' \in Client!Remover /\ remover'.pc = "idle" /\ UNCHANGED runs
    BY <1>1, <1>5, RemoverWith DEF Client!RemoverReplace, RemoverPcs
  <2>2. remover.read \in Whole /\ (~raced => remover.read.own = edits)
    BY <1>1, <1>5 DEF Client!RemoverReplace, HeldByRemover
  <2> DEFINE f == [remover.read EXCEPT !.entry = FALSE]
  <2>3. f \in Whole /\ f.own = remover.read.own
    BY <2>2, WholeWith
  <2>4. client' \in {client, f}
    BY <1>5 DEF Client!RemoverReplace
  <2> HIDE DEF f
  <2>5. client' \in Client!Content /\ Client!EditsKept'
    BY <1>1, <1>2, <2>2, <2>3, <2>4, WholeOrLost DEF Client!EditsKept
  <2> QED
    BY <1>1, <2>1, <2>5 DEF HeldByRemover
<1> QED
  BY <1>3, <1>4, <1>5

LEMMA ClientStep == ClientInv /\ [Client!Next]_clientVars => ClientInv'
<1> SUFFICES ASSUME ClientInv, [Client!Next]_clientVars PROVE ClientInv'
  OBVIOUS
<1>1. CASE UNCHANGED clientVars
  BY <1>1 DEF clientVars, ClientInv, Client!TypeOK, HeldBySetup, HeldByRemover,
              Client!EditsKept
<1> QED
  BY <1>1, ClientEdit, ClientSetup, ClientRemove DEF Client!Next

-----------------------------------------------------------------------------
(* A window of the data log (LogWindow).                                    *)

W == Window!Window

Timers == [epoch : 0 .. MaxAdds, left : 0 .. W]

\* What the window counts, shows and says of itself.
Counted ==
  /\ lines.pieces + count = pieces /\ lines.bytes + total = bytes
  /\ pieces = adds /\ epoch <= lines.pieces
  /\ count = 0 => total = 0
  /\ shown = (IF total > MaxContent THEN MaxContent ELSE total)
  /\ truncated <=> total > MaxContent

\* Timers are of this epoch or of earlier ones, and the open window has its own,
\* which goes off when the window is as old as it may become.
Timed ==
  /\ timer = IF count = 0 THEN Window!None ELSE epoch
  /\ \A t \in armed : /\ t.epoch <= epoch
                      /\ t.epoch = epoch => count > 0 /\ t.left + age = W
  /\ \A e \in callbacks : /\ e <= epoch
                          /\ e = epoch => count > 0 /\ age = W
  /\ count > 0 => epoch \in callbacks \/ \E t \in armed : t.epoch = epoch
WindowInv == Window!TypeOK /\ Counted /\ Timed /\ ~cut

LEMMA WindowTypes ==
  ASSUME WindowInv
  PROVE  /\ count \in 0 .. MaxAdds /\ total \in Nat /\ shown \in 0 .. MaxContent
         /\ truncated \in BOOLEAN /\ epoch \in 0 .. MaxAdds
         /\ armed \subseteq Timers /\ callbacks \subseteq 0 .. MaxAdds
         /\ age \in 0 .. W /\ adds \in 0 .. MaxAdds /\ flushes \in 0 .. MaxFlushes
         /\ pieces \in 0 .. MaxAdds /\ bytes \in Nat
         /\ lines.pieces \in 0 .. MaxAdds /\ lines.bytes \in Nat /\ cut = FALSE
         /\ Counted /\ Timed
         /\ MaxAdds \in Nat /\ MaxContent \in Nat /\ MaxFlushes \in Nat /\ W = 2
BY WindowAssumption
   DEF WindowInv, Window!TypeOK, Window!Epochs, Timers, W, Window!Window

LEMMA WindowInit == Window!Init => WindowInv
<1> SUFFICES ASSUME Window!Init PROVE WindowInv
  OBVIOUS
<1>1. /\ count = 0 /\ total = 0 /\ shown = 0 /\ truncated = FALSE
      /\ timer = Window!None /\ epoch = 0 /\ armed = {} /\ callbacks = {} /\ age = 0
      /\ adds = 0 /\ flushes = 0 /\ pieces = 0 /\ bytes = 0 /\ cut = FALSE
      /\ lines = [pieces |-> 0, bytes |-> 0]
  BY DEF Window!Init
<1>2. Window!TypeOK
  <2>1. /\ 0 \in 0 .. MaxAdds /\ 0 \in 0 .. MaxContent /\ 0 \in 0 .. MaxFlushes
        /\ 0 \in 0 .. W
    BY WindowAssumption DEF W, Window!Window
  <2>2. lines \in [pieces : 0 .. MaxAdds, bytes : Nat]
    BY <1>1, <2>1
  <2>3. truncated \in BOOLEAN /\ cut \in BOOLEAN
    BY <1>1
  <2>4. armed \subseteq Timers /\ callbacks \subseteq 0 .. MaxAdds
    BY <1>1
  <2> QED
    BY <1>1, <2>1, <2>2, <2>3, <2>4 DEF Window!TypeOK, Window!Epochs, Timers, W
<1>3. Counted
  BY <1>1, WindowAssumption DEF Counted
<1>4. Timed
  BY <1>1 DEF Timed
<1> QED
  BY <1>1, <1>2, <1>3, <1>4 DEF WindowInv

LEMMA WindowAdd == WindowInv /\ Window!Add => WindowInv'
<1> SUFFICES ASSUME WindowInv, Window!Add PROVE WindowInv'
  OBVIOUS
<1>1. PICK n \in Sizes :
        /\ count' = count + 1 /\ total' = total + n
        /\ shown' = Window!Kept(shown, n)
        /\ truncated' = (truncated \/ n > MaxContent - shown)
        /\ pieces' = pieces + 1 /\ bytes' = bytes + n
  BY DEF Window!Add
<1>2. /\ adds < MaxAdds /\ adds' = adds + 1
      /\ UNCHANGED <<epoch, callbacks, flushes, lines, cut>>
  BY DEF Window!Add
<1>3. n \in Nat
  BY WindowAssumption
<1>4. /\ timer = Window!None <=> count = 0
      /\ timer' = epoch
      /\ count = 0 => age' = 0 /\ armed' = armed \cup {[epoch |-> epoch, left |-> W]}
      /\ count # 0 => UNCHANGED <<age, armed>>
  <2>1. timer = Window!None <=> count = 0
    BY WindowTypes DEF Timed, Window!None
  <2> QED
    BY <2>1, WindowTypes DEF Window!Add, W, Timed
<1>5. /\ shown' = (IF total' > MaxContent THEN MaxContent ELSE total')
      /\ truncated' <=> total' > MaxContent
  <2>1. shown' = IF n <= MaxContent - shown THEN shown + n ELSE MaxContent
    BY <1>1 DEF Window!Kept
  <2>2. /\ shown = (IF total > MaxContent THEN MaxContent ELSE total)
        /\ truncated <=> total > MaxContent
        /\ total \in Nat /\ MaxContent \in Nat /\ shown \in Nat
    BY WindowTypes DEF Counted
  <2>3. total' = total + n /\ (truncated' <=> truncated \/ n > MaxContent - shown)
    BY <1>1
  <2>4. shown' = (IF total' > MaxContent THEN MaxContent ELSE total')
    BY <1>3, <2>1, <2>2, <2>3
  <2>5. truncated' <=> total' > MaxContent
    <3>1. (total > MaxContent \/ n > MaxContent - shown) <=> total' > MaxContent
      BY <1>3, <2>2, <2>3
    <3> QED
      BY <2>2, <2>3, <3>1
  <2> QED
    BY <2>4, <2>5
<1>6. Counted'
  <2>1. /\ lines.pieces + count = pieces /\ lines.bytes + total = bytes
        /\ pieces = adds /\ epoch <= lines.pieces
        /\ count \in Nat /\ total \in Nat /\ lines.pieces \in Nat /\ lines.bytes \in Nat
    BY WindowTypes DEF Counted
  <2>2. /\ lines'.pieces + count' = pieces' /\ lines'.bytes + total' = bytes'
        /\ pieces' = adds' /\ epoch' <= lines'.pieces /\ count' # 0
    BY <1>1, <1>2, <1>3, <2>1
  <2> QED
    BY <1>5, <2>2 DEF Counted
<1>7. Timed'
  <2>1. timer' = IF count' = 0 THEN Window!None ELSE epoch'
    BY <1>1, <1>2, <1>4, WindowTypes
  <2>2. CASE count = 0
    <3> DEFINE t0 == [epoch |-> epoch, left |-> W]
    <3>1. armed' = armed \cup {t0} /\ age' = 0 /\ count' = 1
      BY <1>1, <1>4, <2>2
    <3>2. \A t \in armed : t.epoch < epoch
      BY <2>2, WindowTypes DEF Timed, Timers
    <3>3. \A e \in callbacks : e < epoch
      BY <2>2, WindowTypes DEF Timed
    <3>4. t0.epoch = epoch /\ t0.left + 0 = W
      BY WindowTypes
    <3> HIDE DEF t0
    <3>5. \A t \in armed' : /\ t.epoch <= epoch'
                            /\ t.epoch = epoch' => count' > 0 /\ t.left + age' = W
      BY <1>2, <3>1, <3>2, <3>4, WindowTypes DEF Timers
    <3>6. \A e \in callbacks' : e <= epoch' /\ e # epoch'
      BY <1>2, <3>3, WindowTypes
    <3>7. \E t \in armed' : t.epoch = epoch'
      BY <1>2, <3>1, <3>4
    <3> QED
      BY <2>1, <3>5, <3>6, <3>7 DEF Timed
  <2>3. CASE count # 0
    <3>1. count > 0 /\ count' > 0 /\ UNCHANGED <<age, armed, callbacks, epoch>>
      BY <1>1, <1>2, <1>4, <2>3, WindowTypes
    <3> QED
      BY <2>1, <3>1, WindowTypes DEF Timed
  <2> QED
    BY <2>2, <2>3
<1>8. Window!TypeOK'
  <2>1. /\ count' \in 0 .. MaxAdds /\ total' \in Nat /\ adds' \in 0 .. MaxAdds
        /\ pieces' \in 0 .. MaxAdds /\ bytes' \in Nat
    BY <1>1, <1>2, <1>3, WindowTypes DEF Counted
  <2>2. shown' \in 0 .. MaxContent /\ truncated' \in BOOLEAN
    BY <1>1, <1>5, <2>1, WindowTypes
  <2>3. armed' \subseteq Timers /\ age' \in 0 .. W
    BY <1>4, WindowTypes DEF Timers
  <2>4. lines' \in [pieces : 0 .. MaxAdds, bytes : Nat] /\ cut' \in BOOLEAN
    BY <1>2 DEF WindowInv, Window!TypeOK
  <2>5. timer' \in Window!Epochs \cup {Window!None} /\ epoch' \in Window!Epochs
    BY <1>2, <1>4, WindowTypes DEF Window!Epochs
  <2> QED
    BY <1>2, <2>1, <2>2, <2>3, <2>4, <2>5, WindowTypes
       DEF Window!TypeOK, Window!Epochs, Timers, W
<1> QED
  BY <1>2, <1>6, <1>7, <1>8 DEF WindowInv

LEMMA WindowTick == WindowInv /\ Window!Tick => WindowInv'
<1> SUFFICES ASSUME WindowInv, Window!Tick PROVE WindowInv'
  OBVIOUS
<1>1. /\ \A t \in armed : t.left > 0
      /\ armed' = {[t EXCEPT !.left = @ - 1] : t \in armed}
      /\ age' = IF age < W THEN age + 1 ELSE age
      /\ UNCHANGED <<count, total, shown, truncated, timer, epoch, callbacks, adds,
                     flushes, pieces, bytes, lines, cut>>
  BY DEF Window!Tick, Window!windowVars, Window!history, W
<1>2. \A u \in armed' : \E t \in armed :
        u \in Timers /\ u.epoch = t.epoch /\ u.left = t.left - 1
  BY <1>1, WindowTypes DEF Timers
<1>3. \A t \in armed : \E u \in armed' : u.epoch = t.epoch
  <2> TAKE t \in armed
  <2>1. [t EXCEPT !.left = @ - 1] \in armed'
    BY <1>1
  <2>2. [t EXCEPT !.left = @ - 1].epoch = t.epoch
    BY WindowTypes DEF Timers
  <2> QED
    BY <2>1, <2>2
<1>4. age' \in 0 .. W
  BY <1>1, WindowTypes
<1>5. Window!TypeOK'
  BY <1>1, <1>2, <1>4 DEF WindowInv, Window!TypeOK, Timers, Window!Epochs, W
<1>6. Counted'
  BY <1>1, WindowTypes DEF Counted
<1>7. Timed'
  <2>1. \A u \in armed' : /\ u.epoch <= epoch'
                          /\ u.epoch = epoch' => count' > 0 /\ u.left + age' = W
    <3> TAKE u \in armed'
    <3>1. PICK t \in armed : u.epoch = t.epoch /\ u.left = t.left - 1
      BY <1>2
    <3>2. /\ t.epoch <= epoch /\ t.left > 0 /\ t.left \in Nat
          /\ t.epoch = epoch => count > 0 /\ t.left + age = W
      BY <1>1, WindowTypes DEF Timed, Timers
    <3> QED
      BY <1>1, <3>1, <3>2, WindowTypes
  <2>2. \A e \in callbacks' : /\ e <= epoch'
                              /\ e = epoch' => count' > 0 /\ age' = W
    BY <1>1, WindowTypes DEF Timed
  <2>3. count' > 0 => epoch' \in callbacks' \/ \E t \in armed' : t.epoch = epoch'
    BY <1>1, <1>3, WindowTypes DEF Timed
  <2>4. timer' = IF count' = 0 THEN Window!None ELSE epoch'
    BY <1>1, WindowTypes DEF Timed
  <2> QED
    BY <2>1, <2>2, <2>3, <2>4 DEF Timed
<1> QED
  BY <1>1, <1>5, <1>6, <1>7 DEF WindowInv

LEMMA WindowGoesOff == WindowInv /\ Window!GoesOff => WindowInv'
<1> SUFFICES ASSUME WindowInv, Window!GoesOff PROVE WindowInv'
  OBVIOUS
<1>1. PICK t \in armed : /\ t.left = 0 /\ armed' = armed \ {t}
                         /\ callbacks' = callbacks \cup {t.epoch}
  BY DEF Window!GoesOff
<1>2. UNCHANGED <<count, total, shown, truncated, timer, epoch, age, adds,
                  flushes, pieces, bytes, lines, cut>>
  BY DEF Window!GoesOff, Window!windowVars, Window!history
<1>3. t.epoch \in 0 .. MaxAdds
  BY WindowTypes DEF Timers
<1>4. Window!TypeOK'
  BY <1>1, <1>2, <1>3 DEF WindowInv, Window!TypeOK, Window!Epochs
<1>5. Counted'
  BY <1>2, WindowTypes DEF Counted
<1>6. Timed'
  <2>1. /\ t.epoch <= epoch
        /\ t.epoch = epoch => count > 0 /\ age = W
    BY <1>1, WindowTypes DEF Timed
  <2> QED
    BY <1>1, <1>2, <2>1, WindowTypes DEF Timed
<1> QED
  BY <1>2, <1>4, <1>5, <1>6 DEF WindowInv

\* The window ends, and what is left of timers is of earlier ones.
LEMMA WindowFlush ==
  ASSUME WindowInv, Window!FlushLocked,
         armed' \subseteq armed, callbacks' \subseteq callbacks,
         count = 0 => armed' = armed,
         UNCHANGED <<age, adds, pieces, bytes>>,
         flushes' \in 0 .. MaxFlushes, cut' = FALSE
  PROVE  WindowInv'
<1>1. CASE count = 0
  <2>1. /\ UNCHANGED <<count, total, shown, truncated, epoch, lines>>
        /\ timer' = Window!None
    BY <1>1 DEF Window!FlushLocked
  <2>2. Window!TypeOK'
    BY <2>1 DEF WindowInv, Window!TypeOK
  <2>3. Counted'
    BY <2>1, WindowTypes DEF Counted
  <2>4. Timed'
    BY <1>1, <2>1, WindowTypes DEF Timed
  <2> QED
    BY <2>2, <2>3, <2>4 DEF WindowInv
<1>2. CASE count # 0
  <2>1. /\ lines' = [pieces |-> lines.pieces + count, bytes |-> lines.bytes + total]
        /\ count' = 0 /\ total' = 0 /\ shown' = 0 /\ truncated' = FALSE
        /\ epoch' = epoch + 1 /\ timer' = Window!None
    BY <1>2 DEF Window!FlushLocked
  <2>2. /\ lines.pieces + count = pieces /\ lines.bytes + total = bytes
        /\ epoch <= lines.pieces
    BY WindowTypes DEF Counted
  <2>3. /\ lines'.pieces = pieces /\ lines'.bytes = bytes
        /\ lines' = [pieces |-> pieces, bytes |-> bytes]
        /\ epoch' <= lines'.pieces /\ epoch' \in 0 .. MaxAdds
    BY <1>2, <2>1, <2>2, WindowTypes
  <2>4. lines' \in [pieces : 0 .. MaxAdds, bytes : Nat]
    BY <2>3, WindowTypes
  <2>5. Window!TypeOK'
    <3>1. armed' \subseteq Timers /\ callbacks' \subseteq 0 .. MaxAdds
      BY WindowTypes
    <3>2. /\ count' \in 0 .. MaxAdds /\ total' \in Nat /\ shown' \in 0 .. MaxContent
          /\ age' \in 0 .. W /\ adds' \in 0 .. MaxAdds
          /\ pieces' \in 0 .. MaxAdds /\ bytes' \in Nat
      BY <2>1, WindowTypes
    <3>3. truncated' \in BOOLEAN /\ cut' \in BOOLEAN
      BY <2>1
    <3> QED
      BY <2>1, <2>3, <2>4, <3>1, <3>2, <3>3
         DEF Window!TypeOK, Window!Epochs, Timers, W
  <2>6. Counted'
    BY <2>1, <2>3, WindowTypes DEF Counted
  <2>7. Timed'
    <3>1. \A t \in armed' : t.epoch <= epoch' /\ t.epoch # epoch'
      BY <2>1, WindowTypes DEF Timed, Timers
    <3>2. \A e \in callbacks' : e <= epoch' /\ e # epoch'
      BY <2>1, WindowTypes DEF Timed
    <3> QED
      BY <2>1, <3>1, <3>2 DEF Timed
  <2> QED
    BY <2>5, <2>6, <2>7 DEF WindowInv
<1> QED
  BY <1>1, <1>2

LEMMA WindowFlushAt == WindowInv /\ Window!FlushAt => WindowInv'
<1> SUFFICES ASSUME WindowInv, Window!FlushAt PROVE WindowInv'
  OBVIOUS
<1>1. PICK e \in callbacks :
        /\ callbacks' = callbacks \ {e}
        /\ IF Window!OwnWindow(e)
           THEN Window!FlushLocked /\ cut' = (cut \/ (count # 0 /\ age < W))
           ELSE UNCHANGED <<Window!windowVars, lines, cut>>
  BY DEF Window!FlushAt, W
<1>2. UNCHANGED <<armed, age, adds, flushes, pieces, bytes>>
  BY DEF Window!FlushAt
<1>3. CASE e = epoch
  <2>1. Window!FlushLocked /\ cut' = (cut \/ (count # 0 /\ age < W))
    BY <1>1, <1>3 DEF Window!OwnWindow
  <2>2. age = W /\ ~(age < W)
    BY <1>3, WindowTypes DEF Timed
  <2>3. cut' = FALSE
    <3>1. cut = FALSE
      BY WindowTypes
    <3> QED
      BY <2>1, <2>2, <3>1
  <2> QED
    BY <1>1, <1>2, <2>1, <2>3, WindowTypes, WindowFlush
<1>4. CASE e # epoch
  <2>1. UNCHANGED <<count, total, shown, truncated, timer, epoch, lines, cut>>
    BY <1>1, <1>4 DEF Window!OwnWindow, Window!windowVars
  <2>2. Window!TypeOK'
    BY <1>1, <1>2, <2>1 DEF WindowInv, Window!TypeOK
  <2>3. Counted'
    BY <1>2, <2>1, WindowTypes DEF Counted
  <2>4. Timed'
    BY <1>1, <1>2, <1>4, <2>1, WindowTypes DEF Timed
  <2> QED
    BY <2>1, <2>2, <2>3, <2>4 DEF WindowInv
<1> QED
  BY <1>3, <1>4

LEMMA WindowFlushNow == WindowInv /\ Window!FlushNow => WindowInv'
<1> SUFFICES ASSUME WindowInv, Window!FlushNow PROVE WindowInv'
  OBVIOUS
<1>1. /\ Window!FlushLocked /\ flushes < MaxFlushes /\ flushes' = flushes + 1
      /\ armed' = IF timer = Window!None THEN armed
                  ELSE {t \in armed : t.epoch # timer}
      /\ UNCHANGED <<callbacks, age, adds, pieces, bytes, cut>>
  BY DEF Window!FlushNow
<1>2. armed' \subseteq armed /\ (count = 0 => armed' = armed)
  BY <1>1, WindowTypes DEF Timed
<1>3. flushes' \in 0 .. MaxFlushes /\ cut' = FALSE
  BY <1>1, WindowTypes
<1> QED
  BY <1>1, <1>2, <1>3, WindowFlush

LEMMA WindowStep == WindowInv /\ [Window!Next]_windowVars => WindowInv'
<1> SUFFICES ASSUME WindowInv, [Window!Next]_windowVars PROVE WindowInv'
  OBVIOUS
<1>1. CASE UNCHANGED windowVars
  BY <1>1 DEF windowVars, WindowInv, Window!TypeOK, Counted, Timed
<1> QED
  BY <1>1, WindowAdd, WindowTick, WindowGoesOff, WindowFlushAt, WindowFlushNow
     DEF Window!Next

LEMMA WindowRight == WindowInv => Window!TypeOK /\ Window!LogsComplete
<1> SUFFICES ASSUME WindowInv PROVE Window!TypeOK /\ Window!LogsComplete
  OBVIOUS
<1>1. Window!TypeOK /\ ~cut
  BY DEF WindowInv
<1> QED
  BY <1>1, WindowTypes DEF Counted, Timed, Window!LogsComplete

-----------------------------------------------------------------------------
(* The configuration moves to the directory of the user (Migration).        *)

\* Unless one of them stayed beside the program, all processes are for the
\* user's directory.
NobodyBeside == ~stayed => \A p \in Starters : proc[p].at = "target"

\* What a process has in its hands: a copy of the only file, until another
\* publishes one; a file that is in its place; settings it works with.
InHand ==
  \A p \in Starters :
    /\ proc[p].pc = "publish" =>
         /\ proc[p].holds # Moving!None
         /\ target = Moving!None /\ ~stayed => proc[p].holds = legacy
    /\ proc[p].pc = "remove" => target # Moving!None
    /\ proc[p].pc = "on" => proc[p].holds # Moving!None
MovingInv == Moving!TypeOK /\ NobodyBeside /\ InHand /\ Moving!LatestFound

MovingPcs == {"off", "resolve", "link", "read", "publish", "remove", "load", "on"}

LEMMA MovingTypes ==
  ASSUME MovingInv
  PROVE  /\ legacy \in Moving!Version /\ target \in Moving!Version
         /\ linked \in BOOLEAN /\ stayed \in BOOLEAN
         /\ proc \in [Starters -> Moving!Proc]
         /\ master \in Starters \cup {"nobody"}
         /\ starts \in 0 .. MaxStarts
         /\ latest \in Moving!Version
         /\ NobodyBeside /\ InHand /\ Moving!LatestFound
BY DEF MovingInv, Moving!TypeOK

LEMMA VersionFacts ==
  /\ Moving!None \in Moving!Version /\ Moving!Default \in Moving!Version
  /\ Moving!First \in Moving!Version
  /\ Moving!None # Moving!Default /\ Moving!None # Moving!First
  /\ \A v \in Moving!First + 1 .. MaxVersion :
        v \in Moving!Version /\ v # Moving!None
BY MovingAssumption
   DEF Moving!Version, Moving!None, Moving!Default, Moving!First

\* One process moves.
LEMMA ProcWith ==
  ASSUME NEW r \in Moving!Proc, NEW c \in MovingPcs
  PROVE  /\ [r EXCEPT !.pc = c] \in Moving!Proc
         /\ [r EXCEPT !.pc = c].pc = c /\ [r EXCEPT !.pc = c].at = r.at
         /\ [r EXCEPT !.pc = c].holds = r.holds
BY DEF Moving!Proc, MovingPcs

ProcsStay(p) ==
  /\ proc' \in [Starters -> Moving!Proc]
  /\ \A q \in Starters : q # p => proc'[q] = proc[q]

LEMMA ProcPut ==
  ASSUME proc \in [Starters -> Moving!Proc], NEW p \in Starters,
         NEW r \in Moving!Proc, proc' = [proc EXCEPT ![p] = r]
  PROVE  ProcsStay(p) /\ proc'[p] = r
BY DEF ProcsStay

LEMMA ProcGoEffect ==
  ASSUME MovingInv, NEW p \in Starters, NEW c \in MovingPcs, Moving!Go(p, c)
  PROVE  /\ ProcsStay(p) /\ proc'[p].pc = c /\ proc'[p].at = proc[p].at
         /\ proc'[p].holds = proc[p].holds
<1>1. proc \in [Starters -> Moving!Proc] /\ proc[p] \in Moving!Proc
  BY MovingTypes
<1> DEFINE r == [proc[p] EXCEPT !.pc = c]
<1>2. /\ r \in Moving!Proc /\ r.pc = c /\ r.at = proc[p].at
      /\ r.holds = proc[p].holds
  BY <1>1, ProcWith
<1>3. proc' = [proc EXCEPT ![p] = r]
  BY DEF Moving!Go
<1> HIDE DEF r
<1>4. ProcsStay(p) /\ proc'[p] = r
  BY <1>1, <1>2, <1>3, ProcPut
<1> QED
  BY <1>2, <1>4

LEMMA SettleEffect ==
  ASSUME MovingInv, NEW p \in Starters, NEW w \in {"legacy", "target"},
         Moving!Settle(p, w)
  PROVE  ProcsStay(p) /\ proc'[p].pc = "load" /\ proc'[p].at = w
<1>1. proc \in [Starters -> Moving!Proc] /\ proc[p] \in Moving!Proc
  BY MovingTypes
<1> DEFINE r == [proc[p] EXCEPT !.pc = "load", !.at = w]
<1>2. r \in Moving!Proc /\ r.pc = "load" /\ r.at = w
  BY <1>1 DEF Moving!Proc
<1>3. proc' = [proc EXCEPT ![p] = r]
  BY DEF Moving!Settle
<1> HIDE DEF r
<1>4. ProcsStay(p) /\ proc'[p] = r
  BY <1>1, <1>2, <1>3, ProcPut
<1> QED
  BY <1>2, <1>4

\* What a step of p may do to the files and to itself.
LEMMA MovingFrame ==
  ASSUME MovingInv, NEW p \in Starters, Moving!TypeOK', ProcsStay(p),
         stayed => stayed',
         ~stayed' => proc'[p].at = "target",
         target # Moving!None => target' # Moving!None,
         target' = Moving!None /\ ~stayed' => legacy' = legacy,
         proc'[p].pc = "publish" =>
           /\ proc'[p].holds # Moving!None
           /\ target' = Moving!None /\ ~stayed' => proc'[p].holds = legacy',
         proc'[p].pc = "remove" => target' # Moving!None,
         proc'[p].pc = "on" => proc'[p].holds # Moving!None,
         Moving!LatestFound'
  PROVE  MovingInv'
<1>1. NobodyBeside'
  BY MovingTypes DEF NobodyBeside, ProcsStay
<1>2. InHand'
  <2> SUFFICES ASSUME NEW q \in Starters
               PROVE  /\ proc'[q].pc = "publish" =>
                           /\ proc'[q].holds # Moving!None
                           /\ target' = Moving!None /\ ~stayed' => proc'[q].holds = legacy'
                      /\ proc'[q].pc = "remove" => target' # Moving!None
                      /\ proc'[q].pc = "on" => proc'[q].holds # Moving!None
    BY DEF InHand
  <2>1. CASE q = p
    BY <2>1
  <2>2. CASE q # p
    BY <2>2, MovingTypes DEF InHand, ProcsStay
  <2> QED
    BY <2>1, <2>2
<1> QED
  BY <1>1, <1>2 DEF MovingInv

LEMMA MovingInit == Moving!Init => MovingInv
<1> SUFFICES ASSUME Moving!Init PROVE MovingInv
  OBVIOUS
<1>1. /\ legacy \in {Moving!First, Moving!None} /\ target = Moving!None
      /\ linked = FALSE /\ proc = [p \in Starters |-> Moving!Off]
      /\ master = "nobody" /\ starts = 0 /\ latest = legacy /\ stayed = FALSE
  BY DEF Moving!Init
<1>2. /\ Moving!Off \in Moving!Proc /\ Moving!Off.pc = "off"
      /\ Moving!Off.at = "target"
  BY VersionFacts DEF Moving!Off, Moving!Proc
<1>3. Moving!TypeOK
  <2>1. starts \in 0 .. MaxStarts
    BY <1>1, MovingAssumption
  <2>2. linked \in BOOLEAN /\ stayed \in BOOLEAN
    BY <1>1
  <2> QED
    BY <1>1, <1>2, <2>1, <2>2, VersionFacts DEF Moving!TypeOK
<1> QED
  BY <1>1, <1>2, <1>3 DEF MovingInv, NobodyBeside, InHand, Moving!LatestFound

\* Steps that leave the files alone and the process where it is for.
LEMMA MovingPlain ==
  ASSUME MovingInv, NEW p \in Starters, NEW c \in MovingPcs \ {"publish", "remove", "on"},
         Moving!Go(p, c), starts' \in 0 .. MaxStarts,
         UNCHANGED <<legacy, target, linked, master, latest, stayed>>
  PROVE  MovingInv'
<1>1. ProcsStay(p) /\ proc'[p].pc = c /\ proc'[p].at = proc[p].at
  BY ProcGoEffect
<1>2. Moving!TypeOK'
  BY <1>1, MovingTypes DEF Moving!TypeOK, ProcsStay
<1>3. Moving!LatestFound'
  BY MovingTypes DEF Moving!LatestFound
<1>4. ~stayed' => proc'[p].at = "target"
  BY <1>1, MovingTypes DEF NobodyBeside
<1> QED
  BY <1>1, <1>2, <1>3, <1>4, MovingFrame

LEMMA MovingAdopts ==
  ASSUME MovingInv, NEW p \in Starters, Moving!Adopt(p),
         UNCHANGED <<legacy, target, linked, master, starts, latest>>
  PROVE  MovingInv'
<1>1. ProcsStay(p) /\ proc'[p].pc = "load" /\ proc'[p].at = "target"
      /\ UNCHANGED stayed
  BY SettleEffect DEF Moving!Adopt
<1>2. Moving!TypeOK'
  BY <1>1, MovingTypes DEF Moving!TypeOK, ProcsStay
<1>3. Moving!LatestFound'
  BY <1>1, MovingTypes DEF Moving!LatestFound
<1> QED
  BY <1>1, <1>2, <1>3, MovingFrame

LEMMA MovingStays ==
  ASSUME MovingInv, NEW p \in Starters, Moving!Stay(p),
         UNCHANGED <<legacy, target, linked, master, starts, latest>>
  PROVE  MovingInv'
<1>1. ProcsStay(p) /\ proc'[p].pc = "load" /\ stayed' = TRUE
  BY SettleEffect DEF Moving!Stay
<1>2. Moving!TypeOK'
  BY <1>1, MovingTypes DEF Moving!TypeOK, ProcsStay
<1>3. Moving!LatestFound'
  BY <1>1 DEF Moving!LatestFound
<1> QED
  BY <1>1, <1>2, <1>3, MovingFrame

\* The only file gets its new name.
LEMMA MovingPublished ==
  ASSUME MovingInv, NEW p \in Starters, Moving!Next1(p, "remove"),
         target = Moving!None, target' \in Moving!Version, target' # Moving!None,
         ~stayed => target' = legacy, linked' \in BOOLEAN,
         UNCHANGED <<legacy, master, starts, latest>>
  PROVE  MovingInv'
<1>1. /\ ProcsStay(p) /\ proc'[p].pc = "remove" /\ proc'[p].at = proc[p].at
      /\ UNCHANGED stayed
  BY ProcGoEffect DEF Moving!Next1, MovingPcs
<1>2. Moving!TypeOK'
  BY <1>1, MovingTypes DEF Moving!TypeOK, ProcsStay
<1>3. Moving!LatestFound'
  BY <1>1, MovingTypes DEF Moving!LatestFound
<1>4. ~stayed' => proc'[p].at = "target"
  BY <1>1, MovingTypes DEF NobodyBeside
<1> QED
  BY <1>1, <1>2, <1>3, <1>4, MovingFrame

LEMMA MovingLink ==
  ASSUME MovingInv, NEW p \in Starters, Moving!Link(p) PROVE MovingInv'
<1>1. UNCHANGED <<master, starts, latest>>
  BY DEF Moving!Link
<1>2. CASE Moving!Adopt(p) /\ UNCHANGED Moving!fileVars
  BY <1>1, <1>2, MovingAdopts DEF Moving!fileVars
<1>3. CASE Moving!Stay(p) /\ UNCHANGED Moving!fileVars
  BY <1>1, <1>3, MovingStays DEF Moving!fileVars
<1>4. CASE Moving!Next1(p, "read") /\ UNCHANGED Moving!fileVars
  BY <1>1, <1>4, MovingPlain, MovingTypes DEF Moving!fileVars, Moving!Next1, MovingPcs
<1>5. CASE /\ target = Moving!None /\ legacy # Moving!None
           /\ target' = legacy /\ linked' = TRUE /\ Moving!Next1(p, "remove")
           /\ UNCHANGED legacy
  <2>1. linked' \in BOOLEAN /\ target' \in Moving!Version /\ target' # Moving!None
    BY <1>5, MovingTypes
  <2> QED
    BY <1>1, <1>5, <2>1, MovingPublished
<1> QED
  BY <1>2, <1>3, <1>4, <1>5 DEF Moving!Link

LEMMA MovingRead ==
  ASSUME MovingInv, NEW p \in Starters, Moving!Read(p) PROVE MovingInv'
<1>1. UNCHANGED <<legacy, target, linked, master, starts, latest>>
  BY DEF Moving!Read, Moving!fileVars
<1>2. CASE /\ legacy # Moving!None /\ UNCHANGED stayed
           /\ proc' = [proc EXCEPT ![p].pc = "publish", ![p].holds = legacy]
  <2>1. proc \in [Starters -> Moving!Proc] /\ proc[p] \in Moving!Proc
    BY MovingTypes
  <2> DEFINE r == [proc[p] EXCEPT !.pc = "publish", !.holds = legacy]
  <2>2. /\ r \in Moving!Proc /\ r.pc = "publish" /\ r.at = proc[p].at
        /\ r.holds = legacy
    BY <2>1, MovingTypes DEF Moving!Proc
  <2>3. proc' = [proc EXCEPT ![p] = r]
    BY <1>2
  <2> HIDE DEF r
  <2>4. ProcsStay(p) /\ proc'[p] = r
    BY <2>1, <2>2, <2>3, ProcPut
  <2>5. Moving!TypeOK'
    BY <1>1, <1>2, <2>4, MovingTypes DEF Moving!TypeOK, ProcsStay
  <2>6. Moving!LatestFound'
    BY <1>1, <1>2, MovingTypes DEF Moving!LatestFound
  <2>7. ~stayed' => proc'[p].at = "target"
    BY <1>2, <2>2, <2>4, MovingTypes DEF NobodyBeside
  <2> QED
    BY <1>1, <1>2, <2>2, <2>4, <2>5, <2>6, <2>7, MovingFrame
<1>3. CASE Moving!Stay(p)
  BY <1>1, <1>3, MovingStays
<1> QED
  BY <1>2, <1>3 DEF Moving!Read

LEMMA MovingPublish ==
  ASSUME MovingInv, NEW p \in Starters, Moving!Publish(p) PROVE MovingInv'
<1>1. proc[p].pc = "publish" /\ UNCHANGED <<master, starts, latest>>
  BY DEF Moving!Publish, Moving!At
<1>2. CASE Moving!Adopt(p) /\ UNCHANGED Moving!fileVars
  BY <1>1, <1>2, MovingAdopts DEF Moving!fileVars
<1>3. CASE Moving!Stay(p) /\ UNCHANGED Moving!fileVars
  BY <1>1, <1>3, MovingStays DEF Moving!fileVars
<1>4. CASE /\ target = Moving!None
           /\ target' = proc[p].holds /\ linked' = FALSE /\ Moving!Next1(p, "remove")
           /\ UNCHANGED legacy
  <2>1. /\ proc[p].holds # Moving!None /\ (~stayed => proc[p].holds = legacy)
        /\ proc[p].holds \in Moving!Version
    BY <1>1, <1>4, MovingTypes DEF InHand, Moving!Proc
  <2>2. linked' \in BOOLEAN
    BY <1>4
  <2> QED
    BY <1>1, <1>4, <2>1, <2>2, MovingPublished
<1> QED
  BY <1>2, <1>3, <1>4 DEF Moving!Publish

LEMMA MovingRemove ==
  ASSUME MovingInv, NEW p \in Starters, Moving!Remove(p) PROVE MovingInv'
<1>1. /\ target # Moving!None /\ UNCHANGED <<target, master, starts, latest>>
      /\ Moving!Adopt(p)
  BY MovingTypes DEF Moving!Remove, Moving!At, InHand, Moving!fileVars
<1>2. /\ ProcsStay(p) /\ proc'[p].pc = "load" /\ proc'[p].at = "target"
      /\ UNCHANGED stayed
  BY <1>1, SettleEffect DEF Moving!Adopt
<1>3. legacy' \in Moving!Version /\ linked' \in BOOLEAN
  BY MovingTypes, VersionFacts DEF Moving!Remove, Moving!fileVars
<1>4. Moving!TypeOK'
  BY <1>1, <1>2, <1>3, MovingTypes DEF Moving!TypeOK, ProcsStay
<1>5. Moving!LatestFound'
  BY <1>1, <1>2, MovingTypes DEF Moving!LatestFound
<1> QED
  BY <1>1, <1>2, <1>4, <1>5, MovingFrame

LEMMA MovingLoad ==
  ASSUME MovingInv, NEW p \in Starters, Moving!Load(p) PROVE MovingInv'
<1>1. UNCHANGED <<legacy, target, linked, master, starts, latest, stayed>>
  BY DEF Moving!Load, Moving!fileVars
<1> DEFINE v == IF Moving!FileAt(p) = Moving!None THEN Moving!Default
                ELSE Moving!FileAt(p)
           r == [proc[p] EXCEPT !.pc = "on", !.holds = v]
<1>2. v \in Moving!Version /\ v # Moving!None
  BY VersionFacts, MovingTypes DEF Moving!FileAt
<1>3. proc' = [proc EXCEPT ![p] = r]
  BY DEF Moving!Load
<1>4. proc \in [Starters -> Moving!Proc] /\ proc[p] \in Moving!Proc
  BY MovingTypes
<1> HIDE DEF v
<1>5. r \in Moving!Proc /\ r.pc = "on" /\ r.at = proc[p].at /\ r.holds = v
  BY <1>2, <1>4 DEF Moving!Proc
<1> HIDE DEF r
<1>6. ProcsStay(p) /\ proc'[p] = r
  BY <1>3, <1>4, <1>5, ProcPut
<1>7. Moving!TypeOK'
  BY <1>1, <1>6, MovingTypes DEF Moving!TypeOK, ProcsStay
<1>8. Moving!LatestFound'
  BY <1>1, MovingTypes DEF Moving!LatestFound
<1>9. ~stayed' => proc'[p].at = "target"
  BY <1>1, <1>5, <1>6, MovingTypes DEF NobodyBeside
<1> QED
  BY <1>1, <1>2, <1>5, <1>6, <1>7, <1>8, <1>9, MovingFrame

\* A master saves what is a file.
LEMMA MovingSaves ==
  ASSUME MovingInv, NEW p \in Starters, NEW v \in Moving!Version, v # Moving!None,
         Moving!Save(p, v), proc[p].pc = "on",
         master' \in Starters \cup {"nobody"}, UNCHANGED <<proc, starts, stayed>>
  PROVE  MovingInv'
<1>1. latest' = v /\ UNCHANGED linked
  BY DEF Moving!Save
<1>2. legacy' \in Moving!Version /\ target' \in Moving!Version
  BY MovingTypes DEF Moving!Save
<1>3. /\ target # Moving!None => target' # Moving!None
      /\ ~stayed => target' = v
  <2>1. CASE proc[p].at = "target"
    BY <2>1 DEF Moving!Save
  <2>2. CASE proc[p].at # "target"
    BY <2>2, MovingTypes DEF Moving!Save, NobodyBeside
  <2> QED
    BY <2>1, <2>2
<1>4. ProcsStay(p)
  BY MovingTypes DEF ProcsStay
<1>5. Moving!TypeOK'
  BY <1>1, <1>2, MovingTypes DEF Moving!TypeOK
<1>6. Moving!LatestFound'
  BY <1>1, <1>3 DEF Moving!LatestFound
<1>7. /\ ~stayed' => proc'[p].at = "target"
      /\ proc'[p].pc = "on" /\ proc'[p].holds # Moving!None
  BY MovingTypes DEF NobodyBeside, InHand
<1> QED
  BY <1>3, <1>4, <1>5, <1>6, <1>7, MovingFrame

LEMMA MovingMaster ==
  ASSUME MovingInv, NEW p \in Starters, Moving!BecomeMaster(p) \/ Moving!SaveNew(p)
  PROVE  MovingInv'
<1>1. CASE Moving!BecomeMaster(p)
  <2>1. /\ proc[p].pc = "on" /\ master' = p /\ Moving!Save(p, proc[p].holds)
        /\ UNCHANGED <<proc, starts, stayed>>
    BY <1>1 DEF Moving!BecomeMaster, Moving!At
  <2>2. proc[p].holds # Moving!None /\ proc[p].holds \in Moving!Version
    BY <2>1, MovingTypes DEF InHand, Moving!Proc
  <2> QED
    BY <2>1, <2>2, MovingSaves
<1>2. CASE Moving!SaveNew(p)
  <2>1. proc[p].pc = "on" /\ UNCHANGED <<proc, master, starts, stayed>>
    BY <1>2 DEF Moving!SaveNew, Moving!At
  <2>2. PICK v \in Moving!First + 1 .. MaxVersion : Moving!Save(p, v)
    BY <1>2 DEF Moving!SaveNew
  <2>3. v \in Moving!Version /\ v # Moving!None
    BY VersionFacts
  <2> QED
    BY <2>1, <2>2, <2>3, MovingSaves, MovingTypes
<1> QED
  BY <1>1, <1>2

LEMMA MovingEnd ==
  ASSUME MovingInv, NEW p \in Starters, Moving!End(p) PROVE MovingInv'
<1>1. /\ proc' = [proc EXCEPT ![p] = Moving!Off]
      /\ UNCHANGED <<legacy, target, linked, starts, latest, stayed>>
      /\ master' \in {master, "nobody"}
  BY DEF Moving!End, Moving!fileVars
<1>2. /\ Moving!Off \in Moving!Proc /\ Moving!Off.pc = "off"
      /\ Moving!Off.at = "target"
  BY VersionFacts DEF Moving!Off, Moving!Proc
<1>3. ProcsStay(p) /\ proc'[p] = Moving!Off
  BY <1>1, <1>2, ProcPut, MovingTypes
<1>4. Moving!TypeOK'
  BY <1>1, <1>3, MovingTypes DEF Moving!TypeOK, ProcsStay
<1>5. Moving!LatestFound'
  BY <1>1, MovingTypes DEF Moving!LatestFound
<1> QED
  BY <1>1, <1>2, <1>3, <1>4, <1>5, MovingFrame

LEMMA MovingStep == MovingInv /\ [Moving!Next]_movingVars => MovingInv'
<1> SUFFICES ASSUME MovingInv, [Moving!Next]_movingVars PROVE MovingInv'
  OBVIOUS
<1>1. CASE UNCHANGED movingVars
  BY <1>1 DEF movingVars, MovingInv, Moving!TypeOK, NobodyBeside, InHand,
              Moving!LatestFound
<1>2. ASSUME NEW p \in Starters, Moving!Start(p) PROVE MovingInv'
  <2>1. /\ starts' = starts + 1 /\ starts < MaxStarts
        /\ Moving!Go(p, "resolve")
        /\ UNCHANGED <<legacy, target, linked, master, latest, stayed>>
    BY <1>2 DEF Moving!Start, Moving!fileVars
  <2>2. starts' \in 0 .. MaxStarts
    BY <2>1, MovingAssumption, MovingTypes
  <2> QED
    BY <2>1, <2>2, MovingPlain DEF MovingPcs
<1>3. ASSUME NEW p \in Starters, Moving!Resolve(p) PROVE MovingInv'
  <2>1. UNCHANGED <<legacy, target, linked, master, starts, latest>>
    BY <1>3 DEF Moving!Resolve, Moving!fileVars
  <2>2. CASE Moving!Next1(p, "link")
    BY <2>1, <2>2, MovingPlain, MovingTypes DEF Moving!Next1, MovingPcs
  <2>3. CASE Moving!Adopt(p)
    BY <2>1, <2>3, MovingAdopts
  <2> QED
    BY <1>3, <2>2, <2>3 DEF Moving!Resolve
<1> QED
  BY <1>1, <1>2, <1>3, MovingLink, MovingRead, MovingPublish, MovingRemove,
     MovingLoad, MovingMaster, MovingEnd DEF Moving!Next

-----------------------------------------------------------------------------
(* The directory of the program (InstallDir).                               *)

\* What an upgrade puts in the place of the program has been verified, and what
\* it puts aside was the program.
Sound ==
  /\ exe \in {"none", "old", "new"}
  /\ \A u \in Upgraders :
       /\ backup[u] \in {"none", "old", "new"}
       /\ up[u].pc \in {"write", "swap", "install"} => up[u].got = "new"
       /\ up[u].pc \in {"swap", "install"} => temp[u] = "new"

\* A backup that is to be deleted is of an upgrade that is over; without a
\* program there is a backup that is not to be deleted.
Aside ==
  /\ \A u \in deleting : up[u].pc \in {"tidy", "done"}
  /\ exe = "none" => \/ removed
                     \/ \E u \in Upgraders : backup[u] # "none" /\ u \notin deleting

\* What an uninstall that did not fail has left when it gets to the state, the
\* files and the program.
Bare == stripped \/ (docs = {} /\ scripts = {})
Progress ==
  /\ un.pc = "remove" => docs \cup scripts \subseteq un.todo
  /\ un.pc \in {"entries", "state"} => un.layout \/ Bare
  /\ un.pc = "late" => ~un.failed
  /\ ~un.failed =>
       /\ un.pc \in {"state", "list", "remove", "binary", "late"} =>
            (entries => un.manual)
       /\ un.pc \in {"list", "remove", "binary", "late"} => ~state
       /\ un.pc \in {"binary", "late"} => Bare
DirInv == /\ Dir!TypeOK /\ Sound /\ Aside /\ Progress
          /\ Dir!Recognised /\ Dir!NothingStranded

UpPcs == {"idle", "pick", "download", "prepare", "write", "swap", "install",
          "rollback", "tidy", "done"}
UnPcs == {"idle", "entries", "state", "list", "remove", "binary", "late"}

LEMMA DirTypes ==
  ASSUME DirInv
  PROVE  /\ windows \in BOOLEAN /\ exe \in {"none", "old", "new"}
         /\ backup \in [Upgraders -> Dir!Programs] /\ temp \in [Upgraders -> Dir!Programs]
         /\ docs \subseteq Docs /\ scripts \subseteq Dir!Launchers
         /\ state \in BOOLEAN /\ entries \in BOOLEAN /\ removed \in BOOLEAN
         /\ finished \in BOOLEAN /\ stripped \in BOOLEAN
         /\ up \in [Upgraders -> Dir!Up] /\ deleting \subseteq Upgraders
         /\ un \in Dir!Un /\ uninstalls \in 0 .. MaxUninstalls
         /\ Sound /\ Aside /\ Progress /\ Dir!Recognised /\ Dir!NothingStranded
BY DEF DirInv, Sound, Dir!TypeOK

LEMMA LayoutFact ==
  \A s, b : Dir!HasLayout(s, b) <=> s # {} \/ \E u \in Upgraders : b[u] # "none"
BY DEF Dir!HasLayout, Dir!Backups

-----------------------------------------------------------------------------
(* How the steps change the records.                                        *)

LEMMA UpWith ==
  ASSUME NEW r \in Dir!Up, NEW c \in UpPcs
  PROVE  /\ [r EXCEPT !.pc = c] \in Dir!Up
         /\ [r EXCEPT !.pc = c].pc = c /\ [r EXCEPT !.pc = c].got = r.got
BY DEF Dir!Up, UpPcs

\* One upgrade moves.
Upgrades(u) ==
  /\ up' \in [Upgraders -> Dir!Up]
  /\ \A v \in Upgraders : v # u => up'[v] = up[v]

LEMMA UpPut ==
  ASSUME DirInv, NEW u \in Upgraders, NEW r \in Dir!Up, up' = [up EXCEPT ![u] = r]
  PROVE  Upgrades(u) /\ up'[u] = r
BY DirTypes DEF Upgrades

LEMMA UpGoEffect ==
  ASSUME DirInv, NEW u \in Upgraders, NEW c \in UpPcs, Dir!UpGo(u, c)
  PROVE  Upgrades(u) /\ up'[u].pc = c /\ up'[u].got = up[u].got
<1> DEFINE r == [up[u] EXCEPT !.pc = c]
<1>1. r \in Dir!Up /\ r.pc = c /\ r.got = up[u].got
  BY UpWith, DirTypes
<1>2. up' = [up EXCEPT ![u] = r]
  BY DEF Dir!UpGo
<1> HIDE DEF r
<1> QED
  BY <1>1, <1>2, UpPut

LEMMA DirEndEffect ==
  ASSUME DirInv, NEW u \in Upgraders, Dir!End(u)
  PROVE  Upgrades(u) /\ up'[u].pc = "done"
<1>1. Dir!Done \in Dir!Up /\ Dir!Done.pc = "done"
  BY DEF Dir!Done, Dir!Up
<1>2. up' = [up EXCEPT ![u] = Dir!Done]
  BY DEF Dir!End
<1> QED
  BY <1>1, <1>2, UpPut

LEMMA GiveUpEffect ==
  ASSUME DirInv, NEW u \in Upgraders, Dir!GiveUp(u)
  PROVE  /\ Upgrades(u) /\ up'[u].pc = "done"
         /\ temp' \in [Upgraders -> Dir!Programs]
         /\ \A v \in Upgraders : v # u => temp'[v] = temp[v]
<1>1. Upgrades(u) /\ up'[u].pc = "done"
  BY DirEndEffect DEF Dir!GiveUp
<1>2. "none" \in Dir!Programs /\ temp' = [temp EXCEPT ![u] = "none"]
  BY DEF Dir!Programs, Dir!GiveUp
<1> QED
  BY <1>1, <1>2, DirTypes

\* A file of one upgrade is replaced.
LEMMA OneFile ==
  ASSUME NEW f \in [Upgraders -> Dir!Programs], NEW u \in Upgraders,
         NEW p \in Dir!Programs, NEW g, g = [f EXCEPT ![u] = p]
  PROVE  /\ g \in [Upgraders -> Dir!Programs] /\ g[u] = p
         /\ \A v \in Upgraders : v # u => g[v] = f[v]
OBVIOUS

-----------------------------------------------------------------------------
(* serialhub upgrade.                                                       *)

\* What a step of the upgrade u may do to itself, to the program, to its files
\* and to what marks the directory.
LEMMA UpFrame ==
  ASSUME DirInv, NEW u \in Upgraders, Upgrades(u),
         UNCHANGED <<windows, docs, state, entries, un, uninstalls, removed, finished>>,
         exe' \in {"none", "old", "new"},
         temp' \in [Upgraders -> Dir!Programs],
         \A v \in Upgraders : v # u => temp'[v] = temp[v],
         backup' \in [Upgraders -> Dir!Programs],
         \A v \in Upgraders : v # u => backup'[v] = backup[v],
         backup'[u] \in {"none", "old", "new"},
         up'[u].pc \in {"write", "swap", "install"} => up'[u].got = "new",
         up'[u].pc \in {"swap", "install"} => temp'[u] = "new",
         scripts' \subseteq scripts,
         deleting' \subseteq deleting \cup {u},
         u \in deleting' => up'[u].pc \in {"tidy", "done"},
         exe' = "none" => \/ removed
                          \/ \E v \in Upgraders : backup'[v] # "none" /\ v \notin deleting',
         stripped' \in BOOLEAN, stripped => stripped',
         Dir!Recognised'
  PROVE  DirInv'
<1>1. Dir!TypeOK'
  <2>1. exe' \in Dir!Programs
    BY DEF Dir!Programs
  <2>2. deleting' \subseteq Upgraders /\ scripts' \subseteq Dir!Launchers
    BY DirTypes
  <2>3. {state', entries', removed', finished', stripped'} \subseteq BOOLEAN
    BY DirTypes
  <2> QED
    BY <2>1, <2>2, <2>3, DirTypes DEF Dir!TypeOK, Upgrades
<1>2. Sound'
  <2> SUFFICES ASSUME NEW v \in Upgraders
               PROVE  /\ backup'[v] \in {"none", "old", "new"}
                      /\ up'[v].pc \in {"write", "swap", "install"} => up'[v].got = "new"
                      /\ up'[v].pc \in {"swap", "install"} => temp'[v] = "new"
    BY DEF Sound
  <2>1. CASE v = u
    BY <2>1
  <2>2. CASE v # u
    BY <2>2, DirTypes DEF Sound, Upgrades
  <2> QED
    BY <2>1, <2>2
<1>3. Aside'
  <2>1. \A v \in deleting' : up'[v].pc \in {"tidy", "done"}
    BY DirTypes DEF Aside, Upgrades
  <2> QED
    BY <2>1 DEF Aside
<1>4. Bare => Bare'
  BY DEF Bare
<1>5. Progress'
  BY <1>4, DirTypes DEF Progress
<1>6. Dir!NothingStranded'
  BY DirTypes DEF Dir!NothingStranded
<1> QED
  BY <1>1, <1>2, <1>3, <1>5, <1>6 DEF DirInv

\* A step that keeps the marks, and one that looks whether it took the last.
LEMMA MarksKept ==
  ASSUME DirInv, UNCHANGED <<docs, scripts, stripped>>,
         \A v \in Upgraders : backup[v] # "none" => backup'[v] # "none"
  PROVE  Dir!Recognised'
BY DirTypes, LayoutFact DEF Dir!Recognised

LEMMA MarksSeen ==
  ASSUME DirInv, Dir!Strips, UNCHANGED docs
  PROVE  Dir!Recognised' /\ stripped' \in BOOLEAN /\ (stripped => stripped')
<1>1. stripped' <=> \/ stripped
                    \/ /\ docs # {} /\ Dir!HasLayout(scripts, backup)
                       /\ ~Dir!HasLayout(scripts', backup')
  BY DEF Dir!Strips
<1>2. stripped' \in BOOLEAN
  BY DEF Dir!Strips
<1> QED
  BY <1>1, <1>2, DirTypes DEF Dir!Recognised

\* Steps that touch no file but the temporary one.
LEMMA UpEarly ==
  ASSUME DirInv, NEW u \in Upgraders, Upgrades(u),
         UNCHANGED <<windows, exe, backup, docs, scripts, state, entries, deleting, un,
                     uninstalls, removed, finished, stripped>>,
         temp' \in [Upgraders -> Dir!Programs],
         \A v \in Upgraders : v # u => temp'[v] = temp[v],
         up'[u].pc \in {"write", "swap"} => up'[u].got = "new",
         up'[u].pc = "swap" => temp'[u] = "new",
         up'[u].pc # "install",
         up[u].pc \in {"tidy", "done"} => up'[u].pc \in {"tidy", "done"}
  PROVE  DirInv'
<1>1. Dir!Recognised'
  BY MarksKept
<1>2. backup' \in [Upgraders -> Dir!Programs] /\ backup'[u] \in {"none", "old", "new"}
  BY DirTypes DEF Sound
<1>3. u \in deleting' => up'[u].pc \in {"tidy", "done"}
  BY DirTypes DEF Aside
<1>4. exe' = "none" => \/ removed
                       \/ \E v \in Upgraders : backup'[v] # "none" /\ v \notin deleting'
  BY DirTypes DEF Aside
<1> QED
  BY <1>1, <1>2, <1>3, <1>4, UpFrame, DirTypes

LEMMA DirDownload ==
  ASSUME DirInv, NEW u \in Upgraders,
         Dir!Fetch(u) \/ Dir!PickAssets(u) \/ Dir!Download(u)
  PROVE  DirInv'
<1>1. /\ up[u].pc \in {"idle", "pick", "download"}
      /\ UNCHANGED <<windows, exe, backup, temp, docs, scripts, state, entries,
                     deleting, un, uninstalls, removed, finished, stripped>>
  BY DEF Dir!Fetch, Dir!PickAssets, Dir!Download, Dir!UpAt, Dir!dirVars, Dir!unVars
<1>2. CASE \E c \in {"pick", "download", "done"} : Dir!UpGo(u, c)
  <2>1. PICK c \in {"pick", "download", "done"} : Dir!UpGo(u, c)
    BY <1>2
  <2>2. Upgrades(u) /\ up'[u].pc = c
    BY <2>1, UpGoEffect DEF UpPcs
  <2> QED
    BY <1>1, <2>2, UpEarly, DirTypes
<1>3. CASE \E got \in {"new", "bad"}, sum \in {"new", "empty"} :
             up' = [up EXCEPT ![u] = [pc |-> "prepare", got |-> got, sum |-> sum]]
  <2>1. PICK got \in {"new", "bad"}, sum \in {"new", "empty"} :
             up' = [up EXCEPT ![u] = [pc |-> "prepare", got |-> got, sum |-> sum]]
    BY <1>3
  <2> DEFINE r == [pc |-> "prepare", got |-> got, sum |-> sum]
  <2>2. r \in Dir!Up /\ r.pc = "prepare"
    BY DEF Dir!Up
  <2> HIDE DEF r
  <2>3. Upgrades(u) /\ up'[u] = r
    BY <2>1, <2>2, UpPut DEF r
  <2> QED
    BY <1>1, <2>2, <2>3, UpEarly, DirTypes
<1> QED
  BY <1>2, <1>3 DEF Dir!Fetch, Dir!PickAssets, Dir!Download

LEMMA DirGivesUp ==
  ASSUME DirInv, NEW u \in Upgraders, Dir!GiveUp(u),
         UNCHANGED <<windows, exe, backup, docs, scripts, state, entries, deleting, un,
                     uninstalls, removed, finished, stripped>>
  PROVE  DirInv'
<1>1. /\ Upgrades(u) /\ up'[u].pc = "done"
      /\ temp' \in [Upgraders -> Dir!Programs]
      /\ \A v \in Upgraders : v # u => temp'[v] = temp[v]
  BY GiveUpEffect
<1> QED
  BY <1>1, UpEarly

LEMMA DirPrepare ==
  ASSUME DirInv, NEW u \in Upgraders, Dir!Prepare(u) PROVE DirInv'
<1>1. /\ up[u].pc = "prepare"
      /\ UNCHANGED <<windows, exe, backup, docs, scripts, state, entries, deleting, un,
                     uninstalls, removed, finished, stripped>>
  BY DEF Dir!Prepare, Dir!UpAt, Dir!unVars
<1>2. CASE /\ Dir!Verified(u)
           /\ up' = [up EXCEPT ![u].pc = "write", ![u].sum = "new"]
           /\ temp' = [temp EXCEPT ![u] = "part"]
  <2> DEFINE r == [up[u] EXCEPT !.pc = "write", !.sum = "new"]
  <2>1. up[u] \in Dir!Up
    BY DirTypes
  <2>2. up[u].got = "new"
    BY <1>2, <2>1 DEF Dir!Verified, Dir!Up
  <2>3. r \in Dir!Up /\ r.pc = "write" /\ r.got = "new"
    BY <2>1, <2>2 DEF Dir!Up
  <2>4. up' = [up EXCEPT ![u] = r]
    BY <1>2
  <2> HIDE DEF r
  <2>5. Upgrades(u) /\ up'[u] = r
    BY <2>3, <2>4, UpPut
  <2>6. "part" \in Dir!Programs
    BY DEF Dir!Programs
  <2>7. /\ temp' \in [Upgraders -> Dir!Programs]
        /\ \A v \in Upgraders : v # u => temp'[v] = temp[v]
    BY <1>2, <2>6, DirTypes, OneFile
  <2> QED
    BY <1>1, <2>3, <2>5, <2>7, UpEarly
<1>3. CASE Dir!GiveUp(u)
  BY <1>1, <1>3, DirGivesUp
<1> QED
  BY <1>2, <1>3 DEF Dir!Prepare

LEMMA DirWrite ==
  ASSUME DirInv, NEW u \in Upgraders, Dir!Write(u) PROVE DirInv'
<1>1. /\ up[u].pc = "write"
      /\ UNCHANGED <<windows, exe, backup, docs, scripts, state, entries, deleting, un,
                     uninstalls, removed, finished, stripped>>
  BY DEF Dir!Write, Dir!UpAt, Dir!unVars
<1>2. CASE temp' = [temp EXCEPT ![u] = up[u].got] /\ Dir!UpGo(u, "swap")
  <2>1. up[u].got = "new" /\ "new" \in Dir!Programs
    BY <1>1, DirTypes DEF Sound, Dir!Programs
  <2>2. Upgrades(u) /\ up'[u].pc = "swap" /\ up'[u].got = "new"
    BY <1>2, <2>1, UpGoEffect DEF UpPcs
  <2>3. /\ temp' \in [Upgraders -> Dir!Programs] /\ temp'[u] = "new"
        /\ \A v \in Upgraders : v # u => temp'[v] = temp[v]
    BY <1>2, <2>1, DirTypes, OneFile
  <2> QED
    BY <1>1, <2>2, <2>3, UpEarly
<1>3. CASE Dir!GiveUp(u)
  BY <1>1, <1>3, DirGivesUp
<1> QED
  BY <1>2, <1>3 DEF Dir!Write

LEMMA DirSwap ==
  ASSUME DirInv, NEW u \in Upgraders, Dir!Swap(u) PROVE DirInv'
<1>1. /\ up[u].pc = "swap" /\ temp[u] = "new" /\ up[u].got = "new"
      /\ UNCHANGED <<windows, docs, scripts, state, entries, deleting, un,
                     uninstalls, removed, finished, stripped>>
  BY DirTypes DEF Dir!Swap, Dir!UpAt, Dir!unVars, Sound
<1>2. u \notin deleting /\ {"none", "old", "new"} \subseteq Dir!Programs
  BY <1>1, DirTypes DEF Aside, Dir!Programs
<1>3. CASE /\ Dir!UpGo(u, "tidy") /\ exe' = temp[u]
           /\ temp' = [temp EXCEPT ![u] = "none"] /\ UNCHANGED backup
  <2>1. Upgrades(u) /\ up'[u].pc = "tidy"
    BY <1>3, UpGoEffect DEF UpPcs
  <2>2. /\ temp' \in [Upgraders -> Dir!Programs]
        /\ \A v \in Upgraders : v # u => temp'[v] = temp[v]
    BY <1>2, <1>3, DirTypes, OneFile
  <2>3. Dir!Recognised'
    BY <1>1, <1>3, MarksKept
  <2>4. backup'[u] \in {"none", "old", "new"} /\ exe' = "new"
    BY <1>1, <1>3, DirTypes DEF Sound
  <2> QED
    BY <1>1, <1>2, <1>3, <2>1, <2>2, <2>3, <2>4, UpFrame, DirTypes
<1>4. CASE /\ exe # "none" /\ Dir!UpGo(u, "install")
           /\ backup' = [backup EXCEPT ![u] = exe] /\ exe' = "none" /\ UNCHANGED temp
  <2>1. Upgrades(u) /\ up'[u].pc = "install" /\ up'[u].got = "new"
    BY <1>1, <1>4, UpGoEffect DEF UpPcs
  <2>2. /\ backup' \in [Upgraders -> Dir!Programs] /\ backup'[u] = exe
        /\ \A v \in Upgraders : v # u => backup'[v] = backup[v]
    BY <1>2, <1>4, DirTypes, OneFile
  <2>3. Dir!Recognised'
    BY <1>1, <1>4, <2>2, MarksKept
  <2>4. backup'[u] \in {"none", "old", "new"} /\ backup'[u] # "none"
    BY <1>4, <2>2, DirTypes
  <2> QED
    BY <1>1, <1>2, <1>4, <2>1, <2>2, <2>3, <2>4, UpFrame, DirTypes
<1>5. CASE Dir!GiveUp(u) /\ UNCHANGED <<exe, backup>>
  BY <1>1, <1>5, DirGivesUp
<1> QED
  BY <1>3, <1>4, <1>5 DEF Dir!Swap

LEMMA DirInstall ==
  ASSUME DirInv, NEW u \in Upgraders, Dir!Install(u) PROVE DirInv'
<1>1. /\ up[u].pc = "install" /\ temp[u] = "new"
      /\ UNCHANGED <<windows, backup, docs, scripts, state, entries, un,
                     uninstalls, removed, finished, stripped>>
  BY DirTypes DEF Dir!Install, Dir!UpAt, Dir!unVars, Sound
<1>2. Dir!Recognised'
  BY <1>1, MarksKept
<1>3. backup'[u] \in {"none", "old", "new"}
  BY <1>1, DirTypes DEF Sound
<1>4. CASE /\ exe' = temp[u] /\ temp' = [temp EXCEPT ![u] = "none"]
           /\ Dir!UpGo(u, "tidy")
           /\ deleting' \in {deleting, deleting \cup {u}}
  <2>1. Upgrades(u) /\ up'[u].pc = "tidy"
    BY <1>4, UpGoEffect DEF UpPcs
  <2>2. "none" \in Dir!Programs
    BY DEF Dir!Programs
  <2>3. /\ temp' \in [Upgraders -> Dir!Programs]
        /\ \A v \in Upgraders : v # u => temp'[v] = temp[v]
    BY <1>4, <2>2, DirTypes, OneFile
  <2> QED
    BY <1>1, <1>2, <1>3, <1>4, <2>1, <2>3, UpFrame, DirTypes
<1>5. CASE Dir!UpGo(u, "rollback") /\ UNCHANGED <<exe, temp, deleting>>
  <2>1. Upgrades(u) /\ up'[u].pc = "rollback"
    BY <1>5, UpGoEffect DEF UpPcs
  <2>2. u \notin deleting
    BY <1>1, DirTypes DEF Aside
  <2>3. exe' = "none" => \/ removed
                         \/ \E v \in Upgraders : backup'[v] # "none" /\ v \notin deleting'
    BY <1>1, <1>5, DirTypes DEF Aside
  <2> QED
    BY <1>1, <1>2, <1>3, <1>5, <2>1, <2>2, <2>3, UpFrame, DirTypes
<1> QED
  BY <1>4, <1>5 DEF Dir!Install

LEMMA DirRollback ==
  ASSUME DirInv, NEW u \in Upgraders, Dir!Rollback(u) PROVE DirInv'
<1>1. /\ up[u].pc = "rollback" /\ Dir!GiveUp(u) /\ Dir!Strips
      /\ UNCHANGED <<windows, docs, scripts, state, entries, deleting, un,
                     uninstalls, removed, finished>>
  BY DEF Dir!Rollback, Dir!UpAt, Dir!unVars
<1>2. /\ Upgrades(u) /\ up'[u].pc = "done"
      /\ temp' \in [Upgraders -> Dir!Programs]
      /\ \A v \in Upgraders : v # u => temp'[v] = temp[v]
  BY <1>1, GiveUpEffect
<1>3. Dir!Recognised' /\ stripped' \in BOOLEAN /\ (stripped => stripped')
  BY <1>1, MarksSeen
<1>4. u \notin deleting /\ backup[u] \in {"none", "old", "new"}
  BY <1>1, DirTypes DEF Aside, Sound
<1>5. CASE /\ backup[u] # "none"
           /\ exe' = backup[u] /\ backup' = [backup EXCEPT ![u] = "none"]
  <2>1. "none" \in Dir!Programs
    BY DEF Dir!Programs
  <2>2. /\ backup' \in [Upgraders -> Dir!Programs] /\ backup'[u] = "none"
        /\ \A v \in Upgraders : v # u => backup'[v] = backup[v]
    BY <1>5, <2>1, DirTypes, OneFile
  <2> QED
    BY <1>1, <1>2, <1>3, <1>4, <1>5, <2>2, UpFrame, DirTypes
<1>6. CASE UNCHANGED <<exe, backup>>
  <2>1. exe' = "none" => \/ removed
                         \/ \E v \in Upgraders : backup'[v] # "none" /\ v \notin deleting'
    BY <1>1, <1>6, DirTypes DEF Aside
  <2> QED
    BY <1>1, <1>2, <1>3, <1>4, <1>6, <2>1, UpFrame, DirTypes
<1> QED
  BY <1>5, <1>6 DEF Dir!Rollback

LEMMA DirDeleteBackup ==
  ASSUME DirInv, NEW u \in Upgraders, Dir!DeleteBackup(u) PROVE DirInv'
<1>1. /\ u \in deleting /\ deleting' = deleting \ {u} /\ Dir!Strips
      /\ backup' = [backup EXCEPT ![u] = "none"]
      /\ UNCHANGED <<windows, exe, temp, docs, scripts, state, entries, up, un,
                     uninstalls, removed, finished>>
  BY DEF Dir!DeleteBackup, Dir!unVars
<1>2. Dir!Recognised' /\ stripped' \in BOOLEAN /\ (stripped => stripped')
  BY <1>1, MarksSeen
<1>3. "none" \in Dir!Programs
  BY DEF Dir!Programs
<1>4. /\ backup' \in [Upgraders -> Dir!Programs] /\ backup'[u] = "none"
      /\ \A v \in Upgraders : v # u => backup'[v] = backup[v]
  BY <1>1, <1>3, DirTypes, OneFile
<1>5. Upgrades(u) /\ up'[u].pc \in {"tidy", "done"}
  BY <1>1, DirTypes DEF Upgrades, Aside
<1>6. exe' = "none" => \/ removed
                       \/ \E v \in Upgraders : backup'[v] # "none" /\ v \notin deleting'
  BY <1>1, <1>4, DirTypes DEF Aside
<1> QED
  BY <1>1, <1>2, <1>4, <1>5, <1>6, UpFrame, DirTypes

LEMMA DirTidy ==
  ASSUME DirInv, NEW u \in Upgraders, Dir!Tidy(u) PROVE DirInv'
<1>1. /\ up[u].pc = "tidy" /\ Dir!End(u) /\ Dir!Strips
      /\ scripts' \subseteq scripts
      /\ UNCHANGED <<windows, exe, backup, temp, docs, state, entries, deleting, un,
                     uninstalls, removed, finished>>
  BY DEF Dir!Tidy, Dir!UpAt, Dir!unVars
<1>2. Dir!Recognised' /\ stripped' \in BOOLEAN /\ (stripped => stripped')
  BY <1>1, MarksSeen
<1>3. Upgrades(u) /\ up'[u].pc = "done"
  BY <1>1, DirEndEffect
<1>4. exe' = "none" => \/ removed
                       \/ \E v \in Upgraders : backup'[v] # "none" /\ v \notin deleting'
  BY <1>1, DirTypes DEF Aside
<1>5. backup'[u] \in {"none", "old", "new"}
  BY <1>1, DirTypes DEF Sound
<1> QED
  BY <1>1, <1>2, <1>3, <1>4, <1>5, UpFrame, DirTypes

LEMMA DirKill ==
  ASSUME DirInv, NEW u \in Upgraders, Dir!Kill(u) PROVE DirInv'
<1>1. /\ Dir!End(u)
      /\ UNCHANGED <<windows, exe, backup, temp, docs, scripts, state, entries,
                     deleting, un, uninstalls, removed, finished, stripped>>
  BY DEF Dir!Kill, Dir!dirVars, Dir!unVars
<1>2. Upgrades(u) /\ up'[u].pc = "done"
  BY <1>1, DirEndEffect
<1> QED
  BY <1>1, <1>2, UpEarly, DirTypes

LEMMA DirUpgrade ==
  ASSUME DirInv, NEW u \in Upgraders, Dir!Upgrade(u) PROVE DirInv'
BY DirDownload, DirPrepare, DirWrite, DirSwap, DirInstall, DirRollback,
   DirDeleteBackup, DirTidy, DirKill DEF Dir!Upgrade

-----------------------------------------------------------------------------
(* serialhub uninstall.                                                     *)

LEMMA UnWith ==
  ASSUME NEW r \in Dir!Un, NEW c \in UnPcs
  PROVE  /\ [r EXCEPT !.pc = c] \in Dir!Un
         /\ [r EXCEPT !.pc = c].pc = c
         /\ [r EXCEPT !.pc = c].layout = r.layout
         /\ [r EXCEPT !.pc = c].failed = r.failed
         /\ [r EXCEPT !.pc = c].manual = r.manual
         /\ [r EXCEPT !.pc = c].todo = r.todo
BY DEF Dir!Un, UnPcs

\* The uninstall goes on as it is, or having failed.
Goes(c) ==
  /\ un' \in Dir!Un /\ un'.pc = c
  /\ un'.layout = un.layout /\ un'.failed = un.failed
  /\ un'.manual = un.manual /\ un'.todo = un.todo
Fails(c) ==
  /\ un' \in Dir!Un /\ un'.pc = c
  /\ un'.layout = un.layout /\ un'.failed
  /\ un'.manual = un.manual

LEMMA UnGoEffect ==
  ASSUME DirInv, NEW c \in UnPcs, Dir!UnGo(c) PROVE Goes(c)
BY UnWith, DirTypes DEF Dir!UnGo, Goes

LEMMA FailEffect ==
  ASSUME DirInv, NEW c \in UnPcs, Dir!Fail(c) PROVE Fails(c)
<1> DEFINE r == [un EXCEPT !.pc = c, !.failed = TRUE]
<1>1. /\ r \in Dir!Un /\ r.pc = c /\ r.layout = un.layout /\ r.failed
      /\ r.manual = un.manual
  BY DirTypes DEF Dir!Un, UnPcs
<1>2. un' = r
  BY DEF Dir!Fail
<1> QED
  BY <1>1, <1>2 DEF Fails

\* What a step of the uninstall may do that touches neither the program nor the
\* files of the release.
LEMMA UnFrame ==
  ASSUME DirInv, un' \in Dir!Un, un.manual => un'.manual,
         state' \in BOOLEAN, state' => state,
         entries' \in BOOLEAN, entries' => entries,
         uninstalls' \in 0 .. MaxUninstalls,
         UNCHANGED <<windows, exe, backup, temp, docs, scripts, up, deleting,
                     removed, finished, stripped>>,
         Progress'
  PROVE  DirInv'
<1>1. Dir!TypeOK'
  <2>1. exe' \in Dir!Programs
    BY DirTypes DEF Dir!Programs
  <2>2. {state', entries', removed', finished', stripped'} \subseteq BOOLEAN
    BY DirTypes
  <2> QED
    BY <2>1, <2>2, DirTypes DEF Dir!TypeOK
<1>2. Sound' /\ Aside'
  BY DirTypes DEF Sound, Aside
<1>3. Dir!Recognised'
  BY DirTypes, LayoutFact DEF Dir!Recognised
<1>4. Dir!NothingStranded'
  BY DirTypes DEF Dir!NothingStranded
<1> QED
  BY <1>1, <1>2, <1>3, <1>4 DEF DirInv

\* Without a layout there is nothing of the release.
LEMMA BareWithout ==
  ASSUME DirInv, ~Dir!HasLayout(scripts, backup) PROVE Bare
BY DirTypes, LayoutFact DEF Dir!Recognised, Bare

LEMMA DirBegin == DirInv /\ Dir!Begin => DirInv'
<1> SUFFICES ASSUME DirInv, Dir!Begin PROVE DirInv'
  OBVIOUS
<1>1. /\ uninstalls < MaxUninstalls /\ uninstalls' = uninstalls + 1
      /\ UNCHANGED <<windows, exe, backup, temp, docs, scripts, state, entries, up,
                     deleting, removed, finished, stripped>>
  BY DEF Dir!Begin, Dir!dirVars, Dir!upVars
<1>2. PICK l \in BOOLEAN : l <=> Dir!HasLayout(scripts, backup)
  OBVIOUS
<1>3. Dir!HasLayout(scripts, backup) = l
  BY <1>2 DEF Dir!HasLayout
<1>4. un' = [pc |-> "entries", layout |-> l, failed |-> FALSE,
             manual |-> un.manual, todo |-> {}]
  BY <1>3 DEF Dir!Begin
<1>5. /\ un' \in Dir!Un /\ un'.pc = "entries" /\ (un'.layout <=> l)
      /\ un'.manual = un.manual
  BY <1>4, DirTypes DEF Dir!Un
<1>6. Progress'
  BY <1>1, <1>2, <1>5, BareWithout DEF Progress, Bare
<1>7. uninstalls' \in 0 .. MaxUninstalls
  BY <1>1, DirTypes, DirAssumption
<1> QED
  BY <1>1, <1>5, <1>6, <1>7, UnFrame, DirTypes

LEMMA DirRemoveEntries == DirInv /\ Dir!RemoveEntries => DirInv'
<1> SUFFICES ASSUME DirInv, Dir!RemoveEntries PROVE DirInv'
  OBVIOUS
<1>1. /\ un.pc = "entries"
      /\ UNCHANGED <<windows, exe, backup, temp, docs, scripts, state, up, deleting,
                     uninstalls, removed, finished, stripped>>
  BY DEF Dir!RemoveEntries, Dir!UnAt, Dir!restVars, Dir!upVars
<1>2. Bare' <=> Bare
  BY <1>1 DEF Bare
<1>3. un.layout \/ Bare
  BY <1>1, DirTypes DEF Progress
<1>4. CASE entries' = FALSE /\ Dir!UnGo("state")
  <2>1. Goes("state")
    BY <1>4, UnGoEffect DEF UnPcs
  <2>2. Progress'
    BY <1>2, <1>3, <1>4, <2>1 DEF Progress, Goes
  <2> QED
    BY <1>1, <1>4, <2>1, <2>2, UnFrame, DirTypes DEF Goes
<1>5. CASE un' = [un EXCEPT !.pc = "state", !.manual = TRUE] /\ UNCHANGED entries
  <2>1. /\ un' \in Dir!Un /\ un'.pc = "state" /\ un'.manual
        /\ un'.layout = un.layout /\ un'.failed = un.failed
    BY <1>5, DirTypes DEF Dir!Un
  <2>2. Progress'
    BY <1>2, <1>3, <2>1 DEF Progress
  <2> QED
    BY <1>1, <1>5, <2>1, <2>2, UnFrame, DirTypes
<1>6. CASE Dir!Fail("state") /\ UNCHANGED entries
  <2>1. Fails("state")
    BY <1>6, FailEffect DEF UnPcs
  <2>2. Progress'
    BY <1>2, <1>3, <2>1 DEF Progress, Fails
  <2> QED
    BY <1>1, <1>6, <2>1, <2>2, UnFrame, DirTypes DEF Fails
<1> QED
  BY <1>4, <1>5, <1>6 DEF Dir!RemoveEntries

LEMMA DirRemoveState == DirInv /\ Dir!RemoveState => DirInv'
<1> SUFFICES ASSUME DirInv, Dir!RemoveState PROVE DirInv'
  OBVIOUS
<1>1. /\ un.pc = "state"
      /\ UNCHANGED <<windows, exe, backup, temp, docs, scripts, entries, up, deleting,
                     uninstalls, removed, finished, stripped>>
  BY DEF Dir!RemoveState, Dir!UnAt, Dir!restVars, Dir!upVars
<1>2. Bare' <=> Bare
  BY <1>1 DEF Bare
<1>3. un.layout \/ Bare
  BY <1>1, DirTypes DEF Progress
<1> DEFINE c == Dir!AfterState
<1>4. c \in {"list", "binary"} /\ (c = "binary" => ~un.layout)
  BY DEF Dir!AfterState
<1> HIDE DEF c
<1>5. CASE state' = FALSE /\ Dir!UnGo(c)
  <2>1. Goes(c)
    BY <1>4, <1>5, UnGoEffect DEF UnPcs
  <2>2. ~un.failed => (entries => un.manual)
    BY <1>1, DirTypes DEF Progress
  <2>3. Progress'
    BY <1>1, <1>2, <1>3, <1>4, <1>5, <2>1, <2>2 DEF Progress, Goes
  <2> QED
    BY <1>1, <1>5, <2>1, <2>3, UnFrame, DirTypes DEF Goes
<1>6. CASE state' \in BOOLEAN /\ (state' => state) /\ Dir!Fail(c)
  <2>1. Fails(c)
    BY <1>4, <1>6, FailEffect DEF UnPcs
  <2>2. Progress'
    BY <1>4, <2>1 DEF Progress, Fails
  <2> QED
    BY <1>1, <1>6, <2>1, <2>2, UnFrame, DirTypes DEF Fails
<1> QED
  BY <1>5, <1>6 DEF Dir!RemoveState, c

LEMMA DirList == DirInv /\ Dir!List => DirInv'
<1> SUFFICES ASSUME DirInv, Dir!List PROVE DirInv'
  OBVIOUS
<1>1. /\ un.pc = "list"
      /\ UNCHANGED <<windows, exe, backup, temp, docs, scripts, state, entries, up,
                     deleting, uninstalls, removed, finished, stripped>>
  BY DEF Dir!List, Dir!UnAt, Dir!restVars, Dir!upVars
<1>2. Bare' <=> Bare
  BY <1>1 DEF Bare
<1>3. ~un.failed => (entries => un.manual) /\ ~state
  BY <1>1, DirTypes DEF Progress
<1>4. CASE Dir!HasLayout(scripts, backup)
  <2> DEFINE t == docs \cup Dir!Backups(backup) \cup scripts
  <2>1. t \subseteq Dir!Files
    BY DirTypes DEF Dir!Files, Dir!Backups
  <2>2. docs \cup scripts \subseteq t
    OBVIOUS
  <2>3. un' = [un EXCEPT !.pc = "remove", !.todo = t]
    BY <1>4 DEF Dir!List
  <2> HIDE DEF t
  <2>4. /\ un' \in Dir!Un /\ un'.pc = "remove" /\ un'.manual = un.manual
        /\ un'.failed = un.failed /\ un'.todo = t
    BY <2>1, <2>3, DirTypes DEF Dir!Un
  <2>5. Progress'
    BY <1>1, <1>3, <2>2, <2>4 DEF Progress
  <2> QED
    BY <1>1, <2>4, <2>5, UnFrame, DirTypes
<1>5. CASE ~Dir!HasLayout(scripts, backup)
  <2>1. Dir!UnGo("binary")
    BY <1>5 DEF Dir!List, Dir!UnGo
  <2>2. Goes("binary")
    BY <2>1, UnGoEffect DEF UnPcs
  <2>3. Progress'
    BY <1>1, <1>2, <1>3, <1>5, <2>2, BareWithout DEF Progress, Goes
  <2> QED
    BY <1>1, <2>2, <2>3, UnFrame, DirTypes DEF Goes
<1> QED
  BY <1>4, <1>5

\* Documents go first, so that a mark is left as long as there is one.
LEMMA DirRemoveFile ==
  ASSUME DirInv, NEW f \in Dir!Files, Dir!RemoveFile(f) PROVE DirInv'
<1>1. /\ un.pc = "remove" /\ Dir!Turn(f)
      /\ UNCHANGED <<windows, exe, temp, state, entries, uninstalls, finished, up,
                     deleting, stripped>>
  BY DEF Dir!RemoveFile, Dir!UnAt, Dir!upVars
<1>2. /\ docs \cup scripts \subseteq un.todo
      /\ ~un.failed => (entries => un.manual) /\ ~state
  BY <1>1, DirTypes DEF Progress
<1>3. CASE /\ un' = [un EXCEPT !.todo = @ \ {f}]
           /\ docs' = docs \ {f} /\ scripts' = scripts \ {f}
           /\ backup' = [u \in Upgraders |-> IF u = f THEN "none" ELSE backup[u]]
           /\ removed' = (removed \/ f \in Upgraders)
  <2>1. /\ un' \in Dir!Un /\ un'.pc = "remove" /\ un'.layout = un.layout
        /\ un'.failed = un.failed /\ un'.manual = un.manual
        /\ un'.todo = un.todo \ {f}
    BY <1>1, <1>3, DirTypes DEF Dir!Un
  <2>2. Progress'
    BY <1>1, <1>2, <1>3, <2>1 DEF Progress
  <2>3. \A u \in Upgraders : /\ backup'[u] = IF u = f THEN "none" ELSE backup[u]
                             /\ backup[u] \in {"none", "old", "new"}
    BY <1>3, DirTypes DEF Sound
  <2>4. backup' \in [Upgraders -> Dir!Programs]
    BY <1>3, DirTypes DEF Dir!Programs
  <2>5. removed' \in BOOLEAN /\ (removed => removed') /\ (f \in Upgraders => removed')
    BY <1>3
  <2>6. Dir!TypeOK'
    <3>1. exe' \in Dir!Programs
      BY <1>1, DirTypes DEF Dir!Programs
    <3>2. {state', entries', removed', finished', stripped'} \subseteq BOOLEAN
      BY <1>1, <2>5, DirTypes
    <3>3. docs' \subseteq Docs /\ scripts' \subseteq Dir!Launchers
      BY <1>3, DirTypes
    <3> QED
      BY <1>1, <2>1, <2>4, <3>1, <3>2, <3>3, DirTypes DEF Dir!TypeOK
  <2>7. Sound'
    BY <1>1, <2>3, DirTypes DEF Sound
  <2>8. Aside'
    BY <1>1, <2>3, <2>5, DirTypes DEF Aside
  <2>9. Dir!Recognised'
    <3>1. CASE f \in Docs
      <4>1. f \notin Upgraders /\ f \notin Dir!Launchers
        BY <3>1, DirAssumption
      <4>2. scripts' = scripts /\ \A u \in Upgraders : backup'[u] = backup[u]
        BY <1>3, <2>3, <4>1, DirTypes
      <4> QED
        BY <1>1, <1>3, <4>2, DirTypes, LayoutFact DEF Dir!Recognised
    <3>2. CASE f \notin Docs
      <4>1. docs = {}
        BY <1>1, <1>2, <3>2, DirTypes DEF Dir!Turn
      <4> QED
        BY <1>3, <4>1 DEF Dir!Recognised
    <3> QED
      BY <3>1, <3>2
  <2>10. Dir!NothingStranded'
    BY <1>1, <1>3, <2>1, DirTypes DEF Dir!NothingStranded
  <2> QED
    BY <2>2, <2>6, <2>7, <2>8, <2>9, <2>10 DEF DirInv
<1>4. CASE /\ un' = [un EXCEPT !.pc = "binary", !.failed = TRUE, !.todo = {}]
           /\ UNCHANGED <<docs, scripts, backup, removed>>
  <2>1. un' \in Dir!Un /\ un'.pc = "binary" /\ un'.failed /\ un'.manual = un.manual
    BY <1>4, DirTypes DEF Dir!Un
  <2>2. Progress'
    BY <2>1 DEF Progress
  <2> QED
    BY <1>1, <1>4, <2>1, <2>2, UnFrame, DirTypes
<1> QED
  BY <1>3, <1>4 DEF Dir!RemoveFile

LEMMA DirFilesRemoved == DirInv /\ Dir!FilesRemoved => DirInv'
<1> SUFFICES ASSUME DirInv, Dir!FilesRemoved PROVE DirInv'
  OBVIOUS
<1>1. /\ un.pc = "remove" /\ un.todo = {} /\ Dir!UnGo("binary")
      /\ UNCHANGED <<windows, exe, backup, temp, docs, scripts, state, entries, up,
                     deleting, uninstalls, removed, finished, stripped>>
  BY DEF Dir!FilesRemoved, Dir!UnAt, Dir!restVars, Dir!upVars
<1>2. Goes("binary")
  BY <1>1, UnGoEffect DEF UnPcs
<1>3. Bare
  BY <1>1, DirTypes DEF Progress, Bare
<1>4. Progress'
  BY <1>1, <1>2, <1>3, DirTypes DEF Progress, Goes, Bare
<1> QED
  BY <1>1, <1>2, <1>4, UnFrame, DirTypes DEF Goes

\* The program goes when nothing is left but itself.
LEMMA DirRemoveProgram ==
  ASSUME DirInv, Dir!RemoveProgram, un.pc \in {"binary", "late"}, ~un.failed
  PROVE  DirInv'
<1>1. /\ exe' = "none" /\ removed' = TRUE /\ finished' = TRUE /\ Dir!UnGo("idle")
      /\ UNCHANGED <<windows, backup, temp, docs, scripts, state, entries,
                     uninstalls, up, deleting, stripped>>
  BY DEF Dir!RemoveProgram, Dir!upVars
<1>2. Goes("idle")
  BY <1>1, UnGoEffect DEF UnPcs
<1>3. (entries => un.manual) /\ ~state /\ Bare
  BY DirTypes DEF Progress
<1>4. Progress'
  BY <1>2 DEF Progress, Goes
<1>5. Dir!TypeOK'
  <2>1. exe' \in Dir!Programs
    BY <1>1 DEF Dir!Programs
  <2>2. {state', entries', removed', finished', stripped'} \subseteq BOOLEAN
    BY <1>1, DirTypes
  <2> QED
    BY <1>1, <1>2, <2>1, <2>2, DirTypes DEF Dir!TypeOK, Goes
<1>6. Sound' /\ Aside'
  BY <1>1, DirTypes DEF Sound, Aside
<1>7. Dir!Recognised'
  BY <1>1, DirTypes, LayoutFact DEF Dir!Recognised
<1>8. Dir!NothingStranded'
  BY <1>1, <1>2, <1>3 DEF Dir!NothingStranded, Bare, Goes
<1> QED
  BY <1>4, <1>5, <1>6, <1>7, <1>8 DEF DirInv

LEMMA DirBinary == DirInv /\ (Dir!Binary \/ Dir!LateRemove) => DirInv'
<1> SUFFICES ASSUME DirInv, Dir!Binary \/ Dir!LateRemove PROVE DirInv'
  OBVIOUS
<1>1. CASE Dir!LateRemove
  <2>1. un.pc = "late" /\ ~un.failed /\ Dir!RemoveProgram
    BY <1>1, DirTypes DEF Dir!LateRemove, Dir!UnAt, Progress
  <2> QED
    BY <2>1, DirRemoveProgram
<1>2. CASE un.pc = "binary" /\ ~un.failed /\ Dir!RemoveProgram
  BY <1>2, DirRemoveProgram
<1>3. CASE /\ un.pc = "binary"
           /\ Dir!UnGo(IF windows /\ ~un.failed THEN "late" ELSE "idle")
           /\ UNCHANGED <<Dir!restVars, state, entries>>
  <2>1. UNCHANGED <<windows, exe, backup, temp, docs, scripts, state, entries, up,
                    deleting, uninstalls, removed, finished, stripped>>
    BY <1>3 DEF Dir!restVars, Dir!upVars
  <2>2. PICK c \in {"late", "idle"} : Dir!UnGo(c) /\ (c = "late" => ~un.failed)
    BY <1>3
  <2>3. Goes(c)
    BY <2>2, UnGoEffect DEF UnPcs
  <2>4. ~un.failed => (entries => un.manual) /\ ~state /\ Bare
    BY <1>3, DirTypes DEF Progress
  <2>5. Bare' <=> Bare
    BY <2>1 DEF Bare
  <2>6. Progress'
    BY <2>1, <2>2, <2>3, <2>4, <2>5 DEF Progress, Goes
  <2> QED
    BY <2>1, <2>3, <2>6, UnFrame, DirTypes DEF Goes
<1> QED
  BY <1>1, <1>2, <1>3 DEF Dir!Binary, Dir!UnAt

LEMMA DirKillUninstall == DirInv /\ Dir!KillUninstall => DirInv'
<1> SUFFICES ASSUME DirInv, Dir!KillUninstall PROVE DirInv'
  OBVIOUS
<1>1. /\ Dir!UnGo("idle")
      /\ UNCHANGED <<windows, exe, backup, temp, docs, scripts, state, entries, up,
                     deleting, uninstalls, removed, finished, stripped>>
  BY DEF Dir!KillUninstall, Dir!restVars, Dir!upVars
<1>2. Goes("idle")
  BY <1>1, UnGoEffect DEF UnPcs
<1>3. Progress'
  BY <1>2 DEF Progress, Goes
<1> QED
  BY <1>1, <1>2, <1>3, UnFrame, DirTypes DEF Goes

-----------------------------------------------------------------------------
LEMMA DirInit == Dir!Init => DirInv
<1> SUFFICES ASSUME Dir!Init PROVE DirInv
  OBVIOUS
<1>1. /\ windows \in BOOLEAN /\ exe = "old"
      /\ backup = [u \in Upgraders |-> "none"] /\ temp = backup
      /\ scripts \in {{}, {"launcher"}, {"legacy"}}
      /\ docs = IF scripts = {} THEN {} ELSE Docs
      /\ state = TRUE /\ entries = TRUE
      /\ up = [u \in Upgraders |-> [pc |-> "idle", got |-> "new", sum |-> "new"]]
      /\ deleting = {}
      /\ un = [pc |-> "idle", layout |-> FALSE, failed |-> FALSE, manual |-> FALSE,
               todo |-> {}]
      /\ uninstalls = 0 /\ removed = FALSE /\ finished = FALSE /\ stripped = FALSE
  BY DEF Dir!Init
<1>2. un \in Dir!Un /\ un.pc = "idle"
  BY <1>1 DEF Dir!Un
<1>3. up \in [Upgraders -> Dir!Up] /\ \A u \in Upgraders : up[u].pc = "idle"
  BY <1>1 DEF Dir!Up
<1>4. Dir!TypeOK
  <2>1. exe \in Dir!Programs /\ backup \in [Upgraders -> Dir!Programs]
    BY <1>1 DEF Dir!Programs
  <2>2. {state, entries, removed, finished, stripped} \subseteq BOOLEAN
    BY <1>1
  <2>3. docs \subseteq Docs /\ scripts \subseteq Dir!Launchers
    BY <1>1 DEF Dir!Launchers
  <2>4. uninstalls \in 0 .. MaxUninstalls
    BY <1>1, DirAssumption
  <2> QED
    BY <1>1, <1>2, <1>3, <2>1, <2>2, <2>3, <2>4 DEF Dir!TypeOK
<1>5. Sound /\ Aside
  BY <1>1, <1>3 DEF Sound, Aside
<1>6. Progress
  BY <1>2 DEF Progress
<1>7. Dir!Recognised
  BY <1>1, LayoutFact DEF Dir!Recognised
<1>8. Dir!NothingStranded
  BY <1>1 DEF Dir!NothingStranded
<1> QED
  BY <1>4, <1>5, <1>6, <1>7, <1>8 DEF DirInv

LEMMA DirStep == DirInv /\ [Dir!Next]_dirVars => DirInv'
<1> SUFFICES ASSUME DirInv, [Dir!Next]_dirVars PROVE DirInv'
  OBVIOUS
<1>1. CASE UNCHANGED dirVars
  BY <1>1 DEF dirVars, DirInv, Dir!TypeOK, Sound, Aside, Progress, Bare,
              Dir!Recognised, Dir!NothingStranded, Dir!HasLayout, Dir!Backups
<1> QED
  BY <1>1, DirUpgrade, DirBegin, DirRemoveEntries, DirRemoveState, DirList,
     DirRemoveFile, DirFilesRemoved, DirBinary, DirKillUninstall
     DEF Dir!Next, Dir!Uninstall

LEMMA DirRight == DirInv => Dir!TypeOK /\ Dir!ProgramRecoverable
<1> SUFFICES ASSUME DirInv PROVE Dir!TypeOK /\ Dir!ProgramRecoverable
  OBVIOUS
<1>1. Dir!TypeOK
  BY DEF DirInv
<1>2. Dir!ProgramThere
  BY DirTypes DEF Aside, Sound, Dir!ProgramThere, Dir!Backups
<1> QED
  BY <1>1, <1>2, DirTypes DEF Dir!ProgramRecoverable

-----------------------------------------------------------------------------
(* What Instance promises.                                                  *)

\* A behaviour of Instance is one of each module.
LEMMA PartInit ==
  AllInit => /\ Init /\ Moving!Init /\ Dir!Init /\ Client!Init /\ Window!Init
             /\ Stop!Init
BY DEF AllInit

LEMMA PartStep ==
  [AllNext]_<<part, vars, fileVars, windowVars, stopVars>> =>
    /\ [Next]_vars /\ [Moving!Next]_movingVars /\ [Dir!Next]_dirVars
    /\ [Client!Next]_clientVars /\ [Window!Next]_windowVars
    /\ [Stop!Next]_stopVars
BY DEF AllNext, SettingsNext, MovingNext, DirNext, ClientNext, WindowNext,
       StopNext, fileVars

LEMMA SettingsPart == AllSpec => Spec
BY PartInit, PartStep, PTL DEF AllSpec, Spec

LEMMA PartsHold ==
  AllSpec => [](MovingInv /\ DirInv /\ ClientInv /\ WindowInv /\ StopInv)
<1>1. AllInit => MovingInv /\ DirInv /\ ClientInv /\ WindowInv /\ StopInv
  BY PartInit, MovingInit, DirInit, ClientInit, WindowInit, StopInit
<1>2. /\ MovingInv /\ DirInv /\ ClientInv /\ WindowInv /\ StopInv
      /\ [AllNext]_<<part, vars, fileVars, windowVars, stopVars>>
      => (MovingInv /\ DirInv /\ ClientInv /\ WindowInv /\ StopInv)'
  BY PartStep, MovingStep, DirStep, ClientStep, WindowStep, StopStep
<1> QED
  BY <1>1, <1>2, PTL DEF AllSpec

\* Any number of processes may move the configuration at the same time, crash
\* and save: whoever starts finds what was saved last, unless a failure made a
\* process stay beside the program; and what an MCP client saved last is in its
\* file, unless it saved in the windows that setup and remover leave, or
\* setup's write failed (config_loader.go:193, mcpsetup.go:253).
THEOREM FilesOfUsersKept == AllSpec => []UserFilesKept
<1>1. MovingInv /\ ClientInv => UserFilesKept
  BY DEF MovingInv, ClientInv, UserFilesKept
<1> QED
  BY <1>1, PartsHold, PTL

\* Any number of upgrades and uninstalls may run at the same time, fail or be
\* killed at any step: until an uninstall removes it the program or a backup
\* is there, verified; while documents are left, of any number, the directory
\* is recognised, unless an upgrade took the last mark; and an uninstall that
\* got to the program left nothing (upgrade.go:348, uninstall.go:490).
THEOREM ProgramAlwaysRecoverable == AllSpec => []ProgramRecoverable
<1>1. DirInv => ProgramRecoverable
  BY DirRight DEF ProgramRecoverable
<1> QED
  BY <1>1, PartsHold, PTL

\* For pieces of any sizes and any limit of a line, every piece is in exactly
\* one line or in the open window, whose timer is still to come, however the
\* timers of earlier windows race with flushes (logagg.go:101-118).
THEOREM LogsAlwaysComplete == AllSpec => []LogsComplete
<1>1. WindowInv => LogsComplete
  BY WindowRight DEF LogsComplete
<1> QED
  BY <1>1, PartsHold, PTL

\* Whichever parts hang, and from whenever on, the process ends in time, having
\* told its terminals, unless closeLogger waits for a write to the log file, as
\* it may on Windows (serve.go:311, 353).
THEOREM EndsInTime == AllSpec => []StopsInTime
<1>1. StopInv => StopsInTime
  BY StopRight
<1> QED
  BY <1>1, PartsHold, PTL

\* Every variable is of its type in every reachable state of every part.
THEOREM AllTypes == AllSpec => []TypesOK
<1>1. TypeOK /\ MovingInv /\ DirInv /\ ClientInv /\ WindowInv /\ StopInv
      => TypesOK
  BY DirRight, WindowRight, StopRight DEF MovingInv, ClientInv, TypesOK
<1> QED
  BY <1>1, SettingsPart, SettingsTypes, PartsHold, PTL

=============================================================================
