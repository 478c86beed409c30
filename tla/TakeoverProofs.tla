--------------------------- MODULE TakeoverProofs ---------------------------
(***************************************************************************)
(* Proofs about Takeover for any number of processes and TCP ports, as     *)
(* long as nobody removes the lock file.  The argument: there is then one  *)
(* lock file, every process that is past opening it has that file open,    *)
(* and a process is master only while it is its holder; the metadata are   *)
(* the master's own from the moment it has settled its port, and only the  *)
(* master has a listener, which is where it says.                          *)
(***************************************************************************)
EXTENDS Takeover, TLAPS

UsesFile(p) == Master(p) \/ proc[p].pc \in {"probe", "probed", "look",
                                             "trylock", "peek"}

\* Counters pass their limit only in the step that gives up.
Budget ==
  \A p \in Procs :
    proc[p].pc # "gaveup" => /\ proc[p].polls <= MaxPolls
                             /\ proc[p].takeovers <= MaxTakeovers
                             /\ proc[p].waits <= MaxWaits

OneFile ==
  /\ uninst = "no"
  /\ file = 0 \/ file \in Files
  /\ file = 0 => made = 0
  /\ \A p \in Procs : UsesFile(p) => file # 0 /\ proc[p].file = file

Holding ==
  \A p \in Procs :
    Master(p) \/ proc[p].pc = "probed" => holder[proc[p].file] = p

Listening ==
  \A p \in Procs :
    /\ Serving(p) => listen[proc[p].port] = p
    /\ \A n \in PortNums :
         listen[n] = p => Serving(p) /\ n = proc[p].port

Truthful ==
  \A p \in Procs :
    proc[p].pc \in {"resolve", "bind", "serving"}
    => meta[proc[p].file] = Own(p)

IInv == TypeOK /\ Budget /\ OneFile /\ Holding /\ Listening /\ Truthful

-----------------------------------------------------------------------------
\* What a record of a process must satisfy to fit into the invariant.
Fits(r) ==
  /\ r \in Proc
  /\ r.pc # "gaveup" => /\ r.polls <= MaxPolls
                        /\ r.takeovers <= MaxTakeovers
                        /\ r.waits <= MaxWaits

\* The record of a process fits, and a change of its place fits as well.
LEMMA AtFits ==
  ASSUME TypeOK, Budget, NEW p \in Procs, proc[p].pc # "gaveup",
         NEW pc \in Pc
  PROVE  /\ Fits(proc[p])
         /\ Fits(At(p, pc)) /\ At(p, pc).pc = pc
         /\ At(p, pc).file = proc[p].file /\ At(p, pc).port = proc[p].port
<1>1. proc[p] \in Proc
  BY DEF TypeOK
<1>2. QED
  BY <1>1 DEF TypeOK, Budget, Fits, At, Proc

\* A proxy that follows a master it was told of.
LEMMA FollowFits ==
  ASSUME TypeOK, Budget, NEW p \in Procs, proc[p].pc # "gaveup",
         NEW info \in Info
  PROVE  Fits(Follow(p, info)) /\ Follow(p, info).pc = "ready"
<1>1. proc[p] \in Proc /\ info.port \in PortNums
  BY DEF TypeOK, Info
<1>2. QED
  BY <1>1 DEF TypeOK, Budget, Fits, Follow, Proc, Pc

\* Whatever Read answers, its caller goes on within its budget.
LEMMA AnsweredFits ==
  ASSUME TypeOK, Budget, NEW p \in Procs, proc[p].pc # "gaveup",
         NEW ret \in {"find", "poll", "lost"},
         NEW ans \in Info \cup {NoInfo, Nil}
  PROVE  /\ Fits(Answered(p, ret, ans))
         /\ Answered(p, ret, ans).pc
              \in {"acquire", "find", "poll", "ready", "gaveup"}
<1>1. proc[p] \in Proc
  BY DEF TypeOK
<1>2. Entry(p) \in {"find", "acquire"}
  BY DEF Entry
<1>3. /\ proc[p].polls <= MaxPolls /\ proc[p].takeovers <= MaxTakeovers
      /\ proc[p].waits <= MaxWaits
  BY DEF Budget
<1>4. CASE ret = "find"
  <2>1. Answered(p, ret, ans) = Found(p, ans)
    BY <1>4 DEF Answered
  <2>2. CASE ans = Nil
    BY <2>1, <2>2, AtFits DEF Found, Pc
  <2>3. CASE ans = NoInfo
    <3>1. Answered(p, ret, ans) = [At(p, "poll") EXCEPT !.polls = 0]
      BY <2>1, <2>3, NullsAssumption DEF Found
    <3>2. Fits(At(p, "poll")) /\ At(p, "poll").pc = "poll"
      BY AtFits DEF Pc
    <3>3. QED
      BY <3>1, <3>2, NumbersAssumption DEF Fits, Proc
  <2>4. CASE ans \in Info
    BY <2>1, <2>4, FollowFits, NullsAssumption DEF Found
  <2>5. QED
    BY <2>2, <2>3, <2>4
<1>5. CASE ret = "poll"
  <2>1. Answered(p, ret, ans) = Polled(p, ans)
    BY <1>5 DEF Answered
  <2>2. CASE ans \in Info
    BY <2>1, <2>2, FollowFits DEF Polled
  <2>3. CASE ans \notin Info
    <3> DEFINE to == IF proc[p].polls < MaxPolls THEN "poll" ELSE "gaveup"
    <3>1. Answered(p, ret, ans)
            = [proc[p] EXCEPT !.polls = @ + 1, !.pc = to]
      BY <2>1, <2>3 DEF Polled
    <3>2. to \in {"poll", "gaveup"}
          /\ (to = "poll" => proc[p].polls + 1 <= MaxPolls)
          /\ to \in Pc /\ proc[p].polls + 1 \in 0 .. MaxPolls + 1
          /\ 0 \in 0 .. MaxWaits + 1 /\ 0 <= MaxWaits
      BY <1>1, <1>3, NumbersAssumption DEF Proc, Pc
    <3> HIDE DEF to
    <3>3. QED
      BY <1>1, <1>3, <3>1, <3>2 DEF Fits, Proc
  <2>4. QED
    BY <2>2, <2>3
<1>6. CASE ret = "lost"
  <2>1. Answered(p, ret, ans) = Classify(p, ans)
    BY <1>6 DEF Answered
  <2>2. CASE ans = Nil
    <3> DEFINE to == IF proc[p].takeovers < MaxTakeovers
                     THEN Entry(p) ELSE "gaveup"
    <3>1. Answered(p, ret, ans)
            = [proc[p] EXCEPT !.waits = 0, !.takeovers = @ + 1, !.pc = to]
      BY <2>1, <2>2 DEF Classify
    <3>2. to \in {"find", "acquire", "gaveup"}
          /\ (to # "gaveup" => proc[p].takeovers + 1 <= MaxTakeovers)
          /\ to \in Pc /\ proc[p].takeovers + 1 \in 0 .. MaxTakeovers + 1
          /\ 0 \in 0 .. MaxWaits + 1 /\ 0 <= MaxWaits
      BY <1>1, <1>2, <1>3, NumbersAssumption DEF Proc, Pc
    <3> HIDE DEF to
    <3>3. QED
      BY <1>1, <1>3, <3>1, <3>2 DEF Fits, Proc
  <2>3. CASE ans = NoInfo
    BY <1>2, <2>1, <2>3, AtFits, NullsAssumption DEF Classify, Pc
  <2>4. CASE ans \in Info
    <3> DEFINE to == IF proc[p].waits < MaxWaits
                     THEN Entry(p) ELSE "gaveup"
    <3>1. Answered(p, ret, ans)
            = [proc[p] EXCEPT !.waits = @ + 1, !.pc = to]
      BY <2>1, <2>4, NullsAssumption DEF Classify
    <3>2. to \in {"find", "acquire", "gaveup"}
          /\ (to # "gaveup" => proc[p].waits + 1 <= MaxWaits)
          /\ to \in Pc /\ proc[p].waits + 1 \in 0 .. MaxWaits + 1
          /\ 0 \in 0 .. MaxWaits + 1 /\ 0 <= MaxWaits
      BY <1>1, <1>2, <1>3, NumbersAssumption DEF Proc, Pc
    <3> HIDE DEF to
    <3>3. QED
      BY <1>1, <1>3, <3>1, <3>2 DEF Fits, Proc
  <2>5. QED
    BY <2>2, <2>3, <2>4
<1>7. QED
  BY <1>4, <1>5, <1>6

-----------------------------------------------------------------------------
(* Steps.                                                                  *)

\* A process that is neither master nor probing moves on and becomes
\* neither.
LEMMA QuietStep ==
  ASSUME IInv, NEW p \in Procs, NEW r, Fits(r), Go(p, r),
         ~Master(p), proc[p].pc # "probed",
         r.pc \in {"find", "poll", "lost", "probe", "look", "acquire",
                   "trylock", "peek", "ready", "forward", "ended", "gaveup"},
         r.pc \in {"probe", "look", "trylock", "peek"}
           => file # 0 /\ r.file = file,
         UNCHANGED <<lockVars, listen, crashes, uninst>>
  PROVE  IInv'
<1> USE DEF Go
<1>1. proc \in [Procs -> Proc] /\ r \in Proc
  BY DEF IInv, TypeOK, Fits
<1>2. \A q \in Procs : proc'[q] = IF q = p THEN r ELSE proc[q]
  BY <1>1
<1>3. TypeOK'
  BY <1>1 DEF IInv, TypeOK, lockVars
<1>4. Budget'
  BY <1>2 DEF IInv, Budget, Fits
<1>5. OneFile'
  BY <1>2 DEF IInv, OneFile, UsesFile, Master, lockVars
<1>6. Holding'
  BY <1>2 DEF IInv, Holding, Master, lockVars
<1>7. Listening'
  BY <1>2 DEF IInv, Listening, Serving, Master
<1>8. Truthful'
  BY <1>2 DEF IInv, Truthful, Own, lockVars
<1>9. QED
  BY <1>3, <1>4, <1>5, <1>6, <1>7, <1>8 DEF IInv

\* A master goes on holding its lock and its listener; it may rewrite the
\* metadata or settle its port meanwhile.
LEMMA MasterStep ==
  ASSUME IInv, NEW p \in Procs, NEW r, Fits(r), Go(p, r),
         Master(p), ~Serving(p),
         r.pc \in {"truncate", "write", "resolve", "retruncate", "rewrite",
                   "bind"},
         r.file = proc[p].file,
         NEW text \in Info \cup {NoInfo},
         \/ meta' = [meta EXCEPT ![proc[p].file] = text]
         \/ UNCHANGED meta,
         r.pc \in {"resolve", "bind"}
           => meta'[r.file] = [pid |-> p, port |-> r.port],
         UNCHANGED <<file, made, holder, listen, crashes, uninst>>
  PROVE  IInv'
<1> USE DEF Go
<1>1. proc \in [Procs -> Proc] /\ r \in Proc /\ proc[p].file \in Files
  BY DEF IInv, TypeOK, Fits, OneFile, UsesFile
<1>2. \A q \in Procs : proc'[q] = IF q = p THEN r ELSE proc[q]
  BY <1>1
<1>3. TypeOK'
  BY <1>1 DEF IInv, TypeOK
<1>4. Budget'
  BY <1>2 DEF IInv, Budget, Fits
<1>5. OneFile'
  BY <1>2 DEF IInv, OneFile, UsesFile, Master
<1>6. Holding'
  BY <1>2 DEF IInv, Holding, Master
<1>7. Listening'
  BY <1>2 DEF IInv, Listening, Serving
<1>8. \A q \in Procs : Master(q) => q = p
  BY DEF IInv, Holding, OneFile, UsesFile
<1>9. Truthful'
  BY <1>2, <1>8 DEF IInv, Truthful, Own, Master
<1>10. QED
  BY <1>3, <1>4, <1>5, <1>6, <1>7, <1>9 DEF IInv

\* A process ends and the system takes its lock and its listener away.
LEMMA VanishStep ==
  ASSUME IInv, NEW p \in Procs, proc[p].pc # "gaveup", Vanish(p, "ended"),
         crashes' \in 0 .. MaxCrashes
  PROVE  IInv'
<1> USE DEF Vanish, Go
<1> DEFINE r == At(p, "ended")
<1>1. proc \in [Procs -> Proc] /\ Fits(r) /\ r.pc = "ended" /\ r \in Proc
  BY AtFits DEF IInv, TypeOK, Fits, Pc
<1> HIDE DEF r
<1>2. /\ proc' = [proc EXCEPT ![p] = r]
      /\ \A q \in Procs : proc'[q] = IF q = p THEN r ELSE proc[q]
  BY <1>1 DEF r
<1>3. /\ \A f \in Files : \A q \in Procs :
           q # p => (holder'[f] = q <=> holder[f] = q)
      /\ \A n \in PortNums : /\ listen'[n] # p
                             /\ \A q \in Procs :
                                  q # p => (listen'[n] = q <=> listen[n] = q)
  BY ProcsAssumption
<1>4. TypeOK'
  BY <1>1, <1>2 DEF IInv, TypeOK
<1>5. Budget'
  BY <1>1, <1>2 DEF IInv, Budget, Fits
<1>6. OneFile'
  BY <1>1, <1>2 DEF IInv, OneFile, UsesFile, Master
<1>7. Holding'
  BY <1>1, <1>2, <1>3 DEF IInv, Holding, OneFile, UsesFile, Master
<1>8. Listening'
  BY <1>1, <1>2, <1>3 DEF IInv, Listening, Serving, TypeOK, Proc
<1>9. Truthful'
  BY <1>1, <1>2 DEF IInv, Truthful, Own
<1>10. QED
  BY <1>4, <1>5, <1>6, <1>7, <1>8, <1>9 DEF IInv

\* A free lock is taken, by Acquire or to probe it.
LEMMA TakeStep ==
  ASSUME IInv, NEW p \in Procs, NEW pc \in {"truncate", "probed"},
         proc[p].pc \in {"probe", "trylock"},
         holder[proc[p].file] = Nobody,
         holder' = [holder EXCEPT ![proc[p].file] = p],
         Go(p, At(p, pc)),
         UNCHANGED <<file, made, meta, listen, crashes, uninst>>
  PROVE  IInv'
<1> USE DEF Go
<1> DEFINE r == At(p, pc)
<1>1. /\ proc \in [Procs -> Proc] /\ proc[p].file \in Files
      /\ Fits(r) /\ r \in Proc /\ r.pc = pc /\ r.file = proc[p].file
  BY AtFits DEF IInv, TypeOK, Fits, Pc, OneFile, UsesFile
<1> HIDE DEF r
<1>2. /\ proc' = [proc EXCEPT ![p] = r]
      /\ \A q \in Procs : proc'[q] = IF q = p THEN r ELSE proc[q]
  BY <1>1 DEF r
<1>3. \A q \in Procs : ~(Master(q) \/ proc[q].pc = "probed")
  BY ProcsAssumption DEF IInv, Holding, OneFile, UsesFile, Master
<1>4. TypeOK'
  BY <1>1, <1>2 DEF IInv, TypeOK
<1>5. Budget'
  BY <1>1, <1>2 DEF IInv, Budget, Fits
<1>6. OneFile'
  BY <1>1, <1>2 DEF IInv, OneFile, UsesFile, Master
<1>7. Holding'
  BY <1>1, <1>2, <1>3 DEF IInv, Holding, Master, TypeOK
<1>8. Listening'
  BY <1>1, <1>2 DEF IInv, Listening, Serving
<1>9. Truthful'
  BY <1>1, <1>2 DEF IInv, Truthful, Own
<1>10. QED
  BY <1>4, <1>5, <1>6, <1>7, <1>8, <1>9 DEF IInv

\* A probe lets go of the lock and answers.
LEMMA FreeStep ==
  ASSUME IInv, NEW p \in Procs, ReadFree(p)
  PROVE  IInv'
<1> USE DEF ReadFree, Answer, Go
<1> DEFINE r == Answered(p, proc[p].ret, Nil)
<1>1. /\ proc \in [Procs -> Proc] /\ proc[p].file \in Files
      /\ Fits(r) /\ r \in Proc
      /\ r.pc \in {"acquire", "find", "poll", "ready", "gaveup"}
  <2>1. proc[p].ret \in {"find", "poll", "lost"}
    BY DEF IInv, TypeOK, Proc
  <2>2. QED
    BY <2>1, AnsweredFits DEF IInv, TypeOK, Fits, OneFile, UsesFile
<1>2. /\ proc' = [proc EXCEPT ![p] = r]
      /\ \A q \in Procs : proc'[q] = IF q = p THEN r ELSE proc[q]
  BY <1>1
<1> HIDE DEF r
<1>3. \A q \in Procs : Master(q) \/ proc[q].pc = "probed" => q = p
  BY DEF IInv, Holding, OneFile, UsesFile, Master
<1>4. TypeOK'
  BY <1>1, <1>2 DEF IInv, TypeOK
<1>5. Budget'
  BY <1>1, <1>2 DEF IInv, Budget, Fits
<1>6. OneFile'
  BY <1>1, <1>2 DEF IInv, OneFile, UsesFile, Master
<1>7. Holding'
  BY <1>1, <1>2, <1>3 DEF IInv, Holding, Master
<1>8. Listening'
  BY <1>1, <1>2 DEF IInv, Listening, Serving
<1>9. Truthful'
  BY <1>1, <1>2 DEF IInv, Truthful, Own
<1>10. QED
  BY <1>4, <1>5, <1>6, <1>7, <1>8, <1>9 DEF IInv

\* The file is opened, and created if it was never there.
LEMMA OpenStep ==
  ASSUME IInv, NEW p \in Procs, AcquireOpen(p)
  PROVE  IInv'
<1> USE DEF AcquireOpen, Go
<1> DEFINE r == [proc[p] EXCEPT !.pc = "trylock", !.file = file']
<1>1. /\ proc \in [Procs -> Proc] /\ proc[p] \in Proc
      /\ file' \in Files /\ made' \in 0 .. MaxFiles
      /\ file # 0 => file' = file
  BY NumbersAssumption DEF IInv, TypeOK, OneFile, Files
<1>2. r \in Proc /\ Fits(r) /\ r.pc = "trylock" /\ r.file = file'
  <2>1. "trylock" \in Pc /\ file' \in 0 .. MaxFiles
    BY <1>1, NumbersAssumption DEF Pc, Files
  <2>2. r \in Proc
    BY <1>1, <2>1 DEF Proc
  <2>3. QED
    BY <1>1, <2>2 DEF IInv, Budget, Fits, Proc
<1>3. /\ proc' = [proc EXCEPT ![p] = r]
      /\ \A q \in Procs : proc'[q] = IF q = p THEN r ELSE proc[q]
  BY <1>1
<1> HIDE DEF r
<1>4. TypeOK'
  BY <1>1, <1>2, <1>3 DEF IInv, TypeOK, Files
<1>5. Budget'
  BY <1>2, <1>3 DEF IInv, Budget, Fits
<1>6. OneFile'
  BY <1>1, <1>2, <1>3, NumbersAssumption
     DEF IInv, OneFile, UsesFile, Master, Files
<1>7. Holding'
  BY <1>2, <1>3 DEF IInv, Holding, Master
<1>8. Listening'
  BY <1>2, <1>3 DEF IInv, Listening, Serving
<1>9. Truthful'
  BY <1>2, <1>3 DEF IInv, Truthful, Own
<1>10. QED
  BY <1>4, <1>5, <1>6, <1>7, <1>8, <1>9 DEF IInv

\* The master starts or stops to listen.
LEMMA ListenStep ==
  ASSUME IInv, NEW p \in Procs, NEW pc \in {"serving", "stopping"},
         NEW who,
         \/ /\ proc[p].pc = "bind" /\ pc = "serving" /\ who = p
            /\ listen[proc[p].port] = Nobody
         \/ proc[p].pc = "serving" /\ pc = "stopping" /\ who = Nobody,
         listen' = [listen EXCEPT ![proc[p].port] = who],
         Go(p, At(p, pc)),
         UNCHANGED <<lockVars, crashes, uninst>>
  PROVE  IInv'
<1> USE DEF Go, lockVars
<1> DEFINE r == At(p, pc)
<1>1. /\ proc \in [Procs -> Proc] /\ proc[p] \in Proc
      /\ proc[p].port \in PortNums
      /\ Fits(r) /\ r \in Proc /\ r.pc = pc /\ r.file = proc[p].file
      /\ r.port = proc[p].port
  BY AtFits DEF IInv, TypeOK, Fits, Pc, Proc
<1> HIDE DEF r
<1>2. /\ proc' = [proc EXCEPT ![p] = r]
      /\ \A q \in Procs : proc'[q] = IF q = p THEN r ELSE proc[q]
  BY <1>1 DEF r
<1>3. \A q \in Procs : Master(q) => q = p
  BY DEF IInv, Holding, OneFile, UsesFile, Master
<1>4. TypeOK'
  BY <1>1, <1>2 DEF IInv, TypeOK
<1>5. Budget'
  BY <1>1, <1>2 DEF IInv, Budget, Fits
<1>6. OneFile'
  BY <1>1, <1>2 DEF IInv, OneFile, UsesFile, Master
<1>7. Holding'
  BY <1>1, <1>2 DEF IInv, Holding, Master
<1>8. Listening'
  BY <1>1, <1>2, <1>3, ProcsAssumption
     DEF IInv, Listening, Serving, Master, TypeOK
<1>9. Truthful'
  BY <1>1, <1>2 DEF IInv, Truthful, Own
<1>10. QED
  BY <1>4, <1>5, <1>6, <1>7, <1>8, <1>9 DEF IInv

\* The port is settled: the process serves on it, or ends without one.
LEMMA ResolveStep ==
  ASSUME IInv, NEW p \in Procs, ResolvePort(p)
  PROVE  IInv'
<1>1. CASE Vanish(p, "ended") /\ UNCHANGED crashes
  BY <1>1, VanishStep DEF IInv, TypeOK, ResolvePort
<1>2. ASSUME NEW n \in Candidates(p),
             Go(p, [proc[p] EXCEPT !.pc = AfterResolve(p, n), !.port = n]),
             UNCHANGED <<lockVars, listen, uninst>>, UNCHANGED crashes
      PROVE  IInv'
  <2> DEFINE r == [proc[p] EXCEPT !.pc = AfterResolve(p, n), !.port = n]
  <2>1. proc[p] \in Proc /\ n \in PortNums /\ proc[p].pc = "resolve"
    BY DEF IInv, TypeOK, Candidates, ResolvePort
  <2>2. AfterResolve(p, n) \in {"bind", "retruncate"}
        /\ (AfterResolve(p, n) = "bind" => n = proc[p].port)
    BY DEF AfterResolve
  <2>3. AfterResolve(p, n) \in Pc
    BY <2>2 DEF Pc
  <2>4. r \in Proc
    BY <2>1, <2>3 DEF Proc
  <2>5. Fits(r)
    BY <2>1, <2>4 DEF IInv, Budget, Fits, Proc
  <2>6. r.pc = AfterResolve(p, n) /\ r.file = proc[p].file /\ r.port = n
    BY <2>1 DEF Proc
  <2>7. meta[proc[p].file] = [pid |-> p, port |-> proc[p].port]
    BY <2>1 DEF IInv, Truthful, Own
  <2>8. Master(p) /\ ~Serving(p)
    BY <2>1 DEF Master, Serving
  <2> HIDE DEF r
  <2>9. Go(p, r)
    BY <1>2 DEF r
  <2>10. /\ UNCHANGED meta
         /\ UNCHANGED <<file, made, holder, listen, crashes, uninst>>
    BY <1>2 DEF lockVars
  <2>11. r.pc \in {"resolve", "bind"}
           => meta'[r.file] = [pid |-> p, port |-> r.port]
    BY <2>2, <2>6, <2>7, <2>10
  <2>12. /\ NoInfo \in Info \cup {NoInfo}
         /\ r.pc \in {"truncate", "write", "resolve", "retruncate",
                      "rewrite", "bind"}
    BY <2>2, <2>6
  <2>13. QED
    BY <2>5, <2>6, <2>8, <2>9, <2>10, <2>11, <2>12, MasterStep
<1>3. QED
  BY <1>1, <1>2 DEF ResolvePort

\* Metadata are written.
LEMMA WriteStep ==
  ASSUME IInv, NEW p \in Procs, WriteInfo(p)
  PROVE  IInv'
<1>1. proc[p] \in Proc /\ Own(p) \in Info
  BY DEF IInv, TypeOK, Own, Info, Proc
<1>2. ASSUME NEW from, NEW to, NEW text \in Info \cup {NoInfo},
             Overwrite(p, from, to, text),
             \/ from = "truncate" /\ to = "write"
             \/ from = "retruncate" /\ to = "rewrite"
             \/ from = "write" /\ to = "resolve" /\ text = Own(p)
             \/ from = "rewrite" /\ to = "bind" /\ text = Own(p)
      PROVE  IInv'
  <2> USE DEF Overwrite
  <2>1. proc[p].pc = from /\ Master(p) /\ ~Serving(p)
        /\ proc[p].pc # "gaveup" /\ to \in Pc
    BY <1>2 DEF Master, Serving, Pc
  <2>2. Fits(At(p, to)) /\ At(p, to).pc = to
        /\ At(p, to).file = proc[p].file /\ At(p, to).port = proc[p].port
    BY <2>1, AtFits DEF IInv
  <2>3. proc[p].file \in Files
    BY <2>1 DEF IInv, OneFile, UsesFile
  <2>4. to \in {"resolve", "bind"}
          => meta'[proc[p].file] = [pid |-> p, port |-> proc[p].port]
    BY <1>2, <2>3 DEF IInv, TypeOK, Own
  <2>5. Go(p, At(p, to))
        /\ meta' = [meta EXCEPT ![proc[p].file] = text]
        /\ UNCHANGED <<file, made, holder, listen, crashes, uninst>>
        /\ to \in {"write", "resolve", "rewrite", "bind"}
    BY <1>2
  <2> HIDE DEF Overwrite
  <2> DEFINE r == At(p, to)
  <2>6. /\ Fits(r) /\ Go(p, r) /\ r.file = proc[p].file
        /\ r.pc \in {"truncate", "write", "resolve", "retruncate", "rewrite",
                     "bind"}
        /\ r.pc \in {"resolve", "bind"}
             => meta'[r.file] = [pid |-> p, port |-> r.port]
    BY <2>2, <2>4, <2>5
  <2> HIDE DEF r
  <2>7. QED
    BY <2>1, <2>5, <2>6, MasterStep
<1>3. QED
  BY <1>1, <1>2 DEF WriteInfo

\* A proxy, or a process that has no part in the lock, moves on.
LEMMA MoveStep ==
  ASSUME IInv, NEW p \in Procs,
         NEW pc \in {"find", "acquire", "look", "peek", "forward", "lost",
                     "ended"},
         proc[p].pc \in {"off", "probe", "trylock", "ready", "forward"},
         pc \in {"look", "peek"} => proc[p].pc \in {"probe", "trylock"},
         Go(p, At(p, pc)),
         UNCHANGED <<lockVars, listen, crashes, uninst>>
  PROVE  IInv'
<1>1. ~Master(p) /\ pc \in Pc /\ proc[p].pc \notin {"probed", "gaveup"}
  BY DEF Master, Pc
<1>2. Fits(At(p, pc)) /\ At(p, pc).pc = pc /\ At(p, pc).file = proc[p].file
  BY <1>1, AtFits DEF IInv
<1>3. pc \in {"look", "peek"} => file # 0 /\ proc[p].file = file
  BY DEF IInv, OneFile, UsesFile
<1>4. QED
  BY <1>1, <1>2, <1>3, QuietStep

\* Every step of a process preserves the invariant.
LEMMA ProcessStep ==
  ASSUME IInv, NEW p \in Procs, Step(p) \/ Fate(p)
  PROVE  IInv'
<1>1. CASE Start(p)
  <2>1. Entry(p) \in {"find", "acquire"} /\ Go(p, At(p, Entry(p)))
    BY <1>1 DEF Entry, Start
  <2>2. QED
    BY <1>1, <2>1, MoveStep DEF Start
<1>2. CASE ReadOpen(p)
  <2>1. proc[p].pc \in {"find", "poll", "lost"} /\ proc[p] \in Proc
        /\ ~Master(p) /\ proc[p].pc \notin {"probed", "gaveup"}
    BY <1>2 DEF ReadOpen, IInv, TypeOK, Master
  <2>2. CASE file = 0
    <3> DEFINE r == Answered(p, proc[p].pc, Nil)
    <3>1. Fits(r) /\ r.pc \in {"acquire", "find", "poll", "ready", "gaveup"}
      BY <2>1, AnsweredFits DEF IInv
    <3>2. Go(p, r)
      BY <1>2, <2>2 DEF ReadOpen, Answer
    <3> HIDE DEF r
    <3>3. QED
      BY <1>2, <2>1, <3>1, <3>2, QuietStep DEF ReadOpen
  <2>3. CASE file # 0
    <3> DEFINE r == [proc[p] EXCEPT !.pc = "probe", !.ret = proc[p].pc,
                                    !.file = file]
    <3>1. file \in 0 .. MaxFiles /\ "probe" \in Pc
      BY DEF IInv, TypeOK, Pc
    <3>2. r \in Proc /\ r.pc = "probe" /\ r.file = file
      BY <2>1, <3>1 DEF Proc
    <3>3. Fits(r)
      BY <2>1, <3>2 DEF IInv, Budget, Fits, Proc
    <3>4. Go(p, r)
      BY <1>2, <2>3 DEF ReadOpen
    <3> HIDE DEF r
    <3>5. QED
      BY <1>2, <2>1, <2>3, <3>2, <3>3, <3>4, QuietStep DEF ReadOpen
  <2>4. QED
    BY <2>2, <2>3
<1>3. CASE ReadProbe(p)
  <2>1. CASE holder[proc[p].file] = Nobody
    BY <1>3, <2>1, TakeStep DEF ReadProbe
  <2>2. CASE holder[proc[p].file] # Nobody
    BY <1>3, <2>2, MoveStep DEF ReadProbe, lockVars
  <2>3. QED
    BY <2>1, <2>2
<1>4. CASE ReadFree(p)
  BY <1>4, FreeStep
<1>5. CASE ReadBusy(p)
  <2> DEFINE ans == meta[proc[p].file]
             r == Answered(p, proc[p].ret, ans)
  <2>1. proc[p].ret \in {"find", "poll", "lost"}
        /\ ans \in Info \cup {NoInfo, Nil}
        /\ ~Master(p) /\ proc[p].pc \notin {"probed", "gaveup"}
    BY <1>5 DEF ReadBusy, IInv, TypeOK, OneFile, UsesFile, Proc, Master
  <2>2. Fits(r) /\ r.pc \in {"acquire", "find", "poll", "ready", "gaveup"}
    <3> HIDE DEF ans
    <3> QED
      BY <2>1, AnsweredFits DEF IInv
  <2>3. Go(p, r)
    BY <1>5 DEF ReadBusy, Answer
  <2> HIDE DEF r, ans
  <2>4. QED
    BY <1>5, <2>1, <2>2, <2>3, QuietStep DEF ReadBusy
<1>6. CASE AcquireOpen(p)
  BY <1>6, OpenStep
<1>7. CASE AcquireLock(p)
  <2>1. CASE holder[proc[p].file] = Nobody
    BY <1>7, <2>1, TakeStep DEF AcquireLock, MayLock
  <2>2. CASE holder[proc[p].file] # Nobody
    BY <1>7, <2>2, MoveStep DEF AcquireLock, MayLock, lockVars
  <2>3. QED
    BY <2>1, <2>2
<1>8. CASE AcquireBusy(p)
  <2> DEFINE info == meta[proc[p].file]
  <2>1. info \in Info \cup {NoInfo} /\ ~Master(p)
        /\ proc[p].pc \notin {"probed", "gaveup"}
    BY <1>8 DEF AcquireBusy, IInv, TypeOK, OneFile, UsesFile, Master
  <2>2. CASE p \notin Stdio /\ info # NoInfo
    <3>1. Fits(Follow(p, info)) /\ Follow(p, info).pc = "ready"
      BY <2>1, <2>2, FollowFits DEF IInv
    <3>2. Go(p, Follow(p, info))
      BY <1>8, <2>2 DEF AcquireBusy
    <3> DEFINE r == Follow(p, info)
    <3>3. Fits(r) /\ r.pc = "ready" /\ Go(p, r)
      BY <3>1, <3>2
    <3> HIDE DEF r
    <3>4. QED
      BY <1>8, <2>1, <3>3, QuietStep DEF AcquireBusy
  <2>3. CASE ~(p \notin Stdio /\ info # NoInfo)
    <3> DEFINE r == [At(p, "poll") EXCEPT !.polls = 0]
    <3>1. Fits(At(p, "poll")) /\ At(p, "poll").pc = "poll"
      BY <2>1, AtFits DEF IInv, Pc
    <3>2. Fits(r) /\ r.pc = "poll"
      BY <3>1, NumbersAssumption DEF Fits, Proc
    <3>3. Go(p, r)
      BY <1>8, <2>3 DEF AcquireBusy
    <3> HIDE DEF r
    <3>4. QED
      BY <1>8, <2>1, <3>2, <3>3, QuietStep DEF AcquireBusy
  <2>4. QED
    BY <2>2, <2>3
<1>9. CASE WriteInfo(p)
  BY <1>9, WriteStep
<1>10. CASE ResolvePort(p)
  BY <1>10, ResolveStep
<1>11. CASE Bind(p)
  <2>1. CASE listen[proc[p].port] = Nobody
    BY <1>11, <2>1, ListenStep DEF Bind
  <2>2. CASE listen[proc[p].port] # Nobody
    BY <1>11, <2>2, VanishStep DEF Bind, IInv, TypeOK
  <2>3. QED
    BY <2>1, <2>2
<1>12. CASE StopServing(p)
  BY <1>12, ListenStep DEF StopServing
<1>13. CASE Release(p)
  BY <1>13, VanishStep DEF Release, IInv, TypeOK
<1>14. CASE MasterReady(p)
  BY <1>14, MoveStep DEF MasterReady
<1>15. CASE MasterGone(p) \/ MasterMute(p) \/ ClientLeaves(p)
  BY <1>15, MoveStep DEF MasterGone, MasterMute, ClientLeaves
<1>16. CASE Crash(p)
  <2>1. crashes' \in 0 .. MaxCrashes /\ proc[p].pc # "gaveup"
    BY <1>16, NumbersAssumption DEF Crash, Alive, IInv, TypeOK
  <2>2. QED
    BY <1>16, <2>1, VanishStep DEF Crash
<1>17. QED
  BY <1>1, <1>2, <1>3, <1>4, <1>5, <1>6, <1>7, <1>8, <1>9, <1>10, <1>11,
     <1>12, <1>13, <1>14, <1>15, <1>16
     DEF Step, Fate, Discover, Acquire, Serve, Proxy

\* A step that changes nothing preserves the invariant.
LEMMA StutterStep ==
  ASSUME IInv, UNCHANGED vars
  PROVE  IInv'
BY DEF vars, lockVars, IInv, TypeOK, Budget, OneFile, UsesFile, Holding,
       Listening, Truthful, Master, Serving, Own

\* The initial states satisfy the invariant.
LEMMA InitIInv == Init => IInv
<1> SUFFICES ASSUME Init PROVE IInv
  OBVIOUS
<1> USE DEF Init
<1>1. /\ Base \in PortNums /\ 0 \in 0 .. MaxFiles
      /\ 0 \in 0 .. MaxPolls + 1 /\ 0 \in 0 .. MaxTakeovers + 1
      /\ 0 \in 0 .. MaxWaits + 1 /\ 0 \in 0 .. MaxCrashes
      /\ 0 <= MaxPolls /\ 0 <= MaxTakeovers /\ 0 <= MaxWaits
      /\ "off" \in Pc
  BY NumbersAssumption DEF PortNums, Pc
<1>2. proc \in [Procs -> Proc]
  BY <1>1 DEF Proc
<1>3. TypeOK
  BY <1>1, <1>2 DEF TypeOK
<1>4. Budget
  BY <1>1 DEF Budget
<1>5. OneFile /\ Holding
  BY DEF OneFile, UsesFile, Holding, Master
<1>6. Listening /\ Truthful
  BY ProcsAssumption DEF Listening, Serving, Truthful
<1>7. QED
  BY <1>3, <1>4, <1>5, <1>6 DEF IInv

\* The invariant holds always, if nobody uninstalls.
LEMMA Invariance ==
  ASSUME ~Uninstalling
  PROVE  Spec => []IInv
<1>1. IInv /\ [Next]_vars => IInv'
  <2> SUFFICES ASSUME IInv, [Next]_vars PROVE IInv'
    OBVIOUS
  <2>1. ~UninstallCheck /\ ~UninstallRemove
    BY DEF UninstallCheck, UninstallRemove, IInv, OneFile
  <2>2. QED
    BY <2>1, ProcessStep, StutterStep DEF Next
<1>2. QED
  BY <1>1, InitIInv, PTL DEF Spec

-----------------------------------------------------------------------------
\* Every variable keeps its type; no process exceeds the limits on polls,
\* take-overs and waits before it gives up (takeoverBudget).
THEOREM TakeoverTypes ==
  ASSUME ~Uninstalling
  PROVE  Spec => []TypeOK
<1>1. IInv => TypeOK
  BY DEF IInv
<1>2. QED
  BY <1>1, Invariance, PTL

\* At most one process is the master (Acquire, Release), for any number of
\* processes, probing, crashing and starting in any order.
THEOREM OnlyOneMaster ==
  ASSUME ~Uninstalling
  PROVE  Spec => []OneMaster
<1>1. IInv => OneMaster
  BY DEF IInv, OneMaster, Holding, OneFile, UsesFile
<1>2. QED
  BY <1>1, Invariance, PTL

\* The lock file of a serving master tells where it listens (Acquire,
\* UpdatePort), and whoever listens holds the lock (StartHTTPServer,
\* gracefulShutdown).
THEOREM MasterCanBeFound ==
  ASSUME ~Uninstalling
  PROVE  Spec => []MasterFound
<1>1. IInv => Discoverable
  BY DEF IInv, Discoverable, Listening, Truthful, OneFile, UsesFile,
         Master, Serving
<1>2. IInv => ListenersAreMasters
  BY DEF IInv, ListenersAreMasters, Listening, Serving, Master
<1>3. IInv => MasterFound
  BY <1>1, <1>2 DEF MasterFound
<1>4. QED
  BY <1>3, Invariance, PTL
=============================================================================
