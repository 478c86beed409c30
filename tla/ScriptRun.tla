----------------------------- MODULE ScriptRun -----------------------------
(***************************************************************************)
(* pkg/mcp/tools/serial_script.go with Subscribe and Append of             *)
(* internal/buffer/buffer.go: one script writes to the port at set times   *)
(* and in answer to what the device sends, until everything it waits for   *)
(* has happened, its time is over, it is cancelled or the link changes.    *)
(*                                                                         *)
(* One script runs: scriptMu refuses a second one, which changes nothing.  *)
(* Device data is a stream of letters, a pattern is a word, time is a      *)
(* clock that may advance between any two steps.  The link is what         *)
(* IsConnected and ConnectionGen of the manager tell (see SerialManager).  *)
(* A definition marked "mutant" is not part of the model.                  *)
(***************************************************************************)
EXTENDS Integers, Sequences, FiniteSets, Functions, SequencesExt

CONSTANTS
  Letters,      \* what a device may send
  Chunks,       \* the pieces it may send
  Scripts,      \* the scripts a client may ask for, invalid ones included
  MinTimeout,   \* ScriptLimits.MinMs
  MaxTimeout,   \* ScriptLimits.MaxMs
  WindowMax,    \* scriptWindowMax
  ScheduleMax,  \* scriptScheduleMax
  AtMax,        \* scriptMaxAtMsValue
  MaxStart,     \* bound: the latest time the schedule is ready
  MaxChunks,    \* bound: pieces that arrive while the script listens
  MaxGen        \* bound: connection generations

\* A timed write and a match rule, as the client states them.
TimedWrite == [at : Int, interval : Int, count : Int]
MatchRule  == [word : Seq(Letters), repeat : BOOLEAN, max : Int, delay : Int]

ASSUME ScriptAssumption ==
  /\ Chunks \subseteq Seq(Letters)
  /\ Scripts \subseteq [writes : Seq(TimedWrite), rules : Seq(MatchRule),
                        timeout : Int]
ASSUME LimitsAssumption ==
  /\ MinTimeout \in Nat \ {0} /\ MaxTimeout \in Nat
  /\ WindowMax \in Nat \ {0} /\ ScheduleMax \in Nat /\ AtMax \in Nat
  /\ MaxStart \in Nat /\ MaxChunks \in Nat /\ MaxGen \in Nat

VARIABLES
  now,        \* the clock
  ticked,     \* connTick.C holds a tick
  link,       \* whether the port is open, and the generation
  cancelled,  \* ctx.Err() # nil
  adding,     \* the read loop inside Append, which holds the buffer's lock
  arrived,    \* what has been pushed to the inbox so far, in order
  drained,    \* how much of it has left the inbox
  seen,       \* how much of it process() has begun with
  sig,        \* inbox.sig holds a signal
  script,     \* input
  pc,         \* where the script is
  late,       \* it has drained behind the barrier
  gen,        \* connGen
  start,      \* the time the schedule was ready
  timed,      \* timed writes done, per entry of writes (schIdx is their sum)
  fired,      \* hits, per rule
  scanFrom,   \* per rule, the offset behind its last hit
  delayed,    \* per rule, the times its queued writes are due
  sent,       \* per rule, writes the port accepted
  window,     \* what patterns are matched against
  base,       \* absStart: the offset of its first letter
  work,       \* hits of the current piece still to be served
  result      \* what the tool answers

envVars   == <<now, ticked, link, cancelled>>
inboxVars == <<adding, arrived, drained, sig>>
scanVars  == <<seen, window, base, work, scanFrom>>
countVars == <<timed, fired, sent, delayed>>
runVars   == <<script, gen, start, late>>
vars == <<envVars, inboxVars, scanVars, countVars, runVars, pc, result>>

Rules    == DOMAIN script.rules
Writes   == DOMAIN script.writes
Deadline == start + script.timeout

Item == [data : Chunks, at : Nat]
Hit  == [rule : Nat, end : Nat]
Nobody == [pc |-> "off", item |-> <<>>]

Pcs == {"call", "subscribe", "capture", "expand", "top", "drain", "scan",
        "barrier", "timed", "delayed", "wait", "done"}
Results == {"none", "refused", "cancelled", "stale", "failed", "complete",
            "timeout"}

-----------------------------------------------------------------------------
(* The script as the client states it.                                      *)

\* How many timed writes an entry stands for, and when its i-th is due.
Want(w)      == IF w.interval > 0 /\ w.count > 0 THEN w.count ELSE 1
Offset(w, i) == w.at + i * w.interval

ValidRule(r) == r.word # <<>> /\ r.delay \in 0 .. AtMax

\* The checks of the expansion: what is left of the limit is compared, and
\* the last offset is bounded by a division, lest a sum overflow.
ValidWrite(w, planned) ==
  /\ w.at \in 0 .. AtMax /\ w.interval \in 0 .. AtMax /\ w.count >= 0
  /\ Want(w) <= ScheduleMax - planned
  /\ w.interval > 0 => Want(w) - 1 <= (AtMax - w.at) \div w.interval

\* How many writes the first i entries stand for.
Planned(writes) ==
  LET sum[i \in 0 .. Len(writes)] ==
        IF i = 0 THEN 0 ELSE sum[i - 1] + Want(writes[i])
  IN  sum

\* How often a rule may fire: once, or max times, or without a limit.
Spent(r, n) ==
  LET rule == script.rules[r]
  IN  n > 0 /\ (~rule.repeat \/ (rule.max > 0 /\ n >= rule.max))

-----------------------------------------------------------------------------
(* Matching.                                                                *)

\* Where a word stands in a text.
Standing(word, text) ==
  {p \in 1 .. Len(text) - Len(word) + 1 :
     SubSeq(text, p, p + Len(word) - 1) = word}

\* FindAllIndex: from the left, each place that no earlier hit reaches into.
FindAll(win, word) ==
  CHOOSE hits \in SUBSET Standing(word, win) :
    \A p \in Standing(word, win) :
      p \in hits <=> \A h \in hits : h < p => h + Len(word) <= p

\* A hit that begins before the end of the rule's last one is not new.
IsNewAlways(r, i) == TRUE                                          \* mutant
IsNew(r, i) == base + i - 1 >= scanFrom[r]

\* The hits of one rule in a window that the loop over them serves.
NewHits(r, win) ==
  LET word == script.rules[r].word
      new  == {i \in FindAll(win, word) : IsNew(r, i)}
      took == {i \in new :
                 ~Spent(r, fired[r] + Cardinality({j \in new : j < i}))}
  IN  {[rule |-> r, end |-> base + i - 1 + Len(word)] : i \in took}

ExcessNever(win) == 0                                              \* mutant
Excess(win) == IF Len(win) > WindowMax THEN Len(win) - WindowMax ELSE 0

InTime(item) == start <= item.at /\ item.at <= Deadline

Queued == FoldFunction(+, 0, [r \in Rules |-> Len(delayed[r])])

\* Entries with a write that is left, and rules with one that is queued.
Left    == {i \in Writes : timed[i] < Want(script.writes[i])}
Waiting == {r \in Rules : delayed[r] # <<>>}

Looping == pc \notin {"call", "subscribe", "capture", "expand", "done"}

\* The expansion stays within its limits, although no sum was formed that
\* could overflow (serial_script.go:246, 256).
ScheduleFits ==
  Looping =>
    /\ Planned(script.writes)[Len(script.writes)] <= ScheduleMax
    /\ \A i \in Writes : \A k \in 0 .. Want(script.writes[i]) - 1 :
         Offset(script.writes[i], k) \in 0 .. AtMax

\* Types; the window, the schedule and the offsets keep within their limits.
TypeOK ==
  /\ now \in Nat /\ ticked \in BOOLEAN /\ cancelled \in BOOLEAN
  /\ link \in [up : BOOLEAN, gen : 0 .. MaxGen]
  /\ adding \in {Nobody} \cup [pc : {"push", "signal"}, item : Item]
  /\ arrived \in Seq(Item) /\ drained \in 0 .. Len(arrived)
  /\ seen \in 0 .. drained /\ sig \in BOOLEAN
  /\ script \in Scripts /\ pc \in Pcs /\ result \in Results
  /\ late \in BOOLEAN /\ gen \in 0 .. MaxGen /\ start \in 0 .. MaxStart
  /\ timed \in [Writes -> Nat] /\ fired \in [Rules -> Nat]
  /\ scanFrom \in [Rules -> Nat] /\ sent \in [Rules -> Nat]
  /\ delayed \in [Rules -> Seq(Nat)]
  /\ window \in Seq(Letters) /\ Len(window) <= WindowMax
  /\ base \in Nat /\ work \subseteq Hit
  /\ ScheduleFits

Init ==
  /\ script \in Scripts
  /\ now = 0 /\ ticked = FALSE /\ cancelled = FALSE
  /\ link = [up |-> TRUE, gen |-> 0]
  /\ adding = Nobody /\ arrived = <<>> /\ drained = 0 /\ sig = FALSE
  /\ seen = 0 /\ window = <<>> /\ base = 0 /\ work = {}
  /\ scanFrom = [r \in Rules |-> 0] /\ fired = [r \in Rules |-> 0]
  /\ sent = [r \in Rules |-> 0] /\ delayed = [r \in Rules |-> <<>>]
  /\ timed = [w \in Writes |-> 0]
  /\ pc = "call" /\ result = "none" /\ late = FALSE /\ gen = 0 /\ start = 0

-----------------------------------------------------------------------------
(* Time, the client, the link and the device.                               *)

Running   == pc \notin {"call", "subscribe", "done"}   \* subscribed
Connected == link.up /\ link.gen = gen

\* The clock stops when the script can no longer tell the time.
Tick ==
  /\ pc # "done" /\ now < IF Looping THEN Deadline + 1 ELSE MaxStart
  /\ now' = now + 1 /\ ticked' = Looping
  /\ UNCHANGED <<link, cancelled, inboxVars, scanVars, countVars, runVars, pc,
                 result>>

Cancel ==
  /\ pc # "done" /\ ~cancelled /\ cancelled' = TRUE
  /\ UNCHANGED <<now, ticked, link, inboxVars, scanVars, countVars, runVars,
                 pc, result>>

\* A disconnect or a read error; a connect; an UpdateConfig, which counts
\* even if it is refused.
LinkChanges ==
  /\ pc # "done"
  /\ \/ link.gen < MaxGen /\ link' \in [up : {FALSE, link.up},
                                        gen : {link.gen + 1}]
     \/ ~link.up /\ link' = [link EXCEPT !.up = TRUE]
  /\ UNCHANGED <<now, ticked, cancelled, inboxVars, scanVars, countVars,
                 runVars, pc, result>>

\* Append takes the lock and the time; inbox.push queues, then signals.  An
\* Append that was under way at Subscribe does not reach the inbox.
Append1 ==
  /\ Running /\ adding = Nobody /\ Len(arrived) < MaxChunks
  /\ \E c \in Chunks :
       adding' = [pc |-> "push", item |-> [data |-> c, at |-> now]]
  /\ UNCHANGED <<envVars, arrived, drained, sig, scanVars, countVars, runVars,
                 pc, result>>

Append2 ==
  /\ Running /\ adding.pc = "push"
  /\ arrived' = Append(arrived, adding.item)
  /\ adding' = [adding EXCEPT !.pc = "signal"]
  /\ UNCHANGED <<envVars, drained, sig, scanVars, countVars, runVars, pc,
                 result>>

\* A signal channel without a place: the signal is lost unless it is awaited.
Append3Unbuffered ==                                               \* mutant
  /\ Running /\ adding.pc = "signal"
  /\ sig' = (sig \/ pc = "wait") /\ adding' = Nobody
  /\ UNCHANGED <<envVars, arrived, drained, scanVars, countVars, runVars, pc,
                 result>>
Append3 ==
  /\ Running /\ adding.pc = "signal"
  /\ sig' = TRUE /\ adding' = Nobody
  /\ UNCHANGED <<envVars, arrived, drained, scanVars, countVars, runVars, pc,
                 result>>

-----------------------------------------------------------------------------
(* Before the event loop.                                                   *)

Goto(p)   == pc' = p /\ UNCHANGED result
Finish(r) == pc' = "done" /\ result' = r

Call ==
  /\ pc = "call"
  /\ IF /\ script.timeout \in MinTimeout .. MaxTimeout
        /\ script.writes # <<>> \/ script.rules # <<>>
        /\ link.up
        /\ \A r \in Rules : ValidRule(script.rules[r])
     THEN Goto("subscribe") ELSE Finish("refused")
  /\ UNCHANGED <<envVars, inboxVars, scanVars, countVars, runVars>>

Subscribe ==
  /\ pc = "subscribe" /\ Goto("capture")
  /\ UNCHANGED <<envVars, inboxVars, scanVars, countVars, runVars>>

CaptureGen ==
  /\ pc = "capture" /\ gen' = link.gen /\ Goto("expand")
  /\ UNCHANGED <<envVars, inboxVars, scanVars, countVars, script, start, late>>

Expand ==
  /\ pc = "expand"
  /\ IF \A i \in Writes :
          ValidWrite(script.writes[i], Planned(script.writes)[i - 1])
     THEN start' = now /\ Goto("top")
     ELSE Finish("refused") /\ UNCHANGED start
  /\ UNCHANGED <<envVars, inboxVars, scanVars, countVars, script, gen, late>>

-----------------------------------------------------------------------------
(* The event loop.                                                          *)

Complete ==
  /\ Left = {} /\ Waiting = {}
  /\ \A r \in Rules : fired[r] > 0

\* What a result that would be a success becomes: completeResult, and the
\* same two questions before a time-out is reported.
Unchecked(r) == IF cancelled THEN "cancelled" ELSE r               \* mutant
Checked(r) ==
  IF cancelled THEN "cancelled" ELSE IF ~Connected THEN "stale" ELSE r

Top ==
  /\ pc = "top"
  /\ IF cancelled \/ ~Connected THEN Finish(Checked("none")) ELSE Goto("drain")
  /\ UNCHANGED <<envVars, inboxVars, scanVars, countVars, runVars>>

Drain ==
  /\ pc = "drain" /\ drained' = Len(arrived) /\ Goto("scan")
  /\ UNCHANGED <<envVars, adding, arrived, sig, scanVars, countVars, runVars>>

\* process() takes the next piece: its hits in the window, then the window
\* is cut.
TakePiece ==
  /\ pc = "scan" /\ work = {} /\ seen < drained
  /\ seen' = seen + 1
  /\ LET item == arrived[seen + 1]
         win  == window \o item.data
     IN  IF InTime(item)
         THEN /\ work' = UNION {NewHits(r, win) : r \in Rules}
              /\ window' = SubSeq(win, Excess(win) + 1, Len(win))
              /\ base' = base + Excess(win)
         ELSE UNCHANGED <<work, window, base>>
  /\ UNCHANGED <<envVars, inboxVars, scanFrom, countVars, runVars, pc, result>>

Count(h) ==
  /\ fired' = [fired EXCEPT ![h.rule] = @ + 1]
  /\ scanFrom' = [scanFrom EXCEPT ![h.rule] = h.end]

\* WriteIfSameGen for a rule: it may find another connection, fail or write.
Write(r) ==
  \/ ~Connected /\ Finish("stale") /\ UNCHANGED sent
  \/ Connected /\ Finish("failed") /\ UNCHANGED sent
  \/ /\ Connected /\ sent' = [sent EXCEPT ![r] = @ + 1]
     /\ UNCHANGED <<pc, result>>

\* The loops go over the rules in order and over a rule's hits from the left.
First == CHOOSE h \in work :
           \A g \in work :
             h.rule < g.rule \/ (h.rule = g.rule /\ h.end <= g.end)

\* One hit: answered at once, or queued for later.
Serve ==
  /\ pc = "scan" /\ work # {}
  /\ LET h     == First
         delay == script.rules[h.rule].delay
     IN  \/ /\ cancelled
            /\ Finish("cancelled")
            /\ UNCHANGED <<fired, sent, delayed, scanFrom>>
         \/ /\ ~cancelled /\ delay = 0
            /\ Count(h) /\ Write(h.rule) /\ UNCHANGED delayed
         \/ /\ ~cancelled /\ delay > 0 /\ Queued < ScheduleMax
            /\ Count(h)
            /\ delayed' = [delayed EXCEPT ![h.rule] = Append(@, now + delay)]
            /\ UNCHANGED <<sent, pc, result>>
         \/ /\ ~cancelled /\ delay > 0 /\ Queued >= ScheduleMax
            /\ Count(h) /\ Finish("failed") /\ UNCHANGED <<sent, delayed>>
  /\ work' = IF pc' = "done" THEN work ELSE work \ {First}
  /\ UNCHANGED <<envVars, inboxVars, seen, window, base, timed, runVars>>

\* After the pieces: done, out of time, or on to the writes that are due.
\* A script that found its time over drains once more behind the barrier.
AfterDeadline == IF late THEN Finish(Checked("timeout")) ELSE Goto("barrier")

Scanned ==
  /\ pc = "scan" /\ work = {} /\ seen = drained
  /\ IF Complete THEN Finish(Checked("complete"))
     ELSE IF late \/ now > Deadline THEN AfterDeadline
     ELSE Goto("timed")
  /\ UNCHANGED <<envVars, inboxVars, scanVars, countVars, runVars>>

\* buf.Length(): whoever is inside Append has queued its piece.
Barrier ==
  /\ pc = "barrier" /\ adding = Nobody
  /\ late' = TRUE /\ Goto("drain")
  /\ UNCHANGED <<envVars, inboxVars, scanVars, countVars, script, gen, start>>

\* What is next.  Equal times are served in any order: neither the sort nor
\* the heap is stable.
NextAt(i)  == start + Offset(script.writes[i], timed[i])
FirstTimed == {i \in Left : \A j \in Left : NextAt(i) <= NextAt(j)}
FirstDelayed ==
  {r \in Waiting : \A q \in Waiting : Head(delayed[r]) <= Head(delayed[q])}
InTimeNow  == now <= Deadline
DueTimed   == {i \in FirstTimed : InTimeNow /\ NextAt(i) <= now}
DueDelayed == {r \in FirstDelayed : InTimeNow /\ Head(delayed[r]) <= now}

WriteTimed ==
  /\ pc = "timed" /\ DueTimed # {}
  /\ \/ cancelled /\ Finish("cancelled") /\ UNCHANGED timed
     \/ ~cancelled /\ ~Connected /\ Finish("stale") /\ UNCHANGED timed
     \/ ~cancelled /\ Connected /\ Finish("failed") /\ UNCHANGED timed
     \/ /\ ~cancelled /\ Connected
        /\ \E i \in DueTimed : timed' = [timed EXCEPT ![i] = @ + 1]
        /\ UNCHANGED <<pc, result>>
  /\ UNCHANGED <<envVars, inboxVars, scanVars, fired, sent, delayed, runVars>>

TimedDone ==
  /\ pc = "timed" /\ DueTimed = {} /\ Goto("delayed")
  /\ UNCHANGED <<envVars, inboxVars, scanVars, countVars, runVars>>

\* The entry leaves the heap before it is written.
WriteDelayed ==
  /\ pc = "delayed" /\ DueDelayed # {}
  /\ \/ cancelled /\ Finish("cancelled") /\ UNCHANGED <<sent, delayed>>
     \/ /\ ~cancelled
        /\ \E r \in DueDelayed :
             /\ delayed' = [delayed EXCEPT ![r] = Tail(@)]
             /\ Write(r)
  /\ UNCHANGED <<envVars, inboxVars, scanVars, timed, fired, runVars>>

DelayedDone ==
  /\ pc = "delayed" /\ DueDelayed = {}
  /\ IF Complete THEN Finish(Checked("complete")) ELSE Goto("wait")
  /\ UNCHANGED <<envVars, inboxVars, scanVars, countVars, runVars>>

\* The timer is set to the first write that is left.
TimerFires ==
  \/ \E i \in Left : NextAt(i) <= now
  \/ \E r \in Waiting : Head(delayed[r]) <= now

WakesForWork ==                                                    \* mutant
  \/ cancelled /\ Finish("cancelled") /\ UNCHANGED <<sig, ticked>>
  \/ sig /\ Goto("top") /\ sig' = FALSE /\ UNCHANGED ticked
  \/ TimerFires /\ Goto("top") /\ UNCHANGED <<sig, ticked>>
Wakes ==
  \/ cancelled /\ Finish("cancelled") /\ UNCHANGED <<sig, ticked>>
  \/ sig /\ Goto("top") /\ sig' = FALSE /\ UNCHANGED ticked
  \/ TimerFires /\ Goto("top") /\ UNCHANGED <<sig, ticked>>
  \/ ticked /\ Goto("top") /\ ticked' = FALSE /\ UNCHANGED sig

Wait ==
  /\ pc = "wait" /\ Wakes
  /\ UNCHANGED <<now, link, cancelled, adding, arrived, drained, scanVars,
                 countVars, runVars>>

-----------------------------------------------------------------------------
ScriptStep ==
  \/ Call \/ Subscribe \/ CaptureGen \/ Expand
  \/ Top \/ Drain \/ TakePiece \/ Serve \/ Scanned \/ Barrier
  \/ WriteTimed \/ TimedDone \/ WriteDelayed \/ DelayedDone \/ Wait

Next == \/ Tick \/ Cancel \/ LinkChanges \/ Append1 \/ Append2 \/ Append3
        \/ ScriptStep

Spec == Init /\ [][Next]_vars

\* The script's goroutine runs on, whoever holds the buffer's lock lets it go
\* (the callback does not block), and time passes.
FairSpec ==
  Spec /\ WF_vars(ScriptStep) /\ WF_vars(Append2) /\ WF_vars(Append3)
       /\ WF_vars(Tick)

-----------------------------------------------------------------------------
(* What a rule should have answered, told without window and offsets: the   *)
(* places where its word stands in everything that arrived in time.         *)

Accepted(item) == IF InTime(item) THEN item.data ELSE <<>>
Text      == FlattenSeq([k \in 1 .. seen |-> Accepted(arrived[k])])
Places(r) == Standing(script.rules[r].word, Text)
Allowed(r, n) == LET rule == script.rules[r]
                 IN  IF n = 0 THEN 0 ELSE IF ~rule.repeat THEN 1
                     ELSE IF rule.max > 0 /\ n > rule.max THEN rule.max ELSE n
Expected(r) == Allowed(r, Cardinality(Places(r)))

\* A word that is a shifted copy of itself may hide a place behind a hit; one
\* longer than the window may stand partly in front of it.
Simple(word) ==
  /\ Len(word) <= WindowMax
  /\ \A k \in 1 .. Len(word) - 1 :
       SubSeq(word, 1, Len(word) - k) # SubSeq(word, k + 1, Len(word))

\* Between two pieces every rule has been served once for each place its word
\* stands at, and never twice for one, whatever the pieces are, how they are
\* cut and what the window has lost; nothing that came before the start or
\* after the deadline counts (process and its window, serial_script.go:340).
HitsExact ==
  Looping /\ work = {} =>
    \A r \in Rules : IF Simple(script.rules[r].word)
                     THEN fired[r] = Expected(r) ELSE fired[r] <= Expected(r)

\* A script that reports a time-out has looked at everything that arrived
\* before its deadline, a piece still inside Append included (the barrier,
\* serial_script.go:517).
NothingMissed ==
  result = "timeout" =>
    /\ \A k \in seen + 1 .. Len(arrived) : ~InTime(arrived[k])
    /\ adding.pc = "push" => ~InTime(adding.item)

\* Both, whatever pieces the data comes in and when the deadline falls.
HitsRight == HitsExact /\ NothingMissed

\* The answer is true when it is given: a success hides neither a lost link
\* nor a cancellation, "complete" means that every write has reached the port
\* on one connection, and "timeout" counts as sent exactly what was sent.
TruthfulEnd ==
  /\ result \in {"complete", "timeout"} =>
       /\ Connected /\ ~cancelled
       /\ \A r \in Rules : fired[r] = sent[r] + Len(delayed[r])
  /\ result = "complete" =>
       /\ \A i \in Writes : timed[i] = Want(script.writes[i])
       /\ \A r \in Rules : sent[r] > 0 /\ sent[r] = fired[r]
  /\ result = "timeout" => now > Deadline

\* A script that waits while a piece lies in its inbox has a signal on its
\* way (push and drain, serial_script.go:122): no piece waits for the tick.
NoLostWakeup ==
  pc = "wait" /\ drained < Len(arrived) => sig \/ adding.pc = "signal"

\* A script ends, although neither data nor a write that is due may ever wake
\* it (connTick, serial_script.go:284).
ScriptEnds == <>(pc = "done")

=============================================================================
