--------------------------- MODULE DataPathProofs ---------------------------
(***************************************************************************)
(* Proofs about DataPath for any number of pages and readers and any       *)
(* capacities.  The argument: the chunks of the stream follow each other   *)
(* without a gap (Chain), the channel holds the last of them (Channel), so *)
(* what has gone to the buffer is the stream up to a known byte, of which  *)
(* the buffer is the end (Filled).  Each step does one of six things to a  *)
(* page (Effect), under which what it has got and has waiting stay chunks  *)
(* in order up to the one the broadcast has reached, and all of them since *)
(* it joined unless its queue was full (InStep).                           *)
(***************************************************************************)
EXTENDS DataPath, SequenceTheorems, TLAPS

\* The last byte of the n-th chunk, and how many chunks forwardLoop has taken.
Hi(n)     == IF n = 0 THEN 0 ELSE sent[n].hi
Forwarded == Len(sent) - Len(serial)

\* Chunks follow each other, and none is larger than the buffer.
Chain ==
  \A i \in 1 .. Len(sent) :
    /\ sent[i].lo = Hi(i - 1) + 1
    /\ sent[i].hi - Hi(i - 1) \in 1 .. BufCap
    /\ i <= sent[i].hi

\* The channel holds the end of what was sent; the chunk that is broadcast is
\* the one before.
Channel ==
  /\ Len(serial) <= Len(sent)
  /\ \A k \in 1 .. Len(serial) : serial[k] = Forwarded + k
  /\ forward.pc = "broadcast" => forward.msg = Forwarded /\ Forwarded >= 1

\* The last byte that has gone to the buffer.
Passed == Hi(IF forward.pc = "broadcast" THEN Forwarded - 1 ELSE Forwarded)

\* The buffer is the end of the stream so far; what was read is older.
Filled ==
  /\ \A i \in 1 .. Len(buffer) : buffer[i] = Passed - Len(buffer) + i
  /\ \A i \in 1 .. Len(taken) : taken[i] <= Passed - Len(buffer)
  /\ \A i, j \in 1 .. Len(taken) : i < j => taken[i] < taken[j]

Stream == TypeOK /\ Chain /\ Channel /\ Filled

-----------------------------------------------------------------------------
(* Sequences.                                                               *)

\* What Tail, \o and SubSeq do, position by position.
LEMMA TailAt ==
  ASSUME NEW S, NEW s \in Seq(S), s # <<>>
  PROVE  /\ Len(s) \in Nat \ {0}
         /\ Tail(s) \in Seq(S) /\ Len(Tail(s)) = Len(s) - 1
         /\ \A i \in 1 .. Len(Tail(s)) : Tail(s)[i] = s[i + 1]
         /\ Head(s) = s[1] /\ s[1] \in S
  OBVIOUS

LEMMA ConcatAt ==
  ASSUME NEW S, NEW s \in Seq(S), NEW t \in Seq(S)
  PROVE  /\ s \o t \in Seq(S) /\ Len(s \o t) = Len(s) + Len(t)
         /\ \A i \in 1 .. Len(s) : (s \o t)[i] = s[i]
         /\ \A i \in 1 .. Len(t) : (s \o t)[Len(s) + i] = t[i]
         /\ \A i \in 1 .. Len(s \o t) :
              i \in 1 .. Len(s) \/ i - Len(s) \in 1 .. Len(t)
  OBVIOUS

LEMMA SubSeqAt ==
  ASSUME NEW S, NEW s \in Seq(S), NEW m \in Nat \ {0}, NEW n \in Nat,
         m <= n + 1, n <= Len(s)
  PROVE  /\ SubSeq(s, m, n) \in Seq(S) /\ Len(SubSeq(s, m, n)) = n - m + 1
         /\ \A i \in 1 .. n - m + 1 : SubSeq(s, m, n)[i] = s[m + i - 1]
  OBVIOUS

LEMMA NoneIn == ASSUME NEW S, NEW s \in Seq(S)
                PROVE  Len(s) \in Nat /\ \A i \in 1 .. Len(s) : s[i] \in S
  OBVIOUS

-----------------------------------------------------------------------------
(* Where the stream is.                                                     *)

\* A chunk that was sent is a range of bytes that starts behind the one before.
LEMMA ChunkAt ==
  ASSUME TypeOK, Chain, NEW n \in 1 .. Len(sent)
  PROVE  /\ sent[n].lo \in Bytes /\ sent[n].hi \in Bytes /\ sent[n].hi \in Nat
         /\ Hi(n - 1) \in Nat /\ Hi(n) = sent[n].hi
         /\ sent[n].lo = Hi(n - 1) + 1 /\ Hi(n) - Hi(n - 1) \in 1 .. BufCap
         /\ n <= Hi(n)
<1>1. sent \in Seq(Chunk) /\ Len(sent) \in Nat
  BY DEF TypeOK
<1>2. \A i \in 1 .. Len(sent) :
        sent[i].lo \in Bytes /\ sent[i].hi \in Bytes /\ sent[i].hi \in Nat
  <2>1. \A i \in 1 .. Len(sent) : sent[i] \in Chunk
    BY <1>1
  <2>2. QED
    BY <2>1, BoundsAssumption DEF Chunk, Bytes
<1>3. Hi(n - 1) \in Nat
  BY <1>1, <1>2 DEF Hi
<1>4. QED
  BY <1>1, <1>2, <1>3 DEF Chain, Hi

\* The counters of the stream are natural numbers within its length.
LEMMA Numbers ==
  ASSUME TypeOK, Chain, Channel
  PROVE  /\ Forwarded \in 0 .. Len(sent) /\ Len(sent) \in Nat
         /\ Len(serial) \in Nat /\ Passed \in 0 .. MaxBytes
         /\ forward.pc = "broadcast"
              => /\ forward.msg \in 1 .. Len(sent)
                 /\ Passed = Hi(forward.msg - 1)
<1>1. Len(sent) \in Nat /\ Len(serial) \in Nat
  BY DEF TypeOK
<1>2. Forwarded \in 0 .. Len(sent)
  BY <1>1 DEF Channel, Forwarded
<1>3. \A n \in 0 .. Len(sent) : Hi(n) \in 0 .. MaxBytes
  <2>1. \A n \in 1 .. Len(sent) : Hi(n) \in 0 .. MaxBytes
    BY ChunkAt, BoundsAssumption DEF Bytes
  <2>2. Hi(0) = 0 /\ MaxBytes \in Nat
    BY BoundsAssumption DEF Hi
  <2>3. QED
    BY <1>1, <2>1, <2>2
<1>4. forward.pc = "broadcast" => forward.msg = Forwarded /\ Forwarded >= 1
  BY DEF Channel
<1>5. QED
  BY <1>1, <1>2, <1>3, <1>4 DEF Passed

\* The content of the chunk that is broadcast goes on where the buffer ends.
LEMMA ContentAt ==
  ASSUME TypeOK, Chain, Channel, forward.pc = "broadcast"
  PROVE  LET new == Content(sent[forward.msg]) IN
         /\ new \in Seq(Bytes) /\ Len(new) \in 1 .. BufCap
         /\ Len(new) = Hi(Forwarded) - Passed
         /\ \A i \in 1 .. Len(new) : new[i] = Passed + i
<1> DEFINE c == sent[forward.msg]
           new == Content(c)
<1>1. forward.msg \in 1 .. Len(sent) /\ Passed = Hi(forward.msg - 1)
      /\ forward.msg = Forwarded
  BY Numbers DEF Channel
<1>2. /\ c.lo \in Bytes /\ c.hi \in Bytes /\ Hi(forward.msg) = c.hi
      /\ c.lo = Passed + 1 /\ c.hi - Passed \in 1 .. BufCap
  BY <1>1, ChunkAt
<1>3. Passed \in Nat /\ c.hi \in Nat /\ c.hi <= MaxBytes /\ MaxBytes \in Nat
  BY <1>2, Numbers, BoundsAssumption DEF Bytes
<1>4. c.hi - c.lo + 1 = c.hi - Passed
  BY <1>2, <1>3 DEF Bytes
<1>5. new = [i \in 1 .. c.hi - Passed |-> Passed + i]
  <2>1. \A i \in 1 .. c.hi - Passed : c.lo + i - 1 = Passed + i
    BY <1>2, <1>3
  <2>2. QED
    BY <1>4, <2>1 DEF Content
<1>6. c.hi - Passed \in Nat
  BY <1>2, BoundsAssumption
<1>7. \A i \in 1 .. c.hi - Passed : Passed + i \in Bytes
  BY <1>3 DEF Bytes
<1>8. new \in Seq(Bytes) /\ Len(new) = c.hi - Passed
  <2> HIDE DEF new
  <2>1. QED
    BY <1>5, <1>6, <1>7
<1>9. \A i \in 1 .. Len(new) : new[i] = Passed + i
  <2>1. Len(new) = c.hi - Passed
    BY <1>8
  <2> HIDE DEF new
  <2>2. QED
    BY <1>5, <2>1
<1>10. QED
  BY <1>1, <1>2, <1>8, <1>9

-----------------------------------------------------------------------------
(* What a step does to the stream.                                          *)

\* The stream stays as it is, and so does what is broadcast of it.
StreamKept ==
  /\ UNCHANGED <<sent, serial, buffer, taken>>
  /\ forward'.pc = "broadcast" <=> forward.pc = "broadcast"
  /\ forward.pc = "broadcast" => forward'.msg = forward.msg

\* Only serial_read and serial_clear touch the buffer.
BufferTouched ==
  /\ UNCHANGED <<sent, serial, forward>>
  /\ \/ Read
     \/ buffer' = <<>> /\ taken' = taken

LEMMA Moves ==
  ASSUME TypeOK, [Next]_vars
  PROVE  \/ \E size \in Sizes, json \in Looks : SerialPublish(size, json)
         \/ TakeChunk \/ BufferChunk \/ BufferTouched \/ StreamKept
<1> forward \in [pc : {"select", "broadcast", "write", "done"},
                 msg : Msgs, todo : SUBSET Pages]
  BY DEF TypeOK
<1>1. CASE ForwardLoop
  <2>1. CASE TakeChunk \/ BufferChunk
    BY <2>1
  <2>2. CASE TakeText
    BY <2>2 DEF TakeText, StreamKept, serialSide, mcpSide
  <2>3. CASE WriteText
    BY <2>3 DEF WriteText, StreamKept, serialSide, mcpSide
  <2>4. CASE ForwardStops
    BY <2>4 DEF ForwardStops, StreamKept, serialSide, mcpSide
  <2>5. ASSUME NEW p \in Pages, ForwardChunk(p) PROVE StreamKept
    BY <2>5 DEF ForwardChunk, StreamKept, serialSide, mcpSide
  <2>6. QED
    BY <1>1, <2>1, <2>2, <2>3, <2>4, <2>5 DEF ForwardLoop
<1>2. CASE CmdLoop
  <2>1. ASSUME NEW p \in Pages, AnswerPage(p) PROVE StreamKept
    BY <2>1 DEF AnswerPage, StreamKept, serialSide, mcpSide
  <2>2. QED
    BY <1>2, <2>1 DEF CmdLoop, TakeCommand, HandleCommand, Answered,
       CommandsStop, StreamKept, serialSide, mcpSide
<1>3. CASE Stop
  BY <1>3 DEF Stop, StreamKept, serialSide, mcpSide
<1>4. ASSUME NEW p \in Pages, PageLoops(p) \/ Browser(p) PROVE StreamKept
  <2>1. CASE PageLoops(p)
    BY <2>1 DEF PageLoops, Register, Greet, StartLoops, ReadFails, ReadEnds,
       WriteMessage, WriteFails, OnlyPage, StreamKept, serialSide, mcpSide
  <2>2. CASE Browser(p)
    BY <2>2 DEF Browser, PageLeaves, PageSays, OnlyPage, StreamKept,
       serialSide, mcpSide
  <2>3. QED
    BY <1>4, <2>1, <2>2
<1>5. ASSUME NEW r \in Readers, SerialRead(r)
      PROVE  StreamKept \/ BufferTouched
  BY <1>5 DEF SerialRead, ReadCall, ReadPoll, ReadTake, ReadTimeout,
     ReadCancel, OnlyMcp, StreamKept, BufferTouched, serialSide
<1>6. CASE ClearBuffer
  BY <1>6 DEF ClearBuffer, OnlyMcp, BufferTouched, serialSide
<1>7. CASE UNCHANGED vars
  BY <1>7 DEF vars, StreamKept
<1>8. QED
  BY <1>1, <1>2, <1>3, <1>4, <1>5, <1>6, <1>7 DEF Next

\* What serial_read takes is the front of the buffer.
LEMMA ReadAt ==
  ASSUME TypeOK, Read
  PROVE  /\ Count \in 0 .. Len(buffer) /\ Len(buffer) \in Nat
         /\ Len(buffer') = Len(buffer) - Count /\ buffer' \in Seq(Bytes)
         /\ \A i \in 1 .. Len(buffer') : buffer'[i] = buffer[Count + i]
         /\ Len(taken') = Len(taken) + Count /\ taken' \in Seq(Bytes)
         /\ Len(taken) \in Nat
         /\ \A i \in 1 .. Len(taken) : taken'[i] = taken[i]
         /\ \A i \in 1 .. Count : taken'[Len(taken) + i] = buffer[i]
         /\ \A i \in 1 .. Len(taken') :
              i \in 1 .. Len(taken) \/ i - Len(taken) \in 1 .. Count
<1>1. buffer \in Seq(Bytes) /\ taken \in Seq(Bytes) /\ Len(buffer) \in Nat
      /\ Len(taken) \in Nat
  BY DEF TypeOK
<1>2. Count \in 0 .. Len(buffer)
  BY <1>1, BoundsAssumption DEF Count, Least
<1> DEFINE front == SubSeq(buffer, 1, Count)
<1>3. /\ front \in Seq(Bytes) /\ Len(front) = Count
      /\ \A i \in 1 .. Count : front[i] = buffer[i]
  BY <1>1, <1>2, SubSeqAt
<1>4. /\ buffer' \in Seq(Bytes) /\ Len(buffer') = Len(buffer) - Count
      /\ \A i \in 1 .. Len(buffer') : buffer'[i] = buffer[Count + i]
  <2>1. buffer' = SubSeq(buffer, Count + 1, Len(buffer))
    BY DEF Read, Rest
  <2>2. Count + 1 \in Nat \ {0} /\ Count + 1 <= Len(buffer) + 1
    BY <1>1, <1>2
  <2>3. /\ buffer' \in Seq(Bytes)
        /\ Len(buffer') = Len(buffer) - (Count + 1) + 1
        /\ \A i \in 1 .. Len(buffer) - (Count + 1) + 1 :
             buffer'[i] = buffer[(Count + 1) + i - 1]
    <3> HIDE DEF Count
    <3>1. QED
      BY <1>1, <2>1, <2>2, SubSeqAt
  <2>4. QED
    BY <1>1, <1>2, <2>3
<1>5. taken' = taken \o front
  BY DEF Read
<1>6. /\ taken' \in Seq(Bytes) /\ Len(taken') = Len(taken) + Len(front)
      /\ \A i \in 1 .. Len(taken) : taken'[i] = taken[i]
      /\ \A i \in 1 .. Len(front) : taken'[Len(taken) + i] = front[i]
      /\ \A i \in 1 .. Len(taken') :
           i \in 1 .. Len(taken) \/ i - Len(taken) \in 1 .. Len(front)
  <2> HIDE DEF front
  <2>1. /\ taken \o front \in Seq(Bytes)
        /\ Len(taken \o front) = Len(taken) + Len(front)
        /\ \A i \in 1 .. Len(taken) : (taken \o front)[i] = taken[i]
        /\ \A i \in 1 .. Len(front) :
             (taken \o front)[Len(taken) + i] = front[i]
        /\ \A i \in 1 .. Len(taken \o front) :
             i \in 1 .. Len(taken) \/ i - Len(taken) \in 1 .. Len(front)
    <3>1. taken \in Seq(Bytes) /\ front \in Seq(Bytes)
      BY <1>1, <1>3
    <3>2. QED
      BY <3>1
  <2>2. QED
    BY <1>5, <2>1, Zenon
<1>7. QED
  <2> HIDE DEF front
  <2>1. QED
    BY <1>1, <1>2, <1>3, <1>4, <1>6

\* What Append leaves in the buffer, and that it gives up no more than it must.
LEMMA AppendedAt ==
  ASSUME NEW old \in Seq(Bytes), NEW new \in Seq(Bytes),
         Len(old) <= BufCap, Len(new) <= BufCap
  PROVE  LET all == Appended(old, new) IN
         /\ all \in Seq(Bytes) /\ Len(all) <= BufCap
         /\ Len(all) \in Len(new) .. Len(old) + Len(new)
         /\ \A i \in 1 .. Len(all) :
              LET k == Len(all) - Len(new) IN
              \/ i \in 1 .. k /\ all[i] = old[Len(old) - k + i]
              \/ i - k \in 1 .. Len(new) /\ all[i] = new[i - k]
         /\ Len(all) = BufCap \/ all = old \o new
<1> DEFINE discard == Len(old) + Len(new) - BufCap
           all == Appended(old, new)
           k == Len(all) - Len(new)
<1>1. Len(old) \in Nat /\ Len(new) \in Nat /\ BufCap \in Nat /\ discard \in Int
  BY BoundsAssumption
<1>2. CASE discard <= 0
  <2>1. all = old \o new
    BY <1>2 DEF Appended
  <2>2. k = Len(old) /\ Len(all) = Len(old) + Len(new)
    BY <1>1, <2>1, ConcatAt
  <2>3. \A i \in 1 .. Len(all) :
          \/ i \in 1 .. k /\ all[i] = old[Len(old) - k + i]
          \/ i - k \in 1 .. Len(new) /\ all[i] = new[i - k]
    BY <1>1, <2>1, <2>2, ConcatAt
  <2>4. QED
    BY <1>1, <1>2, <2>1, <2>2, <2>3, ConcatAt
<1>3. CASE discard > 0 /\ discard >= Len(old)
  <2>1. all = new
    BY <1>1, <1>3 DEF Appended
  <2>2. QED
    BY <1>1, <1>3, <2>1
<1>4. CASE discard > 0 /\ discard < Len(old)
  <2> DEFINE rest == SubSeq(old, discard + 1, Len(old))
  <2>1. all = rest \o new
    <3>1. ~(discard <= 0) /\ ~(discard >= Len(old))
      BY <1>1, <1>4
    <3>2. QED
      BY <3>1, Zenon DEF Appended
  <2>2. /\ rest \in Seq(Bytes) /\ Len(rest) = Len(old) - discard
        /\ \A i \in 1 .. Len(rest) : rest[i] = old[discard + i]
    <3>1. discard + 1 \in Nat \ {0} /\ discard + 1 <= Len(old) + 1
      BY <1>1, <1>4
    <3> HIDE DEF discard
    <3>2. QED
      BY <1>1, <3>1, SubSeqAt
  <2> HIDE DEF rest
  <2>3. k = Len(rest) /\ Len(all) = BufCap
    BY <1>1, <1>4, <2>1, <2>2, ConcatAt
  <2>4. \A i \in 1 .. Len(all) :
          \/ i \in 1 .. k /\ all[i] = old[Len(old) - k + i]
          \/ i - k \in 1 .. Len(new) /\ all[i] = new[i - k]
    <3>1. Len(old) - k = discard
      BY <1>1, <2>2, <2>3
    <3>3. \A i \in 1 .. Len(all) :
            \/ i \in 1 .. Len(rest) /\ all[i] = rest[i]
            \/ i - Len(rest) \in 1 .. Len(new) /\ all[i] = new[i - Len(rest)]
      <4>1. /\ \A i \in 1 .. Len(rest) : all[i] = rest[i]
            /\ \A i \in 1 .. Len(new) : all[Len(rest) + i] = new[i]
            /\ \A i \in 1 .. Len(all) :
                 i \in 1 .. Len(rest) \/ i - Len(rest) \in 1 .. Len(new)
        <5>1. rest \in Seq(Bytes) /\ new \in Seq(Bytes)
          BY <2>2
        <5> HIDE DEF all
        <5>2. QED
          BY <2>1, <5>1
      <4>2. \A i \in 1 .. Len(all) : Len(rest) + (i - Len(rest)) = i
        BY <1>1, <2>2, <2>3
      <4>3. QED
        BY <4>1, <4>2, Zenon
    <3>4. QED
      BY <2>2, <2>3, <3>1, <3>3
  <2>5. QED
    BY <1>1, <1>4, <2>1, <2>2, <2>3, <2>4, ConcatAt
<1>5. QED
  BY <1>1, <1>2, <1>3, <1>4

-----------------------------------------------------------------------------
(* The stream's part of the invariant.                                      *)

\* The types of what the stream consists of.
StreamTypes ==
  /\ sent \in Seq(Chunk) /\ serial \in Seq(1 .. MaxBytes)
  /\ Len(serial) <= SerialCap
  /\ buffer \in Seq(Bytes) /\ Len(buffer) <= BufCap /\ taken \in Seq(Bytes)

\* A chunk is published: it goes on where the last one ended.
LEMMA PublishStep ==
  ASSUME Stream, NEW size \in Sizes, NEW json \in Looks,
         SerialPublish(size, json)
  PROVE  (StreamTypes /\ Chain /\ Channel /\ Filled)'
<1> USE DEF Stream
<1> DEFINE n == Len(sent)
           c == [lo |-> End(sent) + 1, hi |-> End(sent) + size, json |-> json]
<1>1. /\ sent \in Seq(Chunk) /\ serial \in Seq(1 .. MaxBytes)
      /\ n \in Nat /\ Len(serial) \in Nat
  BY DEF TypeOK
<1>2. End(sent) = Hi(n) /\ Hi(n) \in Nat /\ n <= Hi(n)
  <2>1. CASE n = 0
    BY <1>1, <2>1 DEF End, Hi
  <2>2. CASE n # 0
    <3>1. n \in 1 .. Len(sent) /\ sent # <<>>
      BY <1>1, <2>2
    <3>2. QED
      BY <3>1, ChunkAt DEF End, Hi
  <2>3. QED
    BY <2>1, <2>2
<1>3. size \in 1 .. BufCap /\ BufCap \in Nat /\ MaxBytes \in Nat
  BY SizesAssumption, BoundsAssumption
<1>4. c \in Chunk /\ n + 1 \in 1 .. MaxBytes
  <2>1. End(sent) + 1 \in Bytes /\ End(sent) + size \in Bytes
    BY <1>2, <1>3 DEF Bytes, SerialPublish
  <2>2. json \in BOOLEAN
    BY BoundsAssumption
  <2>3. QED
    BY <1>1, <1>2, <1>3, <2>1, <2>2 DEF Chunk, SerialPublish
<1>5. /\ sent' = Append(sent, c) /\ serial' = Append(serial, n + 1)
      /\ UNCHANGED <<forward, buffer, taken>> /\ Len(serial) < SerialCap
  BY DEF SerialPublish, mcpSide
<1>6. /\ sent' \in Seq(Chunk) /\ Len(sent') = n + 1
      /\ \A i \in 1 .. n : sent'[i] = sent[i]
      /\ sent'[n + 1] = c
  <2> HIDE DEF c
  <2>1. QED
    BY <1>1, <1>4, <1>5
<1>7. /\ serial' \in Seq(1 .. MaxBytes) /\ Len(serial') = Len(serial) + 1
      /\ \A k \in 1 .. Len(serial) : serial'[k] = serial[k]
      /\ serial'[Len(serial) + 1] = n + 1
  BY <1>1, <1>4, <1>5
<1>8. \A m \in 0 .. n : Hi(m)' = Hi(m)
  BY <1>1, <1>6 DEF Hi
<1>9. Chain'
  <2>1. ASSUME NEW i \in 1 .. Len(sent') PROVE
             /\ sent'[i].lo = Hi(i - 1)' + 1
             /\ sent'[i].hi - Hi(i - 1)' \in 1 .. BufCap
             /\ i <= sent'[i].hi
    <3>1. CASE i \in 1 .. n
      <4>1. Hi(i - 1)' = Hi(i - 1) /\ sent'[i] = sent[i]
        BY <1>1, <1>6, <1>8, <3>1
      <4>2. QED
        BY <3>1, <4>1 DEF Chain
    <3>2. CASE i = n + 1
      <4>1. Hi(i - 1)' = Hi(n) /\ sent'[i] = c
        BY <1>1, <1>6, <1>8, <3>2
      <4>2. c.lo = Hi(n) + 1 /\ c.hi = Hi(n) + size
        BY <1>2
      <4> HIDE DEF c
      <4>3. QED
        BY <1>1, <1>2, <1>3, <3>2, <4>1, <4>2
    <3>3. QED
      BY <1>1, <1>6, <3>1, <3>2
  <2>2. QED
    BY <2>1 DEF Chain, Hi
<1>10. Forwarded' = Forwarded /\ Forwarded \in 0 .. n
  BY <1>1, <1>6, <1>7, Numbers DEF Forwarded
<1>11. Channel'
  <2>1. \A k \in 1 .. Len(serial') : serial'[k] = Forwarded' + k
    <3> TAKE k \in 1 .. Len(serial')
    <3>1. Forwarded + Len(serial) = n
      BY <1>1 DEF Forwarded
    <3>2. CASE k \in 1 .. Len(serial)
      BY <1>7, <1>10, <3>2 DEF Channel
    <3>3. CASE k = Len(serial) + 1
      BY <1>1, <1>7, <1>10, <3>1, <3>3
    <3>4. QED
      BY <1>1, <1>7, <3>2, <3>3
  <2>2. QED
    BY <1>1, <1>5, <1>6, <1>7, <1>10, <2>1 DEF Channel
<1>12. Passed' = Passed
  <2>1. forward.pc = "broadcast" => Forwarded - 1 \in 0 .. n
    BY <1>1, <1>10 DEF Channel
  <2>2. \A m \in 0 .. n : (IF m = 0 THEN 0 ELSE sent'[m].hi) = Hi(m)
    BY <1>8 DEF Hi
  <2> DEFINE m == IF forward.pc = "broadcast" THEN Forwarded - 1 ELSE Forwarded
  <2>3. m \in 0 .. n /\ Passed = Hi(m)
    BY <1>10, <2>1 DEF Passed
  <2>4. Passed' = IF m = 0 THEN 0 ELSE sent'[m].hi
    BY <1>5, <1>10 DEF Passed, Hi
  <2> HIDE DEF m
  <2>5. QED
    BY <2>2, <2>3, <2>4
<1>13. Filled'
  BY <1>5, <1>12 DEF Filled
<1>14. StreamTypes'
  BY <1>1, <1>5, <1>6, <1>7, BoundsAssumption DEF StreamTypes, TypeOK
<1>15. QED
  BY <1>9, <1>11, <1>13, <1>14

\* forwardLoop takes a chunk: it is the one after those that have passed.
LEMMA TakeChunkStep ==
  ASSUME Stream, TakeChunk
  PROVE  (StreamTypes /\ Chain /\ Channel /\ Filled)'
<1> USE DEF Stream
<1>1. /\ sent \in Seq(Chunk) /\ serial \in Seq(1 .. MaxBytes)
      /\ Len(sent) \in Nat /\ Len(serial) \in Nat \ {0}
  BY DEF TypeOK, TakeChunk
<1>2. /\ serial' = Tail(serial) /\ UNCHANGED <<sent, buffer, taken>>
      /\ forward.pc = "select" /\ forward'.pc = "broadcast"
      /\ forward'.msg = Head(serial)
  BY DEF TakeChunk, mcpSide
<1>3. /\ serial' \in Seq(1 .. MaxBytes) /\ Len(serial') = Len(serial) - 1
      /\ \A k \in 1 .. Len(serial') : serial'[k] = serial[k + 1]
      /\ Head(serial) = serial[1]
  BY <1>1, <1>2
<1>4. Forwarded' = Forwarded + 1 /\ Forwarded \in Nat
  BY <1>1, <1>2, <1>3, Numbers DEF Forwarded
<1>5. Channel'
  <2>1. Head(serial) = Forwarded + 1
    BY <1>1, <1>3 DEF Channel
  <2>2. \A k \in 1 .. Len(serial') : serial'[k] = Forwarded' + k
    BY <1>1, <1>3, <1>4 DEF Channel
  <2>3. QED
    BY <1>1, <1>2, <1>3, <1>4, <2>1, <2>2 DEF Channel
<1>6. Passed' = Passed
  BY <1>2, <1>4 DEF Passed, Hi
<1>7. Chain' /\ Filled'
  BY <1>2, <1>6 DEF Chain, Hi, Filled
<1>8. StreamTypes'
  BY <1>1, <1>2, <1>3, BoundsAssumption DEF StreamTypes, TypeOK
<1>9. QED
  BY <1>5, <1>7, <1>8

\* The chunk goes to the buffer, behind what is there.
LEMMA BufferStep ==
  ASSUME Stream, BufferChunk
  PROVE  (StreamTypes /\ Chain /\ Channel /\ Filled)'
<1> USE DEF Stream
<1> DEFINE new == Content(sent[forward.msg])
<1>1. /\ buffer \in Seq(Bytes) /\ Len(buffer) \in Nat /\ Len(buffer) <= BufCap
      /\ taken \in Seq(Bytes) /\ BufCap \in Nat
  BY BoundsAssumption DEF TypeOK
<1>2. /\ UNCHANGED <<sent, serial, taken>> /\ buffer' = Appended(buffer, new)
      /\ forward.pc = "broadcast" /\ forward'.pc = "select"
  BY DEF BufferChunk, TypeOK, serialSide
<1>3. /\ new \in Seq(Bytes) /\ Len(new) \in 1 .. BufCap
      /\ Len(new) = Hi(Forwarded) - Passed
      /\ \A i \in 1 .. Len(new) : new[i] = Passed + i
  BY <1>2, ContentAt
<1> HIDE DEF new
<1>4. Forwarded' = Forwarded /\ Passed' = Hi(Forwarded) /\ Passed \in Nat
  BY <1>2, Numbers DEF Passed, Forwarded, Hi
<1>5. Hi(Forwarded) \in Nat
  BY <1>2, Numbers, ChunkAt DEF Channel
<1>6. Passed' = Passed + Len(new)
  BY <1>3, <1>4, <1>5
<1>7. /\ buffer' \in Seq(Bytes) /\ Len(buffer') <= BufCap
      /\ Len(buffer') \in Len(new) .. Len(buffer) + Len(new)
      /\ \A i \in 1 .. Len(buffer') :
           LET k == Len(buffer') - Len(new) IN
           \/ i \in 1 .. k /\ buffer'[i] = buffer[Len(buffer) - k + i]
           \/ i - k \in 1 .. Len(new) /\ buffer'[i] = new[i - k]
  <2>1. Len(new) <= BufCap
    BY <1>1, <1>3
  <2>2. QED
    BY <1>1, <1>2, <1>3, <2>1, AppendedAt, Zenon
<1>8. \A i \in 1 .. Len(buffer') : buffer'[i] = Passed' - Len(buffer') + i
  <2> SUFFICES ASSUME NEW i \in 1 .. Len(buffer')
               PROVE  buffer'[i] = Passed' - Len(buffer') + i
    OBVIOUS
  <2> DEFINE k == Len(buffer') - Len(new)
  <2>1. k \in 0 .. Len(buffer) /\ Len(buffer') \in Nat /\ Len(new) \in Nat
    BY <1>1, <1>3, <1>7
  <2>2. CASE i \in 1 .. k /\ buffer'[i] = buffer[Len(buffer) - k + i]
    <3>1. Len(buffer) - k + i \in 1 .. Len(buffer)
      BY <1>1, <2>1, <2>2
    <3>2. buffer'[i] = Passed - Len(buffer) + (Len(buffer) - k + i)
      BY <2>2, <3>1 DEF Filled
    <3>3. QED
      BY <1>1, <1>4, <1>6, <2>1, <3>2
  <2>3. CASE i - k \in 1 .. Len(new) /\ buffer'[i] = new[i - k]
    <3>1. buffer'[i] = Passed + (i - k)
      BY <1>3, <2>3
    <3>2. QED
      BY <1>1, <1>4, <1>6, <2>1, <3>1
  <2>4. QED
    BY <1>7, <2>2, <2>3
<1>9. \A i \in 1 .. Len(taken) : taken[i] <= Passed' - Len(buffer')
  <2> SUFFICES ASSUME NEW i \in 1 .. Len(taken)
               PROVE  taken[i] <= Passed' - Len(buffer')
    OBVIOUS
  <2>1. taken[i] \in Nat /\ taken[i] <= Passed - Len(buffer)
    BY <1>1, BoundsAssumption DEF Filled, Bytes
  <2>2. Len(buffer') \in Nat /\ Len(new) \in Nat
        /\ Len(buffer') <= Len(buffer) + Len(new)
    BY <1>1, <1>3, <1>7
  <2>3. QED
    BY <1>1, <1>4, <1>6, <2>1, <2>2
<1>10. Filled'
  BY <1>2, <1>8, <1>9 DEF Filled
<1>11. Chain' /\ Channel'
  BY <1>2, <1>4 DEF Chain, Hi, Channel
<1>12. StreamTypes'
  BY <1>1, <1>2, <1>7 DEF StreamTypes, TypeOK
<1>13. QED
  BY <1>10, <1>11, <1>12

\* Bytes are read from the front of the buffer, or it is cleared.
LEMMA TouchStep ==
  ASSUME Stream, BufferTouched
  PROVE  (StreamTypes /\ Chain /\ Channel /\ Filled)'
<1> USE DEF Stream
<1>1. UNCHANGED <<sent, serial, forward>>
  BY DEF BufferTouched
<1>2. Passed' = Passed /\ Passed \in Nat /\ Chain' /\ Channel'
  BY <1>1, Numbers DEF Passed, Forwarded, Hi, Chain, Channel
<1>3. buffer \in Seq(Bytes) /\ taken \in Seq(Bytes) /\ Len(buffer) \in Nat
      /\ Len(buffer) <= BufCap /\ BufCap \in Nat
  BY BoundsAssumption DEF TypeOK
<1>4. \A i \in 1 .. Len(taken) :
        taken[i] \in Nat /\ taken[i] <= Passed - Len(buffer)
  BY <1>3, BoundsAssumption DEF Filled, Bytes
<1>5. CASE Read
  <2>1. /\ Count \in 0 .. Len(buffer) /\ Len(buffer') = Len(buffer) - Count
        /\ buffer' \in Seq(Bytes) /\ taken' \in Seq(Bytes)
        /\ \A i \in 1 .. Len(buffer') : buffer'[i] = buffer[Count + i]
        /\ Len(taken) \in Nat
        /\ \A i \in 1 .. Len(taken) : taken'[i] = taken[i]
        /\ \A i \in 1 .. Count : taken'[Len(taken) + i] = buffer[i]
        /\ \A i \in 1 .. Len(taken') :
             i \in 1 .. Len(taken) \/ i - Len(taken) \in 1 .. Count
    BY <1>5, ReadAt
  <2>2. \A i \in 1 .. Len(buffer') : buffer'[i] = Passed' - Len(buffer') + i
    BY <1>2, <1>3, <2>1 DEF Filled
  <2>3. \A i \in 1 .. Len(taken') : i - Len(taken) \in 1 .. Count =>
          taken'[i] = Passed - Len(buffer) + (i - Len(taken))
    <3> TAKE i \in 1 .. Len(taken')
    <3> HAVE i - Len(taken) \in 1 .. Count
    <3>1. i = Len(taken) + (i - Len(taken))
      BY <2>1
    <3>2. i - Len(taken) \in 1 .. Len(buffer)
      BY <1>3, <2>1
    <3>3. taken'[i] = buffer[i - Len(taken)]
      BY <2>1, <3>1
    <3>4. QED
      BY <3>2, <3>3 DEF Filled
  <2>4. \A i \in 1 .. Len(taken') : taken'[i] <= Passed' - Len(buffer')
    <3> TAKE i \in 1 .. Len(taken')
    <3>1. CASE i \in 1 .. Len(taken)
      <4>1. taken'[i] = taken[i] /\ Count \in Nat
        BY <2>1, <3>1
      <4>2. QED
        BY <1>2, <1>3, <1>4, <2>1, <3>1, <4>1
    <3>2. CASE i - Len(taken) \in 1 .. Count
      BY <1>2, <1>3, <2>1, <2>3, <3>2
    <3>3. QED
      BY <2>1, <3>1, <3>2
  <2>5. \A i, j \in 1 .. Len(taken') : i < j => taken'[i] < taken'[j]
    <3> TAKE i, j \in 1 .. Len(taken')
    <3> HAVE i < j
    <3>1. CASE j \in 1 .. Len(taken)
      <4>1. i \in 1 .. Len(taken)
        BY <2>1, <3>1
      <4>2. QED
        BY <2>1, <3>1, <4>1 DEF Filled
    <3>2. CASE j - Len(taken) \in 1 .. Count
      <4>1. taken'[j] = Passed - Len(buffer) + (j - Len(taken))
        BY <2>3, <3>2
      <4>2. CASE i \in 1 .. Len(taken)
        <5>1. taken'[i] = taken[i] /\ taken[i] \in Nat
              /\ taken[i] <= Passed - Len(buffer)
          BY <1>4, <2>1, <4>2
        <5>2. QED
          BY <1>2, <1>3, <2>1, <3>2, <4>1, <5>1
      <4>3. CASE i - Len(taken) \in 1 .. Count
        <5>1. taken'[i] = Passed - Len(buffer) + (i - Len(taken))
          BY <2>3, <4>3
        <5>2. QED
          BY <1>2, <1>3, <2>1, <4>1, <5>1
      <4>4. QED
        BY <2>1, <4>2, <4>3
    <3>3. QED
      BY <2>1, <3>1, <3>2
  <2>6. Len(buffer') <= BufCap
    BY <1>3, <2>1
  <2>7. QED
    BY <1>1, <1>2, <2>1, <2>2, <2>4, <2>5, <2>6
       DEF Filled, StreamTypes, TypeOK
<1>6. CASE buffer' = <<>> /\ taken' = taken
  <2>1. Len(buffer') = 0 /\ buffer' \in Seq(Bytes)
    BY <1>6
  <2>2. \A i \in 1 .. Len(taken) : taken[i] <= Passed' - Len(buffer')
    BY <1>2, <1>3, <1>4, <2>1
  <2>3. QED
    BY <1>1, <1>2, <1>3, <1>6, <2>1, <2>2 DEF Filled, StreamTypes, TypeOK
<1>7. QED
  BY <1>5, <1>6 DEF BufferTouched

LEMMA StreamStep ==
  ASSUME Stream, [Next]_vars
  PROVE  (StreamTypes /\ Chain /\ Channel /\ Filled)'
<1>1. CASE StreamKept
  <2>1. Forwarded' = Forwarded
    BY <1>1 DEF StreamKept, Forwarded
  <2>2. Passed' = Passed
    BY <1>1, <2>1 DEF StreamKept, Passed, Hi
  <2>3. QED
    BY <1>1, <2>1, <2>2 DEF StreamKept, Stream, StreamTypes, TypeOK, Chain, Hi,
       Channel, Filled
<1>2. QED
  BY <1>1, Moves, PublishStep, TakeChunkStep, BufferStep, TouchStep DEF Stream

-----------------------------------------------------------------------------
(* Types.                                                                   *)

\* A send appends to the queue if there is room, and does no more than note
\* that a chunk was given up if there is none.
LEMMA SendAt ==
  ASSUME TypeOK, NEW p \in Pages, NEW m \in Msgs
  PROVE  LET sentTo == Send(page[p], m) IN
         /\ sentTo \in Page /\ Len(sentTo.queue) <= PageCap
         /\ \A f \in {"pc", "greeted", "conn", "rd", "wr", "seen", "since",
                      "hidden"} : sentTo[f] = page[p][f]
         /\ \/ /\ sentTo.queue = Append(page[p].queue, m)
               /\ sentTo.missed = page[p].missed
            \/ /\ sentTo.queue = page[p].queue
               /\ m = Other => sentTo.missed = page[p].missed
               /\ m # Other => sentTo.missed
<1>1. page[p] \in Page /\ Len(page[p].queue) <= PageCap /\ PageCap \in Nat
  BY BoundsAssumption DEF TypeOK
<1>2. page[p].queue \in Seq(Msgs) /\ page[p].missed \in BOOLEAN
  BY <1>1 DEF Page
<1>3. CASE Len(page[p].queue) < PageCap
  <2> DEFINE q == Append(page[p].queue, m)
  <2>1. q \in Seq(Msgs) /\ Len(q) <= PageCap
    BY <1>1, <1>2, <1>3
  <2>2. Send(page[p], m) = [page[p] EXCEPT !.queue = q]
    BY <1>3 DEF Send
  <2> HIDE DEF q
  <2>3. QED
    BY <1>1, <2>1, <2>2 DEF Page, q
<1>4. CASE ~(Len(page[p].queue) < PageCap)
  <2>1. PICK b \in BOOLEAN : b = (page[p].missed \/ m # Other)
    BY <1>2
  <2>2. Send(page[p], m) = [page[p] EXCEPT !.missed = b]
    BY <1>4, <2>1 DEF Send
  <2>3. m = Other => b = page[p].missed
    BY <1>2, <2>1
  <2>4. m # Other => b
    BY <2>1
  <2>5. QED
    BY <1>1, <2>2, <2>3, <2>4 DEF Page
<1>5. QED
  BY <1>3, <1>4

\* The types of the loops and of the messages of pages.
LoopTypes ==
  /\ forward \in [pc : {"select", "broadcast", "write", "done"},
                  msg : Msgs, todo : SUBSET Pages]
  /\ command \in [pc : {"select", "handle", "broadcast", "done"},
                  kind : {"command", "text", "brace"}, todo : SUBSET Pages]
  /\ dataChan \in Seq(Kinds) /\ Len(dataChan) <= TextCap
  /\ cmdChan \in Seq(Kinds) /\ Len(cmdChan) <= CmdCap
  /\ said \in 0 .. MaxSaid /\ clients \subseteq Pages /\ stopping \in BOOLEAN

PageTypes ==
  /\ page \in [Pages -> Page]
  /\ \A p \in Pages : Len(page[p].queue) <= PageCap

\* A message is put into a channel unless that is full.
LEMMA PushType ==
  ASSUME NEW chan \in Seq(Kinds), NEW cap \in Nat, Len(chan) <= cap,
         NEW kind \in Kinds
  PROVE  /\ Push(chan, cap, kind) \in Seq(Kinds)
         /\ Len(Push(chan, cap, kind)) <= cap
  BY DEF Push

LEMMA LoopTypesStep ==
  ASSUME Stream, [Next]_vars
  PROVE  LoopTypes'
<1> USE DEF LoopTypes
<1>1. LoopTypes
  BY DEF Stream, TypeOK
<1>2. ASSUME NEW size \in Sizes, NEW json \in Looks, SerialPublish(size, json)
      PROVE  LoopTypes'
  BY <1>1, <1>2 DEF SerialPublish, pageSide
<1>3. CASE ForwardLoop
  <2>1. CASE TakeChunk
    <3>1. Head(serial) \in Msgs
      BY <2>1, BoundsAssumption DEF TakeChunk, Stream, TypeOK, Msgs
    <3>2. QED
      BY <1>1, <2>1, <3>1 DEF TakeChunk, pageSide
  <2>2. CASE BufferChunk
    BY <1>1, <2>2 DEF BufferChunk, pageSide
  <2>3. CASE TakeText
    <3>1. dataChan' \in Seq(Kinds) /\ Len(dataChan') <= TextCap
      BY <1>1, <2>3, BoundsAssumption DEF TakeText
    <3>2. QED
      BY <1>1, <2>3, <3>1 DEF TakeText
  <2>4. CASE WriteText
    BY <1>1, <2>4 DEF WriteText, pageSide
  <2>5. CASE ForwardStops
    BY <1>1, <2>5 DEF ForwardStops, pageSide
  <2>6. ASSUME NEW p \in Pages, ForwardChunk(p) PROVE LoopTypes'
    BY <1>1, <2>6 DEF ForwardChunk
  <2>7. QED
    BY <1>3, <2>1, <2>2, <2>3, <2>4, <2>5, <2>6 DEF ForwardLoop
<1>4. CASE CmdLoop
  <2>1. CASE TakeCommand
    <3>1. /\ Head(cmdChan) \in {"command", "text", "brace"}
          /\ cmdChan' \in Seq(Kinds) /\ Len(cmdChan') <= CmdCap
      BY <1>1, <2>1, BoundsAssumption DEF TakeCommand
    <3>2. command' \in [pc : {"select", "handle", "broadcast", "done"},
                        kind : {"command", "text", "brace"},
                        todo : SUBSET Pages]
      BY <1>1, <2>1, <3>1 DEF TakeCommand
    <3>3. QED
      BY <1>1, <2>1, <3>1, <3>2 DEF TakeCommand
  <2>2. CASE HandleCommand
    BY <1>1, <2>2 DEF HandleCommand, pageSide
  <2>3. CASE Answered
    BY <1>1, <2>3 DEF Answered, pageSide
  <2>4. CASE CommandsStop
    BY <1>1, <2>4 DEF CommandsStop, pageSide
  <2>5. ASSUME NEW p \in Pages, AnswerPage(p) PROVE LoopTypes'
    BY <1>1, <2>5 DEF AnswerPage
  <2>6. QED
    BY <1>4, <2>1, <2>2, <2>3, <2>4, <2>5 DEF CmdLoop
<1>5. CASE Stop
  BY <1>1, <1>5 DEF Stop, pageSide
<1>6. ASSUME NEW p \in Pages, PageLoops(p) \/ PageLeaves(p) PROVE LoopTypes'
  BY <1>1, <1>6 DEF PageLoops, Register, Greet, StartLoops, ReadFails, ReadEnds,
     WriteMessage, WriteFails, PageLeaves, OnlyPage
<1>7. ASSUME NEW p \in Pages, NEW kind \in Kinds, PageSays(p, kind)
      PROVE  LoopTypes'
  <2>1. said' \in 0 .. MaxSaid
    BY <1>1, <1>7, BoundsAssumption DEF PageSays
  <2>2. /\ cmdChan' \in Seq(Kinds) /\ Len(cmdChan') <= CmdCap
        /\ dataChan' \in Seq(Kinds) /\ Len(dataChan') <= TextCap
    BY <1>1, <1>7, PushType, BoundsAssumption DEF PageSays
  <2>3. QED
    BY <1>1, <1>7, <2>1, <2>2 DEF PageSays
<1>8. ASSUME NEW r \in Readers, SerialRead(r) PROVE LoopTypes'
  BY <1>1, <1>8 DEF SerialRead, ReadCall, ReadPoll, ReadTake, ReadTimeout,
     ReadCancel, OnlyMcp, pageSide
<1>9. CASE ClearBuffer
  BY <1>1, <1>9 DEF ClearBuffer, OnlyMcp, pageSide
<1>10. CASE UNCHANGED vars
  BY <1>1, <1>10 DEF vars
<1>11. QED
  BY <1>2, <1>3, <1>4, <1>5, <1>6, <1>7, <1>8, <1>9, <1>10 DEF Next, Browser

LEMMA ReaderTypesStep ==
  ASSUME TypeOK, [Next]_vars
  PROVE  reader' \in [Readers -> [pc : {"idle", "poll", "take"},
                                  timed : BOOLEAN]]
<1> DEFINE R == [pc : {"idle", "poll", "take"}, timed : BOOLEAN]
<1>1. reader \in [Readers -> R]
  BY DEF TypeOK
<1>2. ASSUME NEW r \in Readers, SerialRead(r) PROVE reader' \in [Readers -> R]
  <2>1. reader[r] \in R
    BY <1>1
  <2>2. ASSUME NEW timed \in BOOLEAN, ReadCall(r, timed)
        PROVE  reader' \in [Readers -> R]
    BY <1>1, <2>2 DEF ReadCall
  <2>3. CASE ReadPoll(r)
    BY <1>1, <2>1, <2>3 DEF ReadPoll
  <2>4. CASE ReadTake(r)
    BY <1>1, <2>1, <2>4 DEF ReadTake
  <2>5. CASE ReadTimeout(r)
    BY <1>1, <2>1, <2>5 DEF ReadTimeout
  <2>6. CASE ReadCancel(r)
    BY <1>1, <2>1, <2>6 DEF ReadCancel
  <2>7. QED
    BY <1>2, <2>2, <2>3, <2>4, <2>5, <2>6 DEF SerialRead
<1>3. ASSUME ~ \E r \in Readers : SerialRead(r) PROVE reader' = reader
  <2>1. CASE ForwardLoop
    <3>1. ASSUME NEW p \in Pages, ForwardChunk(p) PROVE reader' = reader
      BY <3>1 DEF ForwardChunk, mcpSide
    <3>2. QED
      BY <2>1, <3>1 DEF ForwardLoop, TakeChunk, BufferChunk, TakeText,
         WriteText, ForwardStops, mcpSide
  <2>2. CASE CmdLoop
    BY <2>2 DEF CmdLoop, TakeCommand, HandleCommand, Answered, CommandsStop,
       AnswerPage, mcpSide
  <2>3. ASSUME NEW p \in Pages, PageLoops(p) \/ Browser(p)
        PROVE  reader' = reader
    BY <2>3 DEF PageLoops, Register, Greet, StartLoops, ReadFails, ReadEnds,
       WriteMessage, WriteFails, Browser, PageLeaves, PageSays, OnlyPage,
       mcpSide
  <2>4. QED
    BY <1>3, <2>1, <2>2, <2>3 DEF Next, SerialPublish, Stop, ClearBuffer, vars,
       mcpSide
<1>4. QED
  BY <1>1, <1>2, <1>3

LEMMA PageTypesStep ==
  ASSUME Stream, [Next]_vars
  PROVE  PageTypes'
<1> USE DEF PageTypes
<1>1. PageTypes /\ TypeOK
  BY DEF Stream, TypeOK
\* Whoever sends to a page keeps its type, and so does a change of one page.
<1>2. ASSUME NEW p \in Pages, NEW m \in Msgs, SendTo(p, m) PROVE PageTypes'
  BY <1>1, <1>2, SendAt DEF SendTo
<1>3. ASSUME NEW p \in Pages, NEW pg \in Page, Len(pg.queue) <= PageCap,
             OnlyPage(p, pg)
      PROVE  PageTypes'
  BY <1>1, <1>3 DEF OnlyPage
<1>4. CASE ForwardLoop
  <2>1. ASSUME NEW p \in Pages, ForwardChunk(p) PROVE PageTypes'
    <3>1. forward.msg \in Msgs
      BY <1>1 DEF TypeOK
    <3>2. QED
      BY <1>2, <2>1, <3>1 DEF ForwardChunk
  <2>2. QED
    BY <1>1, <1>4, <2>1 DEF ForwardLoop, TakeChunk, BufferChunk, TakeText,
       WriteText, ForwardStops, pageSide
<1>5. CASE CmdLoop
  <2>1. ASSUME NEW p \in Pages, AnswerPage(p) PROVE PageTypes'
    <3>1. Other \in Msgs
      BY BoundsAssumption DEF Other, Msgs
    <3>2. QED
      BY <1>2, <2>1, <3>1 DEF AnswerPage
  <2>2. QED
    BY <1>1, <1>5, <2>1 DEF CmdLoop, TakeCommand, HandleCommand, Answered,
       CommandsStop, pageSide
<1>6. ASSUME NEW p \in Pages, PageLoops(p) \/ Browser(p) PROVE PageTypes'
  <2>1. page[p] \in Page /\ Len(page[p].queue) <= PageCap
    BY <1>1
  <2>2. CASE Register(p)
    <3>1. Len(sent) - Len(serial) \in Nat
      BY Numbers DEF Stream, Forwarded
    <3>2. [page[p] EXCEPT !.pc = "greet", !.conn = TRUE,
             !.since = Len(sent) - Len(serial)] \in Page
      BY <2>1, <3>1 DEF Page
    <3>3. QED
      BY <1>3, <2>1, <2>2, <3>2 DEF Register, Page
  <2>3. CASE Greet(p)
    <3> DEFINE sentTo == Send(page[p], Other)
               pg == [sentTo EXCEPT !.greeted = @ + 1]
    <3>1. Other \in Msgs
      BY BoundsAssumption DEF Other, Msgs
    <3>2. /\ sentTo \in Page /\ Len(sentTo.queue) <= PageCap
          /\ sentTo.greeted = page[p].greeted
      BY <1>1, <3>1, SendAt
    <3> HIDE DEF sentTo
    <3>3. sentTo.greeted + 1 \in 0 .. Greetings
      BY <2>1, <2>3, <3>2, BoundsAssumption DEF Greet, Page
    <3>4. pg \in Page /\ pg.queue = sentTo.queue
      BY <3>2, <3>3 DEF Page
    <3>5. OnlyPage(p, pg)
      BY <2>3 DEF Greet, sentTo
    <3> HIDE DEF pg
    <3>6. QED
      BY <1>3, <3>2, <3>4, <3>5
  <2>4. CASE StartLoops(p)
    <3>1. [page[p] EXCEPT !.pc = "open", !.rd = "run", !.wr = "run"] \in Page
      BY <2>1 DEF Page
    <3>2. QED
      BY <1>3, <2>1, <2>4, <3>1 DEF StartLoops, Page
  <2>5. CASE ReadFails(p)
    <3>1. [page[p] EXCEPT !.rd = "close"] \in Page
      BY <2>1 DEF Page
    <3>2. QED
      BY <1>3, <2>1, <2>5, <3>1 DEF ReadFails, Page
  <2>6. CASE ReadEnds(p)
    <3>1. [page[p] EXCEPT !.rd = "done", !.conn = FALSE] \in Page
      BY <2>1 DEF Page
    <3>2. QED
      BY <1>3, <2>1, <2>6, <3>1 DEF ReadEnds, Page
  <2>7. CASE WriteMessage(p)
    <3> DEFINE m == Head(page[p].queue)
               rest == Tail(page[p].queue)
               seen == IF m = Other THEN page[p].seen
                       ELSE Append(page[p].seen, m)
    <3>1. page[p].queue \in Seq(Msgs) /\ page[p].seen \in Seq(Msgs)
          /\ page[p].hidden \in BOOLEAN /\ page[p].queue # <<>>
          /\ PageCap \in Nat
      BY <2>1, <2>7, BoundsAssumption DEF Page, WriteMessage
    <3>2. m \in Msgs /\ rest \in Seq(Msgs) /\ Len(rest) <= PageCap
          /\ seen \in Seq(Msgs)
      BY <2>1, <3>1
    <3>3. PICK h \in BOOLEAN : h = (page[p].hidden \/ ~Shown(m))
      BY <3>1
    <3> DEFINE pg == [page[p] EXCEPT !.queue = rest, !.seen = seen,
                                     !.hidden = h]
    <3>4. OnlyPage(p, pg)
      BY <2>7, <3>3 DEF WriteMessage
    <3> HIDE DEF m, rest, seen
    <3>5. pg \in Page /\ pg.queue = rest
      BY <2>1, <3>2 DEF Page
    <3> HIDE DEF pg
    <3>6. QED
      BY <1>3, <3>2, <3>4, <3>5
  <2>8. CASE WriteFails(p)
    <3>1. [page[p] EXCEPT !.wr = "done", !.conn = FALSE] \in Page
      BY <2>1 DEF Page
    <3>2. QED
      BY <1>3, <2>1, <2>8, <3>1 DEF WriteFails, Page
  <2>9. CASE PageLeaves(p)
    <3>1. [page[p] EXCEPT !.conn = FALSE] \in Page
      BY <2>1 DEF Page
    <3>2. QED
      BY <1>3, <2>1, <2>9, <3>1 DEF PageLeaves, Page
  <2>10. ASSUME NEW kind \in Kinds, PageSays(p, kind) PROVE PageTypes'
    BY <1>1, <2>10 DEF PageSays
  <2>11. QED
    BY <1>6, <2>2, <2>3, <2>4, <2>5, <2>6, <2>7, <2>8, <2>9, <2>10
       DEF PageLoops, Browser
<1>7. ASSUME NEW r \in Readers, SerialRead(r) PROVE PageTypes'
  BY <1>1, <1>7 DEF SerialRead, ReadCall, ReadPoll, ReadTake, ReadTimeout,
     ReadCancel, OnlyMcp, pageSide
<1>8. QED
  BY <1>1, <1>4, <1>5, <1>6, <1>7 DEF Next, SerialPublish, Stop, ClearBuffer,
     OnlyMcp, pageSide, vars

-----------------------------------------------------------------------------
(* The stream's theorems.                                                   *)

LEMMA StreamInit == Init => Stream
<1> SUFFICES ASSUME Init PROVE Stream
  OBVIOUS
<1>1. NoPage \in Page /\ Len(NoPage.queue) <= PageCap
  BY BoundsAssumption DEF NoPage, Page
<1>2. Other \in Msgs
  BY BoundsAssumption DEF Other, Msgs
<1>3. StreamTypes
  BY BoundsAssumption DEF Init, StreamTypes
<1>4. LoopTypes
  <2>1. /\ forward \in [pc : {"select", "broadcast", "write", "done"},
                         msg : Msgs, todo : SUBSET Pages]
        /\ command \in [pc : {"select", "handle", "broadcast", "done"},
                         kind : {"command", "text", "brace"},
                         todo : SUBSET Pages]
    BY <1>2 DEF Init
  <2>2. /\ dataChan \in Seq(Kinds) /\ Len(dataChan) <= TextCap
        /\ cmdChan \in Seq(Kinds) /\ Len(cmdChan) <= CmdCap
    BY BoundsAssumption DEF Init
  <2>3. said \in 0 .. MaxSaid
    BY BoundsAssumption DEF Init
  <2>4. clients \subseteq Pages /\ stopping \in BOOLEAN
    BY DEF Init
  <2>5. QED
    BY <2>1, <2>2, <2>3, <2>4 DEF LoopTypes
<1>5. PageTypes
  BY <1>1 DEF Init, PageTypes
<1>6. reader \in [Readers -> [pc : {"idle", "poll", "take"},
                              timed : BOOLEAN]]
  BY DEF Init
<1>7. TypeOK
  BY <1>3, <1>4, <1>5, <1>6 DEF TypeOK, StreamTypes, LoopTypes, PageTypes
<1>8. Chain /\ Channel
  BY DEF Init, Chain, Channel
<1>9. Filled
  BY DEF Init, Filled
<1>10. QED
  BY <1>7, <1>8, <1>9 DEF Stream

LEMMA StreamNext == Stream /\ [Next]_vars => Stream'
<1> SUFFICES ASSUME Stream, [Next]_vars PROVE Stream'
  OBVIOUS
<1>1. (StreamTypes /\ Chain /\ Channel /\ Filled)'
  BY StreamStep
<1>2. LoopTypes' /\ PageTypes'
  BY LoopTypesStep, PageTypesStep
<1>3. reader' \in [Readers -> [pc : {"idle", "poll", "take"},
                               timed : BOOLEAN]]
  BY ReaderTypesStep DEF Stream
<1>4. TypeOK'
  BY <1>1, <1>2, <1>3 DEF TypeOK, StreamTypes, LoopTypes, PageTypes
<1>5. QED
  BY <1>1, <1>4 DEF Stream

LEMMA StreamAlways == Spec => []Stream
  BY StreamInit, StreamNext, PTL DEF Spec

\* Every variable keeps its type, and no channel, queue or buffer exceeds its
\* capacity (dataChan, cmdChan, writeChan, DataBuffer.maxSize).
THEOREM DataTypes == Spec => []TypeOK
<1>1. Stream => TypeOK
  BY DEF Stream
<1>2. QED
  BY <1>1, StreamAlways, PTL

\* Of the bytes in the buffer, and of those handed out, ReadOnce follows from
\* where they stand in the stream.
LEMMA FilledReadsOnce == ASSUME Stream PROVE ReadOnce
<1> DEFINE all == taken \o buffer
<1>1. /\ buffer \in Seq(Bytes) /\ taken \in Seq(Bytes)
      /\ Len(buffer) \in Nat /\ Len(taken) \in Nat
  BY DEF Stream, TypeOK
<1>2. Passed \in Nat
  BY Numbers DEF Stream
<1>3. /\ \A i \in 1 .. Len(taken) : all[i] = taken[i]
      /\ \A i \in 1 .. Len(buffer) : all[Len(taken) + i] = buffer[i]
      /\ Len(all) = Len(taken) + Len(buffer)
  BY <1>1
<1> HIDE DEF all
<1>4. \A i \in Len(taken) + 1 .. Len(all) :
        all[i] = Passed - Len(buffer) + (i - Len(taken))
  <2> TAKE i \in Len(taken) + 1 .. Len(all)
  <2>1. i - Len(taken) \in 1 .. Len(buffer) /\ i = Len(taken) + (i - Len(taken))
    BY <1>1, <1>3
  <2>2. all[i] = buffer[i - Len(taken)]
    BY <1>3, <2>1
  <2>3. QED
    BY <2>1, <2>2 DEF Stream, Filled
<1>5. \A i \in 1 .. Len(taken) : taken[i] \in Nat
  BY <1>1, BoundsAssumption DEF Bytes
<1>6. \A i, j \in 1 .. Len(all) : i < j => all[i] < all[j]
  <2> TAKE i, j \in 1 .. Len(all)
  <2> HAVE i < j
  <2>1. CASE j <= Len(taken)
    <3>1. i \in 1 .. Len(taken) /\ j \in 1 .. Len(taken)
      BY <1>1, <1>3, <2>1
    <3>2. QED
      BY <1>3, <3>1 DEF Stream, Filled
  <2>2. CASE j > Len(taken)
    <3>1. j \in Len(taken) + 1 .. Len(all)
      BY <1>1, <1>3, <2>2
    <3>2. CASE i <= Len(taken)
      <4>1. i \in 1 .. Len(taken)
        BY <1>1, <1>3, <3>2
      <4>2. all[i] = taken[i] /\ taken[i] <= Passed - Len(buffer)
        BY <1>3, <4>1 DEF Stream, Filled
      <4>3. QED
        BY <1>1, <1>2, <1>4, <1>5, <3>1, <4>1, <4>2
    <3>3. CASE i > Len(taken)
      <4>1. i \in Len(taken) + 1 .. Len(all)
        BY <1>1, <1>3, <3>3
      <4>2. QED
        BY <1>1, <1>2, <1>4, <3>1, <4>1
    <3>4. QED
      BY <1>1, <3>2, <3>3
  <2>3. QED
    BY <1>1, <2>1, <2>2
<1>7. \A i \in 1 .. Len(buffer) - 1 : buffer[i + 1] = buffer[i] + 1
  <2> TAKE i \in 1 .. Len(buffer) - 1
  <2>1. i \in 1 .. Len(buffer) /\ i + 1 \in 1 .. Len(buffer)
    BY <1>1
  <2>2. /\ buffer[i] = Passed - Len(buffer) + i
        /\ buffer[i + 1] = Passed - Len(buffer) + (i + 1)
    BY <2>1 DEF Stream, Filled
  <2>3. QED
    BY <1>1, <1>2, <2>1, <2>2
<1>8. QED
  BY <1>6, <1>7 DEF ReadOnce, all

\* The buffer holds the newest bytes without a gap, and serial_read hands out
\* every byte at most once and in order, to any number of calls at a time
\* (DataBuffer.Append and Read).
THEOREM BytesReadOnce == Spec => []ReadOnce
  BY FilledReadsOnce, StreamAlways, PTL

\* DataBuffer.Append gives bytes up only to make room, and no more than it
\* needs.
THEOREM NewestBytesKept == Spec => NewestKept
<1> DEFINE Keeps ==
      \A i \in 1 .. Len(buffer) :
        forward.pc = "broadcast" /\ forward'.pc = "select"
        => \/ \E j \in 1 .. Len(buffer') : buffer'[j] = buffer[i]
           \/ Len(buffer') = BufCap
<1>1. ASSUME Stream, [Next]_vars PROVE Keeps
  <2> SUFFICES ASSUME NEW i \in 1 .. Len(buffer), forward.pc = "broadcast",
                      forward'.pc = "select"
               PROVE  \/ \E j \in 1 .. Len(buffer') : buffer'[j] = buffer[i]
                      \/ Len(buffer') = BufCap
    OBVIOUS
  <2> DEFINE new == Content(sent[forward.msg])
  <2>1. BufferChunk
    BY <1>1, Moves DEF Stream, TakeChunk, SerialPublish, StreamKept,
       BufferTouched
  <2>2. new \in Seq(Bytes) /\ Len(new) \in 1 .. BufCap
    BY <1>1, ContentAt DEF Stream
  <2>3. buffer \in Seq(Bytes) /\ Len(buffer) <= BufCap /\ BufCap \in Nat
    BY <1>1, BoundsAssumption DEF Stream, TypeOK
  <2>4. buffer' = Appended(buffer, new)
    BY <2>1 DEF BufferChunk
  <2> HIDE DEF new
  <2>5. Len(buffer') = BufCap \/ buffer' = buffer \o new
    <3>1. Len(new) <= BufCap
      BY <2>2, <2>3
    <3>2. QED
      BY <2>2, <2>3, <2>4, <3>1, AppendedAt, Zenon
  <2>6. CASE buffer' = buffer \o new
    <3>1. buffer'[i] = buffer[i] /\ i \in 1 .. Len(buffer')
      BY <2>2, <2>3, <2>6
    <3>2. QED
      BY <3>1
  <2>7. QED
    BY <2>5, <2>6
<1>2. Stream /\ [Next]_vars => [Keeps]_vars
  BY <1>1
<1>3. QED
  BY <1>2, StreamAlways, PTL DEF Spec, NewestKept

-----------------------------------------------------------------------------
(* Pages.                                                                   *)

\* A page that nobody has opened is nobody's, and empty.
Unopened(p) ==
  /\ p \notin clients /\ p \notin forward.todo /\ p \notin command.todo
  /\ page[p].queue = <<>> /\ page[p].seen = <<>> /\ ~page[p].missed

Joined == \A p \in Pages : page[p].pc = "off" => Unopened(p)

\* What was seen (s) and what waits (q) of the chunks since the one with number
\* n, where the broadcast has reached number r: the chunks come in order, and
\* none is ahead of the broadcast.
InOrder(s, q, n, r) ==
  /\ n <= r
  /\ \A i \in 1 .. Len(s) : s[i] # Other /\ s[i] <= r
  /\ \A i \in 1 .. Len(q) : q[i] <= r
  /\ \A i, j \in 1 .. Len(s) : i < j => s[i] < s[j]
  /\ \A i \in 1 .. Len(s), j \in 1 .. Len(q) : q[j] # Other => s[i] < q[j]
  /\ \A i, j \in 1 .. Len(q) :
       i < j /\ q[i] # Other /\ q[j] # Other => q[i] < q[j]

\* The chunk m is seen or on its way, and: so are exactly those since n.
Among(s, q, m) ==
  \/ \E i \in 1 .. Len(s) : s[i] = m
  \/ \E i \in 1 .. Len(q) : q[i] = m
AllSince(s, q, n, r) ==
  \A m \in Nat \ {0} : Among(s, q, m) <=> n < m /\ m <= r

\* Chunks come in order, and a page that is there and has missed nothing has
\* all since it joined.
Ordered(p) == InOrder(page[p].seen, page[p].queue, page[p].since, Reached(p))
Complete(p) ==
  p \in clients /\ page[p].conn /\ ~page[p].missed =>
    AllSince(page[p].seen, page[p].queue, page[p].since, Reached(p))

InStep == \A p \in Pages : Ordered(p) /\ Complete(p)

-----------------------------------------------------------------------------
(* What a step does to a page.                                              *)

\* Nothing that the page is given or has waiting changes, but it may leave.
Quiet(p) ==
  /\ page'[p].seen = page[p].seen /\ page'[p].queue = page[p].queue
  /\ page'[p].since = page[p].since /\ page'[p].missed = page[p].missed
  /\ page'[p].conn => page[p].conn
  /\ p \in clients' => p \in clients
  /\ Reached(p)' = Reached(p)

\* It is sent something else than a chunk.
Noted(p) ==
  /\ page'[p].seen = page[p].seen
  /\ page'[p].queue = Append(page[p].queue, Other)
  /\ page'[p].since = page[p].since /\ page'[p].missed = page[p].missed
  /\ page'[p].conn => page[p].conn
  /\ p \in clients' => p \in clients
  /\ Reached(p)' = Reached(p)

\* It is sent the next chunk, or misses it.
Given(p) ==
  /\ page'[p].seen = page[p].seen /\ page'[p].since = page[p].since
  /\ page'[p].conn = page[p].conn /\ clients' = clients
  /\ Reached(p)' = Reached(p) + 1
  /\ \/ /\ page'[p].queue = Append(page[p].queue, Reached(p) + 1)
        /\ page'[p].missed = page[p].missed
     \/ page'[p].queue = page[p].queue /\ page'[p].missed

\* A chunk is taken, to be given to those who are there.
Waited(p) ==
  /\ page'[p] = page[p] /\ clients' = clients
  /\ Reached(p)' = IF p \in clients THEN Reached(p) ELSE Reached(p) + 1

\* Its first message goes to the browser.
Wrote(p) ==
  LET m == Head(page[p].queue) IN
  /\ page[p].queue # <<>> /\ page'[p].queue = Tail(page[p].queue)
  /\ page'[p].seen = IF m = Other THEN page[p].seen ELSE Append(page[p].seen, m)
  /\ page'[p].since = page[p].since /\ page'[p].missed = page[p].missed
  /\ page'[p].conn = page[p].conn /\ clients' = clients
  /\ Reached(p)' = Reached(p)

\* It joins.
Opened(p) ==
  /\ page[p].pc = "off" /\ page'[p].since = Reached(p)
  /\ page'[p].seen = <<>> /\ page'[p].queue = <<>>
  /\ Reached(p)' = Reached(p)

Effect(p) ==
  Quiet(p) \/ Noted(p) \/ Given(p) \/ Waited(p) \/ Wrote(p) \/ Opened(p)

\* Numbers for what follows.
LEMMA ReachedNat ==
  ASSUME Stream, NEW p \in Pages
  PROVE  Reached(p) \in Nat /\ Forwarded \in Nat
<1>1. Forwarded \in Nat
  BY Numbers DEF Stream
<1>2. forward.pc = "broadcast" => Forwarded >= 1
  BY DEF Stream, Channel
<1>3. QED
  BY <1>1, <1>2 DEF Reached, Forwarded

\* How far the broadcast is for a page, where neither stream nor loop move.
LEMMA ReachedSame ==
  ASSUME NEW p, Len(sent') - Len(serial') = Len(sent) - Len(serial),
         (forward.pc = "broadcast" /\ p \in forward.todo)
           <=> (forward'.pc = "broadcast" /\ p \in forward'.todo)
  PROVE  Reached(p)' = Reached(p)
  BY DEF Reached

\* A step of one page's own goroutines, or of its browser.
LEMMA OwnEffect ==
  ASSUME Stream, Joined, NEW q \in Pages, PageLoops(q) \/ Browser(q),
         NEW p \in Pages
  PROVE  Effect(p)
<1> USE DEF Effect
<1>1. page \in [Pages -> Page] /\ clients \subseteq Pages
      /\ page[p] \in Page /\ page[q] \in Page
  BY DEF Stream, TypeOK
<1>2. UNCHANGED <<sent, serial, forward>>
  BY DEF PageLoops, Register, Greet, StartLoops, ReadFails, ReadEnds,
     WriteMessage, WriteFails, Browser, PageLeaves, PageSays, OnlyPage,
     serialSide
<1>3. Reached(p)' = Reached(p)
  BY <1>2, ReachedSame
<1>4. ASSUME NEW pg, OnlyPage(q, pg), q # p, clients' \subseteq clients \cup {q}
      PROVE  Quiet(p)
  BY <1>1, <1>3, <1>4 DEF OnlyPage, Quiet
<1>5. ASSUME NEW pg, OnlyPage(q, pg), q = p, clients' \subseteq clients,
             pg.seen = page[q].seen, pg.queue = page[q].queue,
             pg.since = page[q].since, pg.missed = page[q].missed,
             pg.conn => page[q].conn
      PROVE  Quiet(p)
  BY <1>1, <1>3, <1>5 DEF OnlyPage, Quiet
<1>6. CASE Register(q)
  <2>1. CASE q = p
    <3>1. page[p].pc = "off" /\ Unopened(p)
      BY <1>6, <2>1 DEF Register, Joined
    <3>2. Reached(p) = Len(sent) - Len(serial)
      BY <3>1 DEF Unopened, Reached
    <3> DEFINE n == Len(sent) - Len(serial)
               pg == [page[p] EXCEPT !.pc = "greet", !.conn = TRUE, !.since = n]
    <3>3. page'[p] = pg
      BY <1>1, <1>6, <2>1 DEF Register, OnlyPage
    <3>4. pg.since = n /\ pg.seen = page[p].seen /\ pg.queue = page[p].queue
      <4> HIDE DEF n
      <4>1. QED
        BY <1>1 DEF Page
    <3> HIDE DEF pg
    <3>5. Opened(p)
      BY <1>3, <3>1, <3>2, <3>3, <3>4 DEF Opened, Unopened
    <3>6. QED
      BY <3>5
  <2>2. CASE q # p
    BY <1>4, <1>6, <2>2 DEF Register
  <2>3. QED
    BY <2>1, <2>2
<1>7. CASE Greet(q)
  <2> DEFINE sentTo == Send(page[q], Other)
             pg == [sentTo EXCEPT !.greeted = @ + 1]
  <2>1. OnlyPage(q, pg) /\ clients' = clients
    BY <1>7 DEF Greet
  <2>2. CASE q = p
    <3>1. Other \in Msgs
      BY BoundsAssumption DEF Other, Msgs
    <3>2. /\ sentTo \in Page
          /\ sentTo.seen = page[q].seen /\ sentTo.since = page[q].since
          /\ sentTo.conn = page[q].conn
          /\ sentTo.missed = page[q].missed
          /\ \/ sentTo.queue = Append(page[q].queue, Other)
             \/ sentTo.queue = page[q].queue
      BY <3>1, SendAt DEF Stream
    <3> HIDE DEF sentTo
    <3>3. /\ pg.seen = sentTo.seen /\ pg.since = sentTo.since
          /\ pg.conn = sentTo.conn /\ pg.missed = sentTo.missed
          /\ pg.queue = sentTo.queue
      BY <3>2 DEF Page
    <3>4. page'[p] = pg
      BY <1>1, <2>1, <2>2 DEF OnlyPage
    <3> HIDE DEF pg
    <3>5. Noted(p) \/ Quiet(p)
      BY <1>3, <2>1, <2>2, <3>2, <3>3, <3>4 DEF Noted, Quiet
    <3>6. QED
      BY <3>5
  <2>3. CASE q # p
    BY <1>4, <2>1, <2>3
  <2>4. QED
    BY <2>2, <2>3
<1>8. CASE StartLoops(q)
  <2> DEFINE pg == [page[q] EXCEPT !.pc = "open", !.rd = "run", !.wr = "run"]
  <2>1. OnlyPage(q, pg) /\ clients' = clients
    BY <1>8 DEF StartLoops
  <2>2. /\ pg.seen = page[q].seen /\ pg.queue = page[q].queue
        /\ pg.since = page[q].since /\ pg.missed = page[q].missed
        /\ pg.conn = page[q].conn
    BY <1>1 DEF Page
  <2> HIDE DEF pg
  <2>3. QED
    BY <1>4, <1>5, <2>1, <2>2
<1>9. CASE ReadFails(q)
  <2> DEFINE pg == [page[q] EXCEPT !.rd = "close"]
  <2>1. OnlyPage(q, pg) /\ clients' \subseteq clients
    BY <1>9 DEF ReadFails
  <2>2. /\ pg.seen = page[q].seen /\ pg.queue = page[q].queue
        /\ pg.since = page[q].since /\ pg.missed = page[q].missed
        /\ pg.conn = page[q].conn
    BY <1>1 DEF Page
  <2> HIDE DEF pg
  <2>3. QED
    BY <1>4, <1>5, <2>1, <2>2
<1>10. CASE ReadEnds(q)
  <2> DEFINE pg == [page[q] EXCEPT !.rd = "done", !.conn = FALSE]
  <2>1. OnlyPage(q, pg) /\ clients' = clients
    BY <1>10 DEF ReadEnds
  <2>2. /\ pg.seen = page[q].seen /\ pg.queue = page[q].queue
        /\ pg.since = page[q].since /\ pg.missed = page[q].missed
        /\ pg.conn = FALSE
    BY <1>1 DEF Page
  <2> HIDE DEF pg
  <2>3. QED
    BY <1>4, <1>5, <2>1, <2>2
<1>11. CASE WriteFails(q)
  <2> DEFINE pg == [page[q] EXCEPT !.wr = "done", !.conn = FALSE]
  <2>1. OnlyPage(q, pg) /\ clients' = clients
    BY <1>11 DEF WriteFails
  <2>2. /\ pg.seen = page[q].seen /\ pg.queue = page[q].queue
        /\ pg.since = page[q].since /\ pg.missed = page[q].missed
        /\ pg.conn = FALSE
    BY <1>1 DEF Page
  <2> HIDE DEF pg
  <2>3. QED
    BY <1>4, <1>5, <2>1, <2>2
<1>12. CASE PageLeaves(q)
  <2> DEFINE pg == [page[q] EXCEPT !.conn = FALSE]
  <2>1. OnlyPage(q, pg) /\ clients' = clients
    BY <1>12 DEF PageLeaves
  <2>2. /\ pg.seen = page[q].seen /\ pg.queue = page[q].queue
        /\ pg.since = page[q].since /\ pg.missed = page[q].missed
        /\ pg.conn = FALSE
    BY <1>1 DEF Page
  <2> HIDE DEF pg
  <2>3. QED
    BY <1>4, <1>5, <2>1, <2>2
<1>13. ASSUME NEW kind \in Kinds, PageSays(q, kind) PROVE Quiet(p)
  BY <1>3, <1>13 DEF PageSays, Quiet
<1>14. CASE WriteMessage(q)
  <2> DEFINE m == Head(page[q].queue)
             seen == IF m = Other THEN page[q].seen ELSE Append(page[q].seen, m)
             rest == Tail(page[q].queue)
             hid == page[q].hidden \/ ~Shown(m)
             pg == [page[q] EXCEPT !.queue = rest, !.seen = seen,
                                   !.hidden = hid]
  <2>1. OnlyPage(q, pg) /\ clients' = clients /\ page[q].queue # <<>>
    BY <1>14 DEF WriteMessage
  <2>2. CASE q = p
    <3>1. /\ pg.seen = seen /\ pg.queue = rest /\ pg.since = page[q].since
          /\ pg.missed = page[q].missed /\ pg.conn = page[q].conn
      <4> HIDE DEF seen, rest, hid
      <4>1. QED
        BY <1>1 DEF Page
    <3>2. page'[p] = pg
      BY <1>1, <2>1, <2>2 DEF OnlyPage
    <3> HIDE DEF pg
    <3>3. Wrote(p)
      BY <1>3, <2>1, <2>2, <3>1, <3>2 DEF Wrote
    <3>4. QED
      BY <3>3
  <2>3. CASE q # p
    <3> HIDE DEF pg
    <3>1. QED
      BY <1>4, <2>1, <2>3
  <2>4. QED
    BY <2>2, <2>3
<1>15. QED
  BY <1>6, <1>7, <1>8, <1>9, <1>10, <1>11, <1>12, <1>13, <1>14
     DEF PageLoops, Browser

\* A step of forwardLoop.
LEMMA ForwardEffect ==
  ASSUME Stream, ForwardLoop, NEW p \in Pages
  PROVE  Effect(p)
<1> USE DEF Effect
<1>1. /\ page \in [Pages -> Page] /\ clients \subseteq Pages
      /\ page[p] \in Page
      /\ forward \in [pc : {"select", "broadcast", "write", "done"},
                      msg : Msgs, todo : SUBSET Pages]
      /\ Len(sent) \in Nat /\ Len(serial) \in Nat
  BY DEF Stream, TypeOK
<1>2. CASE TakeChunk
  <2>1. Len(serial') = Len(serial) - 1 /\ sent' = sent
    <3>1. serial \in Seq(1 .. MaxBytes) /\ serial # <<>>
          /\ serial' = Tail(serial)
      BY <1>2 DEF TakeChunk, Stream, TypeOK
    <3>2. QED
      BY <1>2, <3>1, TailAt DEF TakeChunk
  <2>2. forward'.pc = "broadcast" /\ forward'.todo = clients
        /\ forward.pc = "select" /\ page' = page /\ clients' = clients
    BY <1>2 DEF TakeChunk, pageSide
  <2>3. Waited(p)
    BY <1>1, <2>1, <2>2 DEF Waited, Reached
  <2>4. QED
    BY <2>3
<1>3. CASE BufferChunk
  <2>1. /\ forward.todo = {} /\ forward'.pc = "select"
        /\ UNCHANGED <<sent, serial, page, clients>>
    BY <1>1, <1>3 DEF BufferChunk, pageSide, serialSide
  <2>2. Quiet(p)
    BY <2>1, ReachedSame DEF Quiet
  <2>3. QED
    BY <2>2
<1>4. CASE TakeText \/ WriteText \/ ForwardStops
  <2>1. /\ forward.pc # "broadcast" /\ forward'.pc # "broadcast"
        /\ UNCHANGED <<sent, serial, page, clients>>
    BY <1>1, <1>4 DEF TakeText, WriteText, ForwardStops, pageSide, serialSide
  <2>2. Quiet(p)
    BY <2>1, ReachedSame DEF Quiet
  <2>3. QED
    BY <2>2
<1>5. ASSUME NEW q \in Pages, ForwardChunk(q) PROVE Effect(p)
  <2>1. /\ forward.pc = "broadcast" /\ q \in forward.todo
        /\ forward'.pc = "broadcast" /\ forward'.todo = forward.todo \ {q}
        /\ page' = [page EXCEPT ![q] = Send(page[q], forward.msg)]
        /\ UNCHANGED <<sent, serial, clients>>
    BY <1>1, <1>5 DEF ForwardChunk, SendTo, serialSide
  <2>2. CASE q = p
    <3>1. forward.msg = Forwarded /\ Forwarded >= 1 /\ forward.msg \in Msgs
      BY <1>1, <2>1 DEF Stream, Channel
    <3>2. Reached(p) = Forwarded - 1 /\ Reached(p)' = Forwarded
      BY <2>1, <2>2 DEF Reached, Forwarded
    <3> DEFINE pg == Send(page[p], forward.msg)
    <3>3. /\ pg.seen = page[p].seen /\ pg.since = page[p].since
          /\ pg.conn = page[p].conn
          /\ \/ pg.queue = Append(page[p].queue, forward.msg)
                /\ pg.missed = page[p].missed
             \/ pg.queue = page[p].queue /\ pg.missed
      <4>1. forward.msg # Other
        BY <1>1, <3>1 DEF Other, Forwarded
      <4>2. QED
        BY <3>1, <4>1, SendAt DEF Stream
    <3>4. page'[p] = pg
      BY <1>1, <2>1, <2>2
    <3> HIDE DEF pg
    <3>5. Forwarded = (Forwarded - 1) + 1
      BY <1>1 DEF Forwarded
    <3>6. Given(p)
      BY <2>1, <3>1, <3>2, <3>3, <3>4, <3>5 DEF Given
    <3>7. QED
      BY <3>6
  <2>3. CASE q # p
    <3>1. page'[p] = page[p]
      BY <1>1, <2>1, <2>3
    <3>2. Reached(p)' = Reached(p)
      BY <2>1, <2>3, ReachedSame
    <3>3. Quiet(p)
      BY <2>1, <3>1, <3>2 DEF Quiet
    <3>4. QED
      BY <3>3
  <2>4. QED
    BY <2>2, <2>3
<1>6. QED
  BY <1>2, <1>3, <1>4, <1>5 DEF ForwardLoop

\* A step of cmdLoop.
LEMMA CommandEffect ==
  ASSUME Stream, CmdLoop, NEW p \in Pages
  PROVE  Effect(p)
<1>1. page \in [Pages -> Page] /\ page[p] \in Page
  BY DEF Stream, TypeOK
<1>2. UNCHANGED <<sent, serial, forward, clients>>
  BY DEF CmdLoop, TakeCommand, HandleCommand, AnswerPage, Answered,
     CommandsStop, serialSide, pageSide
<1>3. Reached(p)' = Reached(p)
  BY <1>2, ReachedSame
<1>4. CASE page'[p] = page[p]
  BY <1>2, <1>3, <1>4 DEF Quiet, Effect
<1>5. ASSUME NEW q \in Pages, AnswerPage(q) PROVE Effect(p)
  <2>1. page' = [page EXCEPT ![q] = Send(page[q], Other)]
    BY <1>5 DEF AnswerPage, SendTo
  <2>2. CASE q = p
    <3> DEFINE pg == Send(page[p], Other)
    <3>1. Other \in Msgs
      BY BoundsAssumption DEF Other, Msgs
    <3>2. /\ pg.seen = page[p].seen /\ pg.since = page[p].since
          /\ pg.conn = page[p].conn /\ pg.missed = page[p].missed
          /\ \/ pg.queue = Append(page[p].queue, Other)
             \/ pg.queue = page[p].queue
      BY <3>1, SendAt DEF Stream
    <3>3. page'[p] = pg
      BY <1>1, <2>1, <2>2
    <3> HIDE DEF pg
    <3>4. Noted(p) \/ Quiet(p)
      BY <1>2, <1>3, <3>2, <3>3 DEF Noted, Quiet
    <3>5. QED
      BY <3>4 DEF Effect
  <2>3. CASE q # p
    BY <1>1, <1>4, <2>1, <2>3
  <2>4. QED
    BY <2>2, <2>3
<1>6. CASE TakeCommand \/ HandleCommand \/ Answered \/ CommandsStop
  BY <1>4, <1>6 DEF TakeCommand, HandleCommand, Answered, CommandsStop, pageSide
<1>7. QED
  BY <1>5, <1>6 DEF CmdLoop

\* Every step is one of those for every page.
LEMMA StepEffect ==
  ASSUME Stream, Joined, [Next]_vars, NEW p \in Pages
  PROVE  Effect(p)
<1>1. ASSUME UNCHANGED <<page, clients>>, Reached(p)' = Reached(p)
      PROVE  Effect(p)
  BY <1>1 DEF Quiet, Effect
<1>2. ASSUME UNCHANGED <<sent, serial, forward, page, clients>>
      PROVE  Effect(p)
  BY <1>1, <1>2, ReachedSame
<1>3. ASSUME NEW size \in Sizes, NEW json \in Looks, SerialPublish(size, json)
      PROVE  Effect(p)
  <2>1. Len(sent') - Len(serial') = Len(sent) - Len(serial)
    <3>1. sent \in Seq(Chunk) /\ serial \in Seq(1 .. MaxBytes)
      BY DEF Stream, TypeOK
    <3>2. Len(sent') = Len(sent) + 1 /\ Len(serial') = Len(serial) + 1
      BY <1>3, <3>1 DEF SerialPublish
    <3>3. Len(sent) \in Nat /\ Len(serial) \in Nat
      BY <3>1
    <3>4. QED
      BY <3>2, <3>3
  <2>2. UNCHANGED <<forward, page, clients>>
    BY <1>3 DEF SerialPublish, pageSide
  <2>3. QED
    BY <1>1, <2>1, <2>2, ReachedSame
<1>4. CASE Stop \/ ClearBuffer \/ UNCHANGED vars
  BY <1>2, <1>4 DEF Stop, ClearBuffer, OnlyMcp, pageSide, serialSide, vars
<1>5. ASSUME NEW r \in Readers, SerialRead(r) PROVE Effect(p)
  BY <1>2, <1>5 DEF SerialRead, ReadCall, ReadPoll, ReadTake, ReadTimeout,
     ReadCancel, OnlyMcp, pageSide, serialSide
<1>6. ASSUME NEW q \in Pages, PageLoops(q) \/ Browser(q) PROVE Effect(p)
  BY <1>6, OwnEffect
<1>7. QED
  BY <1>3, <1>4, <1>5, <1>6, ForwardEffect, CommandEffect DEF Next

-----------------------------------------------------------------------------
(* Nothing reaches a page before it joins.                                  *)

LEMMA JoinedStep ==
  ASSUME Stream, Joined, [Next]_vars
  PROVE  Joined'
<1> SUFFICES ASSUME NEW p \in Pages, page'[p].pc = "off" PROVE Unopened(p)'
  BY DEF Joined
<1>1. /\ page \in [Pages -> Page] /\ clients \subseteq Pages
      /\ page[p] \in Page /\ Other \in Msgs
  BY BoundsAssumption DEF Stream, TypeOK, Other, Msgs
<1>2. ASSUME page'[p] = page[p], p \in clients' => p \in clients,
             p \in forward'.todo => p \in forward.todo \cup clients,
             p \in command'.todo => p \in command.todo \cup clients
      PROVE  Unopened(p)'
  BY <1>2 DEF Joined, Unopened
<1>3. ASSUME NEW q \in Pages, NEW m \in Msgs,
             q \in forward.todo \cup command.todo,
             page' = [page EXCEPT ![q] = Send(page[q], m)]
      PROVE  page'[p] = page[p]
  <2>1. CASE q = p
    <3>1. page'[p].pc = page[p].pc
      BY <1>1, <1>3, <2>1, SendAt DEF Stream
    <3>2. Unopened(p)
      BY <3>1 DEF Joined
    <3>3. QED
      BY <1>3, <2>1, <3>2 DEF Unopened
  <2>2. CASE q # p
    BY <1>1, <1>3, <2>2
  <2>3. QED
    BY <2>1, <2>2
<1>4. CASE ForwardLoop
  <2> forward \in [pc : {"select", "broadcast", "write", "done"},
                   msg : Msgs, todo : SUBSET Pages]
    BY DEF Stream, TypeOK
  <2>1. CASE TakeChunk \/ BufferChunk \/ TakeText \/ WriteText \/ ForwardStops
    BY <1>2, <2>1 DEF TakeChunk, BufferChunk, TakeText, WriteText,
       ForwardStops, pageSide
  <2>2. ASSUME NEW q \in Pages, ForwardChunk(q) PROVE Unopened(p)'
    <3>1. page'[p] = page[p]
      BY <1>3, <2>2 DEF ForwardChunk, SendTo
    <3>2. QED
      BY <1>2, <2>2, <3>1 DEF ForwardChunk
  <2>3. QED
    BY <1>4, <2>1, <2>2 DEF ForwardLoop
<1>5. CASE CmdLoop
  <2> command \in [pc : {"select", "handle", "broadcast", "done"},
                   kind : {"command", "text", "brace"}, todo : SUBSET Pages]
    BY DEF Stream, TypeOK
  <2>1. CASE TakeCommand \/ HandleCommand \/ Answered \/ CommandsStop
    BY <1>2, <2>1 DEF TakeCommand, HandleCommand, Answered, CommandsStop,
       pageSide
  <2>2. ASSUME NEW q \in Pages, AnswerPage(q) PROVE Unopened(p)'
    <3>1. page'[p] = page[p]
      BY <1>1, <1>3, <2>2 DEF AnswerPage, SendTo
    <3>2. QED
      BY <1>2, <2>2, <3>1 DEF AnswerPage
  <2>3. QED
    BY <1>5, <2>1, <2>2 DEF CmdLoop
<1>6. ASSUME NEW q \in Pages, PageLoops(q) \/ Browser(q) PROVE Unopened(p)'
  <2>1. UNCHANGED <<forward, command>>
    BY <1>6 DEF PageLoops, Register, Greet, StartLoops, ReadFails, ReadEnds,
       WriteMessage, WriteFails, Browser, PageLeaves, PageSays, OnlyPage
  <2>2. clients' \subseteq clients \cup {q}
    BY <1>6 DEF PageLoops, Register, Greet, StartLoops, ReadFails, ReadEnds,
       WriteMessage, WriteFails, Browser, PageLeaves, PageSays, OnlyPage
  <2>3. CASE q # p
    <3>1. page'[p] = page[p]
      BY <1>1, <1>6, <2>3 DEF PageLoops, Register, Greet, StartLoops,
         ReadFails, ReadEnds, WriteMessage, WriteFails, Browser, PageLeaves,
         PageSays, OnlyPage
    <3>2. QED
      BY <1>2, <2>1, <2>2, <2>3, <3>1
  <2>4. CASE q = p
    <3>1. ASSUME NEW pg, OnlyPage(p, pg), pg.pc = page[p].pc,
                 pg.queue = page[p].queue, pg.seen = page[p].seen,
                 pg.missed = page[p].missed, clients' \subseteq clients
          PROVE  Unopened(p)'
      BY <1>1, <2>1, <3>1 DEF OnlyPage, Joined, Unopened
    <3>2. page[p].pc # "off" => page'[p].pc # "off"
      <4>1. CASE Register(q) \/ StartLoops(q)
        BY <1>1, <2>4, <4>1 DEF Register, StartLoops, OnlyPage, Page
      <4>2. CASE Greet(q)
        <5> DEFINE sentTo == Send(page[p], Other)
                   pg == [sentTo EXCEPT !.greeted = @ + 1]
        <5>1. sentTo \in Page /\ sentTo.pc = page[p].pc
          BY <1>1, SendAt DEF Stream
        <5>2. pg.pc = sentTo.pc
          <6> HIDE DEF sentTo
          <6>1. QED
            BY <5>1 DEF Page
        <5>3. page'[p] = pg
          BY <1>1, <2>4, <4>2 DEF Greet, OnlyPage
        <5> HIDE DEF pg
        <5>4. QED
          BY <5>1, <5>2, <5>3
      <4>3. CASE ReadFails(q) \/ ReadEnds(q) \/ WriteFails(q) \/ PageLeaves(q)
        <5>1. CASE ReadFails(q)
          BY <1>1, <2>4, <5>1 DEF ReadFails, OnlyPage, Page
        <5>2. CASE ReadEnds(q)
          BY <1>1, <2>4, <5>2 DEF ReadEnds, OnlyPage, Page
        <5>3. CASE WriteFails(q)
          BY <1>1, <2>4, <5>3 DEF WriteFails, OnlyPage, Page
        <5>4. CASE PageLeaves(q)
          BY <1>1, <2>4, <5>4 DEF PageLeaves, OnlyPage, Page
        <5>5. QED
          BY <4>3, <5>1, <5>2, <5>3, <5>4
      <4>4. ASSUME NEW kind \in Kinds, PageSays(q, kind)
            PROVE  page'[p].pc = page[p].pc
        BY <4>4 DEF PageSays
      <4>5. CASE WriteMessage(q)
        <5> DEFINE m == Head(page[p].queue)
                   rest == Tail(page[p].queue)
                   seen == IF m = Other THEN page[p].seen
                           ELSE Append(page[p].seen, m)
                   hid == page[p].hidden \/ ~Shown(m)
                   pg == [page[p] EXCEPT !.queue = rest, !.seen = seen,
                                         !.hidden = hid]
        <5>1. page'[p] = pg
          BY <1>1, <2>4, <4>5 DEF WriteMessage, OnlyPage
        <5>2. pg.pc = page[p].pc
          <6> HIDE DEF m, rest, seen, hid
          <6>1. QED
            BY <1>1 DEF Page
        <5> HIDE DEF pg
        <5>3. QED
          BY <5>1, <5>2
      <4>6. QED
        BY <1>6, <2>4, <4>1, <4>2, <4>3, <4>4, <4>5 DEF PageLoops, Browser
    <3>3. page[p].pc = "off" /\ Unopened(p)
      BY <3>2 DEF Joined
    <3>4. ~Greet(p) /\ ~StartLoops(p) /\ ~WriteMessage(p)
      BY <3>3 DEF Greet, StartLoops, WriteMessage, Unopened
    <3>5. ~Register(p)
      <4>1. Register(p) => page'[p].pc = "greet"
        BY <1>1 DEF Register, OnlyPage, Page
      <4>2. QED
        BY <4>1
    <3>6. CASE ReadFails(p) \/ ReadEnds(p) \/ WriteFails(p) \/ PageLeaves(p)
      <4>1. CASE ReadFails(p)
        <5> DEFINE pg == [page[p] EXCEPT !.rd = "close"]
        <5>1. OnlyPage(p, pg) /\ clients' \subseteq clients
          BY <4>1 DEF ReadFails
        <5>2. /\ pg.pc = page[p].pc /\ pg.queue = page[p].queue
              /\ pg.seen = page[p].seen /\ pg.missed = page[p].missed
          BY <1>1 DEF Page
        <5> HIDE DEF pg
        <5>3. QED
          BY <3>1, <5>1, <5>2
      <4>2. CASE ReadEnds(p)
        <5> DEFINE pg == [page[p] EXCEPT !.rd = "done", !.conn = FALSE]
        <5>1. OnlyPage(p, pg) /\ clients' \subseteq clients
          BY <4>2 DEF ReadEnds
        <5>2. /\ pg.pc = page[p].pc /\ pg.queue = page[p].queue
              /\ pg.seen = page[p].seen /\ pg.missed = page[p].missed
          BY <1>1 DEF Page
        <5> HIDE DEF pg
        <5>3. QED
          BY <3>1, <5>1, <5>2
      <4>3. CASE WriteFails(p)
        <5> DEFINE pg == [page[p] EXCEPT !.wr = "done", !.conn = FALSE]
        <5>1. OnlyPage(p, pg) /\ clients' \subseteq clients
          BY <4>3 DEF WriteFails
        <5>2. /\ pg.pc = page[p].pc /\ pg.queue = page[p].queue
              /\ pg.seen = page[p].seen /\ pg.missed = page[p].missed
          BY <1>1 DEF Page
        <5> HIDE DEF pg
        <5>3. QED
          BY <3>1, <5>1, <5>2
      <4>4. CASE PageLeaves(p)
        <5> DEFINE pg == [page[p] EXCEPT !.conn = FALSE]
        <5>1. OnlyPage(p, pg) /\ clients' \subseteq clients
          BY <4>4 DEF PageLeaves
        <5>2. /\ pg.pc = page[p].pc /\ pg.queue = page[p].queue
              /\ pg.seen = page[p].seen /\ pg.missed = page[p].missed
          BY <1>1 DEF Page
        <5> HIDE DEF pg
        <5>3. QED
          BY <3>1, <5>1, <5>2
      <4>5. QED
        BY <3>6, <4>1, <4>2, <4>3, <4>4
    <3>7. ASSUME NEW kind \in Kinds, PageSays(p, kind) PROVE Unopened(p)'
      BY <1>2, <2>1, <3>7 DEF PageSays
    <3>8. QED
      BY <1>6, <2>4, <3>4, <3>5, <3>6, <3>7 DEF PageLoops, Browser
  <2>5. QED
    BY <2>3, <2>4
<1>7. CASE \E size \in Sizes, json \in Looks : SerialPublish(size, json)
  BY <1>2, <1>7 DEF SerialPublish, pageSide
<1>8. CASE Stop \/ ClearBuffer \/ UNCHANGED vars
  BY <1>2, <1>8 DEF Stop, ClearBuffer, OnlyMcp, pageSide, vars
<1>9. ASSUME NEW r \in Readers, SerialRead(r) PROVE Unopened(p)'
  BY <1>2, <1>9 DEF SerialRead, ReadCall, ReadPoll, ReadTake, ReadTimeout,
     ReadCancel, OnlyMcp, pageSide
<1>10. QED
  BY <1>4, <1>5, <1>6, <1>7, <1>8, <1>9 DEF Next

-----------------------------------------------------------------------------
(* What the effects do to the order of chunks.                              *)

\* A message that is not a chunk changes nothing.
LEMMA NoteAdds ==
  ASSUME NEW s \in Seq(Nat), NEW q \in Seq(Nat), NEW n \in Nat, NEW r \in Nat,
         InOrder(s, q, n, r)
  PROVE  /\ InOrder(s, Append(q, Other), n, r)
         /\ \A m \in Nat \ {0} :
              Among(s, Append(q, Other), m) <=> Among(s, q, m)
<1> DEFINE t == Append(q, Other)
<1>1. /\ Len(t) = Len(q) + 1 /\ Len(q) \in Nat /\ Len(s) \in Nat
      /\ \A i \in 1 .. Len(q) : t[i] = q[i]
      /\ t[Len(q) + 1] = Other
  BY DEF Other
<1>2. \A i \in 1 .. Len(t) : i \in 1 .. Len(q) \/ i = Len(q) + 1
  BY <1>1
<1>3. \A i \in 1 .. Len(q) : i \in 1 .. Len(t)
  BY <1>1
<1> HIDE DEF t
<1>4. InOrder(s, t, n, r)
  <2>1. \A i \in 1 .. Len(t) : t[i] <= r
    <3>1. \A i \in 1 .. Len(q) : q[i] <= r
      BY DEF InOrder
    <3>2. QED
      BY <1>1, <1>2, <3>1 DEF Other
  <2>2. \A i \in 1 .. Len(s), j \in 1 .. Len(t) : t[j] # Other => s[i] < t[j]
    BY <1>1, <1>2 DEF InOrder
  <2>3. \A i, j \in 1 .. Len(t) :
          i < j /\ t[i] # Other /\ t[j] # Other => t[i] < t[j]
    BY <1>1, <1>2 DEF InOrder
  <2>4. QED
    BY <2>1, <2>2, <2>3 DEF InOrder
<1>5. \A m \in Nat \ {0} : Among(s, t, m) <=> Among(s, q, m)
  BY <1>1, <1>2, <1>3 DEF Among, Other
<1>6. QED
  BY <1>4, <1>5 DEF t

\* The next chunk comes behind all others.
LEMMA ChunkAdds ==
  ASSUME NEW s \in Seq(Nat), NEW q \in Seq(Nat), NEW n \in Nat, NEW r \in Nat,
         InOrder(s, q, n, r)
  PROVE  /\ InOrder(s, Append(q, r + 1), n, r + 1)
         /\ \A m \in Nat \ {0} :
              Among(s, Append(q, r + 1), m) <=> Among(s, q, m) \/ m = r + 1
<1> DEFINE t == Append(q, r + 1)
<1>1. /\ Len(t) = Len(q) + 1 /\ Len(q) \in Nat /\ Len(s) \in Nat
      /\ \A i \in 1 .. Len(q) : t[i] = q[i] /\ q[i] \in Nat
      /\ \A i \in 1 .. Len(s) : s[i] \in Nat
      /\ t[Len(q) + 1] = r + 1
  BY DEF Other
<1>2. \A i \in 1 .. Len(t) : i \in 1 .. Len(q) \/ i = Len(q) + 1
  BY <1>1
<1>3. \A i \in 1 .. Len(q) : i \in 1 .. Len(t)
  BY <1>1
<1>4. Len(q) + 1 \in 1 .. Len(t)
  BY <1>1
<1> HIDE DEF t
<1>5. InOrder(s, t, n, r + 1)
  <2>1. n <= r + 1
    BY DEF InOrder
  <2>2. \A i \in 1 .. Len(s) : s[i] # Other /\ s[i] <= r + 1
    BY <1>1 DEF InOrder
  <2>3. \A i \in 1 .. Len(t) : t[i] <= r + 1
    <3>1. \A i \in 1 .. Len(q) : q[i] <= r
      BY DEF InOrder
    <3>2. \A i \in 1 .. Len(q) : q[i] <= r + 1
      BY <1>1, <3>1
    <3>3. \A i \in 1 .. Len(q) : t[i] <= r + 1
      BY <1>1, <3>2
    <3>4. t[Len(q) + 1] <= r + 1
      BY <1>1
    <3>5. QED
      BY <1>2, <3>3, <3>4
  <2>4. \A i, j \in 1 .. Len(s) : i < j => s[i] < s[j]
    BY DEF InOrder
  <2>5. \A i \in 1 .. Len(s), j \in 1 .. Len(t) : t[j] # Other => s[i] < t[j]
    BY <1>1, <1>2 DEF InOrder
  <2>6. \A i, j \in 1 .. Len(t) :
          i < j /\ t[i] # Other /\ t[j] # Other => t[i] < t[j]
    BY <1>1, <1>2 DEF InOrder
  <2>7. QED
    BY <2>1, <2>2, <2>3, <2>4, <2>5, <2>6 DEF InOrder
<1>6. \A m \in Nat \ {0} : Among(s, t, m) <=> Among(s, q, m) \/ m = r + 1
  BY <1>1, <1>2, <1>3, <1>4 DEF Among
<1>7. QED
  BY <1>5, <1>6 DEF t

\* A message that is written is seen instead of waiting.
LEMMA WriteMoves ==
  ASSUME NEW s \in Seq(Nat), NEW q \in Seq(Nat), NEW n \in Nat, NEW r \in Nat,
         InOrder(s, q, n, r), q # <<>>,
         NEW u, u = IF Head(q) = Other THEN s ELSE Append(s, Head(q))
  PROVE  /\ InOrder(u, Tail(q), n, r)
         /\ \A m \in Nat \ {0} : Among(u, Tail(q), m) <=> Among(s, q, m)
<1> DEFINE t == Tail(q)
<1>1. /\ t \in Seq(Nat) /\ Len(t) = Len(q) - 1 /\ Len(q) \in Nat \ {0}
      /\ \A i \in 1 .. Len(t) : t[i] = q[i + 1]
      /\ Head(q) = q[1] /\ q[1] \in Nat
  BY TailAt
<1>2. /\ \A i \in 1 .. Len(q) : q[i] \in Nat
      /\ \A i \in 1 .. Len(s) : s[i] \in Nat
      /\ Len(s) \in Nat
  BY NoneIn
<1>3. \A i \in 1 .. Len(t) : i + 1 \in 1 .. Len(q)
  BY <1>1
<1>4. \A i \in 1 .. Len(q) :
        \/ i = 1
        \/ i - 1 \in 1 .. Len(t) /\ t[i - 1] = q[i]
  BY <1>1
<1>5. 1 \in 1 .. Len(q)
  BY <1>1
<1> HIDE DEF t
<1>6. CASE q[1] = Other
  <2>1. u = s
    BY <1>1, <1>6
  <2>2. InOrder(s, t, n, r)
    <3>1. \A i \in 1 .. Len(t) : t[i] <= r
      BY <1>1, <1>3 DEF InOrder
    <3>2. \A i \in 1 .. Len(s), j \in 1 .. Len(t) : t[j] # Other => s[i] < t[j]
      BY <1>1, <1>3 DEF InOrder
    <3>3. ASSUME NEW i \in 1 .. Len(t), NEW j \in 1 .. Len(t),
                 i < j, t[i] # Other, t[j] # Other
          PROVE  t[i] < t[j]
      <4>1. i + 1 < j + 1
        BY <3>3
      <4>2. QED
        BY <1>1, <1>3, <3>3, <4>1 DEF InOrder
    <3>4. QED
      BY <3>1, <3>2, <3>3 DEF InOrder
  <2>3. \A m \in Nat \ {0} : Among(s, t, m) <=> Among(s, q, m)
    BY <1>1, <1>3, <1>4, <1>6 DEF Among, Other
  <2>4. QED
    BY <2>1, <2>2, <2>3 DEF t
<1>7. CASE q[1] # Other
  <2>1. /\ Len(u) = Len(s) + 1
        /\ \A i \in 1 .. Len(s) : u[i] = s[i]
        /\ u[Len(s) + 1] = q[1]
    BY <1>1, <1>7
  <2>2. \A i \in 1 .. Len(u) : i \in 1 .. Len(s) \/ i = Len(s) + 1
    BY <1>2, <2>1
  <2>3. \A i \in 1 .. Len(s) : i \in 1 .. Len(u)
    BY <1>2, <2>1
  <2>4. Len(s) + 1 \in 1 .. Len(u)
    BY <1>2, <2>1
  <2> HIDE <1>7
  <2>5. InOrder(u, t, n, r)
    <3>1. \A i \in 1 .. Len(t) : t[i] <= r
      BY <1>1, <1>3 DEF InOrder
    <3>2. \A i \in 1 .. Len(u) : u[i] # Other /\ u[i] <= r
      BY <1>2, <1>5, <1>7, <2>1, <2>2 DEF InOrder
    <3>3. \A i, j \in 1 .. Len(u) : i < j => u[i] < u[j]
      <4>1. ASSUME NEW i \in 1 .. Len(u), NEW j \in 1 .. Len(u), i < j
            PROVE  u[i] < u[j]
        <5>1. i \in 1 .. Len(s)
          BY <1>2, <2>1, <4>1
        <5>2. CASE j \in 1 .. Len(s)
          BY <2>1, <4>1, <5>1, <5>2 DEF InOrder
        <5>3. CASE j = Len(s) + 1
          <6>1. u[i] = s[i] /\ u[j] = q[1]
            BY <2>1, <5>1, <5>3
          <6>2. s[i] < q[1]
            BY <1>5, <1>7, <5>1 DEF InOrder
          <6>3. QED
            BY <6>1, <6>2
        <5>4. QED
          BY <2>2, <5>2, <5>3
      <4>2. QED
        BY <4>1
    <3>4. ASSUME NEW i \in 1 .. Len(u), NEW j \in 1 .. Len(t), t[j] # Other
          PROVE  u[i] < t[j]
      <4>1. j + 1 \in 1 .. Len(q) /\ t[j] = q[j + 1] /\ 1 < j + 1
        BY <1>1, <1>3
      <4>2. CASE i \in 1 .. Len(s)
        BY <2>1, <3>4, <4>1, <4>2 DEF InOrder
      <4>3. CASE i = Len(s) + 1
        <5>1. q[1] < q[j + 1]
          BY <1>5, <1>7, <3>4, <4>1 DEF InOrder
        <5>2. QED
          BY <2>1, <4>1, <4>3, <5>1
      <4>4. QED
        BY <2>2, <4>2, <4>3
    <3>5. ASSUME NEW i \in 1 .. Len(t), NEW j \in 1 .. Len(t),
                 i < j, t[i] # Other, t[j] # Other
          PROVE  t[i] < t[j]
      <4>1. i + 1 < j + 1
        BY <3>5
      <4>2. QED
        BY <1>1, <1>3, <3>5, <4>1 DEF InOrder
    <3>6. n <= r
      BY DEF InOrder
    <3>7. QED
      BY <3>1, <3>2, <3>3, <3>4, <3>5, <3>6 DEF InOrder
  <2>6. ASSUME NEW m \in Nat \ {0} PROVE Among(u, t, m) <=> Among(s, q, m)
    <3>1. ASSUME Among(u, t, m) PROVE Among(s, q, m)
      <4>1. CASE \E i \in 1 .. Len(u) : u[i] = m
        BY <1>5, <2>1, <2>2, <4>1 DEF Among
      <4>2. CASE \E i \in 1 .. Len(t) : t[i] = m
        BY <1>1, <1>3, <4>2 DEF Among
      <4>3. QED
        BY <3>1, <4>1, <4>2 DEF Among
    <3>2. ASSUME Among(s, q, m) PROVE Among(u, t, m)
      <4>1. CASE \E i \in 1 .. Len(s) : s[i] = m
        BY <2>1, <2>3, <4>1 DEF Among
      <4>2. CASE \E i \in 1 .. Len(q) : q[i] = m
        BY <1>4, <2>1, <2>4, <4>2 DEF Among
      <4>3. QED
        BY <3>2, <4>1, <4>2 DEF Among
    <3>3. QED
      BY <3>1, <3>2
  <2>7. QED
    BY <2>5, <2>6 DEF t
<1>8. QED
  BY <1>6, <1>7

\* Chunks that are in order stay so when the broadcast goes on.
LEMMA LaterInOrder ==
  ASSUME NEW s \in Seq(Nat), NEW q \in Seq(Nat), NEW n \in Nat, NEW r \in Nat,
         InOrder(s, q, n, r)
  PROVE  InOrder(s, q, n, r + 1)
<1>1. /\ \A i \in 1 .. Len(s) : s[i] \in Nat /\ s[i] <= r
      /\ \A i \in 1 .. Len(q) : q[i] \in Nat /\ q[i] <= r
      /\ n <= r
  BY NoneIn DEF InOrder
<1>2. /\ \A i \in 1 .. Len(s) : s[i] <= r + 1
      /\ \A i \in 1 .. Len(q) : q[i] <= r + 1
      /\ n <= r + 1
  BY <1>1
<1>3. QED
  BY <1>2 DEF InOrder

\* What a page has seen or has waiting are numbers.
LEMMA MessagesAreNumbers ==
  ASSUME NEW z \in Seq(Msgs)
  PROVE  z \in Seq(Nat)
<1>1. Msgs \subseteq Nat
  BY BoundsAssumption DEF Msgs
<1>2. Len(z) \in Nat /\ z \in [1 .. Len(z) -> Msgs]
  OBVIOUS
<1>3. z \in [1 .. Len(z) -> Nat]
  BY <1>1, <1>2
<1>4. QED
  BY <1>2, <1>3, SeqDef

\* Whatever a step does to a page, its chunks stay in order and complete.
LEMMA InStepStep ==
  ASSUME Stream, Stream', Joined, InStep, [Next]_vars
  PROVE  InStep'
<1> SUFFICES ASSUME NEW p \in Pages PROVE (Ordered(p) /\ Complete(p))'
  BY DEF InStep
<1> DEFINE s == page[p].seen
           q == page[p].queue
           n == page[p].since
           r == Reached(p)
           u == page'[p].seen
           t == page'[p].queue
           o == page'[p].since
<1>1. /\ s \in Seq(Nat) /\ q \in Seq(Nat) /\ n \in Nat
      /\ u \in Seq(Nat) /\ t \in Seq(Nat) /\ o \in Nat
  <2>1. page[p] \in Page /\ page'[p] \in Page
    BY DEF Stream, TypeOK
  <2>2. \A z \in Seq(Msgs) : z \in Seq(Nat)
    BY MessagesAreNumbers
  <2>3. QED
    BY <2>1, <2>2 DEF Page
<1>2. r \in Nat /\ r' \in Nat
  <2>1. r \in Nat
    BY ReachedNat
  <2>2. r' \in Nat
    <3>1. (Stream => Reached(p) \in Nat)'
      BY ReachedNat, PTL
    <3>2. QED
      BY <3>1
  <2>3. QED
    BY <2>1, <2>2
<1>3. InOrder(s, q, n, r)
  BY DEF InStep, Ordered
<1>4. p \in clients /\ page[p].conn /\ ~page[p].missed => AllSince(s, q, n, r)
  BY DEF InStep, Complete
<1>5. Effect(p)
  BY StepEffect
<1> SUFFICES /\ InOrder(u, t, o, r')
             /\ p \in clients' /\ page'[p].conn /\ ~page'[p].missed
                => AllSince(u, t, o, r')
  BY DEF Ordered, Complete
<1>6. CASE Quiet(p)
  <2>1. u = s /\ t = q /\ o = n /\ r' = r
    BY <1>6 DEF Quiet
  <2>2. p \in clients' /\ page'[p].conn /\ ~page'[p].missed
        => p \in clients /\ page[p].conn /\ ~page[p].missed
    BY <1>6 DEF Quiet
  <2> HIDE DEF s, q, n, r, u, t, o
  <2>3. QED
    BY <1>3, <1>4, <2>1, <2>2
<1>7. CASE Noted(p)
  <2>1. u = s /\ t = Append(q, Other) /\ o = n /\ r' = r
    BY <1>7 DEF Noted
  <2>2. p \in clients' /\ page'[p].conn /\ ~page'[p].missed
        => p \in clients /\ page[p].conn /\ ~page[p].missed
    BY <1>7 DEF Noted
  <2> HIDE DEF s, q, n, r, u, t, o
  <2>3. /\ InOrder(s, Append(q, Other), n, r)
        /\ \A m \in Nat \ {0} :
             Among(s, Append(q, Other), m) <=> Among(s, q, m)
    BY <1>1, <1>2, <1>3, NoteAdds
  <2>4. AllSince(s, q, n, r) => AllSince(s, Append(q, Other), n, r)
    BY <2>3 DEF AllSince
  <2>5. QED
    BY <1>4, <2>1, <2>2, <2>3, <2>4
<1>8. CASE Given(p)
  <2>1. u = s /\ o = n /\ r' = r + 1
    BY <1>8 DEF Given
  <2>2. p \in clients' /\ page'[p].conn => p \in clients /\ page[p].conn
    BY <1>8 DEF Given
  <2>3. CASE t = Append(q, r + 1) /\ page'[p].missed = page[p].missed
    <3> HIDE DEF s, q, n, r, u, t, o
    <3>1. /\ InOrder(s, Append(q, r + 1), n, r + 1)
          /\ \A m \in Nat \ {0} :
               Among(s, Append(q, r + 1), m) <=> Among(s, q, m) \/ m = r + 1
      BY <1>1, <1>2, <1>3, ChunkAdds
    <3>2. n <= r
      BY <1>3 DEF InOrder
    <3>3. AllSince(s, q, n, r) => AllSince(s, Append(q, r + 1), n, r + 1)
      <4>1. \A m \in Nat \ {0} :
              n < m /\ m <= r + 1 <=> (n < m /\ m <= r) \/ m = r + 1
        BY <1>1, <1>2, <3>2
      <4>2. QED
        BY <3>1, <4>1 DEF AllSince
    <3>4. QED
      BY <1>4, <2>1, <2>2, <2>3, <3>1, <3>3
  <2>4. CASE t = q /\ page'[p].missed
    <3> HIDE DEF s, q, n, r, u, t, o
    <3>1. InOrder(s, q, n, r + 1)
      BY <1>1, <1>2, <1>3, LaterInOrder
    <3>2. QED
      BY <2>1, <2>4, <3>1
  <2>5. QED
    BY <1>8, <2>3, <2>4 DEF Given
<1>9. CASE Waited(p)
  <2>1. u = s /\ t = q /\ o = n
    BY <1>9 DEF Waited
  <2>2. r' = IF p \in clients THEN r ELSE r + 1
    BY <1>9 DEF Waited
  <2>3. /\ page'[p].conn = page[p].conn /\ page'[p].missed = page[p].missed
        /\ clients' = clients
    BY <1>9 DEF Waited
  <2> HIDE DEF s, q, n, r, u, t, o
  <2>4. InOrder(s, q, n, r + 1)
    BY <1>1, <1>2, <1>3, LaterInOrder
  <2>5. QED
    BY <1>3, <1>4, <2>1, <2>2, <2>3, <2>4
<1>10. CASE Wrote(p)
  <2>1. /\ q # <<>> /\ t = Tail(q) /\ o = n /\ r' = r
        /\ u = IF Head(q) = Other THEN s ELSE Append(s, Head(q))
    BY <1>10 DEF Wrote
  <2>2. /\ page'[p].conn = page[p].conn /\ page'[p].missed = page[p].missed
        /\ clients' = clients
    BY <1>10 DEF Wrote
  <2> HIDE DEF s, q, n, r, u, t, o
  <2>3. /\ InOrder(u, Tail(q), n, r)
        /\ \A m \in Nat \ {0} : Among(u, Tail(q), m) <=> Among(s, q, m)
    BY <1>1, <1>2, <1>3, <2>1, WriteMoves
  <2>4. AllSince(s, q, n, r) => AllSince(u, Tail(q), n, r)
    BY <2>3 DEF AllSince
  <2>5. QED
    BY <1>4, <2>1, <2>2, <2>3, <2>4
<1>11. CASE Opened(p)
  <2>1. u = <<>> /\ t = <<>> /\ o = r /\ r' = r
    BY <1>11 DEF Opened
  <2> HIDE DEF s, q, n, r, u, t, o
  <2>2. InOrder(u, t, o, r')
    BY <1>2, <2>1 DEF InOrder
  <2>3. AllSince(u, t, o, r')
    BY <1>2, <2>1 DEF AllSince, Among
  <2>4. QED
    BY <2>2, <2>3
<1>12. QED
  BY <1>5, <1>6, <1>7, <1>8, <1>9, <1>10, <1>11 DEF Effect

LEMMA InStepInit == Init => Joined /\ InStep
<1> SUFFICES ASSUME Init PROVE Joined /\ InStep
  OBVIOUS
<1>1. \A p \in Pages : page[p] = NoPage
  BY DEF Init
<1>2. Joined
  BY <1>1 DEF Init, Joined, Unopened, NoPage
<1>3. ASSUME NEW p \in Pages PROVE Ordered(p) /\ Complete(p)
  <2>1. Reached(p) = 0
    BY DEF Init, Reached
  <2>2. page[p].seen = <<>> /\ page[p].queue = <<>> /\ page[p].since = 0
    BY <1>1 DEF NoPage
  <2>3. Ordered(p)
    BY <2>1, <2>2 DEF Ordered, InOrder
  <2>4. Complete(p)
    BY DEF Init, Complete
  <2>5. QED
    BY <2>3, <2>4
<1>4. QED
  BY <1>2, <1>3 DEF InStep

\* What was seen and what waits, one after the other, is what PagesInStep is
\* about.
LEMMA InStepSuffices ==
  ASSUME Stream, InStep
  PROVE  PagesInStep
<1> SUFFICES ASSUME NEW p \in Pages
             PROVE  /\ \A i, j \in 1 .. Len(Got(p)) :
                         i < j /\ Other \notin {Got(p)[i], Got(p)[j]}
                         => Got(p)[i] < Got(p)[j]
                    /\ p \in clients /\ page[p].conn /\ ~page[p].missed
                       => Chunks(p) = page[p].since + 1 .. Reached(p)
  BY DEF PagesInStep
<1> DEFINE s == page[p].seen
           q == page[p].queue
           n == page[p].since
           r == Reached(p)
           got == Got(p)
<1>1. s \in Seq(Nat) /\ q \in Seq(Nat) /\ n \in Nat
  <2>1. page[p] \in Page
    BY DEF Stream, TypeOK
  <2>2. \A z \in Seq(Msgs) : z \in Seq(Nat)
    BY MessagesAreNumbers
  <2>3. QED
    BY <2>1, <2>2 DEF Page
<1>2. r \in Nat
  BY ReachedNat
<1>3. InOrder(s, q, n, r)
  BY DEF InStep, Ordered
<1>4. p \in clients /\ page[p].conn /\ ~page[p].missed => AllSince(s, q, n, r)
  BY DEF InStep, Complete
<1>5. Chunks(p) = {got[i] : i \in 1 .. Len(got)} \ {Other}
  BY DEF Chunks
<1>6. got = s \o q
  BY DEF Got
<1> SUFFICES /\ \A i, j \in 1 .. Len(got) :
                  i < j /\ Other \notin {got[i], got[j]} => got[i] < got[j]
             /\ AllSince(s, q, n, r)
                => {got[i] : i \in 1 .. Len(got)} \ {Other} = n + 1 .. r
  BY <1>4, <1>5
<1> HIDE DEF s, q, n, r, got
<1>7. /\ Len(got) = Len(s) + Len(q) /\ Len(s) \in Nat /\ Len(q) \in Nat
      /\ \A i \in 1 .. Len(s) : got[i] = s[i] /\ s[i] \in Nat
      /\ \A i \in 1 .. Len(q) : got[Len(s) + i] = q[i] /\ q[i] \in Nat
      /\ \A i \in 1 .. Len(got) :
           i \in 1 .. Len(s) \/ i - Len(s) \in 1 .. Len(q)
  BY <1>1, <1>6, ConcatAt, NoneIn
<1>8. ASSUME NEW i \in 1 .. Len(got), i \notin 1 .. Len(s)
      PROVE  i - Len(s) \in 1 .. Len(q) /\ got[i] = q[i - Len(s)]
  <2>1. i - Len(s) \in 1 .. Len(q)
    BY <1>7, <1>8
  <2>2. got[Len(s) + (i - Len(s))] = q[i - Len(s)]
    BY <1>7, <2>1
  <2>3. Len(s) + (i - Len(s)) = i
    BY <1>7
  <2>4. QED
    BY <2>1, <2>2, <2>3
<1>9. ASSUME NEW i \in 1 .. Len(got), NEW j \in 1 .. Len(got), i < j,
             got[i] # Other, got[j] # Other
      PROVE  got[i] < got[j]
  <2>1. CASE i \in 1 .. Len(s) /\ j \in 1 .. Len(s)
    BY <1>3, <1>7, <1>9, <2>1 DEF InOrder
  <2>2. CASE i \in 1 .. Len(s) /\ j \notin 1 .. Len(s)
    BY <1>3, <1>7, <1>8, <1>9, <2>2 DEF InOrder
  <2>3. CASE i \notin 1 .. Len(s) /\ j \notin 1 .. Len(s)
    <3>1. i - Len(s) < j - Len(s)
      BY <1>7, <1>9
    <3>2. QED
      BY <1>3, <1>8, <1>9, <2>3, <3>1 DEF InOrder
  <2>4. ~(i \notin 1 .. Len(s) /\ j \in 1 .. Len(s))
    BY <1>7, <1>9
  <2>5. QED
    BY <2>1, <2>2, <2>3, <2>4
<1>10. ASSUME AllSince(s, q, n, r)
       PROVE  {got[i] : i \in 1 .. Len(got)} \ {Other} = n + 1 .. r
  <2>1. ASSUME NEW m \in Nat \ {0}
        PROVE  Among(s, q, m) <=> \E i \in 1 .. Len(got) : got[i] = m
    <3>1. ASSUME Among(s, q, m) PROVE \E i \in 1 .. Len(got) : got[i] = m
      <4>1. CASE \E i \in 1 .. Len(s) : s[i] = m
        BY <1>7, <4>1
      <4>2. ASSUME NEW i \in 1 .. Len(q), q[i] = m
            PROVE  \E k \in 1 .. Len(got) : got[k] = m
        <5>1. Len(s) + i \in 1 .. Len(got) /\ got[Len(s) + i] = m
          BY <1>7, <4>2
        <5>2. QED
          BY <5>1
      <4>3. QED
        BY <3>1, <4>1, <4>2 DEF Among
    <3>2. ASSUME NEW i \in 1 .. Len(got), got[i] = m PROVE Among(s, q, m)
      BY <1>7, <1>8, <3>2 DEF Among
    <3>3. QED
      BY <3>1, <3>2
  <2>2. \A i \in 1 .. Len(got) : got[i] \in Nat
    BY <1>7, <1>8
  <2>3. \A m \in Nat \ {0} : (\E i \in 1 .. Len(got) : got[i] = m)
                             <=> m \in n + 1 .. r
    <3>1. \A m \in Nat \ {0} : n < m /\ m <= r <=> m \in n + 1 .. r
      BY <1>1, <1>2
    <3>2. QED
      BY <1>10, <2>1, <3>1 DEF AllSince
  <2>4. \A m \in n + 1 .. r : m \in Nat \ {0}
    BY <1>1, <1>2
  <2>5. QED
    BY <2>2, <2>3, <2>4 DEF Other
<1>11. QED
  BY <1>9, <1>10

\* Broadcast and Send: a page gets every chunk from its registration on, once
\* and in order, and what other pages do or do not read makes no difference.
THEOREM PagesKeepStep == Spec => []PagesInStep
<1> DEFINE All == Stream /\ Joined /\ InStep
<1>1. Init => All
  BY StreamInit, InStepInit
<1>2. All /\ [Next]_vars => All'
  BY StreamNext, JoinedStep, InStepStep
<1>3. All => PagesInStep
  BY InStepSuffices
<1>4. QED
  BY <1>1, <1>2, <1>3, PTL DEF Spec
=============================================================================
