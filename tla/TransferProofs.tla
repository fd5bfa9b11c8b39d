--------------------------- MODULE TransferProofs ---------------------------
(***************************************************************************)
(* The two transfers, for every chunk size, every width of int, every      *)
(* length of file and every window: the chunk loop of an upload stays in   *)
(* its buffer, a file is published whole or not at all, the count of an    *)
(* answer tells a short write, a fetch returns the file of one moment.     *)
(*                                                                         *)
(* The loop counts the bytes left down below zero and the position up past *)
(* the buffer, where it may overflow.  While bytes are left the two add up *)
(* to the length of the buffer (InStep); the overflow can only come with   *)
(* the step that ends the loop.  The rest follows the bytes: from the      *)
(* buffer through the stream to path.TMP and the file (WholeInv), counted  *)
(* where they are taken (CountInv), and from a file through the replies to *)
(* the client (FetchInv).                                                  *)
(***************************************************************************)
EXTENDS Transfer, SequenceTheorems, TLAPS

Message == {m \in [buf : Seq(Int), size : Nat, offset : Int] : m.size = Len(m.buf)}

\* The buffer is a sequence whose length is an int, the messages under way
\* are as long as they say.
Shape ==
    /\ local \in Seq(Int)
    /\ buf \in Seq(Int) /\ Len(buf) < Half
    /\ bytesLeft \in Int /\ curr \in Int
    /\ stream \in Seq(Message)

InStep == (cpc = "send" /\ bytesLeft >= 0) => curr >= 0 /\ curr = Len(buf) - bytesLeft

Inv == Shape /\ InStep

-----------------------------------------------------------------------------
\* Conversion to int is a number, and the same one in the range of int.
LEMMA ToIntFacts ==
    ASSUME NEW n \in Int
    PROVE  /\ ToInt(n) \in Int /\ ToInt(n) < Half
           /\ n \in 0 .. Half - 1 => ToInt(n) = n
           /\ n >= 0 => ToInt(n) <= n
<1>1. Half \in Nat /\ Half > 0
  BY SizesAssumption
<1>2. (n + Half) % (2 * Half) \in 0 .. (2 * Half) - 1
  <2>1. 2 * Half \in Nat /\ 2 * Half > 0 /\ n + Half \in Int
    BY <1>1
  <2> QED
    BY <2>1
<1>3. n >= Half => (n + Half) % (2 * Half) <= n + Half
  <2>1. 2 * Half \in Nat /\ 2 * Half > 0
    BY <1>1
  <2> DEFINE a == n + Half
             b == 2 * Half
  <2>2. ASSUME NEW x \in Nat, NEW y \in Nat, y > 0 PROVE x % y <= x
    BY <2>2
  <2>3. n >= Half => a \in Nat
    BY <1>1
  <2> QED
    BY <2>1, <2>2, <2>3
<1> QED
  BY <1>1, <1>2, <1>3 DEF ToInt

\* What flush reads back is no longer than an int can say, and no longer than
\* the file.
LEMMA LengthFacts ==
    ASSUME NEW f \in Seq(Int)
    PROVE  Length(f) \in Nat /\ Length(f) < Half /\ Length(f) <= Len(f)
<1>1. Len(f) \in Nat /\ Half \in Nat /\ Half > 0
  BY SizesAssumption
<1>2. ToInt(Len(f)) \in Int /\ ToInt(Len(f)) < Half /\ ToInt(Len(f)) <= Len(f)
  BY <1>1, ToIntFacts
<1> QED
  BY <1>1, <1>2 DEF Length

\* While bytes are left, the next chunk is a part of the buffer, as long as
\* its size says.
LEMMA ChunkFacts ==
    ASSUME Inv, cpc = "send", bytesLeft >= 0
    PROVE  Chunk \in Message
<1> DEFINE n == Least(CHUNK_SIZE, bytesLeft)
<1>1. CHUNK_SIZE \in Nat /\ bytesLeft \in Int /\ curr \in Int /\ buf \in Seq(Int) /\ Len(buf) \in Nat
  BY SizesAssumption DEF Inv, Shape
<1>2. curr >= 0 /\ curr = Len(buf) - bytesLeft
  BY DEF Inv, InStep
<1>3. n \in Nat /\ n <= bytesLeft
  BY <1>1 DEF Least
<1>4. Substr(buf, curr, n) = SubSeq(buf, curr + 1, curr + n)
  <2>1. Least(curr + n, Len(buf)) = curr + n
    BY <1>1, <1>2, <1>3 DEF Least
  <2> QED
    BY <2>1 DEF Substr
<1>5. \A i \in curr + 1 .. curr + n : buf[i] \in Int
  BY <1>1, <1>2, <1>3
<1>6. /\ SubSeq(buf, curr + 1, curr + n) \in Seq(Int)
      /\ Len(SubSeq(buf, curr + 1, curr + n)) = n
  <2>1. curr + 1 \in Int /\ curr + n \in Int
    BY <1>1, <1>3
  <2>2. Len(SubSeq(buf, curr + 1, curr + n)) =
            IF curr + 1 <= curr + n THEN (curr + n) - (curr + 1) + 1 ELSE 0
    BY <1>5, <2>1, SubSeqProperties
  <2>3. SubSeq(buf, curr + 1, curr + n) \in Seq(Int)
    BY <1>5, <2>1, SubSeqProperties
  <2> QED
    BY <1>1, <1>3, <2>2, <2>3
<1> QED
  BY <1>1, <1>3, <1>4, <1>6 DEF Chunk, Message

-----------------------------------------------------------------------------
LEMMA InitInv == Init => Inv
<1> SUFFICES ASSUME Init PROVE Inv
  OBVIOUS
<1>1. local \in Seq(Int)
  <2>1. PICK n \in 0 .. MaxLength : local = [i \in 1 .. n |-> i]
    BY DEF Init
  <2>2. n \in Nat /\ \A i \in 1 .. n : i \in Int
    BY SizesAssumption
  <2> QED
    BY <2>1, <2>2
<1>2. buf = <<>> /\ stream = <<>> /\ bytesLeft = 0 /\ curr = 0 /\ cpc = "flush"
  BY DEF Init
<1>3. Shape
  BY <1>1, <1>2, SizesAssumption DEF Shape
<1>4. InStep
  BY <1>2 DEF InStep
<1> QED
  BY <1>3, <1>4 DEF Inv

LEMMA ReadBackInv ==
    ASSUME Inv, ReadBack
    PROVE  Inv'
<1> DEFINE n == Length(local)
<1>1. local \in Seq(Int)
  BY DEF Inv, Shape
<1>2. n \in Nat /\ n < Half /\ n <= Len(local)
  BY <1>1, LengthFacts
<1>3. SubSeq(local, 1, n) \in Seq(Int) /\ Len(SubSeq(local, 1, n)) = n
  <2>1. \A i \in 1 .. n : local[i] \in Int
    BY <1>1, <1>2
  <2>2. /\ SubSeq(local, 1, n) \in Seq(Int)
        /\ Len(SubSeq(local, 1, n)) = IF 1 <= n THEN n - 1 + 1 ELSE 0
    BY <1>2, <2>1, SubSeqProperties
  <2> QED
    BY <1>2, <2>2
<1>4. /\ buf' = SubSeq(local, 1, n) /\ bytesLeft' = n /\ curr' = 0
      /\ local' = local /\ stream' = stream
  BY DEF ReadBack
<1>5. Shape'
  BY <1>1, <1>2, <1>3, <1>4 DEF Inv, Shape
<1>6. InStep'
  BY <1>2, <1>3, <1>4 DEF InStep
<1> QED
  BY <1>5, <1>6 DEF Inv

\* The position overflows only in the step after which no bytes are left.
LEMMA SendChunkInv ==
    ASSUME Inv, SendChunk
    PROVE  Inv'
<1>1. /\ CHUNK_SIZE \in Nat \ {0} /\ Half \in Nat
      /\ bytesLeft \in Int /\ curr \in Int /\ Len(buf) \in Nat /\ Len(buf) < Half
  BY SizesAssumption DEF Inv, Shape
<1>2. curr >= 0 /\ curr = Len(buf) - bytesLeft
  BY DEF Inv, InStep, SendChunk
<1>3. curr' = ToInt(curr + CHUNK_SIZE) /\ bytesLeft' = bytesLeft - CHUNK_SIZE /\ UNCHANGED <<local, buf>>
  BY DEF SendChunk
<1>4. curr' \in Int /\ bytesLeft' \in Int
  BY <1>1, <1>3, ToIntFacts
<1>5. stream' \in Seq(Message)
  <2>1. CASE UNCHANGED stream
    BY <2>1 DEF Inv, Shape
  <2>2. CASE stream' = Append(stream, Chunk)
    <3>1. Chunk \in Message
      BY ChunkFacts DEF SendChunk
    <3> QED
      BY <2>2, <3>1 DEF Inv, Shape
  <2> QED
    BY <2>1, <2>2 DEF SendChunk
<1>6. Shape'
  BY <1>3, <1>4, <1>5 DEF Inv, Shape
<1>7. InStep'
  <2>1. SUFFICES ASSUME bytesLeft' >= 0 PROVE curr' >= 0 /\ curr' = Len(buf) - bytesLeft'
    BY <1>3 DEF InStep
  <2>2. curr + CHUNK_SIZE \in 0 .. Half - 1
    BY <1>1, <1>2, <1>3, <2>1
  <2>3. curr' = curr + CHUNK_SIZE
    BY <1>1, <1>3, <2>2, ToIntFacts
  <2> QED
    BY <1>1, <1>2, <1>3, <2>3
<1> QED
  BY <1>6, <1>7 DEF Inv

\* The handler only takes messages from the stream.
LEMMA TakeInv ==
    ASSUME Inv, stream # <<>>, stream' = Tail(stream),
           UNCHANGED <<local, cpc, buf, bytesLeft, curr>>
    PROVE  Inv'
<1>1. stream \in Seq(Message)
  BY DEF Inv, Shape
<1>2. stream' \in Seq(Message)
  BY <1>1, HeadTailProperties
<1> QED
  BY <1>2 DEF Inv, Shape, InStep

\* All other steps leave the loop alone, or end it.
LEMMA OtherInv ==
    ASSUME Inv, UNCHANGED <<local, buf, bytesLeft, curr, stream>>,
           cpc' \in {cpc, "finish", "done"}
    PROVE  Inv'
BY DEF Inv, Shape, InStep

LEMMA NextInv == Inv /\ [Next]_vars => Inv'
<1> SUFFICES ASSUME Inv, [Next]_vars PROVE Inv'
  OBVIOUS
<1>1. CASE ReadBack
  BY <1>1, ReadBackInv
<1>2. CASE SendChunk
  BY <1>2, SendChunkInv
<1>3. CASE WritesDone \/ Finish
  BY <1>3, OtherInv DEF WritesDone, Finish
<1>4. CASE PutChunk \/ PutFails
  BY <1>4, TakeInv DEF PutChunk, PutFails
<1>5. CASE PutEnd \/ PutCheck \/ PutRename \/ PutCancel
  BY <1>5, OtherInv DEF PutEnd, PutCheck, PutRename, PutCancel
<1>6. CASE FetchOpen \/ FetchSend \/ FetchEnd \/ FetchRecv \/ FetchFinish \/ FetchExpire
  BY <1>6, OtherInv
     DEF FetchOpen, FetchSend, FetchEnd, FetchRecv, FetchFinish, FetchExpire, putVars
<1>7. CASE UNCHANGED vars
  BY <1>7, OtherInv DEF vars, putVars
<1> QED
  BY <1>1, <1>2, <1>3, <1>4, <1>5, <1>6, <1>7
     DEF Next, ClientPut, ServerPut, ServerGet, ClientGet

\* substr is never asked for a position outside the buffer, and no message
\* claims more bytes than it has: for every chunk size, width of int and file.
THEOREM UploadChunksSound == Spec => []ChunksSound
<1>1. Inv => ChunksSound
  <2> SUFFICES ASSUME Inv PROVE ChunksSound
    OBVIOUS
  <2>1. cpc = "send" /\ bytesLeft >= 0 => curr \in 0 .. Len(buf)
    BY DEF Inv, Shape, InStep
  <2>2. \A i \in 1 .. Len(stream) : stream[i] \in Message
    BY DEF Inv, Shape
  <2> QED
    BY <2>1, <2>2 DEF ChunksSound, Message
<1> QED
  BY <1>1, InitInv, NextInv, PTL DEF Spec

-----------------------------------------------------------------------------
(* All or nothing.                                                         *)

\* f begins with the bytes at the positions 1 to n of the client's file; what
\* comes after them was there before.
Prefix(f, n) ==
    /\ f \in Seq(Int) /\ n \in Nat /\ n <= Len(f)
    /\ \A i \in 1 .. n : f[i] = i
    /\ \A i \in n + 1 .. Len(f) : f[i] = Stale

\* The bytes that the client has sent, and those that the handler has taken.
Sent == IF bytesLeft < 0 THEN Len(buf) ELSE curr
Taken == IF stream = <<>> THEN Sent ELSE stream[1].offset

\* The file, and what was read back of it, are its positions.
Positions ==
    /\ \A i \in 1 .. Len(local) : local[i] = i
    /\ \A i \in 1 .. Len(buf) : buf[i] = i

\* Before the client reads its file back nothing has happened on the server.
AtFlush ==
    cpc = "flush" =>
        stream = <<>> /\ fd = FALSE /\ spc = "read" /\ writesDone = FALSE /\ bytesLeft = 0 /\ curr = 0
        /\ cancelled = FALSE

\* What is sent is the whole file.
SendsAll ==
    (cpc = "send" \/ stream # <<>> \/ fd = TRUE) /\ Len(local) < 2 * Half => Len(buf) = Len(local)

\* The call goes on: the handler reads, and nothing has cancelled the call.
Receiving == spc = "read" /\ cancelled = FALSE

\* The messages under way follow one another, up to what was sent.
Chain ==
    Receiving => \A i \in 1 .. Len(stream) :
        /\ stream[i].offset \in Nat
        /\ stream[i].offset + Len(stream[i].buf) =
               IF i < Len(stream) THEN stream[i + 1].offset ELSE Sent
        /\ \A j \in 1 .. Len(stream[i].buf) : stream[i].buf[j] = stream[i].offset + j
        /\ Len(stream[i].buf) = 0 => stream[i].offset = Len(buf)

\* A stream that its client ended, in a call that goes on, is complete.
EndedWhole == Receiving /\ writesDone = TRUE => bytesLeft < 0

\* path.TMP holds what was taken while the call goes on, and all of it once
\* the loop was left, or once IsCancelled was asked.
TmpHolds ==
    short = FALSE =>
        /\ Receiving => Prefix(OpenTmp, Taken) /\ (fd = TRUE => tmp # None)
        /\ spc = "closed" /\ cancelled = FALSE /\ fd = TRUE => Prefix(tmp, Len(buf))
        /\ spc = "rename" /\ fd = TRUE => Prefix(tmp, Len(buf))

Types ==
    /\ cpc \in {"flush", "send", "finish", "done"}
    /\ numOfBytes \in Nat
    /\ writesDone \in BOOLEAN /\ cancelled \in BOOLEAN /\ fd \in BOOLEAN /\ short \in BOOLEAN

WholeInv ==
    /\ Inv /\ Positions /\ AtFlush /\ SendsAll /\ Chain /\ EndedWhole /\ TmpHolds /\ Types
    /\ PublishedWhole

-----------------------------------------------------------------------------
LEMMA StillPublished ==
    ASSUME PublishedWhole, UNCHANGED <<local, file>>, short' = FALSE => short = FALSE,
           short' \in BOOLEAN
    PROVE  PublishedWhole'
BY DEF PublishedWhole, BeginsWith

LEMMA FunctionIsSeq ==
    ASSUME NEW n \in Nat, NEW g, g = [i \in 1 .. n |-> g[i]], \A i \in 1 .. n : g[i] \in Int
    PROVE  g \in Seq(Int) /\ Len(g) = n
OBVIOUS

\* A chunk that continues what path.TMP holds extends it, whatever lies
\* behind.
LEMMA PwriteExtends ==
    ASSUME NEW f, NEW n \in Nat, Prefix(f, n), NEW data \in Seq(Int),
           \A j \in 1 .. Len(data) : data[j] = n + j
    PROVE  Prefix(Pwrite(f, data, n), n + Len(data))
<1> DEFINE L == IF n + Len(data) > Len(f) /\ data # <<>> THEN n + Len(data) ELSE Len(f)
           g == Pwrite(f, data, n)
<1>1. f \in Seq(Int) /\ Len(f) \in Nat /\ Len(data) \in Nat /\ n <= Len(f)
  BY DEF Prefix
<1>2. data = <<>> => Len(data) = 0
  OBVIOUS
<1>3. L \in Nat /\ n + Len(data) <= L /\ Len(f) <= L
  BY <1>1, <1>2
<1>4. g = [i \in 1 .. L |-> IF i - n \in 1 .. Len(data) THEN data[i - n]
                              ELSE IF i <= Len(f) THEN f[i] ELSE Hole]
  BY DEF Pwrite
<1>5. \A i \in 1 .. L : g[i] \in Int
  <2> SUFFICES ASSUME NEW i \in 1 .. L PROVE g[i] \in Int
    OBVIOUS
  <2>1. CASE i - n \in 1 .. Len(data)
    <3>1. g[i] = data[i - n]
      BY <1>4, <2>1
    <3> QED
      BY <2>1, <3>1
  <2>2. CASE i - n \notin 1 .. Len(data)
    <3>1. g[i] = IF i <= Len(f) THEN f[i] ELSE 0
      BY <1>4, <2>2 DEF Hole
    <3>2. i <= Len(f) => f[i] \in Int
      BY <1>1
    <3> QED
      BY <3>1, <3>2
  <2> QED
    BY <2>1, <2>2
<1>6. g \in Seq(Int) /\ Len(g) = L
  <2> HIDE DEF g, L
  <2>1. g = [i \in 1 .. L |-> g[i]]
    BY <1>4
  <2> QED
    BY <1>3, <1>5, <2>1, FunctionIsSeq
<1>7. \A i \in 1 .. n + Len(data) : g[i] = i
  <2> SUFFICES ASSUME NEW i \in 1 .. n + Len(data) PROVE g[i] = i
    OBVIOUS
  <2>1. CASE i <= n
    BY <1>1, <1>3, <1>4, <2>1 DEF Prefix
  <2>2. CASE i > n
    <3>1. i - n \in 1 .. Len(data) /\ i \in 1 .. L
      BY <1>1, <1>3, <2>2
    <3>2. g[i] = data[i - n]
      BY <1>4, <3>1
    <3> QED
      BY <1>1, <3>1, <3>2
  <2> QED
    BY <1>1, <2>1, <2>2
<1>8. \A i \in n + Len(data) + 1 .. Len(g) : g[i] = Stale
  <2> SUFFICES ASSUME NEW i \in n + Len(data) + 1 .. L PROVE g[i] = Stale
    BY <1>6
  <2>1. i \in 1 .. L /\ i - n \notin 1 .. Len(data)
    BY <1>1, <1>3
  <2>2. i <= Len(f)
    BY <1>1, <1>2, <1>3
  <2>3. g[i] = f[i]
    BY <1>4, <2>1, <2>2
  <2> QED
    BY <1>1, <2>2, <2>3 DEF Prefix
<1> QED
  BY <1>1, <1>3, <1>6, <1>7, <1>8 DEF Prefix

LEMMA InitWhole == Init => WholeInv
<1> SUFFICES ASSUME Init PROVE WholeInv
  OBVIOUS
<1>1. /\ buf = <<>> /\ stream = <<>> /\ bytesLeft = 0 /\ curr = 0 /\ cpc = "flush"
      /\ spc = "read" /\ fd = FALSE /\ writesDone = FALSE /\ cancelled = FALSE /\ short = FALSE
      /\ numOfBytes = 0
  BY DEF Init
<1>2. Positions
  <2>1. PICK n \in 0 .. MaxLength : local = [i \in 1 .. n |-> i]
    BY DEF Init
  <2>2. n \in Nat /\ Len(local) = n
    BY <2>1, SizesAssumption
  <2> QED
    BY <1>1, <2>1, <2>2 DEF Positions
<1>3. AtFlush /\ SendsAll /\ EndedWhole /\ Types
  BY <1>1 DEF AtFlush, SendsAll, EndedWhole, Types
<1>6. Chain
  BY <1>1 DEF Chain
<1>4. TmpHolds
  <2>1. Taken = 0
    BY <1>1 DEF Taken, Sent
  <2>2. Prefix(OpenTmp, 0)
    <3>1. CASE tmp = None
      BY <3>1 DEF OpenTmp, Prefix
    <3>2. CASE tmp # None
      <4>1. PICK n \in LeftOver : tmp = Same(n, Stale)
        BY <3>2 DEF Init
      <4>2. n \in Nat /\ tmp \in Seq(Int) /\ Len(tmp) = n /\ \A i \in 1 .. n : tmp[i] = Stale
        BY <4>1, SizesAssumption DEF Same, Stale
      <4> QED
        BY <3>2, <4>2 DEF OpenTmp, Prefix
    <3> QED
      BY <3>1, <3>2
  <2> QED
    BY <1>1, <2>1, <2>2 DEF TmpHolds
<1>5. PublishedWhole
  <2>1. CASE file = None
    BY <2>1 DEF PublishedWhole
  <2>2. CASE file # None
    <3>1. PICK n \in 0 .. MaxLength : file = Same(n, Old)
      BY <2>2 DEF Init
    <3>2. n \in Nat /\ Len(file) = n /\ \A i \in 1 .. n : file[i] = Old
      BY <3>1, SizesAssumption DEF Same
    <3> QED
      BY <3>2 DEF PublishedWhole
  <2> QED
    BY <2>1, <2>2
<1> QED
  BY <1>2, <1>3, <1>4, <1>5, <1>6, InitInv DEF WholeInv

\* A file of Half to 2 * Half - 1 bytes has a negative length as an int.
LEMMA HighIsNegative ==
    ASSUME NEW n \in Nat, n >= Half, n < 2 * Half
    PROVE  ToInt(n) < 0
<1>1. Half \in Nat /\ Half > 0
  BY SizesAssumption
<1>2. ASSUME NEW a \in Nat, NEW b \in Nat, b > 0, a >= b, a < b + b PROVE a % b = a - b
  BY <1>2
<1>3. (n + Half) % (2 * Half) = (n + Half) - (2 * Half)
  <2>1. /\ n + Half \in Nat /\ 2 * Half \in Nat /\ 2 * Half > 0
        /\ n + Half >= 2 * Half /\ n + Half < 2 * Half + 2 * Half
    BY <1>1
  <2> QED
    BY <1>2, <2>1
<1> QED
  BY <1>1, <1>3 DEF ToInt

LEMMA LengthWhole ==
    ASSUME NEW f \in Seq(Int), Len(f) < 2 * Half, Length(f) > 0
    PROVE  Length(f) = Len(f)
<1>1. Len(f) \in Nat /\ Half \in Nat /\ Half > 0
  BY SizesAssumption
<1>2. CASE Len(f) < Half
  <2>1. ToInt(Len(f)) = Len(f)
    BY <1>1, <1>2, ToIntFacts
  <2> QED
    BY <1>1, <2>1 DEF Length
<1>3. CASE Len(f) >= Half
  <2>1. ToInt(Len(f)) < 0 /\ ToInt(Len(f)) \in Int
    BY <1>1, <1>3, HighIsNegative, ToIntFacts
  <2> QED
    BY <2>1 DEF Length
<1> QED
  BY <1>1, <1>2, <1>3

LEMMA ReadBackWhole ==
    ASSUME WholeInv, ReadBack
    PROVE  WholeInv'
<1> DEFINE n == Length(local)
<1>1. /\ buf' = SubSeq(local, 1, n) /\ bytesLeft' = n /\ curr' = 0
      /\ cpc' = IF n > 0 THEN "send" ELSE "done"
      /\ UNCHANGED <<local, stream, writesDone, cancelled, spc, fd, numOfBytes, tmp, short, file>>
  BY DEF ReadBack
<1>2. /\ stream = <<>> /\ fd = FALSE /\ spc = "read" /\ writesDone = FALSE
      /\ bytesLeft = 0 /\ curr = 0
  BY DEF WholeInv, AtFlush, ReadBack
<1>3. local \in Seq(Int) /\ Len(local) \in Nat
  BY DEF WholeInv, Inv, Shape
<1>4. n \in Nat /\ n < Half /\ n <= Len(local)
  BY <1>3, LengthFacts
<1>5. Len(buf') = n /\ \A i \in 1 .. n : buf'[i] = i
  <2>1. \A i \in 1 .. n : local[i] \in Int /\ local[i] = i
    BY <1>3, <1>4 DEF WholeInv, Positions
  <2>2. /\ Len(SubSeq(local, 1, n)) = IF 1 <= n THEN n - 1 + 1 ELSE 0
        /\ \A i \in 1 .. n - 1 + 1 : SubSeq(local, 1, n)[i] = local[1 + i - 1]
    BY <1>4, <2>1, SubSeqProperties
  <2>3. n - 1 + 1 = n /\ \A i \in 1 .. n : 1 + i - 1 = i
    BY <1>4
  <2> HIDE DEF n
  <2> QED
    BY <1>1, <1>4, <2>1, <2>2, <2>3
<1>6. Positions'
  BY <1>1, <1>5 DEF WholeInv, Positions
<1>7. SendsAll'
  <2>1. n > 0 /\ Len(local) < 2 * Half => n = Len(local)
    BY <1>3, LengthWhole
  <2> QED
    BY <1>1, <1>2, <1>5, <2>1 DEF SendsAll
<1>8. AtFlush' /\ EndedWhole' /\ Types'
  BY <1>1, <1>2 DEF WholeInv, AtFlush, EndedWhole, Types
<1>9. Chain'
  BY <1>1, <1>2 DEF Chain
<1>10. TmpHolds'
  <2>1. Taken = 0 /\ Taken' = 0
    BY <1>1, <1>2, <1>4 DEF Taken, Sent
  <2>2. OpenTmp' = OpenTmp
    BY <1>1 DEF OpenTmp
  <2>3. Receiving' => Receiving
    BY <1>1 DEF Receiving
  <2> QED
    BY <1>1, <1>2, <2>1, <2>2, <2>3 DEF WholeInv, TmpHolds
<1>11. PublishedWhole' /\ Inv'
  BY <1>1, StillPublished, ReadBackInv DEF WholeInv, Types
<1> QED
  BY <1>6, <1>7, <1>8, <1>9, <1>10, <1>11 DEF WholeInv

\* The bytes of the next chunk are those at its offset.
LEMMA ChunkBytes ==
    ASSUME Inv, Positions, cpc = "send", bytesLeft >= 0
    PROVE  /\ Len(Chunk.buf) = Least(CHUNK_SIZE, bytesLeft)
           /\ \A j \in 1 .. Len(Chunk.buf) : Chunk.buf[j] = curr + j
<1> DEFINE n == Least(CHUNK_SIZE, bytesLeft)
<1>1. CHUNK_SIZE \in Nat /\ bytesLeft \in Int /\ curr \in Int /\ buf \in Seq(Int) /\ Len(buf) \in Nat
  BY SizesAssumption DEF Inv, Shape
<1>2. curr >= 0 /\ curr = Len(buf) - bytesLeft
  BY DEF Inv, InStep
<1>3. n \in Nat /\ n <= bytesLeft
  BY <1>1 DEF Least
<1>4. Len(Chunk.buf) = n
  BY ChunkFacts DEF Chunk, Message
<1>5. Chunk.buf = SubSeq(buf, curr + 1, curr + n)
  <2>1. Least(curr + n, Len(buf)) = curr + n
    BY <1>1, <1>2, <1>3 DEF Least
  <2> QED
    BY <2>1 DEF Substr, Chunk
<1>6. \A i \in curr + 1 .. curr + n : buf[i] \in Int /\ buf[i] = i
  BY <1>1, <1>2, <1>3 DEF Positions
<1> HIDE DEF n
<1>7. curr + 1 \in Int /\ curr + n \in Int /\ (curr + n) - (curr + 1) + 1 = n
  BY <1>1, <1>3
<1>8. \A j \in 1 .. n : SubSeq(buf, curr + 1, curr + n)[j] = buf[(curr + 1) + j - 1]
  BY <1>6, <1>7, SubSeqProperties
<1>9. ASSUME NEW j \in 1 .. n PROVE buf[(curr + 1) + j - 1] = curr + j
  <2>1. (curr + 1) + j - 1 = curr + j /\ curr + j \in curr + 1 .. curr + n
    BY <1>1, <1>3
  <2> QED
    BY <1>6, <2>1
<1>10. n = Least(CHUNK_SIZE, bytesLeft)
  BY DEF n
<1> QED
  BY <1>4, <1>5, <1>8, <1>9, <1>10

LEMMA SendChunkWhole ==
    ASSUME WholeInv, SendChunk
    PROVE  WholeInv'
<1>1. /\ cpc = "send" /\ bytesLeft >= 0
      /\ curr' = ToInt(curr + CHUNK_SIZE) /\ bytesLeft' = bytesLeft - CHUNK_SIZE
      /\ UNCHANGED <<local, buf, cancelled, spc, fd, numOfBytes, tmp, short, file>>
      /\ \/ CallEnded /\ cpc' = "finish" /\ writesDone' = TRUE /\ UNCHANGED stream
         \/ ~ CallEnded /\ stream' = Append(stream, Chunk) /\ UNCHANGED <<cpc, writesDone>>
  BY DEF SendChunk
<1>2. Inv /\ Inv'
  BY SendChunkInv DEF WholeInv
<1>3. /\ CHUNK_SIZE \in Nat \ {0} /\ Len(buf) \in Nat /\ bytesLeft \in Int
      /\ curr \in Nat /\ curr = Len(buf) - bytesLeft /\ stream \in Seq(Message)
  BY <1>1, <1>2, SizesAssumption DEF Inv, Shape, InStep
<1>4. Positions' /\ AtFlush' /\ SendsAll' /\ Types'
  BY <1>1 DEF WholeInv, Positions, AtFlush, SendsAll, Types
<1>5. Receiving' =>
          /\ Receiving /\ stream' = Append(stream, Chunk)
          /\ cpc' = "send" /\ writesDone' = writesDone
  BY <1>1 DEF Receiving, CallEnded
<1>6. EndedWhole'
  BY <1>1, <1>3, <1>5 DEF WholeInv, EndedWhole
<1>7. Chunk \in Message
  BY <1>1, <1>2, ChunkFacts
<1>8. /\ Chunk.offset = curr /\ Len(Chunk.buf) = Least(CHUNK_SIZE, bytesLeft)
      /\ \A j \in 1 .. Len(Chunk.buf) : Chunk.buf[j] = curr + j
  BY <1>1, <1>2, ChunkBytes DEF WholeInv, Chunk
<1>9. Len(Chunk.buf) = 0 => Chunk.offset = Len(buf)
  BY <1>1, <1>3, <1>8 DEF Least
<1>10. Receiving' => Chunk.offset + Len(Chunk.buf) = Sent'
  <2>1. CASE bytesLeft < CHUNK_SIZE
    BY <1>1, <1>3, <1>8, <2>1 DEF Sent, Least
  <2>2. CASE bytesLeft >= CHUNK_SIZE
    <3>1. bytesLeft' >= 0
      BY <1>1, <1>3, <2>2
    <3>2. Receiving' => curr' = Len(buf) - bytesLeft'
      BY <1>1, <1>2, <1>5, <3>1 DEF Inv, InStep
    <3> QED
      BY <1>1, <1>3, <1>8, <2>2, <3>1, <3>2 DEF Sent, Least
  <2> QED
    BY <1>3, <2>1, <2>2
<1>11. ASSUME Receiving' PROVE Chain' /\ Taken' = Taken
  <2>1. PICK k \in Nat : k = Len(stream)
    BY <1>3
  <2>2. /\ \A i \in 1 .. k : stream'[i] = stream[i]
        /\ stream'[k + 1] = Chunk /\ Len(stream') = k + 1 /\ stream' # <<>>
    <3>1. stream' = Append(stream, Chunk)
      BY <1>5, <1>11
    <3>2. /\ Append(stream, Chunk) # <<>> /\ Len(Append(stream, Chunk)) = Len(stream) + 1
          /\ \A i \in 1 .. Len(stream) : Append(stream, Chunk)[i] = stream[i]
          /\ Append(stream, Chunk)[Len(stream) + 1] = Chunk
      BY <1>3, <1>7, AppendProperties
    <3> QED
      BY <2>1, <3>1, <3>2
  <2>3. Sent = curr
    BY <1>1, <1>3 DEF Sent
  <2>4. ASSUME NEW i \in 1 .. k
        PROVE  /\ stream'[i].offset \in Nat
               /\ stream'[i].offset + Len(stream'[i].buf) =
                      IF i < k + 1 THEN stream'[i + 1].offset ELSE Sent'
               /\ \A j \in 1 .. Len(stream'[i].buf) : stream'[i].buf[j] = stream'[i].offset + j
               /\ Len(stream'[i].buf) = 0 => stream'[i].offset = Len(buf)
    <3>1. /\ stream[i].offset \in Nat
          /\ stream[i].offset + Len(stream[i].buf) = IF i < k THEN stream[i + 1].offset ELSE Sent
          /\ \A j \in 1 .. Len(stream[i].buf) : stream[i].buf[j] = stream[i].offset + j
          /\ Len(stream[i].buf) = 0 => stream[i].offset = Len(buf)
      BY <1>5, <1>11, <2>1 DEF WholeInv, Chain
    <3>2. CASE i < k
      <4>1. i + 1 \in 1 .. k /\ i < k + 1
        BY <3>2
      <4> QED
        BY <2>2, <3>1, <3>2, <4>1
    <3>3. CASE i = k
      <4>1. stream[i].offset + Len(stream[i].buf) = curr /\ stream'[i + 1].offset = curr /\ i < k + 1
        BY <1>8, <2>2, <2>3, <3>1, <3>3
      <4> QED
        BY <2>2, <3>1, <4>1
    <3> QED
      BY <3>2, <3>3
  <2>5. Chain'
    <3> SUFFICES ASSUME NEW i \in 1 .. k + 1
                 PROVE  /\ stream'[i].offset \in Nat
                        /\ stream'[i].offset + Len(stream'[i].buf) =
                               IF i < k + 1 THEN stream'[i + 1].offset ELSE Sent'
                        /\ \A j \in 1 .. Len(stream'[i].buf) :
                               stream'[i].buf[j] = stream'[i].offset + j
                        /\ Len(stream'[i].buf) = 0 => stream'[i].offset = Len(buf)
      BY <1>1, <2>2 DEF Chain
    <3>1. CASE i \in 1 .. k
      BY <2>4, <3>1
    <3>2. CASE i = k + 1
      <4>1. stream'[i] = Chunk /\ ~ (i < k + 1)
        BY <2>2, <3>2
      <4> QED
        BY <1>3, <1>8, <1>9, <1>10, <1>11, <4>1
    <3> QED
      BY <3>1, <3>2
  <2>6. Taken' = Taken
    <3>1. CASE stream = <<>>
      <4>1. k = 0 /\ stream'[1] = Chunk
        BY <2>1, <2>2, <3>1
      <4> QED
        BY <1>8, <2>2, <2>3, <3>1, <4>1 DEF Taken
    <3>2. CASE stream # <<>>
      <4>1. 1 \in 1 .. k
        BY <1>3, <2>1, <3>2
      <4> QED
        BY <2>2, <3>2, <4>1 DEF Taken
    <3> QED
      BY <3>1, <3>2
  <2> QED
    BY <2>5, <2>6
<1>12. Chain'
  BY <1>11 DEF Chain
<1>13. TmpHolds'
  <2>1. OpenTmp' = OpenTmp
    BY <1>1 DEF OpenTmp
  <2>2. short = FALSE /\ Receiving' => Prefix(OpenTmp, Taken)
    BY <1>5 DEF WholeInv, TmpHolds
  <2>3. short' = FALSE /\ Receiving' => Prefix(OpenTmp', Taken') /\ (fd' = TRUE => tmp' # None)
    BY <1>1, <1>5, <1>11, <2>1, <2>2 DEF WholeInv, TmpHolds
  <2> QED
    BY <1>1, <2>3 DEF WholeInv, TmpHolds
<1>14. PublishedWhole'
  BY <1>1, StillPublished DEF WholeInv, Types
<1> QED
  BY <1>2, <1>4, <1>6, <1>12, <1>13, <1>14 DEF WholeInv

\* The handler writes a chunk at its offset, which is where path.TMP ends to
\* be the client's; an empty chunk that ends the loop is the last one.
LEMMA PutChunkWhole ==
    ASSUME WholeInv, PutChunk
    PROVE  WholeInv'
<1> DEFINE m == Head(stream)
<1>1. /\ spc = "read" /\ stream # <<>> /\ stream' = Tail(stream) /\ fd' = TRUE
      /\ UNCHANGED <<local, cpc, buf, bytesLeft, curr, writesDone, cancelled, file>>
  BY DEF PutChunk
<1>2. PICK res \in {m.size} \cup 1 .. m.size - 1 : PutWrite(m, res)
  BY DEF PutChunk
<1>3. /\ tmp' = Pwrite(OpenTmp, SubSeq(m.buf, 1, res), m.offset)
      /\ numOfBytes' = numOfBytes + res /\ short' = (short \/ res < m.size)
      /\ spc' = IF numOfBytes + res = 0 THEN "closed" ELSE "read"
  BY <1>2 DEF PutWrite
<1>4. stream \in Seq(Message) /\ Inv /\ Inv'
  BY <1>1, TakeInv DEF WholeInv, Inv, Shape
<1>5. /\ m = stream[1] /\ m \in Message /\ m.buf \in Seq(Int) /\ m.size = Len(m.buf)
      /\ m.size \in Nat /\ m.offset \in Int
  <2>1. m = stream[1] /\ m \in Message
    BY <1>1, <1>4
  <2> QED
    BY <2>1 DEF Message
<1>6. res \in Nat /\ res <= m.size /\ (res = 0 => m.size = 0)
  BY <1>5
<1>7. PICK k \in Nat : k = Len(stream) - 1 /\ Len(stream) = k + 1
  BY <1>1, <1>4
<1>8. Len(stream') = k /\ \A i \in 1 .. k : stream'[i] = stream[i + 1]
  BY <1>1, <1>4, <1>7, HeadTailProperties
<1>9. Sent' = Sent
  BY <1>1 DEF Sent
<1>10. Positions' /\ AtFlush' /\ SendsAll'
  BY <1>1 DEF WholeInv, Positions, AtFlush, SendsAll
<1>11. EndedWhole'
  BY <1>1 DEF WholeInv, EndedWhole, Receiving
<1>12. ASSUME cancelled = FALSE
       PROVE  /\ m.offset \in Nat
              /\ m.offset + m.size = Taken'
              /\ \A j \in 1 .. Len(m.buf) : m.buf[j] = m.offset + j
              /\ Len(m.buf) = 0 => m.offset = Len(buf)
              /\ Taken = m.offset
              /\ Chain'
  <2>1. \A i \in 1 .. k + 1 :
            /\ stream[i].offset \in Nat
            /\ stream[i].offset + Len(stream[i].buf) =
                   IF i < k + 1 THEN stream[i + 1].offset ELSE Sent
            /\ \A j \in 1 .. Len(stream[i].buf) : stream[i].buf[j] = stream[i].offset + j
            /\ Len(stream[i].buf) = 0 => stream[i].offset = Len(buf)
    BY <1>1, <1>7, <1>12 DEF WholeInv, Chain, Receiving
  <2>2. 1 \in 1 .. k + 1
    OBVIOUS
  <2>3. /\ m.offset \in Nat
        /\ m.offset + m.size = IF 1 < k + 1 THEN stream[2].offset ELSE Sent
        /\ \A j \in 1 .. Len(m.buf) : m.buf[j] = m.offset + j
        /\ Len(m.buf) = 0 => m.offset = Len(buf)
    <3> HIDE DEF m
    <3>1. stream[1].offset + Len(stream[1].buf) = IF 1 < k + 1 THEN stream[1 + 1].offset ELSE Sent
      BY <2>1, <2>2
    <3>2. 1 + 1 = 2
      OBVIOUS
    <3> QED
      BY <1>5, <2>1, <2>2, <3>1, <3>2
  <2>4. Taken' = IF 1 < k + 1 THEN stream[2].offset ELSE Sent
    <3>1. CASE k = 0
      <4>1. stream' = <<>>
        BY <1>4, <1>8, <3>1 DEF Inv, Shape
      <4> QED
        BY <1>9, <3>1, <4>1 DEF Taken
    <3>2. CASE k > 0
      <4>1. stream' # <<>> /\ stream'[1] = stream[1 + 1] /\ 1 + 1 = 2
        BY <1>8, <3>2
      <4> QED
        BY <3>2, <4>1 DEF Taken
    <3> QED
      BY <3>1, <3>2
  <2>5. Taken = m.offset
    BY <1>1, <1>5 DEF Taken
  <2>6. Chain'
    <3> SUFFICES ASSUME NEW i \in 1 .. k
                 PROVE  /\ stream'[i].offset \in Nat
                        /\ stream'[i].offset + Len(stream'[i].buf) =
                               IF i < k THEN stream'[i + 1].offset ELSE Sent
                        /\ \A j \in 1 .. Len(stream'[i].buf) :
                               stream'[i].buf[j] = stream'[i].offset + j
                        /\ Len(stream'[i].buf) = 0 => stream'[i].offset = Len(buf)
      BY <1>1, <1>8, <1>9 DEF Chain
    <3>1. i + 1 \in 1 .. k + 1 /\ stream'[i] = stream[i + 1]
      BY <1>8
    <3>2. CASE i < k
      <4>1. i + 1 < k + 1 /\ stream'[i + 1] = stream[(i + 1) + 1]
        BY <1>8, <3>2
      <4> QED
        BY <2>1, <3>1, <3>2, <4>1, ZenonT(60)
    <3>3. CASE i = k
      <4>1. ~ (i + 1 < k + 1) /\ ~ (i < k)
        BY <3>3
      <4> QED
        BY <2>1, <3>1, <4>1
    <3> QED
      BY <3>2, <3>3
  <2> QED
    BY <2>3, <2>4, <2>5, <2>6
<1>13. Chain'
  BY <1>1, <1>12 DEF WholeInv, Types, Chain, Receiving
<1>14. ASSUME cancelled = FALSE, short' = FALSE
       PROVE  Prefix(tmp', Taken')
  <2>1. short = FALSE /\ ~ (res < m.size)
    BY <1>3, <1>14, Zenon DEF WholeInv, Types
  <2>0. res = m.size
    BY <1>5, <1>6, <2>1
  <2>2. Prefix(OpenTmp, m.offset)
    BY <1>1, <1>12, <1>14, <2>1 DEF WholeInv, TmpHolds, Receiving
  <2>3. SubSeq(m.buf, 1, res) = m.buf
    BY <1>5, <2>0, SubSeqFull
  <2>4. tmp' = Pwrite(OpenTmp, m.buf, m.offset)
    BY <1>3, <2>3
  <2> HIDE DEF m
  <2>5. Prefix(Pwrite(OpenTmp, m.buf, m.offset), m.offset + Len(m.buf))
    BY <1>5, <1>12, <1>14, <2>2, PwriteExtends
  <2> QED
    BY <1>5, <1>12, <1>14, <2>4, <2>5
<1>15. cancelled = FALSE /\ short' = FALSE => Prefix(OpenTmp', Taken') /\ tmp' # None
  BY <1>14, NoneAssumption DEF OpenTmp, Prefix
<1>16. spc' = "closed" /\ cancelled = FALSE /\ short' = FALSE => Prefix(tmp', Len(buf))
  <2>1. numOfBytes \in Nat
    BY DEF WholeInv, Types
  <2> HIDE DEF m
  <2>2. spc' = "closed" => res = 0
    BY <1>3, <1>6, <2>1
  <2>3. m.size = 0 /\ cancelled = FALSE => Taken' = Len(buf)
    <3> SUFFICES ASSUME m.size = 0, cancelled = FALSE PROVE Taken' = Len(buf)
      OBVIOUS
    <3>1. Len(m.buf) = 0 /\ m.offset + m.size = Taken'
      BY <1>5, <1>12
    <3>2. m.offset = Len(buf) /\ m.offset \in Nat
      BY <1>12, <3>1
    <3> QED
      BY <3>1, <3>2
  <2> QED
    BY <1>6, <1>14, <2>2, <2>3
<1>17. TmpHolds'
  <2>1. spc' # "rename"
    BY <1>3
  <2> QED
    BY <1>1, <1>15, <1>16, <2>1 DEF TmpHolds, Receiving
<1>18. short' \in BOOLEAN /\ (short' = FALSE => short = FALSE)
  BY <1>3, Zenon DEF WholeInv, Types
<1>19. Types'
  <2>1. numOfBytes' \in Nat
    BY <1>3, <1>6 DEF WholeInv, Types
  <2> QED
    BY <1>1, <1>18, <2>1 DEF WholeInv, Types
<1>20. PublishedWhole'
  BY <1>1, <1>18, StillPublished DEF WholeInv
<1> QED
  BY <1>4, <1>10, <1>11, <1>13, <1>17, <1>19, <1>20 DEF WholeInv

\* The handler gives up: what path.TMP holds is no longer of interest.
LEMMA PutFailsWhole ==
    ASSUME WholeInv, PutFails
    PROVE  WholeInv'
<1>1. /\ stream # <<>> /\ stream' = Tail(stream) /\ spc' = "err"
      /\ fd' \in {fd, TRUE}
      /\ UNCHANGED <<local, cpc, buf, bytesLeft, curr, writesDone, cancelled, numOfBytes, short, file>>
  BY DEF PutFails
<1>2. Inv'
  BY <1>1, TakeInv DEF WholeInv
<1>3. Positions' /\ AtFlush' /\ SendsAll' /\ Types'
  BY <1>1 DEF WholeInv, Positions, AtFlush, SendsAll, Types
<1>4. Chain' /\ EndedWhole' /\ TmpHolds'
  BY <1>1 DEF Chain, EndedWhole, TmpHolds, Receiving
<1>5. PublishedWhole'
  BY <1>1, StillPublished DEF WholeInv, Types
<1> QED
  BY <1>2, <1>3, <1>4, <1>5 DEF WholeInv

\* A step that leaves the data alone.  It may end the loops, and must end them
\* with everything sent and taken unless the call is cancelled.
LEMMA QuietWhole ==
    ASSUME WholeInv,
           UNCHANGED <<local, buf, bytesLeft, curr, stream, fd, numOfBytes, tmp, short, file>>,
           cpc' \in {cpc, "finish", "done"}, cpc' = "send" => cpc = "send",
           writesDone' \in BOOLEAN, cancelled' \in BOOLEAN,
           cancelled' = FALSE => cancelled = FALSE,
           cpc' = "flush" => UNCHANGED <<spc, writesDone, cancelled>>,
           spc' = "read" => spc = "read",
           spc' = "read" /\ cancelled' = FALSE /\ writesDone' = TRUE => bytesLeft < 0,
           short = FALSE /\ spc' = "closed" /\ cancelled' = FALSE /\ fd = TRUE => Prefix(tmp, Len(buf)),
           short = FALSE /\ spc' = "rename" /\ fd = TRUE => Prefix(tmp, Len(buf))
    PROVE  WholeInv'
<1>1. Receiving' => Receiving
  BY DEF Receiving
<1>2. Inv'
  BY OtherInv DEF WholeInv
<1>3. Positions' /\ AtFlush' /\ SendsAll' /\ Types'
  BY DEF WholeInv, Positions, AtFlush, SendsAll, Types
<1>4. EndedWhole'
  BY DEF EndedWhole, Receiving
<1>5. Sent' = Sent
  BY DEF Sent
<1>6. Taken' = Taken /\ OpenTmp' = OpenTmp
  BY <1>5 DEF Taken, OpenTmp
<1>7. Chain'
  BY <1>1, <1>5 DEF WholeInv, Chain
<1>8. TmpHolds'
  BY <1>1, <1>6 DEF WholeInv, TmpHolds
<1>9. PublishedWhole'
  BY StillPublished DEF WholeInv, Types
<1> QED
  BY <1>2, <1>3, <1>4, <1>7, <1>8, <1>9 DEF WholeInv

\* Loops and cancellation.
LEMMA LoopsWhole ==
    ASSUME WholeInv, WritesDone \/ Finish \/ PutEnd \/ PutCheck \/ PutCancel
    PROVE  WholeInv'
<1>0. /\ writesDone \in BOOLEAN /\ cancelled \in BOOLEAN
      /\ spc = "read" /\ cancelled = FALSE /\ writesDone = TRUE => bytesLeft < 0
      /\ short = FALSE /\ spc = "closed" /\ cancelled = FALSE /\ fd = TRUE => Prefix(tmp, Len(buf))
      /\ short = FALSE /\ spc = "rename" /\ fd = TRUE => Prefix(tmp, Len(buf))
  BY DEF WholeInv, Types, EndedWhole, TmpHolds, Receiving
<1>1. CASE WritesDone
  BY <1>0, <1>1, QuietWhole DEF WritesDone
<1>2. CASE Finish
  BY <1>0, <1>2, QuietWhole DEF Finish
<1>3. CASE PutEnd
  <2>1. cancelled = FALSE => stream = <<>> /\ bytesLeft < 0
    BY <1>0, <1>3 DEF PutEnd
  <2>2. cancelled = FALSE => Taken = Len(buf)
    BY <2>1 DEF Taken, Sent
  <2>3. cancelled = FALSE /\ short = FALSE /\ fd = TRUE => Prefix(tmp, Len(buf))
    BY <1>3, <2>2 DEF PutEnd, WholeInv, TmpHolds, Receiving, OpenTmp
  <2>4. cpc # "flush"
    BY <1>3, <2>1 DEF PutEnd, WholeInv, AtFlush
  <2> QED
    BY <1>0, <1>3, <2>3, <2>4, QuietWhole DEF PutEnd
<1>4. CASE PutCheck
  <2>1. cpc # "flush"
    BY <1>4 DEF PutCheck, WholeInv, AtFlush
  <2> QED
    BY <1>0, <1>4, <2>1, QuietWhole DEF PutCheck
<1>5. CASE PutCancel
  BY <1>0, <1>5, QuietWhole DEF PutCancel
<1> QED
  BY <1>1, <1>2, <1>3, <1>4, <1>5

\* The rename publishes a whole file.
LEMMA PutRenameWhole ==
    ASSUME WholeInv, PutRename
    PROVE  WholeInv'
<1>1. /\ spc = "rename" /\ spc' = "ok"
      /\ UNCHANGED <<local, cpc, buf, bytesLeft, curr, stream, writesDone, cancelled, fd, numOfBytes, short>>
  BY DEF PutRename
<1>2. Inv'
  BY <1>1, OtherInv DEF WholeInv
<1>3. Positions' /\ AtFlush' /\ SendsAll' /\ Types'
  BY <1>1 DEF WholeInv, Positions, AtFlush, SendsAll, Types
<1>4. Chain' /\ EndedWhole' /\ TmpHolds'
  BY <1>1 DEF Chain, EndedWhole, TmpHolds, Receiving
<1>5. PublishedWhole'
  <2>1. CASE fd = FALSE
    BY <1>1, <2>1, StillPublished DEF PutRename, WholeInv, Types
  <2>2. CASE fd = TRUE
    <3>1. file' = tmp
      BY <2>2 DEF PutRename
    <3> SUFFICES ASSUME Len(local) < 2 * Half, short = FALSE
                 PROVE  /\ BeginsWith(tmp, local)
                        /\ \A i \in Len(local) + 1 .. Len(tmp) : tmp[i] = Stale
      BY <1>1, <3>1 DEF PublishedWhole, BeginsWith, WholeInv, Types
    <3>2. Prefix(tmp, Len(local))
      BY <1>1, <2>2 DEF WholeInv, SendsAll, TmpHolds
    <3> QED
      BY <3>2 DEF Prefix, BeginsWith, WholeInv, Positions
  <2> QED
    BY <2>1, <2>2 DEF WholeInv, Types
<1> QED
  BY <1>2, <1>3, <1>4, <1>5 DEF WholeInv

\* Fetches have nothing to do with uploads.
LEMMA FetchWhole ==
    ASSUME WholeInv, UNCHANGED <<putVars, file>>
    PROVE  WholeInv'
<1>1. /\ writesDone \in BOOLEAN /\ cancelled \in BOOLEAN
      /\ spc = "read" /\ cancelled = FALSE /\ writesDone = TRUE => bytesLeft < 0
      /\ short = FALSE /\ spc = "closed" /\ cancelled = FALSE /\ fd = TRUE => Prefix(tmp, Len(buf))
      /\ short = FALSE /\ spc = "rename" /\ fd = TRUE => Prefix(tmp, Len(buf))
  BY DEF WholeInv, Types, EndedWhole, TmpHolds, Receiving
<1> QED
  BY <1>1, QuietWhole DEF putVars

LEMMA NextWhole == WholeInv /\ [Next]_vars => WholeInv'
<1> SUFFICES ASSUME WholeInv, [Next]_vars PROVE WholeInv'
  OBVIOUS
<1>1. CASE ReadBack \/ SendChunk
  BY <1>1, ReadBackWhole, SendChunkWhole
<1>2. CASE WritesDone \/ Finish \/ PutEnd \/ PutCheck \/ PutCancel
  BY <1>2, LoopsWhole
<1>3. CASE PutChunk \/ PutFails
  BY <1>3, PutChunkWhole, PutFailsWhole
<1>4. CASE PutRename
  BY <1>4, PutRenameWhole
<1>5. CASE FetchOpen \/ FetchSend \/ FetchEnd \/ FetchRecv \/ FetchFinish \/ FetchExpire
  BY <1>5, FetchWhole
     DEF FetchOpen, FetchSend, FetchEnd, FetchRecv, FetchFinish, FetchExpire
<1>6. CASE UNCHANGED vars
  BY <1>6, FetchWhole DEF vars
<1> QED
  BY <1>1, <1>2, <1>3, <1>4, <1>5, <1>6
     DEF Next, ClientPut, ServerPut, ServerGet, ClientGet

\* All or nothing: deadlines, failing or absent clients and errors of the
\* server's disk, whenever they come, never publish a part of a file.
THEOREM UploadIsAtomic == Spec => []PublishedWhole
<1>1. WholeInv => PublishedWhole
  BY DEF WholeInv
<1> QED
  BY <1>1, InitWhole, NextWhole, PTL DEF Spec

-----------------------------------------------------------------------------
(* The count of an answer, and the range of the ints.                      *)

\* The messages st lie one behind the other in the bytes up to sent.  (While
\* the call goes on they also follow without a gap: Chain.)
Ordered(st, sent) ==
    \A i \in 1 .. Len(st) :
        /\ st[i].offset \in Nat /\ st[i].offset + st[i].size <= sent
        /\ i < Len(st) => st[i].offset + st[i].size <= st[i + 1].offset

\* Where the bytes end that lie before the messages st.
Before(st, sent) == IF st = <<>> THEN sent ELSE st[1].offset

LEMMA BeforeFacts ==
    ASSUME NEW st \in Seq(Message), NEW sent \in Nat, Ordered(st, sent)
    PROVE  Before(st, sent) \in Nat /\ Before(st, sent) <= sent
<1>1. CASE st = <<>>
  BY <1>1 DEF Before
<1>2. CASE st # <<>>
  <2>1. 1 \in 1 .. Len(st) /\ st[1] \in Message
    BY <1>2
  <2>2. st[1].size \in Nat
    BY <2>1 DEF Message
  <2> QED
    BY <1>2, <2>1, <2>2 DEF Before, Ordered
<1> QED
  BY <1>1, <1>2

LEMMA OrderedMore ==
    ASSUME NEW st \in Seq(Message), NEW sent \in Nat, NEW more \in Nat, sent <= more, Ordered(st, sent)
    PROVE  Ordered(st, more) /\ Before(st, sent) <= Before(st, more)
<1>1. \A i \in 1 .. Len(st) : st[i].size \in Nat
  <2>1. \A i \in 1 .. Len(st) : st[i] \in Message
    OBVIOUS
  <2> QED
    BY <2>1 DEF Message
<1>2. Ordered(st, more)
  <2> SUFFICES ASSUME NEW i \in 1 .. Len(st)
               PROVE  st[i].offset + st[i].size <= more
    BY DEF Ordered
  <2>1. st[i].offset \in Nat /\ st[i].size \in Nat /\ st[i].offset + st[i].size <= sent
    BY <1>1 DEF Ordered
  <2> QED
    BY <2>1
<1>3. st # <<>> => 1 \in 1 .. Len(st)
  OBVIOUS
<1> QED
  BY <1>2, <1>3 DEF Before, Ordered

LEMMA OrderedAppend ==
    ASSUME NEW st \in Seq(Message), NEW sent \in Nat, Ordered(st, sent),
           NEW m \in Message, m.offset = sent, NEW more \in Nat, sent + m.size <= more
    PROVE  Ordered(Append(st, m), more) /\ Before(Append(st, m), more) = Before(st, sent)
<1> DEFINE a == Append(st, m)
           k == Len(st)
<1>1. /\ k \in Nat /\ Len(a) = k + 1 /\ a[k + 1] = m /\ \A i \in 1 .. k : a[i] = st[i]
      /\ a \in Seq(Message) /\ a # <<>>
  BY AppendProperties
<1>2. m.size \in Nat /\ \A i \in 1 .. k : st[i].size \in Nat
  <2>1. \A i \in 1 .. k : st[i] \in Message
    OBVIOUS
  <2> QED
    BY <2>1 DEF Message
<1> HIDE DEF a
<1>3. ASSUME NEW i \in 1 .. k + 1
      PROVE  /\ a[i].offset \in Nat /\ a[i].offset + a[i].size <= more
             /\ i < k + 1 => a[i].offset + a[i].size <= a[i + 1].offset
  <2>1. CASE i = k + 1
    BY <1>1, <1>2, <2>1
  <2>2. CASE i = k /\ k > 0
    <3>1. i \in 1 .. k /\ i + 1 = k + 1
      BY <1>1, <2>2
    <3>2. st[i].offset \in Nat /\ st[i].offset + st[i].size <= sent
      BY <3>1 DEF Ordered
    <3>3. a[i] = st[i] /\ a[i + 1] = m /\ st[i].size \in Nat
      BY <1>1, <1>2, <3>1
    <3>4. m.size \in Nat /\ sent <= more
      BY <1>2
    <3> QED
      BY <3>2, <3>3, <3>4, SMTT(60)
  <2>3. CASE i < k
    <3>1. i \in 1 .. k /\ i + 1 \in 1 .. k
      BY <1>1, <2>3
    <3>2. /\ st[i].offset \in Nat /\ st[i].offset + st[i].size <= st[i + 1].offset
          /\ st[i].offset + st[i].size <= sent
      BY <2>3, <3>1 DEF Ordered
    <3>3. a[i] = st[i] /\ a[i + 1] = st[i + 1] /\ st[i].size \in Nat
      BY <1>1, <1>2, <3>1
    <3>4. PICK x \in Nat : x = st[i].offset + st[i].size
      BY <3>2, <3>3
    <3>5. x <= sent /\ sent <= more
      BY <1>2, <3>2, <3>4
    <3>6. x <= more
      BY <3>5
    <3> QED
      BY <3>2, <3>3, <3>4, <3>6
  <2> QED
    BY <1>1, <2>1, <2>2, <2>3
<1>4. Ordered(a, more)
  BY <1>1, <1>3 DEF Ordered
<1>5. Before(a, more) = Before(st, sent)
  <2>1. CASE st = <<>>
    BY <1>1, <2>1 DEF Before
  <2>2. CASE st # <<>>
    <3>1. 1 \in 1 .. k
      BY <2>2
    <3> QED
      BY <1>1, <2>2, <3>1 DEF Before
  <2> QED
    BY <2>1, <2>2
<1> QED
  BY <1>4, <1>5 DEF a

LEMMA OrderedTail ==
    ASSUME NEW st \in Seq(Message), st # <<>>, NEW sent \in Nat, Ordered(st, sent)
    PROVE  /\ Ordered(Tail(st), sent)
           /\ Before(st, sent) + Head(st).size <= Before(Tail(st), sent)
<1> DEFINE a == Tail(st)
<1>1. PICK k \in Nat : k = Len(st) - 1 /\ Len(st) = k + 1
  OBVIOUS
<1>2. a \in Seq(Message) /\ Len(a) = k /\ \A i \in 1 .. k : a[i] = st[i + 1]
  BY <1>1, HeadTailProperties
<1>3. Head(st) = st[1]
  OBVIOUS
<1> HIDE DEF a
<1>4. ASSUME NEW i \in 1 .. k
      PROVE  /\ a[i].offset \in Nat /\ a[i].offset + a[i].size <= sent
             /\ i < k => a[i].offset + a[i].size <= a[i + 1].offset
  <2>1. /\ i + 1 \in 1 .. Len(st) /\ a[i] = st[i + 1]
        /\ (i < k <=> i + 1 < Len(st)) /\ (i < k => a[i + 1] = st[(i + 1) + 1])
    BY <1>1, <1>2
  <2>2. /\ st[i + 1].offset \in Nat /\ st[i + 1].offset + st[i + 1].size <= sent
        /\ i + 1 < Len(st) => st[i + 1].offset + st[i + 1].size <= st[(i + 1) + 1].offset
    BY <2>1 DEF Ordered
  <2> QED
    BY <2>1, <2>2
<1>5. Ordered(a, sent)
  BY <1>2, <1>4 DEF Ordered
<1>6. /\ st[1].offset + st[1].size <= sent
      /\ 1 < k + 1 => st[1].offset + st[1].size <= st[1 + 1].offset
  <2>1. 1 \in 1 .. Len(st)
    BY <1>1
  <2> QED
    BY <1>1, <2>1 DEF Ordered
<1>7. Before(a, sent) = IF 1 < k + 1 THEN st[1 + 1].offset ELSE sent
  <2>1. CASE k = 0
    <3>1. a = <<>>
      BY <1>2, <2>1
    <3> QED
      BY <2>1, <3>1 DEF Before
  <2>2. CASE k > 0
    <3>1. a # <<>> /\ a[1] = st[1 + 1]
      BY <1>2, <2>2
    <3> QED
      BY <2>2, <3>1 DEF Before
  <2> QED
    BY <2>1, <2>2
<1> QED
  BY <1>3, <1>5, <1>6, <1>7 DEF Before, a

\* The two counters of the loop stay ints: curr overflows, but into an int.
Ranges ==
    /\ bytesLeft >= 0 => curr >= 0 /\ curr = Len(buf) - bytesLeft
    /\ - CHUNK_SIZE <= bytesLeft /\ bytesLeft <= Len(buf)
    /\ - Half <= curr /\ curr < Half

\* What pwrite reported adds up to what was taken, and to less after a short
\* write.
Counts ==
    /\ Ordered(stream, Sent)
    /\ numOfBytes <= Taken
    /\ short = TRUE => numOfBytes < Taken
    /\ numOfBytes > 0 => fd = TRUE

\* An empty file is not sent.
Unsent ==
    buf = <<>> => /\ cpc \in {"flush", "done"} /\ spc = "read" /\ stream = <<>>
                  /\ writesDone = FALSE /\ cancelled = FALSE

Delivered == spc = "ok" /\ short = FALSE /\ fd = TRUE => BeginsWith(file, buf)

CountInv == WholeInv /\ Ranges /\ Counts /\ Unsent /\ Delivered

LEMMA ToIntLow == ASSUME NEW n \in Int PROVE - Half <= ToInt(n)
<1>1. Half \in Nat /\ Half > 0
  BY SizesAssumption
<1>2. (n + Half) % (2 * Half) \in 0 .. (2 * Half) - 1
  <2>1. 2 * Half \in Nat /\ 2 * Half > 0 /\ n + Half \in Int
    BY <1>1
  <2> QED
    BY <2>1
<1> QED
  BY <1>1, <1>2 DEF ToInt

LEMMA SentFacts ==
    ASSUME Inv, Ranges
    PROVE  /\ Sent \in Nat /\ Sent <= Len(buf) /\ Len(buf) \in Nat /\ Taken = Before(stream, Sent)
           /\ stream \in Seq(Message)
BY DEF Inv, Shape, Ranges, Sent, Taken, Before

LEMMA TakenFacts ==
    ASSUME Inv, Ranges, Ordered(stream, Sent)
    PROVE  Taken \in Nat /\ Taken <= Sent
BY SentFacts, BeforeFacts

\* The answer's count, and every counter, is an int.
LEMMA CountRange ==
    ASSUME CountInv
    PROVE  numOfBytes \in Nat /\ numOfBytes <= Taken /\ Taken \in Nat /\ Taken <= Len(buf) /\ Len(buf) < Half
<1>1. Inv /\ Ranges /\ Ordered(stream, Sent) /\ numOfBytes \in Nat /\ numOfBytes <= Taken
  BY DEF CountInv, WholeInv, Types, Counts
<1>2. Taken \in Nat /\ Taken <= Sent /\ Sent \in Nat /\ Sent <= Len(buf) /\ Len(buf) \in Nat
  BY <1>1, SentFacts, TakenFacts
<1>3. Len(buf) < Half /\ Half \in Nat
  BY <1>1, SizesAssumption DEF Inv, Shape
<1> QED
  BY <1>1, <1>2, <1>3

LEMMA InitCount == Init => CountInv
<1> SUFFICES ASSUME Init PROVE CountInv
  OBVIOUS
<1>1. /\ buf = <<>> /\ stream = <<>> /\ bytesLeft = 0 /\ curr = 0 /\ cpc = "flush"
      /\ spc = "read" /\ fd = FALSE /\ writesDone = FALSE /\ cancelled = FALSE /\ short = FALSE
      /\ numOfBytes = 0
  BY DEF Init
<1>2. CHUNK_SIZE \in Nat /\ Half \in Nat /\ Half > 0 /\ Len(<<>>) = 0
  BY SizesAssumption
<1>3. Ranges
  BY <1>1, <1>2 DEF Ranges
<1>4. Counts
  BY <1>1, <1>2 DEF Counts, Ordered, Taken, Sent
<1>5. Unsent /\ Delivered
  BY <1>1 DEF Unsent, Delivered
<1> QED
  BY <1>3, <1>4, <1>5, InitWhole DEF CountInv

LEMMA ReadBackCount ==
    ASSUME CountInv, ReadBack
    PROVE  Ranges' /\ Counts' /\ Unsent' /\ Delivered'
<1> DEFINE n == Length(local)
<1>1. /\ buf' = SubSeq(local, 1, n) /\ bytesLeft' = n /\ curr' = 0
      /\ cpc' = IF n > 0 THEN "send" ELSE "done"
      /\ UNCHANGED <<stream, writesDone, cancelled, spc, fd, numOfBytes, short>>
  BY DEF ReadBack
<1>2. /\ stream = <<>> /\ fd = FALSE /\ spc = "read" /\ writesDone = FALSE
      /\ bytesLeft = 0 /\ curr = 0 /\ cancelled = FALSE
  BY DEF CountInv, WholeInv, AtFlush, ReadBack
<1>3. local \in Seq(Int)
  BY DEF CountInv, WholeInv, Inv, Shape
<1>4. n \in Nat /\ n < Half /\ n <= Len(local)
  BY <1>3, LengthFacts
<1>5. Len(buf') = n
  <2>1. \A i \in 1 .. n : local[i] \in Int
    BY <1>3, <1>4
  <2>2. Len(SubSeq(local, 1, n)) = IF 1 <= n THEN n - 1 + 1 ELSE 0
    BY <1>4, <2>1, SubSeqProperties
  <2> QED
    BY <1>1, <1>4, <2>2
<1>6. CHUNK_SIZE \in Nat /\ Half \in Nat /\ Half > 0
  BY SizesAssumption
<1> HIDE DEF n
<1>7. Ranges'
  BY <1>1, <1>4, <1>5, <1>6 DEF Ranges
<1>8. numOfBytes = 0 /\ (short = TRUE => FALSE)
  <2>1. Taken = 0
    BY <1>2 DEF Taken, Sent
  <2>2. numOfBytes \in Nat /\ numOfBytes <= Taken /\ (short = TRUE => numOfBytes < Taken)
    BY DEF CountInv, WholeInv, Types, Counts
  <2>3. numOfBytes = 0 /\ ~ (numOfBytes < Taken)
    BY <2>1, <2>2
  <2> QED
    BY <2>2, <2>3
<1>9. Counts'
  <2>1. Taken' = 0
    BY <1>1, <1>2, <1>4 DEF Taken, Sent
  <2>2. Len(stream') = 0
    BY <1>1, <1>2
  <2>3. Ordered(stream, Sent)'
    BY <2>2 DEF Ordered
  <2>4. numOfBytes' = 0 /\ (short' = TRUE => FALSE)
    BY <1>1, <1>8
  <2> QED
    BY <2>1, <2>3, <2>4 DEF Counts
<1>10. buf' = <<>> => n = 0
  BY <1>5
<1>11. Unsent' /\ Delivered'
  BY <1>1, <1>2, <1>4, <1>10 DEF Unsent, Delivered
<1> QED
  BY <1>7, <1>9, <1>11

LEMMA SendChunkCount ==
    ASSUME CountInv, SendChunk
    PROVE  Ranges' /\ Counts' /\ Unsent' /\ Delivered'
<1> DEFINE size == Least(CHUNK_SIZE, bytesLeft)
<1>1. /\ cpc = "send" /\ bytesLeft >= 0 /\ curr' = ToInt(curr + CHUNK_SIZE)
      /\ bytesLeft' = bytesLeft - CHUNK_SIZE
      /\ UNCHANGED <<buf, spc, cancelled, fd, numOfBytes, short, file>>
  BY DEF SendChunk
<1>2. /\ CHUNK_SIZE \in Nat /\ CHUNK_SIZE > 0 /\ Half \in Nat /\ CHUNK_SIZE < Half
      /\ bytesLeft \in Int /\ curr \in Int /\ Len(buf) \in Nat /\ Len(buf) < Half
  BY SizesAssumption DEF CountInv, WholeInv, Inv, Shape
<1>3. Inv /\ Ranges /\ Counts /\ Unsent /\ Delivered
  BY DEF CountInv, WholeInv
<1>4. curr >= 0 /\ curr = Len(buf) - bytesLeft /\ bytesLeft <= Len(buf)
  BY <1>1, <1>3 DEF Ranges
<1>5. bytesLeft' >= 0 => curr' = curr + CHUNK_SIZE
  <2>1. bytesLeft' >= 0 => curr + CHUNK_SIZE \in 0 .. Half - 1
    BY <1>1, <1>2, <1>4
  <2> QED
    BY <1>1, <1>2, <2>1, ToIntFacts
<1>6. Ranges'
  <2>1. - Half <= curr' /\ curr' < Half /\ curr' \in Int
    BY <1>1, <1>2, ToIntFacts, ToIntLow
  <2>2. bytesLeft' >= 0 => curr' >= 0 /\ curr' = Len(buf) - bytesLeft'
    BY <1>1, <1>2, <1>4, <1>5
  <2>3. - CHUNK_SIZE <= bytesLeft' /\ bytesLeft' <= Len(buf)
    BY <1>1, <1>2, <1>4
  <2> QED
    BY <1>1, <2>1, <2>2, <2>3 DEF Ranges
<1>7. size \in Nat /\ Sent = curr /\ Sent' = curr + size
  <2>1. size \in Nat /\ (bytesLeft >= CHUNK_SIZE => size = CHUNK_SIZE)
        /\ (bytesLeft < CHUNK_SIZE => size = bytesLeft)
    BY <1>1, <1>2 DEF Least
  <2>2. Sent = curr
    BY <1>1, <1>2 DEF Sent
  <2>3. CASE bytesLeft >= CHUNK_SIZE
    <3>1. bytesLeft' >= 0 /\ ~ (bytesLeft' < 0)
      BY <1>1, <1>2, <2>3
    <3> QED
      BY <1>5, <2>1, <2>2, <2>3, <3>1 DEF Sent
  <2>4. CASE bytesLeft < CHUNK_SIZE
    <3>1. bytesLeft' < 0 /\ curr + bytesLeft = Len(buf)
      BY <1>1, <1>2, <1>4, <2>4
    <3> QED
      BY <1>1, <2>1, <2>2, <2>4, <3>1 DEF Sent
  <2> QED
    BY <1>2, <2>3, <2>4
<1> HIDE DEF size
<1>8. Sent \in Nat /\ Sent' \in Nat /\ Sent <= Sent' /\ stream \in Seq(Message) /\ Taken = Before(stream, Sent)
  BY <1>2, <1>3, <1>4, <1>7, SentFacts
<1>9. Taken' = Before(stream', Sent')
  BY DEF Taken, Before
<1>10. Ordered(stream', Sent') /\ Taken <= Taken'
  <2>1. CASE UNCHANGED stream
    <3>1. Ordered(stream, Sent') /\ Before(stream, Sent) <= Before(stream, Sent')
      BY <1>3, <1>8, OrderedMore DEF Counts
    <3> QED
      BY <1>8, <1>9, <2>1, <3>1
  <2>2. CASE stream' = Append(stream, Chunk)
    <3>1. Chunk \in Message /\ Chunk.offset = Sent /\ Chunk.size = size
      BY <1>1, <1>3, <1>7, ChunkFacts DEF Chunk, size
    <3>2. PICK m \in Message : m = Chunk
      BY <3>1
    <3>3. Ordered(Append(stream, m), Sent') /\ Before(Append(stream, m), Sent') = Before(stream, Sent)
      <4>1. m.offset = Sent /\ Sent + m.size <= Sent'
        BY <1>2, <1>7, <1>8, <3>1, <3>2
      <4> QED
        BY <1>3, <1>8, <4>1, OrderedAppend DEF Counts
    <3>4. Taken \in Nat
      BY <1>3, TakenFacts DEF Counts
    <3> QED
      BY <1>8, <1>9, <2>2, <3>2, <3>3, <3>4
  <2> QED
    BY <2>1, <2>2 DEF SendChunk
<1>11. Counts'
  <2>1. /\ numOfBytes \in Nat /\ Taken \in Nat /\ numOfBytes <= Taken
        /\ (short = TRUE => numOfBytes < Taken) /\ (numOfBytes > 0 => fd = TRUE)
    BY <1>3, TakenFacts DEF CountInv, WholeInv, Types, Counts
  <2>2. Taken' \in Nat
    <3>1. stream' \in Seq(Message)
      BY <1>3, SendChunkInv DEF Inv, Shape
    <3> QED
      BY <1>8, <1>9, <1>10, <3>1, BeforeFacts
  <2>3. numOfBytes <= Taken' /\ (numOfBytes < Taken => numOfBytes < Taken')
    BY <1>10, <2>1, <2>2
  <2> QED
    BY <1>1, <1>10, <2>1, <2>3 DEF Counts
<1>12. Unsent' /\ Delivered'
  BY <1>1, <1>3 DEF Unsent, Delivered, BeginsWith
<1> QED
  BY <1>6, <1>11, <1>12

\* The handler takes a message, and writes res bytes of it.
LEMMA TakeCount ==
    ASSUME CountInv, stream # <<>>, stream' = Tail(stream), NEW res \in Nat, res <= Head(stream).size,
           UNCHANGED <<cpc, buf, bytesLeft, curr, writesDone, cancelled>>,
           numOfBytes' = numOfBytes + res, short' \in BOOLEAN,
           short' = TRUE => short = TRUE \/ res < Head(stream).size,
           fd' \in {fd, TRUE}, res > 0 => fd' = TRUE, spc' # "ok"
    PROVE  Ranges' /\ Counts' /\ Unsent' /\ Delivered'
<1>1. Inv /\ Ranges /\ Counts /\ Unsent /\ numOfBytes \in Nat /\ fd \in BOOLEAN
  BY DEF CountInv, WholeInv, Types
<1>2. Ranges'
  BY <1>1 DEF Ranges
<1>3. Unsent' /\ Delivered'
  BY <1>1 DEF Unsent, Delivered
<1>4. Sent' = Sent /\ Sent \in Nat /\ stream \in Seq(Message) /\ Taken = Before(stream, Sent)
  BY <1>1, SentFacts DEF Sent
<1>5. Head(stream).size \in Nat
  <2>1. Head(stream) \in Message
    BY <1>4
  <2> QED
    BY <2>1 DEF Message
<1>6. Taken' = Before(Tail(stream), Sent)
  BY <1>4 DEF Taken, Before
<1>7. Ordered(Tail(stream), Sent) /\ Taken + Head(stream).size <= Taken' /\ Taken \in Nat
  BY <1>1, <1>4, <1>6, OrderedTail, TakenFacts DEF Counts
<1>8. Taken' \in Nat
  <2>1. Tail(stream) \in Seq(Message)
    BY <1>4, HeadTailProperties
  <2> QED
    BY <1>4, <1>6, <1>7, <2>1, BeforeFacts
<1>9. /\ numOfBytes <= Taken /\ (short = TRUE => numOfBytes < Taken) /\ (numOfBytes > 0 => fd = TRUE)
  BY <1>1 DEF Counts
<1>10. numOfBytes' <= Taken'
  BY <1>1, <1>5, <1>7, <1>8, <1>9
<1>11. short' = TRUE => numOfBytes' < Taken'
  <2>1. numOfBytes < Taken => numOfBytes' < Taken'
    BY <1>1, <1>5, <1>7, <1>8
  <2>2. res < Head(stream).size => numOfBytes' < Taken'
    BY <1>1, <1>5, <1>7, <1>8, <1>9
  <2> QED
    BY <1>9, <2>1, <2>2
<1>12. numOfBytes' > 0 => fd' = TRUE
  <2>1. numOfBytes' > 0 => numOfBytes > 0 \/ res > 0
    BY <1>1
  <2> QED
    BY <1>9, <2>1
<1>13. Counts'
  BY <1>4, <1>7, <1>10, <1>11, <1>12 DEF Counts
<1> QED
  BY <1>2, <1>3, <1>13

LEMMA PutChunkCount ==
    ASSUME CountInv, PutChunk
    PROVE  Ranges' /\ Counts' /\ Unsent' /\ Delivered'
<1>1. /\ stream # <<>> /\ stream' = Tail(stream) /\ fd' = TRUE
      /\ UNCHANGED <<cpc, buf, bytesLeft, curr, writesDone, cancelled>>
  BY DEF PutChunk
<1>2. PICK res \in {Head(stream).size} \cup 1 .. Head(stream).size - 1 : PutWrite(Head(stream), res)
  BY DEF PutChunk
<1>3. Head(stream).size \in Nat
  <2>1. stream \in Seq(Message)
    BY DEF CountInv, WholeInv, Inv, Shape
  <2>2. Head(stream) \in Message
    BY <1>1, <2>1
  <2> QED
    BY <2>2 DEF Message
<1>4. res \in Nat /\ res <= Head(stream).size
  BY <1>3
<1>5. /\ numOfBytes' = numOfBytes + res /\ short' = (short \/ res < Head(stream).size)
      /\ spc' \in {"closed", "read"}
  BY <1>2 DEF PutWrite
<1>6. short' \in BOOLEAN /\ (short' = TRUE => short = TRUE \/ res < Head(stream).size)
  BY <1>5, Zenon DEF CountInv, WholeInv, Types
<1>7. spc' # "ok"
  BY <1>5
<1> QED
  BY <1>1, <1>4, <1>5, <1>6, <1>7, TakeCount

LEMMA PutFailsCount ==
    ASSUME CountInv, PutFails
    PROVE  Ranges' /\ Counts' /\ Unsent' /\ Delivered'
<1>1. /\ stream # <<>> /\ stream' = Tail(stream) /\ spc' = "err" /\ fd' \in {fd, TRUE}
      /\ UNCHANGED <<cpc, buf, bytesLeft, curr, writesDone, cancelled, numOfBytes, short>>
  BY DEF PutFails
<1>2. numOfBytes \in Nat /\ short \in BOOLEAN /\ stream \in Seq(Message)
  BY DEF CountInv, WholeInv, Types, Inv, Shape
<1>3. Head(stream).size \in Nat
  <2>1. Head(stream) \in Message
    BY <1>1, <1>2
  <2> QED
    BY <2>1 DEF Message
<1>4. numOfBytes' = numOfBytes + 0 /\ 0 <= Head(stream).size /\ ~ (0 > 0)
  BY <1>1, <1>2, <1>3
<1>5. PICK res \in Nat : res = 0
  OBVIOUS
<1> QED
  BY <1>1, <1>2, <1>4, <1>5, TakeCount

\* Steps that leave the data alone.
LEMMA QuietCount ==
    ASSUME CountInv, UNCHANGED <<buf, bytesLeft, curr, stream, fd, numOfBytes, short>>, Unsent',
           spc' = "ok" => spc = "ok" /\ UNCHANGED file
    PROVE  Ranges' /\ Counts' /\ Unsent' /\ Delivered'
<1>1. Ranges /\ Counts /\ Delivered
  BY DEF CountInv
<1>2. Sent' = Sent
  BY DEF Sent
<1>3. Taken' = Taken
  BY <1>2 DEF Taken
<1> QED
  BY <1>1, <1>2, <1>3 DEF Ranges, Counts, Delivered, BeginsWith

LEMMA RenameCount ==
    ASSUME CountInv, PutRename
    PROVE  Ranges' /\ Counts' /\ Unsent' /\ Delivered'
<1>1. /\ spc = "rename" /\ UNCHANGED <<cpc, buf, bytesLeft, curr, stream, fd, numOfBytes, short>>
      /\ UNCHANGED <<writesDone, cancelled>>
  BY DEF PutRename
<1>2. Ranges /\ Counts /\ Unsent
  BY DEF CountInv
<1>3. Sent' = Sent
  BY <1>1 DEF Sent
<1>4. Taken' = Taken
  BY <1>1, <1>3 DEF Taken
<1>5. Ranges' /\ Counts' /\ Unsent'
  BY <1>1, <1>2, <1>3, <1>4 DEF Ranges, Counts, Unsent
<1>6. ASSUME short = FALSE, fd = TRUE PROVE BeginsWith(file', buf)
  <2>1. file' = tmp
    BY <1>6 DEF PutRename
  <2>2. Prefix(tmp, Len(buf))
    BY <1>1, <1>6 DEF CountInv, WholeInv, TmpHolds
  <2>3. \A i \in 1 .. Len(buf) : buf[i] = i
    BY DEF CountInv, WholeInv, Positions
  <2> QED
    BY <2>1, <2>2, <2>3 DEF Prefix, BeginsWith
<1>7. Delivered'
  BY <1>1, <1>6 DEF Delivered, BeginsWith
<1> QED
  BY <1>5, <1>7

LEMMA NextCount == CountInv /\ [Next]_vars => CountInv'
<1> SUFFICES ASSUME CountInv, [Next]_vars PROVE CountInv'
  OBVIOUS
<1>0. WholeInv' /\ Unsent
  BY NextWhole DEF CountInv
<1>1. CASE ReadBack
  BY <1>0, <1>1, ReadBackCount DEF CountInv
<1>2. CASE SendChunk
  BY <1>0, <1>2, SendChunkCount DEF CountInv
<1>3. CASE PutChunk
  BY <1>0, <1>3, PutChunkCount DEF CountInv
<1>4. CASE PutFails
  BY <1>0, <1>4, PutFailsCount DEF CountInv
<1>5. CASE PutRename
  BY <1>0, <1>5, RenameCount DEF CountInv
<1>6. CASE WritesDone \/ Finish \/ PutEnd \/ PutCheck \/ PutCancel
  <2>1. /\ UNCHANGED <<buf, bytesLeft, curr, stream, fd, numOfBytes, short, file>>
        /\ spc' = "ok" => spc = "ok"
    BY <1>6 DEF WritesDone, Finish, PutEnd, PutCheck, PutCancel
  <2>2. Unsent'
    BY <1>0, <1>6 DEF WritesDone, Finish, PutEnd, PutCheck, PutCancel, Unsent
  <2> QED
    BY <1>0, <2>1, <2>2, QuietCount DEF CountInv
<1>7. CASE FetchOpen \/ FetchSend \/ FetchEnd \/ FetchRecv \/ FetchFinish \/ FetchExpire \/ UNCHANGED vars
  <2>1. UNCHANGED <<putVars, file>>
    BY <1>7 DEF FetchOpen, FetchSend, FetchEnd, FetchRecv, FetchFinish, FetchExpire, vars
  <2>2. Unsent'
    BY <1>0, <2>1 DEF putVars, Unsent
  <2> QED
    BY <1>0, <2>1, <2>2, QuietCount DEF CountInv, putVars
<1> QED
  BY <1>1, <1>2, <1>3, <1>4, <1>5, <1>6, <1>7
     DEF Next, ClientPut, ServerPut, ServerGet, ClientGet

\* A client that compares the count of the answer with what it sent knows
\* whether the published file is the one it sent: a short pwrite, which the
\* handler passes over, never adds up to the whole length, also not over
\* several chunks and with an empty last one.
THEOREM CountTellsShortWrites == Spec => []CountHonest
<1>1. CountInv => CountHonest
  <2> SUFFICES ASSUME CountInv, spc = "ok", numOfBytes = Len(buf) PROVE BeginsWith(file, buf)
    BY DEF CountHonest
  <2>1. numOfBytes \in Nat /\ Taken \in Nat /\ Taken <= Len(buf)
    BY CountRange
  <2>2. short \in BOOLEAN /\ (short = TRUE => numOfBytes < Taken) /\ (numOfBytes > 0 => fd = TRUE)
    BY DEF CountInv, WholeInv, Types, Counts
  <2>3. ~ (numOfBytes < Taken)
    BY <2>1
  <2>4. short = FALSE
    BY <2>2, <2>3
  <2>5. numOfBytes > 0
    <3>1. buf # <<>> /\ buf \in Seq(Int)
      BY DEF CountInv, WholeInv, Inv, Shape, Unsent
    <3> QED
      BY <3>1
  <2> QED
    BY <2>2, <2>4, <2>5 DEF CountInv, Delivered
<1> QED
  BY <1>1, InitCount, NextCount, PTL DEF Spec

-----------------------------------------------------------------------------
(* Fetches.                                                                *)

\* path and path.TMP are sequences of bytes, or not there.
Stored == {tmp, file} \subseteq Seq(Int) \cup {None}

LEMMA PwriteSeq ==
    ASSUME NEW f \in Seq(Int), NEW data \in Seq(Int), NEW n \in Nat
    PROVE  Pwrite(f, data, n) \in Seq(Int)
<1> DEFINE L == IF n + Len(data) > Len(f) /\ data # <<>> THEN n + Len(data) ELSE Len(f)
           g == Pwrite(f, data, n)
<1>1. L \in Nat
  OBVIOUS
<1>2. g = [i \in 1 .. L |-> IF i - n \in 1 .. Len(data) THEN data[i - n]
                            ELSE IF i <= Len(f) THEN f[i] ELSE Hole]
  BY DEF Pwrite
<1>3. ASSUME NEW i \in 1 .. L PROVE g[i] \in Int
  <2>1. CASE i - n \in 1 .. Len(data)
    <3>1. g[i] = data[i - n]
      BY <1>2, <2>1
    <3> QED
      BY <2>1, <3>1
  <2>2. CASE i - n \notin 1 .. Len(data)
    <3>1. g[i] = IF i <= Len(f) THEN f[i] ELSE 0
      BY <1>2, <2>2 DEF Hole
    <3>2. i <= Len(f) => f[i] \in Int
      BY <1>1
    <3> QED
      BY <3>1, <3>2
  <2> QED
    BY <2>1, <2>2
<1> HIDE DEF g, L
<1>4. g = [i \in 1 .. L |-> g[i]]
  BY <1>2
<1>5. g \in Seq(Int)
  BY <1>1, <1>3, <1>4, FunctionIsSeq
<1> QED
  BY <1>5 DEF g

LEMMA StoredInit == Init => Stored
<1> SUFFICES ASSUME Init PROVE Stored
  OBVIOUS
<1>1. \A n \in Nat : \A b \in Int : Same(n, b) \in Seq(Int)
  BY DEF Same
<1>2. tmp \in Seq(Int) \cup {None}
  BY <1>1, SizesAssumption DEF Init, Stale
<1>3. file \in Seq(Int) \cup {None}
  BY <1>1, SizesAssumption DEF Init, Old
<1> QED
  BY <1>2, <1>3 DEF Stored

LEMMA StoredStep ==
    ASSUME CountInv, Stored, [Next]_vars
    PROVE  Stored'
<1>1. CASE PutChunk
  <2>1. PICK res \in {Head(stream).size} \cup 1 .. Head(stream).size - 1 : PutWrite(Head(stream), res)
    BY <1>1 DEF PutChunk
  <2>2. stream \in Seq(Message) /\ stream # <<>> /\ file' = file /\ Head(stream) = stream[1]
    BY <1>1 DEF PutChunk, CountInv, WholeInv, Inv, Shape
  <2>3. PICK m \in Message : m = Head(stream)
    BY <2>2
  <2>4. m.size \in Nat /\ m.buf \in Seq(Int) /\ m.size = Len(m.buf)
    BY DEF Message
  <2>5. m.offset \in Nat
    <3>1. Ordered(stream, Sent) /\ 1 \in 1 .. Len(stream)
      BY <2>2 DEF CountInv, Counts
    <3> QED
      BY <2>2, <2>3, <3>1 DEF Ordered
  <2>6. SubSeq(m.buf, 1, res) \in Seq(Int)
    <3>1. res \in Int /\ res <= Len(m.buf)
      BY <2>3, <2>4
    <3>2. \A i \in 1 .. res : m.buf[i] \in Int
      BY <2>4, <3>1
    <3> QED
      BY <3>1, <3>2, SubSeqProperties
  <2>7. OpenTmp \in Seq(Int)
    BY DEF OpenTmp, Stored
  <2>8. tmp' \in Seq(Int)
    <3>1. tmp' = Pwrite(OpenTmp, SubSeq(m.buf, 1, res), m.offset)
      BY <2>1, <2>3 DEF PutWrite
    <3> QED
      BY <2>5, <2>6, <2>7, <3>1, PwriteSeq
  <2> QED
    BY <2>2, <2>8 DEF Stored
<1>2. CASE PutFails
  <2>1. OpenTmp \in Seq(Int)
    BY DEF OpenTmp, Stored
  <2> QED
    BY <1>2, <2>1 DEF PutFails, Stored
<1>3. CASE PutRename
  BY <1>3 DEF PutRename, Stored
<1>4. CASE ReadBack \/ SendChunk \/ WritesDone \/ Finish \/ PutEnd \/ PutCheck \/ PutCancel
  BY <1>4 DEF ReadBack, SendChunk, WritesDone, Finish, PutEnd, PutCheck, PutCancel, Stored
<1>5. CASE FetchOpen \/ FetchSend \/ FetchEnd \/ FetchRecv \/ FetchFinish \/ FetchExpire \/ UNCHANGED vars
  BY <1>5 DEF FetchOpen, FetchSend, FetchEnd, FetchRecv, FetchFinish, FetchExpire, vars, putVars, Stored
<1> QED
  BY <1>1, <1>2, <1>3, <1>4, <1>5 DEF Next, ClientPut, ServerPut, ServerGet, ClientGet

\* The client has the first bytes of s, and the replies under way are the next
\* ones, up to the n-th: reply i holds those from o[i] + 1 to o[i + 1].
FollowsBy(o, g, rs, s, n) ==
    /\ g \in Seq(Int) /\ rs \in Seq(Seq(Int)) /\ s \in Seq(Int)
    /\ o \in [1 .. Len(rs) + 1 -> Nat]
    /\ o[1] = Len(g) /\ o[Len(rs) + 1] = n /\ n <= Len(s)
    /\ \A i \in 1 .. Len(g) : g[i] = s[i]
    /\ \A i \in 1 .. Len(rs) : /\ o[i] + Len(rs[i]) = o[i + 1]
                               /\ \A j \in 1 .. Len(rs[i]) : rs[i][j] = s[o[i] + j]

Follows(g, rs, s, n) == \E o : FollowsBy(o, g, rs, s, n)

LEMMA FollowsNone ==
    ASSUME NEW s \in Seq(Int)
    PROVE  Follows(<<>>, <<>>, s, 0)
<1> DEFINE o == [i \in 1 .. 1 |-> 0]
<1>1. Len(<<>>) = 0 /\ 0 + 1 = 1 /\ <<>> \in Seq(Int) /\ <<>> \in Seq(Seq(Int))
  OBVIOUS
<1>2. FollowsBy(o, <<>>, <<>>, s, 0)
  BY <1>1 DEF FollowsBy
<1> QED
  BY <1>2 DEF Follows

\* Another reply, with the bytes that come next.
LEMMA FollowsAppend ==
    ASSUME NEW g, NEW rs, NEW s, NEW n \in Nat, Follows(g, rs, s, n),
           NEW c \in Seq(Int), n + Len(c) <= Len(s), \A j \in 1 .. Len(c) : c[j] = s[n + j]
    PROVE  Follows(g, Append(rs, c), s, n + Len(c))
<1>1. PICK o : FollowsBy(o, g, rs, s, n)
  BY DEF Follows
<1>2. /\ g \in Seq(Int) /\ rs \in Seq(Seq(Int)) /\ s \in Seq(Int)
      /\ o \in [1 .. Len(rs) + 1 -> Nat] /\ o[1] = Len(g) /\ o[Len(rs) + 1] = n
      /\ \A i \in 1 .. Len(g) : g[i] = s[i]
      /\ \A i \in 1 .. Len(rs) : /\ o[i] + Len(rs[i]) = o[i + 1]
                                 /\ \A j \in 1 .. Len(rs[i]) : rs[i][j] = s[o[i] + j]
  BY <1>1 DEF FollowsBy
<1>3. PICK k \in Nat : k = Len(rs)
  BY <1>2
<1> DEFINE a == Append(rs, c)
           q == [i \in 1 .. k + 2 |-> IF i <= k + 1 THEN o[i] ELSE n + Len(c)]
<1>4. /\ a \in Seq(Seq(Int)) /\ Len(a) = k + 1 /\ a[k + 1] = c /\ \A i \in 1 .. k : a[i] = rs[i]
  BY <1>2, <1>3, AppendProperties
<1>5. /\ q \in [1 .. (k + 1) + 1 -> Nat] /\ q[(k + 1) + 1] = n + Len(c)
      /\ \A i \in 1 .. k + 1 : q[i] = o[i]
  <2>1. (k + 1) + 1 = k + 2 /\ k + 2 \in 1 .. k + 2 /\ ~ (k + 2 <= k + 1)
    OBVIOUS
  <2>2. \A i \in 1 .. k + 2 : q[i] \in Nat
    <3>1. \A i \in 1 .. k + 2 : i <= k + 1 => i \in 1 .. k + 1
      OBVIOUS
    <3>2. n + Len(c) \in Nat
      OBVIOUS
    <3> QED
      BY <1>2, <1>3, <3>1, <3>2
  <2> QED
    BY <2>1, <2>2
<1> HIDE DEF a, q
<1>6. ASSUME NEW i \in 1 .. k + 1
      PROVE  /\ q[i] + Len(a[i]) = q[i + 1]
             /\ \A j \in 1 .. Len(a[i]) : a[i][j] = s[q[i] + j]
  <2>1. CASE i = k + 1
    <3>1. a[i] = c /\ q[i] = n /\ q[i + 1] = n + Len(c)
      BY <1>2, <1>3, <1>4, <1>5, <2>1
    <3> QED
      BY <3>1
  <2>2. CASE i # k + 1
    <3>1. i \in 1 .. k /\ i + 1 \in 1 .. k + 1
      BY <2>2
    <3>2. a[i] = rs[i] /\ q[i] = o[i] /\ q[i + 1] = o[i + 1]
      BY <1>4, <1>5, <3>1
    <3> QED
      BY <1>2, <1>3, <3>1, <3>2, ZenonT(60)
  <2> QED
    BY <2>1, <2>2
<1>7. q[1] = Len(g)
  BY <1>2, <1>5
<1>8. FollowsBy(q, g, a, s, n + Len(c))
  BY <1>2, <1>4, <1>5, <1>6, <1>7 DEF FollowsBy
<1> QED
  BY <1>8 DEF Follows, a

\* The client appends the first reply.
LEMMA FollowsTake ==
    ASSUME NEW g, NEW rs, rs # <<>>, NEW s, NEW n, Follows(g, rs, s, n)
    PROVE  Follows(g \o Head(rs), Tail(rs), s, n)
<1>1. PICK o : FollowsBy(o, g, rs, s, n)
  BY DEF Follows
<1>2. /\ g \in Seq(Int) /\ rs \in Seq(Seq(Int)) /\ s \in Seq(Int)
      /\ o \in [1 .. Len(rs) + 1 -> Nat] /\ o[1] = Len(g) /\ o[Len(rs) + 1] = n /\ n <= Len(s)
      /\ \A i \in 1 .. Len(g) : g[i] = s[i]
      /\ \A i \in 1 .. Len(rs) : /\ o[i] + Len(rs[i]) = o[i + 1]
                                 /\ \A j \in 1 .. Len(rs[i]) : rs[i][j] = s[o[i] + j]
  BY <1>1 DEF FollowsBy
<1>3. PICK k \in Nat : Len(rs) = k + 1
  <2>1. Len(rs) - 1 \in Nat /\ Len(rs) = (Len(rs) - 1) + 1
    BY <1>2
  <2> QED
    BY <2>1
<1> DEFINE a == Tail(rs)
           c == Head(rs)
           h == g \o c
           q == [i \in 1 .. k + 1 |-> o[i + 1]]
<1>4. /\ a \in Seq(Seq(Int)) /\ Len(a) = k /\ \A i \in 1 .. k : a[i] = rs[i + 1]
      /\ c \in Seq(Int) /\ c = rs[1]
  BY <1>2, <1>3, HeadTailProperties
<1>5. /\ q \in [1 .. k + 1 -> Nat] /\ \A i \in 1 .. k + 1 : q[i] = o[i + 1]
  BY <1>2, <1>3
<1>6. /\ o[1] + Len(c) = o[1 + 1] /\ \A j \in 1 .. Len(c) : c[j] = s[o[1] + j]
  <2>1. 1 \in 1 .. Len(rs)
    BY <1>3
  <2> QED
    BY <1>2, <1>4, <2>1, ZenonT(60)
<1>7. /\ h \in Seq(Int) /\ Len(h) = Len(g) + Len(c)
      /\ \A i \in 1 .. Len(g) : h[i] = g[i]
      /\ \A i \in Len(g) + 1 .. Len(g) + Len(c) : h[i] = c[i - Len(g)]
  <2> HIDE DEF c
  <2> QED
    BY <1>2, <1>4, ConcatProperties, SMTT(60)
<1> HIDE DEF a, c, h, q
<1>8. ASSUME NEW i \in 1 .. Len(h) PROVE h[i] = s[i]
  <2>1. Len(g) \in Nat /\ Len(c) \in Nat
    BY <1>2, <1>4
  <2>2. CASE i \in 1 .. Len(g)
    BY <1>2, <1>7, <2>2
  <2>3. CASE i \in Len(g) + 1 .. Len(g) + Len(c)
    <3>1. i - Len(g) \in 1 .. Len(c) /\ Len(g) + (i - Len(g)) = i
      BY <2>1, <2>3
    <3>2. h[i] = c[i - Len(g)] /\ c[i - Len(g)] = s[o[1] + (i - Len(g))]
      BY <1>6, <1>7, <2>3, <3>1
    <3> QED
      BY <1>2, <3>1, <3>2
  <2> QED
    BY <1>7, <2>1, <2>2, <2>3
<1>9. ASSUME NEW i \in 1 .. k
      PROVE  q[i] + Len(a[i]) = q[i + 1] /\ \A j \in 1 .. Len(a[i]) : a[i][j] = s[q[i] + j]
  <2>1. i + 1 \in 1 .. Len(rs) /\ i \in 1 .. k + 1 /\ i + 1 \in 1 .. k + 1
    BY <1>3
  <2>2. a[i] = rs[i + 1] /\ q[i] = o[i + 1] /\ q[i + 1] = o[(i + 1) + 1]
    BY <1>4, <1>5, <2>1
  <2> QED
    BY <1>2, <2>1, <2>2
<1>10. q[1] = Len(h) /\ q[k + 1] = n
  <2>1. 1 \in 1 .. k + 1 /\ k + 1 \in 1 .. k + 1
    OBVIOUS
  <2> QED
    BY <1>2, <1>3, <1>5, <1>6, <1>7, <2>1
<1>11. FollowsBy(q, h, a, s, n)
  BY <1>2, <1>4, <1>5, <1>7, <1>8, <1>9, <1>10 DEF FollowsBy
<1> QED
  BY <1>11 DEF Follows, a, h, c

\* When nothing is under way any more the client has them all.
LEMMA FollowsAll ==
    ASSUME NEW g, NEW s, Follows(g, <<>>, s, Len(s))
    PROVE  g = s
<1>1. PICK o : FollowsBy(o, g, <<>>, s, Len(s))
  BY DEF Follows
<1>2. /\ g \in Seq(Int) /\ s \in Seq(Int) /\ o[1] = Len(g) /\ o[Len(<<>>) + 1] = Len(s)
      /\ \A i \in 1 .. Len(g) : g[i] = s[i]
  BY <1>1 DEF FollowsBy
<1>3. Len(g) = Len(s)
  BY <1>2
<1> QED
  BY <1>2, <1>3, SeqEqual

FetchPC == {"idle", "write", "ok", "failed"}

\* What was sent and not yet appended follows what the client has, as long as
\* the call goes on; the handler that is done has sent the whole file.
FetchInv ==
    /\ fpc \in FetchPC /\ fret \in {None, 0, -1}
    /\ source \in Seq(Int) \cup {None} /\ bytesRead \in Nat /\ bytesRead < Half
    /\ fpc = "idle" => got = <<>> /\ replies = <<>> /\ bytesRead = 0 /\ fret = None
    /\ fpc = "write" => source \in Seq(Int) /\ ToInt(Len(source)) > 0
    /\ fpc = "write" /\ fret = None => Follows(got, replies, Buffer, Least(bytesRead, Len(Buffer)))
    /\ fpc = "ok" /\ fret = None /\ source # None /\ Len(source) < 2 * Half =>
           Follows(got, replies, source, Len(source))
    /\ FetchExact

LEMMA BufferFacts ==
    ASSUME NEW f \in Seq(Int), ToInt(Len(f)) > 0
    PROVE  /\ SubSeq(f, 1, ToInt(Len(f))) \in Seq(Int)
           /\ Len(SubSeq(f, 1, ToInt(Len(f)))) \in Nat
           /\ Len(SubSeq(f, 1, ToInt(Len(f)))) > 0
           /\ Len(SubSeq(f, 1, ToInt(Len(f)))) < Half
           /\ Len(f) < 2 * Half => SubSeq(f, 1, ToInt(Len(f))) = f
<1> DEFINE n == ToInt(Len(f))
<1>1. Length(f) = n /\ n \in Nat /\ n < Half /\ n <= Len(f) /\ n > 0
  <2>1. Length(f) = n
    BY DEF Length
  <2> QED
    BY <2>1, LengthFacts
<1>2. Len(f) < 2 * Half => n = Len(f)
  BY <1>1, LengthWhole
<1> HIDE DEF n
<1>3. SubSeq(f, 1, n) \in Seq(Int) /\ Len(SubSeq(f, 1, n)) = n
  <2>1. \A i \in 1 .. n : f[i] \in Int
    BY <1>1
  <2>2. /\ SubSeq(f, 1, n) \in Seq(Int)
        /\ Len(SubSeq(f, 1, n)) = IF 1 <= n THEN n - 1 + 1 ELSE 0
    BY <1>1, <2>1, SubSeqProperties
  <2> QED
    BY <1>1, <2>2
<1>4. n = Len(f) => SubSeq(f, 1, n) = f
  BY SubSeqFull
<1> QED
  BY <1>1, <1>2, <1>3, <1>4 DEF n

\* Only an empty file, of those that are not too long, has length 0 as an int.
LEMMA ZeroLength ==
    ASSUME NEW f \in Seq(Int), ToInt(Len(f)) = 0, Len(f) < 2 * Half
    PROVE  f = <<>>
<1>1. Len(f) \in Nat /\ Half \in Nat
  BY SizesAssumption
<1>2. Len(f) < Half
  BY <1>1, HighIsNegative
<1>3. Len(f) = 0
  BY <1>1, <1>2, ToIntFacts
<1> QED
  BY <1>3

LEMMA FetchInit == Init => FetchInv
<1> SUFFICES ASSUME Init PROVE FetchInv
  OBVIOUS
<1>1. /\ fpc = "idle" /\ source = None /\ bytesRead = 0 /\ replies = <<>> /\ got = <<>> /\ fret = None
  BY DEF Init
<1>2. None # 0 /\ Half \in Nat /\ Half > 0
  BY NoneAssumption, SizesAssumption
<1> QED
  BY <1>1, <1>2 DEF FetchInv, FetchPC, FetchExact

LEMMA FetchOpenInv ==
    ASSUME FetchInv, Stored, FetchOpen
    PROVE  FetchInv'
<1>1. /\ fpc = "idle" /\ source' = file /\ UNCHANGED <<bytesRead, got, fret>>
      /\ got = <<>> /\ replies = <<>> /\ bytesRead = 0 /\ fret = None
  BY DEF FetchOpen, FetchInv
<1>2. file \in Seq(Int) \cup {None} /\ None # 0 /\ None \notin Seq(Int)
  BY NoneAssumption DEF Stored
<1>3. FetchExact'
  BY <1>1, <1>2 DEF FetchExact
<1>4. CASE file = None
  <2>1. fpc' = "ok"
    BY <1>4 DEF FetchOpen
  <2> QED
    BY <1>1, <1>3, <1>4, <2>1 DEF FetchInv, FetchPC
<1>5. CASE file # None
  <2>1. file \in Seq(Int) /\ ToInt(Len(file)) \in Int
    BY <1>2, <1>5, ToIntFacts
  <2>2. CASE ToInt(Len(file)) = 0
    <3>1. fpc' = "ok" /\ replies' = << <<>> >>
      BY <1>5, <2>2 DEF FetchOpen
    <3>2. Len(file) < 2 * Half => Follows(<<>>, << <<>> >>, file, Len(file))
      <4> SUFFICES ASSUME Len(file) < 2 * Half PROVE Follows(<<>>, << <<>> >>, file, Len(file))
        OBVIOUS
      <4>1. file = <<>>
        BY <2>1, <2>2, ZeroLength
      <4>2. Follows(<<>>, <<>>, file, 0)
        BY <2>1, FollowsNone
      <4>3. <<>> \in Seq(Int) /\ Len(<<>>) = 0 /\ 0 + 0 <= Len(file) /\ 0 + 0 = 0 /\ 0 \in Nat
        BY <4>1
      <4>4. PICK c \in Seq(Int) : c = <<>> /\ Len(c) = 0
        BY <4>3
      <4>5. Follows(<<>>, Append(<<>>, c), file, 0 + Len(c))
        <5>1. 0 + Len(c) <= Len(file) /\ \A j \in 1 .. Len(c) : c[j] = file[0 + j]
          BY <4>3, <4>4
        <5> QED
          BY <4>2, <4>3, <5>1, FollowsAppend
      <4>6. Append(<<>>, c) = << <<>> >> /\ 0 + Len(c) = Len(file)
        BY <4>1, <4>4
      <4> QED
        BY <4>5, <4>6
    <3> QED
      BY <1>1, <1>3, <2>1, <3>1, <3>2 DEF FetchInv, FetchPC
  <2>3. CASE ToInt(Len(file)) < 0
    <3>1. fpc' = "failed"
      BY <1>5, <2>1, <2>3 DEF FetchOpen
    <3> QED
      BY <1>1, <1>3, <2>1, <3>1 DEF FetchInv, FetchPC
  <2>4. CASE ToInt(Len(file)) > 0
    <3>1. fpc' = "write" /\ replies' = replies
      BY <1>5, <2>1, <2>4 DEF FetchOpen
    <3>2. Buffer' \in Seq(Int) /\ Len(Buffer') \in Nat
      BY <1>1, <2>1, <2>4, BufferFacts DEF Buffer
    <3>3. Follows(<<>>, <<>>, Buffer', 0) /\ Least(0, Len(Buffer')) = 0
      BY <3>2, FollowsNone DEF Least
    <3>4. Follows(got', replies', Buffer', Least(bytesRead', Len(Buffer')))
      BY <1>1, <3>1, <3>3
    <3> QED
      BY <1>1, <1>3, <2>1, <2>4, <3>1, <3>4 DEF FetchInv, FetchPC
  <2> QED
    BY <2>1, <2>2, <2>3, <2>4
<1> QED
  BY <1>4, <1>5

\* The chunk that the handler writes next continues what it has written; the
\* sum can leave the range of int only with the last chunk.
LEMMA FetchSendInv ==
    ASSUME FetchInv, FetchSend
    PROVE  FetchInv'
<1>1. PICK B : B = Buffer
  OBVIOUS
<1>2. PICK L \in Nat : L = Len(B) /\ B \in Seq(Int) /\ L > 0 /\ L < Half /\ (Len(source) < 2 * Half => B = source)
  BY <1>1, BufferFacts DEF FetchSend, FetchInv, Buffer
<1>3. PICK minSize : minSize = Least(CHUNK_SIZE, L)
  OBVIOUS
<1>4. /\ fpc = "write" /\ bytesRead < L /\ UNCHANGED <<source, got, fret>>
      /\ IF fret # None THEN UNCHANGED replies
         ELSE replies' = Append(replies, Substr(B, bytesRead, minSize))
      /\ IF bytesRead + minSize < Half
         THEN bytesRead' = bytesRead + minSize /\ UNCHANGED fpc
         ELSE fpc' \in {"ok", "failed"} /\ UNCHANGED bytesRead
  BY <1>1, <1>2, <1>3 DEF FetchSend
<1>5. minSize \in Nat /\ minSize > 0 /\ Half \in Nat /\ bytesRead \in Nat /\ bytesRead < Half
  BY <1>2, <1>3, SizesAssumption DEF Least, FetchInv
<1>6. PICK n \in Nat : /\ n = Least(bytesRead + minSize, L) /\ n > bytesRead /\ n <= L
                       /\ Least(bytesRead, L) = bytesRead
                       /\ bytesRead + minSize >= Half => n = L
  BY <1>2, <1>4, <1>5 DEF Least
<1>7. PICK c : c = Substr(B, bytesRead, minSize)
  OBVIOUS
<1>8. c \in Seq(Int) /\ Len(c) = n - bytesRead /\ \A j \in 1 .. Len(c) : c[j] = B[bytesRead + j]
  <2>1. c = SubSeq(B, bytesRead + 1, n)
    BY <1>2, <1>6, <1>7 DEF Substr
  <2>2. bytesRead + 1 \in Int /\ n \in Int /\ \A i \in bytesRead + 1 .. n : B[i] \in Int
    BY <1>2, <1>5, <1>6
  <2>3. /\ SubSeq(B, bytesRead + 1, n) \in Seq(Int)
        /\ Len(SubSeq(B, bytesRead + 1, n)) = IF bytesRead + 1 <= n THEN n - (bytesRead + 1) + 1 ELSE 0
        /\ \A i \in 1 .. n - (bytesRead + 1) + 1 :
               SubSeq(B, bytesRead + 1, n)[i] = B[(bytesRead + 1) + i - 1]
    BY <2>2, SubSeqProperties
  <2>4. n - (bytesRead + 1) + 1 = n - bytesRead /\ bytesRead + 1 <= n
    BY <1>5, <1>6
  <2>5. \A i \in 1 .. n - bytesRead : (bytesRead + 1) + i - 1 = bytesRead + i
    BY <1>5, <1>6
  <2> QED
    BY <2>1, <2>3, <2>4, <2>5
<1>9. fret = None => Follows(got', replies', B, n)
  <2> SUFFICES ASSUME fret = None PROVE Follows(got', replies', B, n)
    OBVIOUS
  <2>1. Follows(got, replies, B, bytesRead)
    BY <1>1, <1>2, <1>4, <1>6 DEF FetchInv
  <2>2. bytesRead + Len(c) = n
    BY <1>5, <1>6, <1>8
  <2>3. Follows(got, Append(replies, c), B, bytesRead + Len(c))
    BY <1>2, <1>5, <1>6, <1>8, <2>1, <2>2, FollowsAppend
  <2> QED
    BY <1>4, <1>7, <2>2, <2>3
<1>10. /\ fret' \in {None, 0, -1} /\ source' \in Seq(Int) /\ ToInt(Len(source')) > 0 /\ Buffer' = B
       /\ FetchExact' /\ bytesRead' \in Nat /\ bytesRead' < Half
  <2>1. source \in Seq(Int) /\ ToInt(Len(source)) > 0 /\ fret \in {None, 0, -1} /\ FetchExact
    BY <1>4 DEF FetchInv
  <2>2. Buffer' = B /\ FetchExact'
    BY <1>1, <1>4, <2>1 DEF Buffer, FetchExact
  <2>3. bytesRead' \in Nat /\ bytesRead' < Half
    BY <1>4, <1>5
  <2> QED
    BY <1>4, <2>1, <2>2, <2>3
<1>11. CASE bytesRead + minSize < Half
  <2>1. fpc' = "write" /\ bytesRead' = bytesRead + minSize
    BY <1>4, <1>11
  <2>2. fret' = None => Follows(got', replies', Buffer', Least(bytesRead', Len(Buffer')))
    BY <1>2, <1>4, <1>6, <1>9, <1>10, <2>1
  <2> QED
    BY <1>10, <2>1, <2>2 DEF FetchInv, FetchPC
<1>12. CASE ~ (bytesRead + minSize < Half)
  <2>1. fpc' \in {"ok", "failed"} /\ n = L
    BY <1>4, <1>5, <1>6, <1>12
  <2>2. fret' = None /\ Len(source') < 2 * Half => Follows(got', replies', source', Len(source'))
    BY <1>2, <1>4, <1>9, <2>1
  <2> QED
    BY <1>10, <2>1, <2>2 DEF FetchInv, FetchPC
<1> QED
  BY <1>11, <1>12

LEMMA FetchEndInv ==
    ASSUME FetchInv, FetchEnd
    PROVE  FetchInv'
<1>1. /\ fpc = "write" /\ fpc' = "ok" /\ bytesRead >= Len(Buffer)
      /\ UNCHANGED <<source, bytesRead, replies, got, fret>>
  BY DEF FetchEnd
<1>2. /\ source \in Seq(Int) /\ ToInt(Len(source)) > 0 /\ bytesRead \in Nat /\ bytesRead < Half
      /\ fret \in {None, 0, -1} /\ FetchExact
  BY <1>1 DEF FetchInv
<1>3. Len(Buffer) \in Nat /\ (Len(source) < 2 * Half => Buffer = source)
  BY <1>2, BufferFacts DEF Buffer
<1>4. Least(bytesRead, Len(Buffer)) = Len(Buffer)
  BY <1>1, <1>2, <1>3 DEF Least
<1>5. fret = None => Follows(got, replies, Buffer, Len(Buffer))
  BY <1>1, <1>4 DEF FetchInv
<1>6. fret = None /\ Len(source) < 2 * Half => Follows(got, replies, source, Len(source))
  BY <1>3, <1>5
<1>7. FetchExact'
  BY <1>1, <1>2 DEF FetchExact
<1> QED
  BY <1>1, <1>2, <1>6, <1>7 DEF FetchInv, FetchPC

LEMMA FetchRecvInv ==
    ASSUME FetchInv, FetchRecv
    PROVE  FetchInv'
<1>1. /\ fpc # "idle" /\ fret = None /\ replies # <<>> /\ got' = got \o Head(replies)
      /\ replies' = Tail(replies) /\ UNCHANGED <<fpc, source, bytesRead, fret>>
  BY DEF FetchRecv
<1>2. FetchExact'
  BY <1>1, NoneAssumption DEF FetchExact
<1>3. Buffer' = Buffer
  BY <1>1 DEF Buffer
<1>4. fpc = "write" => Follows(got', replies', Buffer, Least(bytesRead, Len(Buffer)))
  BY <1>1, FollowsTake DEF FetchInv
<1>5. fpc = "ok" /\ source # None /\ Len(source) < 2 * Half => Follows(got', replies', source, Len(source))
  BY <1>1, FollowsTake DEF FetchInv
<1> QED
  BY <1>1, <1>2, <1>3, <1>4, <1>5 DEF FetchInv

LEMMA FetchOverInv ==
    ASSUME FetchInv, FetchFinish \/ FetchExpire
    PROVE  FetchInv'
<1>1. /\ fpc # "idle" /\ fret = None /\ UNCHANGED <<fpc, source, bytesRead, replies, got>>
      /\ fret' \in {0, -1}
      /\ fret' = 0 => fpc = "ok" /\ replies = <<>> /\ source # None
  BY DEF FetchFinish, FetchExpire
<1>2. fret' # None
  BY <1>1, NoneAssumption
<1>3. FetchExact'
  <2> SUFFICES ASSUME fret' = 0, Len(source) < 2 * Half PROVE got = source
    BY <1>1 DEF FetchExact
  <2>1. Follows(got, <<>>, source, Len(source))
    BY <1>1 DEF FetchInv
  <2> QED
    BY <2>1, FollowsAll
<1> QED
  BY <1>1, <1>2, <1>3 DEF FetchInv

LEMMA FetchQuiet ==
    ASSUME FetchInv, UNCHANGED getVars
    PROVE  FetchInv'
BY DEF FetchInv, getVars, FetchExact, Buffer

LEMMA FetchStep == CountInv /\ Stored /\ FetchInv /\ [Next]_vars => FetchInv'
<1> SUFFICES ASSUME CountInv, Stored, FetchInv, [Next]_vars PROVE FetchInv'
  OBVIOUS
<1>1. CASE FetchOpen \/ FetchSend \/ FetchEnd
  BY <1>1, FetchOpenInv, FetchSendInv, FetchEndInv
<1>2. CASE FetchRecv \/ FetchFinish \/ FetchExpire
  BY <1>2, FetchRecvInv, FetchOverInv
<1>3. CASE ReadBack \/ SendChunk \/ WritesDone \/ Finish \/ PutChunk \/ PutFails
  BY <1>3, FetchQuiet DEF ReadBack, SendChunk, WritesDone, Finish, PutChunk, PutFails
<1>4. CASE PutEnd \/ PutCheck \/ PutRename \/ PutCancel \/ UNCHANGED vars
  BY <1>4, FetchQuiet DEF PutEnd, PutCheck, PutRename, PutCancel, vars
<1> QED
  BY <1>1, <1>2, <1>3, <1>4 DEF Next, ClientPut, ServerPut, ServerGet, ClientGet

\* A fetch that succeeds has the file whole, byte for byte and in order, as it
\* was when the handler opened it: for every chunk size, window and width of
\* int, whatever is uploaded meanwhile, and also where the position of the
\* handler's loop overflows.
THEOREM FetchAlwaysExact == Spec => []FetchExact
<1>1. Init => CountInv /\ Stored /\ FetchInv
  BY InitCount, StoredInit, FetchInit
<1>2. (CountInv /\ Stored /\ FetchInv) /\ [Next]_vars => (CountInv /\ Stored /\ FetchInv)'
  BY NextCount, StoredStep, FetchStep
<1>3. FetchInv => FetchExact
  BY DEF FetchInv
<1> QED
  BY <1>1, <1>2, <1>3, PTL DEF Spec

-----------------------------------------------------------------------------
\* The places of the two ends, and the windows of the two streams.
Windows ==
    /\ spc \in {"read", "closed", "rename", "ok", "err", "cancelled"}
    /\ ret \in {None, "ok", "err"}
    /\ Len(stream) <= Window
    /\ replies \in Seq(Seq(Int)) /\ Len(replies) <= Window

LEMMA WindowsInit == Init => Windows
<1> SUFFICES ASSUME Init PROVE Windows
  OBVIOUS
<1>1. Window \in Nat /\ Window >= 1
  BY SizesAssumption
<1>2. stream = <<>> /\ replies = <<>> /\ spc = "read" /\ ret = None
  BY DEF Init
<1> QED
  BY <1>1, <1>2 DEF Windows

\* Every chunk that is sent finds room; taking one makes room.
LEMMA WindowsPut ==
    ASSUME Inv, Windows, ClientPut \/ ServerPut \/ PutCancel \/ UNCHANGED vars
    PROVE  Windows'
<1>1. Window \in Nat /\ stream \in Seq(Message)
  BY SizesAssumption DEF Inv, Shape
<1>2. UNCHANGED replies
  BY DEF ClientPut, ServerPut, PutCancel, ReadBack, SendChunk, WritesDone, Finish, PutChunk,
         PutFails, PutEnd, PutCheck, PutRename, getVars, vars
<1>3. spc' \in {"read", "closed", "rename", "ok", "err", "cancelled"}
  BY DEF Windows, ClientPut, ServerPut, PutCancel, ReadBack, SendChunk, WritesDone, Finish,
         PutChunk, PutWrite, PutFails, PutEnd, PutCheck, PutRename, putVars, vars
<1>4. ret' \in {None, "ok", "err"}
  BY DEF Windows, ClientPut, ServerPut, PutCancel, ReadBack, SendChunk, WritesDone, Finish,
         PutChunk, PutFails, PutEnd, PutCheck, PutRename, putVars, vars
<1>5. Len(stream') <= Window
  <2>1. CASE SendChunk
    <3>1. CASE UNCHANGED stream
      BY <3>1 DEF Windows
    <3>2. CASE Len(stream) < Window /\ stream' = Append(stream, Chunk)
      <4>1. Len(stream') = Len(stream) + 1
        BY <1>1, <3>2
      <4> QED
        BY <1>1, <3>2, <4>1
    <3> QED
      BY <2>1, <3>1, <3>2 DEF SendChunk
  <2>2. CASE PutChunk \/ PutFails
    <3>1. stream # <<>> /\ stream' = Tail(stream)
      BY <2>2 DEF PutChunk, PutFails
    <3>2. Len(stream') = Len(stream) - 1
      BY <1>1, <3>1
    <3> QED
      BY <1>1, <3>2 DEF Windows
  <2>3. CASE UNCHANGED stream
    BY <2>3 DEF Windows
  <2> QED
    BY <2>1, <2>2, <2>3 DEF ClientPut, ServerPut, PutCancel, ReadBack, WritesDone, Finish,
       PutEnd, PutCheck, PutRename, putVars, vars
<1> QED
  BY <1>2, <1>3, <1>4, <1>5 DEF Windows

LEMMA WindowsGet ==
    ASSUME FetchInv, Windows, FetchOpen \/ ServerGet \/ ClientGet \/ FetchExpire
    PROVE  Windows'
<1>1. Window \in Nat /\ Window >= 1
  BY SizesAssumption
<1>2. UNCHANGED putVars
  BY DEF FetchOpen, ServerGet, ClientGet, FetchSend, FetchEnd, FetchRecv, FetchFinish, FetchExpire
<1>3. UNCHANGED <<spc, ret, stream>>
  BY <1>2 DEF putVars
<1>4. replies' \in Seq(Seq(Int)) /\ Len(replies') <= Window
  <2>1. CASE UNCHANGED replies
    BY <2>1 DEF Windows
  <2>2. CASE FetchOpen
    <3>1. CASE replies' = << <<>> >>
      BY <1>1, <3>1
    <3> QED
      BY <2>1, <2>2, <3>1 DEF FetchOpen
  <2>3. CASE FetchSend
    <3> DEFINE minSize == Least(CHUNK_SIZE, Len(Buffer))
               m == Substr(Buffer, bytesRead, minSize)
    <3>1. Buffer \in Seq(Int)
      BY <2>3, BufferFacts DEF FetchSend, FetchInv, Buffer
    <3>2. bytesRead \in Nat /\ bytesRead < Len(Buffer) /\ CHUNK_SIZE \in Nat /\ CHUNK_SIZE > 0
      BY <2>3, SizesAssumption DEF FetchSend, FetchInv
    <3>3. Len(Buffer) \in Nat /\ minSize \in Nat
      BY <3>1, <3>2 DEF Least
    <3>4. Least(bytesRead + minSize, Len(Buffer)) \in Nat
          /\ Least(bytesRead + minSize, Len(Buffer)) <= Len(Buffer)
      BY <3>2, <3>3 DEF Least
    <3>5. m \in Seq(Int)
      BY <3>1, <3>2, <3>4, SubSeqProperties DEF Substr
    <3>6. CASE Len(replies) < Window /\ replies' = Append(replies, m)
      <4> HIDE DEF m
      <4>1. replies' \in Seq(Seq(Int)) /\ Len(replies') = Len(replies) + 1
        BY <3>5, <3>6, AppendProperties DEF Windows
      <4>2. Len(replies) \in Nat
        BY DEF Windows
      <4> QED
        BY <1>1, <3>6, <4>1, <4>2
    <3> QED
      BY <2>1, <2>3, <3>6 DEF FetchSend
  <2>4. CASE FetchRecv
    <3>1. replies # <<>> /\ replies' = Tail(replies)
      BY <2>4 DEF FetchRecv
    <3>2. replies' \in Seq(Seq(Int)) /\ Len(replies') = Len(replies) - 1
      BY <3>1, HeadTailProperties DEF Windows
    <3>3. Len(replies) \in Nat /\ Len(replies) <= Window
      BY DEF Windows
    <3> QED
      BY <1>1, <3>2, <3>3
  <2> QED
    BY <2>1, <2>2, <2>3, <2>4 DEF ServerGet, ClientGet, FetchEnd, FetchFinish, FetchExpire
<1> QED
  BY <1>3, <1>4 DEF Windows

LEMMA WindowsStep == CountInv /\ FetchInv /\ Windows /\ [Next]_vars => Windows'
<1> SUFFICES ASSUME CountInv, FetchInv, Windows, [Next]_vars PROVE Windows'
  OBVIOUS
<1>1. Inv
  BY DEF CountInv, WholeInv
<1> QED
  BY <1>1, WindowsPut, WindowsGet DEF Next

\* Every counter of the two loops keeps within an int, though the code adds to
\* them past the end of the buffer, and neither stream exceeds its window.
THEOREM TransferTypes == Spec => []TypeOK
<1>1. Init => CountInv /\ Stored /\ FetchInv /\ Windows
  BY InitCount, StoredInit, FetchInit, WindowsInit
<1>2. (CountInv /\ Stored /\ FetchInv /\ Windows) /\ [Next]_vars
      => (CountInv /\ Stored /\ FetchInv /\ Windows)'
  BY NextCount, StoredStep, FetchStep, WindowsStep
<1>3. CountInv /\ FetchInv /\ Windows => TypeOK
  <2> SUFFICES ASSUME CountInv, FetchInv, Windows PROVE TypeOK
    OBVIOUS
  <2>1. Half \in Nat /\ CHUNK_SIZE \in Nat /\ CHUNK_SIZE < Half
    BY SizesAssumption
  <2>2. Inv /\ Ranges /\ Types
    BY DEF CountInv, WholeInv
  <2>3. bytesLeft \in -Half .. Half - 1 /\ curr \in -Half .. Half - 1
    BY <2>1, <2>2 DEF Inv, Shape, Ranges
  <2>4. numOfBytes \in -Half .. Half - 1
    <3>1. numOfBytes \in Nat /\ numOfBytes <= Taken /\ Taken \in Nat /\ Taken <= Len(buf) /\ Len(buf) < Half
      BY CountRange
    <3>2. Len(buf) \in Nat
      BY <2>2 DEF Inv, Shape
    <3> QED
      BY <2>1, <3>1, <3>2
  <2>5. bytesRead \in -Half .. Half - 1
    BY <2>1 DEF FetchInv
  <2>6. fpc \in {"idle", "write", "ok", "failed"} /\ fret \in {None, 0, -1}
    BY DEF FetchInv, FetchPC
  <2>7. cpc \in {"flush", "send", "finish", "done"}
        /\ {writesDone, cancelled, fd, short} \subseteq BOOLEAN
    BY <2>2 DEF Types
  <2> QED
    BY <2>3, <2>4, <2>5, <2>6, <2>7 DEF TypeOK, Windows
<1> QED
  BY <1>1, <1>2, <1>3, PTL DEF Spec
=============================================================================
