------------------------------ MODULE Transfer ------------------------------
(***************************************************************************)
(* The two bulk transfers of the protocol, chunk by chunk:                 *)
(*   - flush or release on a client reads its cached file back and streams *)
(*     it to putFileContents, whose handler writes the chunks into path.TMP*)
(*     and renames it (WiscServer and WiscAFS take a block for a chunk,    *)
(*     and lengths without a width);                                       *)
(*   - getFileContents streams a file of the server to a client.           *)
(* Lengths and offsets are C ints.  The data of a file are the positions   *)
(* of its bytes, so that a chunk out of place shows.                       *)
(*                                                                         *)
(* Other uploads of the path, which share path.TMP, are in WiscServer;     *)
(* here path.TMP is left over from one that ended earlier, at most.        *)
(***************************************************************************)
EXTENDS Integers, Sequences

CONSTANTS
    CHUNK_SIZE,
    Half,        \* an int is in -Half .. Half - 1
    Window,      \* messages that gRPC's flow control lets be under way
    MaxLength,   \* bound: length of a file
    LeftOver,    \* lengths that a path.TMP left over may have
    None         \* no file, or no result yet

ASSUME SizesAssumption ==
    /\ {CHUNK_SIZE, Half, Window} \subseteq Nat \ {0}
    /\ CHUNK_SIZE < Half
    /\ MaxLength \in Nat
    /\ LeftOver \subseteq Nat
ASSUME NoneAssumption == None \notin Seq(Int) \cup Int

Hole == 0        \* the bytes of a hole
Stale == -1      \* bytes of an upload that ended earlier
Old == -2        \* bytes of the file that the server has at first

\* (mutant: no conversion)
ToInt_Wide(n) == n

\* What converting n to int yields.
ToInt(n) == IF n \in -Half .. Half - 1 THEN n ELSE ((n + Half) % (2 * Half)) - Half

Least(a, b) == IF a <= b THEN a ELSE b

Same(n, byte) == [i \in 1 .. n |-> byte]

\* std::string::substr(pos, n) for a pos in the string.
Substr(s, pos, n) == SubSeq(s, pos + 1, Least(pos + n, Len(s)))

\* A file after pwrite(data, offset): a write past its end leaves a hole.
Pwrite(f, data, offset) ==
    [i \in 1 .. (IF offset + Len(data) > Len(f) /\ data # <<>> THEN offset + Len(data) ELSE Len(f)) |->
        IF i - offset \in 1 .. Len(data) THEN data[i - offset]
        ELSE IF i <= Len(f) THEN f[i] ELSE Hole]

BeginsWith(f, s) == Len(s) <= Len(f) /\ \A i \in 1 .. Len(s) : f[i] = s[i]

VARIABLES
    (* flush on the client *)
    local,       \* the cached file
    cpc,         \* where the client is
    buf,         \* what it read back
    bytesLeft,
    curr,
    ret,         \* what putFileContents returned: "ok", "err", or None
    (* putFileContents *)
    stream,      \* chunks under way to the handler
    writesDone,  \* the client ended the stream
    cancelled,   \* the call is cancelled: ServerContext::IsCancelled
    spc,         \* where the handler is
    fd,          \* the handler has opened path.TMP
    numOfBytes,
    tmp,         \* path.TMP, or None
    file,        \* the file at path, or None
    short,       \* some pwrite wrote less than it was given
    (* getFileContents *)
    fpc,         \* where its handler is
    source,      \* the file it opened, or None
    bytesRead,
    replies,     \* chunks under way to the client
    got,         \* what the client has appended
    fret         \* what the client's call returned: 0, -1, or None

putVars == <<local, cpc, buf, bytesLeft, curr, ret, stream, writesDone, cancelled,
             spc, fd, numOfBytes, tmp, short>>
getVars == <<fpc, source, bytesRead, replies, got, fret>>
vars == <<putVars, file, getVars>>

Init ==
    /\ local \in {[i \in 1 .. n |-> i] : n \in 0 .. MaxLength}
    /\ tmp \in {None} \cup {Same(n, Stale) : n \in LeftOver}
    /\ file \in {None} \cup {Same(n, Old) : n \in 0 .. MaxLength}
    /\ cpc = "flush" /\ buf = <<>> /\ bytesLeft = 0 /\ curr = 0 /\ ret = None
    /\ stream = <<>> /\ writesDone = FALSE /\ cancelled = FALSE
    /\ spc = "read" /\ fd = FALSE /\ numOfBytes = 0 /\ short = FALSE
    /\ fpc = "idle" /\ source = None /\ bytesRead = 0 /\ replies = <<>>
    /\ got = <<>> /\ fret = None

-----------------------------------------------------------------------------
(* The client's side of an upload                                          *)

\* (int)is.tellg() > 0 ? (int)is.tellg() : 0
Length(f) == IF ToInt(Len(f)) > 0 THEN ToInt(Len(f)) ELSE 0

\* flush reads the file back; an empty file (or one whose length is not a
\* positive int) is not sent.
ReadBack ==
    /\ cpc = "flush"
    /\ buf' = SubSeq(local, 1, Length(local))
    /\ bytesLeft' = Length(local)
    /\ curr' = 0
    /\ cpc' = IF Length(local) > 0 THEN "send" ELSE "done"
    /\ UNCHANGED <<local, ret, stream, writesDone, cancelled, spc, fd, numOfBytes, tmp, short,
                   file, getVars>>

\* The call is over: the handler returned, or the call was cancelled.
CallEnded == cancelled \/ spc \in {"ok", "err", "cancelled"}

\* (mutant: the size of a full chunk is sent with the last one)
Chunk_FullSize == [buf |-> Substr(buf, curr, Least(CHUNK_SIZE, bytesLeft)),
                   size |-> CHUNK_SIZE,
                   offset |-> curr]

\* The chunk that the client sends next.
Chunk == [buf |-> Substr(buf, curr, Least(CHUNK_SIZE, bytesLeft)),
          size |-> Least(CHUNK_SIZE, bytesLeft),
          offset |-> curr]

\* while (bytesLeft >= 0): a file of a whole number of chunks is followed by
\* an empty one.  writer->Write fails when the call is over.
SendChunk ==
    /\ cpc = "send"
    /\ bytesLeft >= 0
    /\ curr' = ToInt(curr + CHUNK_SIZE)
    /\ bytesLeft' = bytesLeft - CHUNK_SIZE
    /\ IF CallEnded THEN cpc' = "finish" /\ writesDone' = TRUE /\ UNCHANGED stream
       ELSE /\ Len(stream) < Window
            /\ stream' = Append(stream, Chunk)
            /\ UNCHANGED <<cpc, writesDone>>
    /\ UNCHANGED <<local, buf, ret, cancelled, spc, fd, numOfBytes, tmp, short, file, getVars>>

\* (mutant: the client waits for the answer without ending its stream)
WritesDone_Omitted ==
    /\ cpc = "send"
    /\ bytesLeft < 0
    /\ cpc' = "finish"
    /\ UNCHANGED <<local, buf, bytesLeft, curr, ret, stream, writesDone, cancelled, spc, fd,
                   numOfBytes, tmp, short, file, getVars>>

WritesDone ==
    /\ cpc = "send"
    /\ bytesLeft < 0
    /\ cpc' = "finish"
    /\ writesDone' = TRUE
    /\ UNCHANGED <<local, buf, bytesLeft, curr, ret, stream, cancelled, spc, fd, numOfBytes, tmp,
                   short, file, getVars>>

\* writer->Finish with the status of the call; flush goes on with what it says
\* ignored.
Finish ==
    /\ cpc = "finish"
    /\ CallEnded
    /\ cpc' = "done"
    /\ ret' = IF ~ cancelled /\ spc = "ok" THEN "ok" ELSE "err"
    /\ UNCHANGED <<local, buf, bytesLeft, curr, stream, writesDone, cancelled, spc, fd, numOfBytes,
                   tmp, short, file, getVars>>

-----------------------------------------------------------------------------
(* The handler of putFileContents                                          *)

\* What open(path.TMP, O_CREAT) finds: no O_TRUNC, what is left over stays.
OpenTmp == IF tmp = None THEN <<>> ELSE tmp

\* (mutant: numOfBytes += size)
PutWrite_CountsSize(m, res) ==
    /\ tmp' = Pwrite(OpenTmp, SubSeq(m.buf, 1, res), m.offset)
    /\ numOfBytes' = numOfBytes + m.size
    /\ short' = (short \/ res < m.size)
    /\ spc' = IF numOfBytes + m.size = 0 THEN "closed" ELSE "read"

\* pwrite writes res bytes of the chunk m; if (numOfBytes == 0) break.
PutWrite(m, res) ==
    /\ tmp' = Pwrite(OpenTmp, SubSeq(m.buf, 1, res), m.offset)
    /\ numOfBytes' = numOfBytes + res
    /\ short' = (short \/ res < m.size)
    /\ spc' = IF numOfBytes + res = 0 THEN "closed" ELSE "read"

\* One turn of the read loop; pwrite may write only a part of the chunk.
PutChunk ==
    /\ spc = "read"
    /\ stream # <<>>
    /\ stream' = Tail(stream)
    /\ \E res \in {Head(stream).size} \cup 1 .. Head(stream).size - 1 :
          PutWrite(Head(stream), res)
    /\ fd' = TRUE
    /\ UNCHANGED <<local, cpc, buf, bytesLeft, curr, ret, writesDone, cancelled, file, getVars>>

\* open or pwrite fails: the handler returns, and path.TMP stays.
PutFails ==
    /\ spc = "read"
    /\ stream # <<>>
    /\ stream' = Tail(stream)
    /\ spc' = "err"
    /\ \/ numOfBytes = 0 /\ UNCHANGED <<fd, tmp>>
       \/ fd' = TRUE /\ tmp' = OpenTmp
    /\ UNCHANGED <<local, cpc, buf, bytesLeft, curr, ret, writesDone, cancelled, numOfBytes,
                   short, file, getVars>>

\* reader->Read returns false.
PutEnd ==
    /\ spc = "read"
    /\ cancelled \/ (writesDone /\ stream = <<>>)
    /\ spc' = "closed"
    /\ UNCHANGED <<local, cpc, buf, bytesLeft, curr, ret, stream, writesDone, cancelled, fd,
                   numOfBytes, tmp, short, file, getVars>>

\* (mutant: IsCancelled is not asked)
PutCheck_Ignored ==
    /\ spc = "closed"
    /\ spc' = "rename"
    /\ UNCHANGED <<local, cpc, buf, bytesLeft, curr, ret, stream, writesDone, cancelled, fd,
                   numOfBytes, tmp, short, file, getVars>>

\* IsCancelled is asked once, after the loop.
PutCheck ==
    /\ spc = "closed"
    /\ spc' = IF cancelled THEN "cancelled" ELSE "rename"
    /\ UNCHANGED <<local, cpc, buf, bytesLeft, curr, ret, stream, writesDone, cancelled, fd,
                   numOfBytes, tmp, short, file, getVars>>

PutRename ==
    /\ spc = "rename"
    /\ spc' = "ok"
    /\ IF fd THEN file' = tmp /\ tmp' = None ELSE UNCHANGED <<file, tmp>>
    /\ UNCHANGED <<local, cpc, buf, bytesLeft, curr, ret, stream, writesDone, cancelled, fd,
                   numOfBytes, short, getVars>>

\* The deadline of the call expires, or its client is gone.
PutCancel ==
    /\ cpc \in {"send", "finish"}
    /\ ~ cancelled
    /\ cancelled' = TRUE
    /\ UNCHANGED <<local, cpc, buf, bytesLeft, curr, ret, stream, writesDone, spc, fd,
                   numOfBytes, tmp, short, file, getVars>>

-----------------------------------------------------------------------------
(* getFileContents                                                         *)

\* Two ways to answer without the loop: one empty reply (with err = -1 when
\* the file cannot be opened), or std::length_error for a negative length,
\* which fails the call.
FetchOpen ==
    /\ fpc = "idle"
    /\ source' = file
    /\ LET length == IF file = None THEN 0 ELSE ToInt(Len(file))
       IN  IF length = 0 THEN fpc' = "ok" /\ replies' = << <<>> >>
           ELSE fpc' = (IF length < 0 THEN "failed" ELSE "write") /\ UNCHANGED replies
    /\ UNCHANGED <<putVars, file, bytesRead, got, fret>>

\* The bytes that the handler has read into its buffer.
Buffer == SubSeq(source, 1, ToInt(Len(source)))

\* One turn of the loop.  When bytesRead += minSize overflows, the loop may
\* end, or go on with a negative position, for which substr throws.  Nobody
\* takes the chunks of a call that is over.
FetchSend ==
    LET minSize == Least(CHUNK_SIZE, Len(Buffer))
    IN  /\ fpc = "write"
        /\ bytesRead < Len(Buffer)
        /\ IF fret # None THEN UNCHANGED replies
           ELSE /\ Len(replies) < Window
                /\ replies' = Append(replies, Substr(Buffer, bytesRead, minSize))
        /\ IF bytesRead + minSize < Half
           THEN bytesRead' = bytesRead + minSize /\ UNCHANGED fpc
           ELSE fpc' \in {"ok", "failed"} /\ UNCHANGED bytesRead
        /\ UNCHANGED <<putVars, file, source, got, fret>>

\* (mutant: the loop ends when less than a full chunk remains)
FetchEnd_Early ==
    /\ fpc = "write"
    /\ bytesRead + CHUNK_SIZE > Len(Buffer)
    /\ fpc' = "ok"
    /\ UNCHANGED <<putVars, file, source, bytesRead, replies, got, fret>>

FetchEnd ==
    /\ fpc = "write"
    /\ bytesRead >= Len(Buffer)
    /\ fpc' = "ok"
    /\ UNCHANGED <<putVars, file, source, bytesRead, replies, got, fret>>

FetchRecv ==
    /\ fpc # "idle" /\ fret = None
    /\ replies # <<>>
    /\ got' = got \o Head(replies)
    /\ replies' = Tail(replies)
    /\ UNCHANGED <<putVars, file, fpc, source, bytesRead, fret>>

\* A failed call may lose the chunks that are still under way.
FetchFinish ==
    /\ fret = None
    /\ \/ fpc = "ok" /\ replies = <<>> /\ fret' = IF source = None THEN -1 ELSE 0
       \/ fpc = "failed" /\ fret' = -1
    /\ UNCHANGED <<putVars, file, fpc, source, bytesRead, replies, got>>

FetchExpire ==
    /\ fpc # "idle" /\ fret = None
    /\ fret' = -1
    /\ UNCHANGED <<putVars, file, fpc, source, bytesRead, replies, got>>

-----------------------------------------------------------------------------
ClientPut == ReadBack \/ SendChunk \/ WritesDone \/ Finish
ServerPut == PutChunk \/ PutFails \/ PutEnd \/ PutCheck \/ PutRename
ServerGet == FetchSend \/ FetchEnd
ClientGet == FetchRecv \/ FetchFinish

Next ==
    \/ ClientPut \/ ServerPut \/ PutCancel
    \/ FetchOpen \/ ServerGet \/ ClientGet \/ FetchExpire

\* The four threads make progress; deadlines and fetches may come or not.
Spec ==
    /\ Init /\ [][Next]_vars
    /\ WF_vars(ClientPut) /\ WF_vars(ServerPut) /\ WF_vars(ServerGet) /\ WF_vars(ClientGet)
-----------------------------------------------------------------------------
(* Properties                                                              *)

TypeOK ==
    LET Int32 == -Half .. Half - 1
    IN  /\ bytesLeft \in Int32 /\ curr \in Int32
        /\ numOfBytes \in Int32 /\ bytesRead \in Int32
        /\ cpc \in {"flush", "send", "finish", "done"}
        /\ spc \in {"read", "closed", "rename", "ok", "err", "cancelled"}
        /\ fpc \in {"idle", "write", "ok", "failed"}
        /\ ret \in {None, "ok", "err"} /\ fret \in {None, 0, -1}
        /\ {writesDone, cancelled, fd, short} \subseteq BOOLEAN
        /\ Len(stream) <= Window /\ Len(replies) <= Window

\* The chunk loop of putFileContents never asks substr for a position outside
\* the buffer (which would throw out of the FUSE process), also where curr
\* overflows, and no chunk makes the handler's pwrite read past its bytes.
ChunksSound ==
    /\ cpc = "send" /\ bytesLeft >= 0 => curr \in 0 .. Len(buf)
    /\ \A i \in 1 .. Len(stream) : stream[i].size = Len(stream[i].buf)

\* All or nothing: whatever deadline, crash or error cuts an upload short, and
\* whenever, the published file is the one from before or begins with every
\* byte of the client's file, followed at most by what path.TMP still held.
\* (For files below 2^32 bytes, when no pwrite was short.)
PublishedWhole ==
    (Len(local) < 2 * Half /\ ~ short) =>
        \/ file = None
        \/ \A i \in 1 .. Len(file) : file[i] = Old
        \/ /\ BeginsWith(file, local)
           /\ \A i \in Len(local) + 1 .. Len(file) : file[i] = Stale

\* The count of an answer tells a short pwrite: when it is the length that the
\* client sent, the file that was published begins with just those bytes.
CountHonest ==
    (spc = "ok" /\ numOfBytes = Len(buf)) => BeginsWith(file, buf)

\* A fetch that returns 0 has the file exactly as it was at one moment, also
\* when another upload replaces it meanwhile, at lengths where the arithmetic
\* of the loop overflows, and beyond what an int can hold (below 2^32 bytes).
FetchExact ==
    (fret = 0 /\ Len(source) < 2 * Half) => got = source

\* Both transfers end: neither end waits for the other for ever, with a full
\* window, with a handler that returned early, or with an empty last chunk.
TransferEnds ==
    /\ <>(cpc = "done")
    /\ (fpc # "idle") ~> (fret # None)
=============================================================================
