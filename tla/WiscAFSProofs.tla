--------------------------- MODULE WiscAFSProofs ----------------------------
(***************************************************************************)
(* Proofs about WiscAFS, for every set of clients, sessions, paths, blocks *)
(* and handler threads, every bound and every Env.                         *)
(***************************************************************************)
EXTENDS WiscAFS, FileDataProofs

-----------------------------------------------------------------------------
(* The client's part of the invariant                                      *)

\* A session at work has a path.
SessPath == \A s \in Sess : pc[s] # "idle" => path[s] \in Path

CInv == ClientTypeOK /\ SessPath /\ CopyPresent

\* A freshly mounted client (cppWrapper_initialize) satisfies the client invariant.
LEMMA ClientInitOK == ClientInit => CInv
BY ClientAssumption DEF ClientInit, CInv, ClientTypeOK, SessPath, CopyPresent, NoEntry, Entry,
      SessPC, RpcPC, Content

\* An operation that returns to the application forgets its locals and nothing else.
LEMMA ReturnOK ==
    ASSUME CInv, NEW s \in Sess, Return(s), UNCHANGED <<status, cacheFile, writes>>
    PROVE  CInv'
<1>1. ClientTypeOK'
  BY DEF CInv, ClientTypeOK, Return, Goto, NoEntry, Entry, SessPC, Content
<1>2. SessPath' /\ CopyPresent'
  BY DEF CInv, ClientTypeOK, SessPath, CopyPresent, Return, Goto, MyFile
<1>3. QED
  BY <1>1, <1>2 DEF CInv

\* cppWrapper_open up to its first RPC.
LEMMA OpenCallOK ==
    ASSUME CInv, NEW s \in Sess, NEW p \in Path, OpenCall(s, p)
    PROVE  CInv'
<1>1. CacheObject(host[s], p) \in Entry
  BY ClientAssumption DEF CInv, ClientTypeOK, CacheObject, NoEntry, Entry
<1>2. ClientTypeOK'
  BY <1>1 DEF CInv, ClientTypeOK, OpenCall, Goto, SessPC, RpcPC
<1>3. SessPath' /\ CopyPresent'
  BY DEF CInv, ClientTypeOK, SessPath, CopyPresent, OpenCall, Goto, MyFile
<1>4. QED
  BY <1>2, <1>3 DEF CInv

\* The kernel's lookup that precedes a create.
LEMMA CreateNextOK ==
    ASSUME CInv, NEW s \in Sess, NEW p \in Path, CreateNext(s, p)
    PROVE  CInv'
<1>1. ClientTypeOK'
  BY DEF CInv, ClientTypeOK, CreateNext, Goto, SessPC
<1>2. SessPath' /\ CopyPresent'
  BY DEF CInv, ClientTypeOK, SessPath, CopyPresent, CreateNext, Goto, MyFile
<1>3. QED
  BY <1>1, <1>2 DEF CInv

\* cppWrapper_create up to its first RPC.
LEMMA CreateCallOK ==
    ASSUME CInv, NEW s \in Sess, CreateCall(s)
    PROVE  CInv'
<1>1. path[s] \in Path
  BY DEF CInv, SessPath, CreateCall
<1>2. CacheObject(host[s], path[s]) \in Entry
  BY <1>1, ClientAssumption DEF CInv, ClientTypeOK, CacheObject, NoEntry, Entry
<1>3. ClientTypeOK'
  BY <1>2 DEF CInv, ClientTypeOK, CreateCall, Goto, SessPC, RpcPC
<1>4. SessPath' /\ CopyPresent'
  BY <1>1 DEF CInv, ClientTypeOK, SessPath, CopyPresent, CreateCall, Goto, MyFile
<1>5. QED
  BY <1>3, <1>4 DEF CInv

\* The local open of a hit or of a commit: the entry e of the file is kept or
\* set, and the copy c is there.
LEMMA OpenLocalOK ==
    ASSUME CInv, NEW s \in Sess, NEW c \in Content, OpenLocal(s, c), pc[s] # "idle",
           \/ UNCHANGED status
           \/ status' = [status EXCEPT ![host[s]][path[s]] = snap[s]]
    PROVE  CInv'
<1>1. path[s] \in Path /\ host[s] \in Client /\ snap[s] \in Entry
  BY ClientAssumption DEF CInv, SessPath, ClientTypeOK
<1>2. PICK d \in Content : cacheFile' = [cacheFile EXCEPT ![host[s]][path[s]] = d]
  <2>1. <<>> \in Content
    BY EmptySeq DEF Content
  <2>2. PICK trunc \in BOOLEAN :
           cacheFile' = [cacheFile EXCEPT ![host[s]][path[s]] = IF trunc THEN <<>> ELSE c]
    BY DEF OpenLocal
  <2>3. CASE trunc
    BY <2>1, <2>2, <2>3
  <2>4. CASE ~ trunc
    BY <2>2, <2>4
  <2>5. QED
    BY <2>3, <2>4
<1>3. d # None
  BY <1>2, BlockAssumption
<1>4. ClientTypeOK'
  <2>1. cacheFile' \in [Client -> [Path -> Content \cup {None}]]
    BY <1>1, <1>2 DEF CInv, ClientTypeOK
  <2>2. status' \in [Client -> [Path -> Entry \cup {None}]]
    <3>1. CASE UNCHANGED status
      BY <3>1 DEF CInv, ClientTypeOK
    <3>2. CASE status' = [status EXCEPT ![host[s]][path[s]] = snap[s]]
      BY <1>1, <3>2 DEF CInv, ClientTypeOK
    <3>3. QED
      BY <3>1, <3>2
  <2>3. /\ pc' \in [Sess -> SessPC] /\ path' \in [Sess -> Path \cup {None}]
        /\ op' \in [Sess -> {"none", "open", "create", "flush", "release", "unlink"}]
        /\ snap' \in [Sess -> Entry] /\ clk' \in [Sess -> Int \cup {None}]
        /\ buf' \in [Sess -> Content] /\ writes' \in 0 .. MaxWrites
    BY DEF CInv, ClientTypeOK, OpenLocal, Goto, SessPC, NoEntry, Entry, Content
  <2>4. QED
    BY <2>1, <2>2, <2>3 DEF ClientTypeOK
<1>5. SessPath'
  BY <1>1 DEF CInv, ClientTypeOK, SessPath, OpenLocal, Goto
<1>6. ASSUME NEW k \in Client, NEW p \in Path
      PROVE  cacheFile'[k][p] = IF k = host[s] /\ p = path[s] THEN d ELSE cacheFile[k][p]
  BY <1>1, <1>2 DEF CInv, ClientTypeOK
<1>7. ASSUME NEW k \in Client, NEW p \in Path, status'[k][p] # None
      PROVE  cacheFile'[k][p] # None
  BY <1>1, <1>3, <1>6, <1>7 DEF CInv, ClientTypeOK, CopyPresent
<1>8. ASSUME NEW t \in Sess, pc'[t] \in {"open", "putting", "putdone", "release"}
      PROVE  MyFile(t)' # None
  <2>1. path'[t] = path[t] /\ path[t] \in Path /\ host[t] \in Client
    BY <1>1, <1>8, ClientAssumption DEF CInv, ClientTypeOK, SessPath, OpenLocal, Goto
  <2>2. t = s \/ pc[t] = pc'[t]
    BY DEF CInv, ClientTypeOK, OpenLocal, Goto
  <2>3. QED
    BY <1>3, <1>6, <1>8, <2>1, <2>2 DEF CInv, CopyPresent, MyFile
<1>9. QED
  BY <1>4, <1>5, <1>7, <1>8 DEF CInv, CopyPresent

\* A cache hit opens a copy that is there.
LEMMA OpenCachedFileOK ==
    ASSUME CInv, NEW s \in Sess, OpenCachedFile(s)
    PROVE  CInv'
<1>1. path[s] \in Path /\ host[s] \in Client
  BY ClientAssumption DEF CInv, SessPath, ClientTypeOK, OpenCachedFile
<1>2. MyFile(s) \in Content
  BY <1>1 DEF CInv, ClientTypeOK, CopyPresent, OpenCachedFile, Hit, MyEntry, MyFile
<1>3. QED
  BY <1>2, OpenLocalOK DEF OpenCachedFile

\* commitFileCache makes the copy together with its entry.
LEMMA CommitFileCacheOK ==
    ASSUME CInv, NEW s \in Sess, CommitFileCache(s)
    PROVE  CInv'
<1>1. Cstr(buf[s]) \in Content
  BY CstrType DEF CInv, ClientTypeOK
<1>2. QED
  BY <1>1, OpenLocalOK DEF CommitFileCache

\* A cache miss only moves on to the next RPC.
LEMMA FetchToCacheOK ==
    ASSUME CInv, NEW s \in Sess, FetchToCache(s)
    PROVE  CInv'
<1>1. ClientTypeOK'
  BY DEF CInv, ClientTypeOK, FetchToCache, Goto, SessPC, RpcPC
<1>2. SessPath' /\ CopyPresent'
  BY DEF CInv, ClientTypeOK, SessPath, CopyPresent, FetchToCache, Goto, MyFile
<1>3. QED
  BY <1>1, <1>2 DEF CInv

\* Changing the entry of an existing file keeps the client's invariant.
LEMMA UpdateCacheOK ==
    ASSUME CInv, NEW s \in Sess, path[s] \in Path, NEW e \in Entry, UpdateCache(s, e)
    PROVE  /\ status' \in [Client -> [Path -> Entry \cup {None}]]
           /\ \A k \in Client, p \in Path : status'[k][p] # None => status[k][p] # None
<1>1. host[s] \in Client
  BY ClientAssumption
<1>2. CASE MyEntry(s) = None
  BY <1>2 DEF UpdateCache, CInv, ClientTypeOK
<1>3. CASE MyEntry(s) # None
  BY <1>1, <1>3 DEF UpdateCache, CInv, ClientTypeOK, MyEntry
<1>4. QED
  BY <1>2, <1>3

\* cppWrapper_write finds the copy of an open handle and leaves one.
LEMMA WriteOK ==
    ASSUME CInv, NEW s \in Sess, NEW off \in Nat, NEW b \in Byte, Write(s, off, b)
    PROVE  CInv'
<1> DEFINE c == PWrite(MyFile(s), off, b)
           e == [dirty |-> TRUE, clock |-> CacheObject(host[s], path[s]).clock]
<1>1. path[s] \in Path /\ host[s] \in Client
  BY ClientAssumption DEF CInv, SessPath, ClientTypeOK, Write
<1>2. MyFile(s) \in Content
  BY <1>1 DEF CInv, ClientTypeOK, CopyPresent, Write, MyFile
<1>3. c \in Content /\ c # None
  BY <1>2, PWriteType, BlockAssumption DEF Block
<1>4. e \in Entry
  BY <1>1 DEF CInv, ClientTypeOK, CacheObject, NoEntry, Entry
<1>5. /\ cacheFile' = [cacheFile EXCEPT ![host[s]][path[s]] = c]
      /\ UpdateCache(s, e)
      /\ writes' = writes + 1 /\ writes < MaxWrites
      /\ UNCHANGED sessVars
  BY DEF Write
<1> HIDE DEF c, e
<1>6. /\ status' \in [Client -> [Path -> Entry \cup {None}]]
      /\ \A k \in Client, p \in Path : status'[k][p] # None => status[k][p] # None
  BY <1>1, <1>4, <1>5, UpdateCacheOK
<1>7. cacheFile' \in [Client -> [Path -> Content \cup {None}]]
  BY <1>1, <1>3, <1>5 DEF CInv, ClientTypeOK
<1>8. writes' \in 0 .. MaxWrites
  BY <1>5, ClientAssumption DEF CInv, ClientTypeOK
<1>9. \A k \in Client, p \in Path : cacheFile[k][p] # None => cacheFile'[k][p] # None
  BY <1>1, <1>3, <1>5 DEF CInv, ClientTypeOK
<1>10. ClientTypeOK' /\ SessPath'
  BY <1>5, <1>6, <1>7, <1>8 DEF CInv, ClientTypeOK, SessPath, sessVars
<1>11. CopyPresent'
  BY <1>5, <1>6, <1>9, ClientAssumption DEF CInv, SessPath, CopyPresent, MyFile, sessVars
<1>12. QED
  BY <1>10, <1>11 DEF CInv

\* cppWrapper_truncate resizes a copy but never takes it away.
LEMMA TruncateOK ==
    ASSUME CInv, NEW k \in Client, NEW p \in Path, NEW n \in Nat, Truncate(k, p, n)
    PROVE  CInv'
<1> DEFINE c == Resize(cacheFile[k][p], n)
<1>1. c \in Content /\ c # None
  BY ResizeType, BlockAssumption DEF CInv, ClientTypeOK, Truncate
<1>2. /\ cacheFile' = [cacheFile EXCEPT ![k][p] = c]
      /\ UNCHANGED <<status, sessVars, writes>>
  BY DEF Truncate
<1> HIDE DEF c
<1>3. cacheFile' \in [Client -> [Path -> Content \cup {None}]]
  BY <1>1, <1>2 DEF CInv, ClientTypeOK
<1>4. \A h \in Client, q \in Path : cacheFile[h][q] # None => cacheFile'[h][q] # None
  BY <1>1, <1>2 DEF CInv, ClientTypeOK
<1>5. ClientTypeOK' /\ SessPath'
  BY <1>2, <1>3 DEF CInv, ClientTypeOK, SessPath, sessVars
<1>6. CopyPresent'
  BY <1>2, <1>4, ClientAssumption DEF CInv, SessPath, CopyPresent, MyFile, sessVars
<1>7. QED
  BY <1>5, <1>6 DEF CInv

\* The end of flush or release, with an entry changed or not.
LEMMA AfterUploadOK ==
    ASSUME CInv, NEW s \in Sess, NEW o, pc[s] \in {"open", "putdone", "release"},
           AfterUpload(s, o), UNCHANGED <<cacheFile, writes>>,
           status' \in [Client -> [Path -> Entry \cup {None}]],
           \A k \in Client, p \in Path : status'[k][p] # None => status[k][p] # None
    PROVE  CInv'
<1>1. ClientTypeOK'
  <2>1. cacheFile' \in [Client -> [Path -> Content \cup {None}]] /\ writes' \in 0 .. MaxWrites
    BY DEF CInv, ClientTypeOK
  <2>2. /\ pc' \in [Sess -> SessPC] /\ path' \in [Sess -> Path \cup {None}]
        /\ op' \in [Sess -> {"none", "open", "create", "flush", "release", "unlink"}]
    BY DEF CInv, ClientTypeOK, AfterUpload, Return, Goto, SessPC
  <2>3. /\ snap' \in [Sess -> Entry] /\ clk' \in [Sess -> Int \cup {None}]
        /\ buf' \in [Sess -> Content]
    <3>1. <<>> \in Content /\ NoEntry \in Entry
      BY EmptySeq DEF Content, NoEntry, Entry
    <3>2. CASE o = "flush"
      BY <3>1, <3>2 DEF CInv, ClientTypeOK, AfterUpload
    <3>3. CASE o # "flush"
      BY <3>1, <3>3, ZenonT(60) DEF CInv, ClientTypeOK, AfterUpload, Return
    <3>4. QED
      BY <3>2, <3>3
  <2>4. QED
    BY <2>1, <2>2, <2>3 DEF ClientTypeOK
<1>2. SessPath'
  BY ZenonT(60) DEF CInv, ClientTypeOK, SessPath, AfterUpload, Return, Goto
<1>3. ASSUME NEW t \in Sess, pc'[t] \in {"open", "putting", "putdone", "release"}
      PROVE  path'[t] = path[t] /\ pc[t] \in {"open", "putting", "putdone", "release"}
  BY <1>3 DEF CInv, ClientTypeOK, AfterUpload, Return, Goto
<1>4. CopyPresent'
  BY <1>3 DEF CInv, CopyPresent, MyFile
<1>5. QED
  BY <1>1, <1>2, <1>4 DEF CInv

\* flush and release up to putFileContents, on each of their three paths.
LEMMA UploadOK ==
    ASSUME CInv, NEW s \in Sess, NEW o \in {"flush", "release"},
           pc[s] \in {"open", "release"}, Upload(s, o)
    PROVE  CInv'
<1>1. path[s] \in Path /\ host[s] \in Client
  BY ClientAssumption DEF CInv, SessPath, ClientTypeOK
<1>2. CASE UploadBypass(s, o)
  BY <1>2, AfterUploadOK DEF UploadBypass, CInv, ClientTypeOK
<1>3. CASE UploadEmpty(s, o)
  <2>1. PICK g \in Garbage : UpdateCache(s, [dirty |-> FALSE, clock |-> g])
    BY <1>3 DEF UploadEmpty
  <2>2. [dirty |-> FALSE, clock |-> g] \in Entry
    BY ClientAssumption DEF Entry
  <2>3. QED
    BY <1>1, <1>3, <2>1, <2>2, UpdateCacheOK, AfterUploadOK DEF UploadEmpty
<1>4. CASE UploadPut(s, o)
  <2>1. MyFile(s) \in Content
    BY <1>1 DEF CInv, ClientTypeOK, CopyPresent, MyFile
  <2>2. ClientTypeOK'
    BY <1>4, <2>1 DEF CInv, ClientTypeOK, UploadPut, Goto, SessPC, RpcPC
  <2>3. SessPath' /\ CopyPresent'
    BY <1>1, <1>4 DEF CInv, ClientTypeOK, SessPath, CopyPresent, UploadPut, Goto, MyFile
  <2>4. QED
    BY <2>2, <2>3 DEF CInv
<1>5. QED
  BY <1>2, <1>3, <1>4 DEF Upload

\* What flush and release do once putFileContents has returned.
LEMMA UploadDoneOK ==
    ASSUME CInv, NEW s \in Sess, UploadDone(s)
    PROVE  CInv'
<1>1. path[s] \in Path
  BY DEF CInv, SessPath, UploadDone
<1>2. PICK g \in IF clk[s] = None THEN Garbage ELSE {clk[s]} :
         UpdateCache(s, [dirty |-> FALSE, clock |-> g])
  BY DEF UploadDone
<1>3. [dirty |-> FALSE, clock |-> g] \in Entry
  BY <1>2, ClientAssumption DEF CInv, ClientTypeOK, Entry
<1>4. QED
  BY <1>1, <1>2, <1>3, UpdateCacheOK, AfterUploadOK DEF UploadDone

\* A copy goes away only with its entry, and only when no handle is open on it.
LEMMA UnlinkCallOK ==
    ASSUME CInv, NEW s \in Sess, NEW p \in Path, UnlinkCall(s, p)
    PROVE  CInv'
<1>1. host[s] \in Client
  BY ClientAssumption
<1>2. ClientTypeOK'
  BY <1>1 DEF CInv, ClientTypeOK, UnlinkCall, Goto, SessPC, RpcPC
<1>3. SessPath'
  BY DEF CInv, ClientTypeOK, SessPath, UnlinkCall, Goto
<1>4. ASSUME NEW k \in Client, NEW q \in Path, status'[k][q] # None
      PROVE  cacheFile'[k][q] # None
  BY <1>1, <1>4 DEF CInv, ClientTypeOK, CopyPresent, UnlinkCall
<1>5. ASSUME NEW t \in Sess, pc'[t] \in {"open", "putting", "putdone", "release"}
      PROVE  MyFile(t)' # None
  <2>1. t # s /\ pc[t] = pc'[t] /\ path'[t] = path[t]
    BY <1>5 DEF CInv, ClientTypeOK, UnlinkCall, Goto
  <2>2. path[t] \in Path /\ host[t] \in Client /\ cacheFile[host[t]][path[t]] # None
    BY <1>5, <2>1, ClientAssumption DEF CInv, SessPath, CopyPresent, MyFile
  <2>3. ~ (host[t] = host[s] /\ path[t] = p)
    BY <1>5, <2>1 DEF UnlinkCall, HasHandle
  <2>4. QED
    BY <1>1, <2>1, <2>2, <2>3 DEF CInv, ClientTypeOK, UnlinkCall, MyFile
<1>6. QED
  BY <1>2, <1>3, <1>4, <1>5 DEF CInv, CopyPresent

\* Failed RPCs end an operation or let it go on, and touch no cached file.
LEMMA FailCallsOK ==
    ASSUME CInv, NEW S \in SUBSET Sess, \A s \in S : pc[s] \in RpcPC, FailCalls(S)
    PROVE  CInv'
<1>1. ASSUME NEW l \in RpcPC
      PROVE  RpcFailed(l) = CASE l = "getattr" -> "attr" [] l = "putting" -> "putdone"
                              [] OTHER -> "idle"
  BY DEF RpcFailed, RpcNext, RpcPC
<1>2. ASSUME NEW s \in Sess
      PROVE  pc'[s] \in SessPC /\ (pc'[s] # "idle" => path'[s] = path[s] /\ pc[s] # "idle")
  BY <1>1 DEF CInv, ClientTypeOK, FailCalls, SessPC, RpcPC
<1>3. ClientTypeOK'
  <2>1. pc' \in [Sess -> SessPC]
    BY <1>2 DEF FailCalls
  <2>2. /\ path' \in [Sess -> Path \cup {None}] /\ snap' \in [Sess -> Entry]
        /\ op' \in [Sess -> {"none", "open", "create", "flush", "release", "unlink"}]
    BY DEF CInv, ClientTypeOK, FailCalls, NoEntry, Entry
  <2>3. clk' \in [Sess -> Int \cup {None}] /\ buf' \in [Sess -> Content]
    BY DEF CInv, ClientTypeOK, FailCalls, Content
  <2>4. QED
    BY <2>1, <2>2, <2>3 DEF CInv, ClientTypeOK, FailCalls
<1>4. SessPath'
  BY <1>2 DEF CInv, SessPath
<1>5. ASSUME NEW t \in Sess, pc'[t] \in {"open", "putting", "putdone", "release"}
      PROVE  path'[t] = path[t] /\ pc[t] \in {"open", "putting", "putdone", "release"}
  BY <1>1, <1>2, <1>5 DEF CInv, ClientTypeOK, FailCalls, RpcPC
<1>6. CopyPresent'
  BY <1>5 DEF CInv, CopyPresent, MyFile, FailCalls
<1>7. QED
  BY <1>3, <1>4, <1>6 DEF CInv

\* An answer moves its session on to the next part of the operation.
LEMMA AnswerOK ==
    ASSUME CInv, NEW s \in Sess, NEW l \in RpcPC \ {"erasing"}, NEW c \in Int \cup {None},
           NEW d \in Content, Answer(s, l, c, d)
    PROVE  CInv'
<1>1. /\ RpcNext[l] \in SessPC
      /\ RpcNext[l] \in {"open", "putting", "putdone", "release"} => l = "putting"
  BY DEF RpcNext, RpcPC, SessPC
<1>2. pc[s] # "idle"
  BY DEF Answer, RpcPC
<1>3. ClientTypeOK'
  BY <1>1 DEF CInv, ClientTypeOK, Answer, Goto
<1>4. SessPath'
  BY <1>2 DEF CInv, ClientTypeOK, SessPath, Answer, Goto
<1>5. CopyPresent'
  BY <1>1 DEF CInv, ClientTypeOK, CopyPresent, Answer, Goto, MyFile
<1>6. QED
  BY <1>3, <1>4, <1>5 DEF CInv

\* A crash loses the entries and handles, and keeps the copies.
LEMMA ClientCrashOK ==
    ASSUME CInv, NEW k \in Client, ClientCrash(k)
    PROVE  CInv'
<1>1. PICK Late \in SUBSET {s \in Sess : pc[s] \in {"unlinking", "erasing"}} :
         /\ pc' = [s \in Sess |-> IF host[s] = k /\ s \notin Late THEN "idle" ELSE pc[s]]
         /\ path' = [s \in Sess |-> IF host[s] = k /\ s \notin Late THEN None ELSE path[s]]
         /\ op' = [s \in Sess |-> IF host[s] = k /\ s \notin Late THEN "none" ELSE op[s]]
         /\ snap' = [s \in Sess |-> IF host[s] = k /\ s \notin Late THEN NoEntry ELSE snap[s]]
         /\ clk' = [s \in Sess |-> IF host[s] = k /\ s \notin Late THEN None ELSE clk[s]]
         /\ buf' = [s \in Sess |-> IF host[s] = k /\ s \notin Late THEN <<>> ELSE buf[s]]
  BY DEF ClientCrash
<1>2. status' = [status EXCEPT ![k] = [p \in Path |-> None]] /\ UNCHANGED <<cacheFile, writes>>
  BY DEF ClientCrash
<1>3. ClientTypeOK'
  BY <1>1, <1>2 DEF CInv, ClientTypeOK, NoEntry, Entry, SessPC, Content
<1>4. SessPath'
  BY <1>1 DEF CInv, ClientTypeOK, SessPath
<1>5. CopyPresent'
  BY <1>1, <1>2 DEF CInv, ClientTypeOK, CopyPresent, MyFile
<1>6. QED
  BY <1>3, <1>4, <1>5 DEF CInv

-----------------------------------------------------------------------------
(* The server's part of the invariant                                      *)

\* A handler at work has a path.
WorkPath == \A w \in Worker : wpc[w] # "free" => wpath[w] \in Path

SInv == ServerTypeOK /\ WorkPath

\* A server started on an empty directory satisfies the server invariant.
LEMMA ServerInitOK == ServerInit => SInv
BY DEF ServerInit, SInv, ServerTypeOK, WorkPath, WorkPC, Content

\* createEmptyFile leaves a well-formed directory.
LEMMA CreateEmptyFileOK ==
    ASSUME SInv, NEW p \in Path, CreateEmptyFile(p)
    PROVE  SInv'
<1>1. FreeInode \subseteq Inode /\ <<>> \in Content
  BY EmptySeq DEF FreeInode, Content
<1>2. /\ file' \in [Path -> Inode \cup {None}] /\ data' \in [Inode -> Content]
      /\ current' \in [Path -> Content]
  BY <1>1, ZenonT(60) DEF SInv, ServerTypeOK, CreateEmptyFile
<1>3. QED
  BY <1>2 DEF SInv, ServerTypeOK, WorkPath, CreateEmptyFile, workVars

\* Both halves of removeFile leave a well-formed directory and clocks.
LEMMA RemoveFileOK ==
    ASSUME SInv, NEW p \in Path, RemoveEntry(p) \/ EraseClock(p)
    PROVE  SInv'
<1>1. <<>> \in Content
  BY EmptySeq DEF Content
<1>2. CASE RemoveEntry(p)
  BY <1>1, <1>2 DEF SInv, ServerTypeOK, WorkPath, RemoveEntry, workVars
<1>3. CASE EraseClock(p)
  BY <1>3 DEF SInv, ServerTypeOK, WorkPath, EraseClock, workVars, diskVars
<1>4. QED
  BY <1>2, <1>3

\* A handler that returns leaves the other handlers alone.
LEMMA WorkerReturnsOK ==
    ASSUME SInv, NEW w \in Worker, WorkerReturns(w),
           up' \in BOOLEAN, serverclock' \in [Path -> Nat],
           file' \in [Path -> Inode \cup {None}], temp' \in [Path -> Inode \cup {None}],
           data' \in [Inode -> Content], current' \in [Path -> Content]
    PROVE  SInv'
<1>1. <<>> \in Content
  BY EmptySeq DEF Content
<1>2. ServerTypeOK'
  BY <1>1 DEF SInv, ServerTypeOK, WorkerReturns, WorkPC
<1>3. WorkPath'
  BY DEF SInv, ServerTypeOK, WorkPath, WorkerReturns
<1>4. QED
  BY <1>2, <1>3 DEF SInv

\* A handler thread takes a call with a path and contents.
LEMMA PutStartOK ==
    ASSUME SInv, NEW w \in Worker, NEW s \in Sess, NEW p \in Path, NEW c \in Content,
           PutStart(w, s, p, c)
    PROVE  SInv'
BY DEF SInv, ServerTypeOK, WorkPath, PutStart, WorkPC, diskVars

\* What opening path.TMP gives, for a handler that gets another chunk.
LEMMA OpenTempOK ==
    ASSUME SInv, NEW w \in Worker, wpc[w] = "recv", NEW i \in Inode, OpenTemp(w, i)
    PROVE  /\ wpath[w] \in Path
           /\ OpenedData(w, i) \in Content
           /\ (IF wn[w] = 0 THEN [temp EXCEPT ![wpath[w]] = i] ELSE temp)
                 \in [Path -> Inode \cup {None}]
<1>1. <<>> \in Content
  BY EmptySeq DEF Content
<1>2. wpath[w] \in Path
  BY DEF SInv, WorkPath
<1>3. OpenedData(w, i) \in Content
  BY <1>1 DEF SInv, ServerTypeOK, OpenedData
<1>4. QED
  BY <1>2, <1>3 DEF SInv, ServerTypeOK

\* A chunk is written to the inode the handler has open.
LEMMA PutChunkOK ==
    ASSUME SInv, NEW w \in Worker, PutChunk(w)
    PROVE  SInv'
<1>1. PICK i \in Inode :
         /\ OpenTemp(w, i)
         /\ temp' = IF wn[w] = 0 THEN [temp EXCEPT ![wpath[w]] = i] ELSE temp
         /\ data' = [data EXCEPT ![i] = PWrite(OpenedData(w, i), wn[w], wbuf[w][wn[w] + 1])]
         /\ wino' = [wino EXCEPT ![w] = i]
  BY DEF PutChunk
<1>2. /\ OpenedData(w, i) \in Content
      /\ temp' \in [Path -> Inode \cup {None}]
  BY <1>1, OpenTempOK DEF PutChunk
<1>3. wbuf[w][wn[w] + 1] \in Block /\ wn[w] \in Nat
  <2>1. wbuf[w] \in Seq(Block) /\ wn[w] \in Nat /\ wn[w] < Len(wbuf[w])
    BY DEF SInv, ServerTypeOK, PutChunk, Content
  <2>2. wn[w] + 1 \in 1 .. Len(wbuf[w])
    BY <2>1, LenProperties
  <2>3. QED
    BY <2>1, <2>2, ElementOfSeq
<1>4. PWrite(OpenedData(w, i), wn[w], wbuf[w][wn[w] + 1]) \in Content
  BY <1>2, <1>3, PWriteType
<1>5. data' \in [Inode -> Content] /\ wino' \in [Worker -> Inode \cup {None}]
  BY <1>1, <1>4 DEF SInv, ServerTypeOK
<1>6. wn' \in [Worker -> Nat]
  BY <1>3 DEF SInv, ServerTypeOK, PutChunk
<1>7. QED
  BY <1>2, <1>5, <1>6 DEF SInv, ServerTypeOK, WorkPath, PutChunk

\* A handler that gives up on an I/O error.
LEMMA PutFailsOK ==
    ASSUME SInv, NEW w \in Worker, PutOpenFails(w) \/ PutWriteFails(w)
    PROVE  SInv'
<1>1. CASE PutOpenFails(w)
  BY <1>1, WorkerReturnsOK DEF PutOpenFails, SInv, ServerTypeOK, diskVars
<1>2. CASE PutWriteFails(w)
  <2>1. PICK i \in Inode :
           /\ OpenTemp(w, i)
           /\ temp' = IF wn[w] = 0 THEN [temp EXCEPT ![wpath[w]] = i] ELSE temp
           /\ data' = [data EXCEPT ![i] = OpenedData(w, i)]
    BY <1>2 DEF PutWriteFails
  <2>2. OpenedData(w, i) \in Content /\ temp' \in [Path -> Inode \cup {None}]
    BY <1>2, <2>1, OpenTempOK DEF PutWriteFails
  <2>3. data' \in [Inode -> Content]
    BY <2>1, <2>2 DEF SInv, ServerTypeOK
  <2>4. QED
    BY <1>2, <2>2, <2>3, WorkerReturnsOK DEF PutWriteFails, SInv, ServerTypeOK
<1>3. QED
  BY <1>1, <1>2

\* The end of the stream closes the file.
LEMMA PutEndOK ==
    ASSUME SInv, NEW w \in Worker, PutEnd(w) \/ PutCancelled(w)
    PROVE  SInv'
<1>1. CASE PutEnd(w)
  BY <1>1 DEF SInv, ServerTypeOK, WorkPath, PutEnd, WorkPC, diskVars
<1>2. CASE PutCancelled(w)
  BY <1>2, WorkerReturnsOK DEF PutCancelled, SInv, ServerTypeOK, diskVars
<1>3. QED
  BY <1>1, <1>2

\* rename leaves directory entries that are inodes or absent.
LEMMA PutRenameOK ==
    ASSUME SInv, NEW w \in Worker, PutRename(w)
    PROVE  SInv'
<1>1. wpath[w] \in Path
  BY DEF SInv, WorkPath, PutRename
<1>2. file' \in [Path -> Inode \cup {None}] /\ temp' \in [Path -> Inode \cup {None}]
  BY <1>1 DEF SInv, ServerTypeOK, PutRename
<1>3. QED
  BY <1>2 DEF SInv, ServerTypeOK, WorkPath, PutRename, WorkPC

\* The load and the store of the clock keep it a natural number.
LEMMA PutClockOK ==
    ASSUME SInv, NEW w \in Worker, PutClockLoad(w) \/ PutClockStore(w) \/ PutReply(w)
    PROVE  SInv'
<1>1. CASE PutClockLoad(w)
  <2>1. wpath[w] \in Path
    BY <1>1 DEF SInv, WorkPath, PutClockLoad
  <2>2. QED
    BY <1>1, <2>1 DEF SInv, ServerTypeOK, WorkPath, PutClockLoad, WorkPC, diskVars
<1>2. CASE PutClockStore(w)
  BY <1>2 DEF SInv, ServerTypeOK, WorkPath, PutClockStore, WorkPC, diskVars
<1>3. CASE PutReply(w)
  BY <1>3, WorkerReturnsOK DEF PutReply, SInv, ServerTypeOK, diskVars
<1>4. QED
  BY <1>1, <1>2, <1>3

\* Cancelling calls takes the callers away from their handlers.
LEMMA CancelCallsOK ==
    ASSUME SInv, NEW S, CancelCalls(S)
    PROVE  SInv'
BY DEF SInv, ServerTypeOK, WorkPath, CancelCalls, diskVars

\* A crash and a restart of the server keep its invariant.
LEMMA CrashOK ==
    ASSUME SInv, Crash \/ Restart
    PROVE  SInv'
<1>1. <<>> \in Content
  BY EmptySeq DEF Content
<1>2. CASE Crash
  BY <1>1, <1>2 DEF SInv, ServerTypeOK, WorkPath, Crash, WorkPC, diskVars
<1>3. CASE Restart
  BY <1>3 DEF SInv, ServerTypeOK, WorkPath, Restart, diskVars, workVars
<1>4. QED
  BY <1>2, <1>3

-----------------------------------------------------------------------------
(* The composition                                                         *)

Inv == CInv /\ SInv /\ faults \in 0 .. MaxFaults

\* The client invariant speaks of client state only.
LEMMA ClientUnchanged ==
    ASSUME CInv, UNCHANGED clientVars
    PROVE  CInv'
BY DEF CInv, ClientTypeOK, SessPath, CopyPresent, MyFile, clientVars, sessVars

\* The server invariant speaks of server state only.
LEMMA ServerUnchanged ==
    ASSUME SInv, UNCHANGED serverVars
    PROVE  SInv'
BY DEF SInv, ServerTypeOK, WorkPath, serverVars, diskVars, workVars

\* The answer to the caller of handler w, if there still is one.
LEMMA PutAnswerOK ==
    ASSUME CInv, SInv, NEW w \in Worker, NEW c \in Int, PutAnswer(w, c)
    PROVE  CInv'
<1>1. CASE wsess[w] = None
  BY <1>1, ClientUnchanged DEF PutAnswer
<1>2. CASE wsess[w] # None
  <2>1. wsess[w] \in Sess
    BY <1>2 DEF SInv, ServerTypeOK
  <2>2. buf[wsess[w]] \in Content
    BY <2>1 DEF CInv, ClientTypeOK
  <2>3. "putting" \in RpcPC \ {"erasing"}
    BY DEF RpcPC
  <2>4. QED
    BY <1>2, <2>1, <2>2, <2>3, AnswerOK DEF PutAnswer
<1>3. QED
  BY <1>1, <1>2

\* Every step of the client code keeps the invariant.
LEMMA ClientStepOK ==
    ASSUME Inv, NEW s \in Sess, ClientStep(s)
    PROVE  Inv'
<1>1. SInv' /\ UNCHANGED faults
  BY ServerUnchanged DEF Inv, ClientStep, Create, OpenCached, Fetch, Commit, PutReturns, AppRelease
<1>2. CInv'
  <2>1. CASE Create(s)
    BY <2>1, CreateCallOK DEF Inv, Create
  <2>2. CASE OpenCached(s)
    BY <2>2, OpenCachedFileOK DEF Inv, OpenCached
  <2>3. CASE Fetch(s)
    BY <2>3, FetchToCacheOK DEF Inv, Fetch
  <2>4. CASE Commit(s)
    BY <2>4, CommitFileCacheOK DEF Inv, Commit
  <2>5. CASE PutReturns(s)
    BY <2>5, UploadDoneOK DEF Inv, PutReturns
  <2>6. CASE AppRelease(s)
    BY <2>6, UploadOK DEF Inv, AppRelease, Release
  <2>7. QED
    BY <2>1, <2>2, <2>3, <2>4, <2>5, <2>6 DEF ClientStep
<1>3. QED
  BY <1>1, <1>2 DEF Inv

\* Every step of an application keeps the invariant.
LEMMA ApplicationOK ==
    ASSUME Inv, NEW s \in Sess,
           Open(s) \/ LookupNegative(s) \/ AppWrite(s) \/ AppClose(s) \/ AppUnlink(s)
    PROVE  Inv'
<1>1. SInv' /\ UNCHANGED faults
  BY ServerUnchanged DEF Inv, Open, LookupNegative, AppWrite, AppClose, AppUnlink
<1>2. CInv'
  <2>1. CASE Open(s)
    BY <2>1, OpenCallOK DEF Inv, Open
  <2>2. CASE LookupNegative(s)
    BY <2>2, CreateNextOK DEF Inv, LookupNegative
  <2>3. CASE AppWrite(s)
    <3>1. PICK off \in 0 .. MaxLen - 1, b \in Byte : Write(s, off, b)
      BY <2>3 DEF AppWrite
    <3>2. off \in Nat
      BY ClientAssumption
    <3>3. QED
      BY <3>1, <3>2, WriteOK DEF Inv
  <2>4. CASE AppClose(s)
    BY <2>4, UploadOK DEF Inv, AppClose, Flush
  <2>5. CASE AppUnlink(s)
    BY <2>5, UnlinkCallOK DEF Inv, AppUnlink
  <2>6. QED
    BY <2>1, <2>2, <2>3, <2>4, <2>5
<1>3. QED
  BY <1>1, <1>2 DEF Inv

\* Every short handler, and the start of putFileContents, keeps the invariant.
LEMMA ServerStepOK ==
    ASSUME Inv, NEW s \in Sess, ServerStep(s)
    PROVE  Inv'
<1>1. path[s] \in Path
  BY DEF Inv, CInv, SessPath, ServerStep, GetFileAttributes, GetFileContents, CreateOnServer,
         RemoveFile, RemoveFileEnd, PutFileContents
<1>2. <<>> \in Content /\ None \in Int \cup {None}
  BY EmptySeq DEF Content
<1>3. {"getattr", "fetching", "creating", "unlinking"} \subseteq RpcPC \ {"erasing"}
  BY DEF RpcPC
<1>4. CASE GetFileAttributes(s)
  <2>1. AttributesReply(path[s]) \in Int \cup {None}
    BY <1>1 DEF Inv, SInv, ServerTypeOK, AttributesReply
  <2>2. QED
    BY <1>2, <1>3, <1>4, <2>1, AnswerOK, ServerUnchanged DEF Inv, GetFileAttributes
<1>5. CASE GetFileContents(s)
  <2>1. ContentsReply(path[s]) # None => ContentsReply(path[s]) \in Content
    BY <1>1 DEF Inv, SInv, ServerTypeOK, ContentsReply
  <2>2. CInv'
    BY <1>2, <1>3, <1>5, <2>1, AnswerOK, ReturnOK DEF Inv, GetFileContents
  <2>3. QED
    BY <1>5, <2>2, ServerUnchanged DEF Inv, GetFileContents
<1>6. CASE CreateOnServer(s)
  BY <1>1, <1>2, <1>3, <1>6, AnswerOK, CreateEmptyFileOK DEF Inv, CreateOnServer
<1>7. CASE RemoveFile(s)
  BY <1>1, <1>2, <1>3, <1>7, AnswerOK, RemoveFileOK DEF Inv, RemoveFile
<1>8. CASE RemoveFileEnd(s)
  BY <1>1, <1>8, ReturnOK, RemoveFileOK DEF Inv, RemoveFileEnd
<1>9. CASE PutFileContents(s)
  <2>1. buf[s] \in Content
    BY DEF Inv, CInv, ClientTypeOK
  <2>2. QED
    BY <1>1, <1>9, <2>1, PutStartOK, ClientUnchanged DEF Inv, PutFileContents
<1>10. QED
  BY <1>4, <1>5, <1>6, <1>7, <1>8, <1>9 DEF ServerStep

\* Every step of a putFileContents handler keeps the invariant.
LEMMA PutStepOK ==
    ASSUME Inv, NEW w \in Worker, PutStep(w)
    PROVE  Inv'
<1>1. SInv' /\ UNCHANGED faults
  BY PutChunkOK, PutEndOK, PutRenameOK, PutClockOK DEF Inv, PutStep
<1>2. CInv'
  <2>1. CASE UNCHANGED clientVars
    BY <2>1, ClientUnchanged DEF Inv
  <2>2. CASE PutReply(w) /\ PutAnswer(w, PutClockReply(w))
    <3>1. PutClockReply(w) \in Int
      BY <2>2 DEF Inv, SInv, ServerTypeOK, WorkPath, PutReply, PutClockReply
    <3>2. QED
      BY <2>2, <3>1, PutAnswerOK DEF Inv
  <2>3. QED
    BY <2>1, <2>2 DEF PutStep
<1>3. QED
  BY <1>1, <1>2 DEF Inv

\* Every failure keeps the invariant.
LEMMA FailureOK ==
    ASSUME Inv,
           \/ \E s \in Sess : Unavailable(s) \/ Timeout(s)
           \/ \E w \in Worker : PutIoError(w)
           \/ \E k \in Client : CrashClient(k)
           \/ CrashServer \/ RestartServer
    PROVE  Inv'
<1>1. ASSUME Counted PROVE faults' \in 0 .. MaxFaults
  BY <1>1, EnvAssumption DEF Counted, Inv
<1>2. ASSUME NEW s \in Sess, Unavailable(s) PROVE Inv'
  BY <1>2, FailCallsOK, ServerUnchanged DEF Inv, Unavailable
<1>3. ASSUME NEW s \in Sess, Timeout(s) PROVE Inv'
  <2>1. {"fetching", "putting"} \subseteq RpcPC
    BY DEF RpcPC
  <2>2. QED
    BY <1>1, <1>3, <2>1, FailCallsOK, CancelCallsOK DEF Inv, Timeout
<1>4. ASSUME NEW w \in Worker, PutIoError(w) PROVE Inv'
  BY <1>1, <1>4, PutFailsOK, PutAnswerOK DEF Inv, PutIoError
<1>5. ASSUME NEW k \in Client, CrashClient(k) PROVE Inv'
  BY <1>1, <1>5, ClientCrashOK, CancelCallsOK DEF Inv, CrashClient
<1>6. CASE CrashServer
  BY <1>1, <1>6, CrashOK, FailCallsOK DEF Inv, CrashServer
<1>7. CASE RestartServer
  BY <1>7, CrashOK, ClientUnchanged DEF Inv, RestartServer
<1>8. QED
  BY <1>2, <1>3, <1>4, <1>5, <1>6, <1>7

\* The invariant holds at the start,
LEMMA InitInv == Init => Inv
BY ClientInitOK, ServerInitOK, EnvAssumption DEF Init, Inv

\* every step preserves it,
LEMMA NextInv == Inv /\ [Next]_vars => Inv'
<1> SUFFICES ASSUME Inv, [Next]_vars PROVE Inv'
  OBVIOUS
<1>1. CASE UNCHANGED vars
  BY <1>1, ClientUnchanged, ServerUnchanged DEF Inv, vars
<1>2. CASE Next
  <2>1. ASSUME NEW k \in Client, AppTruncate(k) PROVE Inv'
    <3>1. PICK p \in Path, n \in 0 .. MaxLen : Truncate(k, p, n)
      BY <2>1 DEF AppTruncate
    <3>2. n \in Nat
      BY ClientAssumption
    <3>3. QED
      BY <2>1, <3>1, <3>2, TruncateOK, ServerUnchanged DEF Inv, AppTruncate
  <2>2. QED
    BY <1>2, <2>1, ApplicationOK, ClientStepOK, ServerStepOK, PutStepOK, FailureOK DEF Next
<1>3. QED
  BY <1>1, <1>2

\* and so it always holds.
LEMMA Invariance == Spec => []Inv
BY InitInv, NextInv, PTL DEF Spec

\* Type correctness: whatever the applications do and whatever fails, every
\* variable of clients, server and handlers keeps its type.
THEOREM TypeCorrect == Spec => []TypeOK
<1>1. Inv => TypeOK
  BY DEF Inv, CInv, SInv, TypeOK
<1>2. QED
  BY <1>1, Invariance, PTL

\* Cache entries and open handles always have their cached copy, with any
\* number of sessions on a client, and under every failure.
THEOREM CopyAlwaysPresent == Spec => []CopyPresent
<1>1. Inv => CopyPresent
  BY DEF Inv, CInv
<1>2. QED
  BY <1>1, Invariance, PTL

-----------------------------------------------------------------------------
(* Uploads of a path one at a time: the published file is sealed           *)

\* At most one handler works on a path.
OnePerPath ==
    \A v, w \in Worker : (v # w /\ wpc[v] # "free" /\ wpc[w] # "free") => wpath[v] # wpath[w]

\* A free handler remembers no path.
FreeBlank == \A w \in Worker : wpc[w] = "free" => wpath[w] = None

\* A handler has a file open only while it receives, and that file is the
\* TMP file of its path.
HoldsTemp ==
    \A w \in Worker : wino[w] # None => wpc[w] = "recv" /\ temp[wpath[w]] = wino[w]

\* A TMP file is no published file, and no two paths share one.
TempApart ==
    \A p, q \in Path : temp[p] # None => temp[p] # file[q] /\ (p # q => temp[p] # temp[q])

Sealed == OnePerPath /\ FreeBlank /\ HoldsTemp /\ TempApart

\* At the start no handler runs and no temporary file exists.
LEMMA SealedInit == ServerInit => Sealed
BY DEF ServerInit, Sealed, OnePerPath, FreeBlank, HoldsTemp, TempApart

\* Sealed speaks of the directory and the handlers only.
LEMMA SealedUnchanged ==
    ASSUME Sealed, UNCHANGED serverVars
    PROVE  Sealed'
BY DEF Sealed, OnePerPath, FreeBlank, HoldsTemp, TempApart, serverVars, diskVars, workVars

\* createEmptyFile takes an inode nobody else holds.
LEMMA SealedCreate ==
    ASSUME SInv, Sealed, NEW p \in Path, CreateEmptyFile(p)
    PROVE  Sealed'
<1>1. UNCHANGED <<temp, serverclock, workVars>>
  BY DEF CreateEmptyFile
<1>2. OnePerPath' /\ FreeBlank' /\ HoldsTemp'
  BY <1>1 DEF Sealed, OnePerPath, FreeBlank, HoldsTemp, workVars
<1>3. TempApart'
  BY <1>1 DEF Sealed, TempApart, CreateEmptyFile, FreeInode, SInv, ServerTypeOK
<1>4. QED
  BY <1>2, <1>3 DEF Sealed

\* removeFile only takes a directory entry away.
LEMMA SealedRemove ==
    ASSUME SInv, Sealed, NEW p \in Path, RemoveEntry(p) \/ EraseClock(p)
    PROVE  Sealed'
<1>1. UNCHANGED <<temp, workVars>>
  BY DEF RemoveEntry, EraseClock, diskVars
<1>2. OnePerPath' /\ FreeBlank' /\ HoldsTemp'
  BY <1>1 DEF Sealed, OnePerPath, FreeBlank, HoldsTemp, workVars
<1>3. TempApart'
  BY <1>1 DEF Sealed, TempApart, RemoveEntry, EraseClock, diskVars, SInv, ServerTypeOK
<1>4. QED
  BY <1>2, <1>3 DEF Sealed

\* A new upload of a path starts when no other upload of it is running.
LEMMA SealedStart ==
    ASSUME SInv, Sealed, NEW w \in Worker, NEW s \in Sess, NEW p \in Path, NEW c \in Content,
           PutStart(w, s, p, c), \A v \in Worker : wpath[v] # p
    PROVE  Sealed'
<1>1. UNCHANGED <<serverclock, file, temp, wino, wreg>>
  BY DEF PutStart, diskVars
<1>2. OnePerPath' /\ FreeBlank'
  BY DEF Sealed, OnePerPath, FreeBlank, PutStart, SInv, ServerTypeOK
<1>3. HoldsTemp' /\ TempApart'
  BY <1>1 DEF Sealed, HoldsTemp, TempApart, PutStart, SInv, ServerTypeOK
<1>4. QED
  BY <1>2, <1>3 DEF Sealed

\* Opening path.TMP at the first chunk, or going on with it, keeps it apart.
LEMMA SealedTemp ==
    ASSUME SInv, Sealed, NEW w \in Worker, wpc[w] = "recv", NEW i \in Inode, OpenTemp(w, i),
           temp' = IF wn[w] = 0 THEN [temp EXCEPT ![wpath[w]] = i] ELSE temp,
           UNCHANGED file
    PROVE  /\ TempApart'
           /\ temp'[wpath[w]] = i
           /\ \A p \in Path : p # wpath[w] => temp'[p] = temp[p]
<1>1. wpath[w] \in Path /\ i # None
  BY ServerAssumption DEF SInv, WorkPath
<1>2. temp'[wpath[w]] = i /\ \A p \in Path : p # wpath[w] => temp'[p] = temp[p]
  <2>1. CASE wn[w] = 0
    BY <1>1, <2>1 DEF SInv, ServerTypeOK
  <2>2. CASE wn[w] # 0
    BY <1>1, <2>2 DEF OpenTemp, Sealed, HoldsTemp
  <2>3. QED
    BY <2>1, <2>2
<1>3. CASE i = temp[wpath[w]]
  BY <1>1, <1>2, <1>3 DEF Sealed, TempApart
<1>4. CASE i \in FreeInode
  BY <1>1, <1>2, <1>4 DEF Sealed, TempApart, FreeInode
<1>5. i = temp[wpath[w]] \/ i \in FreeInode
  BY <1>1 DEF OpenTemp, Sealed, HoldsTemp
<1>6. QED
  BY <1>2, <1>3, <1>4, <1>5

\* A chunk goes to the inode of path.TMP, which no path publishes.
LEMMA SealedChunk ==
    ASSUME SInv, Sealed, NEW w \in Worker, PutChunk(w)
    PROVE  Sealed'
<1>1. PICK i \in Inode :
         /\ OpenTemp(w, i)
         /\ temp' = IF wn[w] = 0 THEN [temp EXCEPT ![wpath[w]] = i] ELSE temp
         /\ wino' = [wino EXCEPT ![w] = i]
  BY DEF PutChunk
<1>2. /\ TempApart' /\ temp'[wpath[w]] = i
      /\ \A p \in Path : p # wpath[w] => temp'[p] = temp[p]
  BY <1>1, SealedTemp DEF PutChunk
<1>3. OnePerPath' /\ FreeBlank'
  BY DEF Sealed, OnePerPath, FreeBlank, PutChunk
<1>4. HoldsTemp'
  <2> SUFFICES ASSUME NEW v \in Worker, wino'[v] # None
               PROVE  wpc'[v] = "recv" /\ temp'[wpath'[v]] = wino'[v]
    BY DEF HoldsTemp
  <2>1. CASE v = w
    BY <1>1, <1>2, <2>1 DEF SInv, ServerTypeOK, PutChunk
  <2>2. CASE v # w
    <3>1. wino[v] = wino'[v]
      BY <1>1, <2>2 DEF SInv, ServerTypeOK
    <3>2. wpc[v] = "recv" /\ temp[wpath[v]] = wino[v] /\ wpath[v] \in Path
      BY <3>1 DEF Sealed, HoldsTemp, SInv, WorkPath
    <3>3. wpath[v] # wpath[w]
      BY <2>2, <3>2 DEF Sealed, OnePerPath, PutChunk
    <3>4. QED
      BY <1>2, <3>1, <3>2, <3>3 DEF PutChunk
  <2>3. QED
    BY <2>1, <2>2
<1>5. QED
  BY <1>2, <1>3, <1>4 DEF Sealed

\* A handler that returns leaves the rest as it was.
LEMMA SealedReturns ==
    ASSUME SInv, Sealed, NEW w \in Worker, WorkerReturns(w), UNCHANGED <<serverclock, file>>,
           TempApart', \A p \in Path : p # wpath[w] => temp'[p] = temp[p], wpc[w] # "free"
    PROVE  Sealed'
<1>1. OnePerPath' /\ FreeBlank'
  BY DEF Sealed, OnePerPath, FreeBlank, WorkerReturns, SInv, ServerTypeOK
<1>2. HoldsTemp'
  <2> SUFFICES ASSUME NEW v \in Worker, wino'[v] # None
               PROVE  wpc'[v] = "recv" /\ temp'[wpath'[v]] = wino'[v]
    BY DEF HoldsTemp
  <2>1. v # w /\ wino'[v] = wino[v] /\ wpc'[v] = wpc[v] /\ wpath'[v] = wpath[v]
    BY DEF WorkerReturns, SInv, ServerTypeOK
  <2>2. wpc[v] = "recv" /\ temp[wpath[v]] = wino[v] /\ wpath[v] \in Path
    BY <2>1 DEF Sealed, HoldsTemp, SInv, WorkPath
  <2>3. wpath[v] # wpath[w]
    BY <2>1, <2>2 DEF Sealed, OnePerPath
  <2>4. QED
    BY <2>1, <2>2, <2>3
<1>3. QED
  BY <1>1, <1>2 DEF Sealed

\* A failed upload leaves path.TMP behind, still unpublished.
LEMMA SealedFails ==
    ASSUME SInv, Sealed, NEW w \in Worker,
           PutOpenFails(w) \/ PutWriteFails(w) \/ PutCancelled(w) \/ PutReply(w)
    PROVE  Sealed'
<1>1. CASE UNCHANGED temp
  <2>1. TempApart'
    BY <1>1 DEF Sealed, TempApart, PutOpenFails, PutWriteFails, PutCancelled, PutReply, diskVars
  <2>2. QED
    BY <1>1, <2>1, SealedReturns DEF PutOpenFails, PutWriteFails, PutCancelled, PutReply, diskVars
<1>2. CASE PutWriteFails(w)
  <2>1. PICK i \in Inode :
           /\ OpenTemp(w, i)
           /\ temp' = IF wn[w] = 0 THEN [temp EXCEPT ![wpath[w]] = i] ELSE temp
    BY <1>2 DEF PutWriteFails
  <2>2. TempApart' /\ \A p \in Path : p # wpath[w] => temp'[p] = temp[p]
    BY <1>2, <2>1, SealedTemp DEF PutWriteFails
  <2>3. QED
    BY <1>2, <2>2, SealedReturns DEF PutWriteFails
<1>3. QED
  BY <1>1, <1>2 DEF PutOpenFails, PutCancelled, PutReply, diskVars

\* The handler closes its file before it renames it.
LEMMA SealedEnd ==
    ASSUME SInv, Sealed, NEW w \in Worker, PutEnd(w)
    PROVE  Sealed'
<1>1. OnePerPath' /\ FreeBlank'
  BY DEF Sealed, OnePerPath, FreeBlank, PutEnd, SInv, ServerTypeOK
<1>2. HoldsTemp' /\ TempApart'
  BY DEF Sealed, HoldsTemp, TempApart, PutEnd, diskVars, SInv, ServerTypeOK
<1>3. QED
  BY <1>1, <1>2 DEF Sealed

\* rename publishes an inode that no handler has open any more.
LEMMA SealedRename ==
    ASSUME SInv, Sealed, NEW w \in Worker, PutRename(w)
    PROVE  Sealed'
<1> DEFINE p == wpath[w]
<1>1. p \in Path
  BY DEF SInv, WorkPath, PutRename
<1>2. /\ temp'[p] = None /\ file'[p] = IF temp[p] = None THEN file[p] ELSE temp[p]
      /\ \A q \in Path : q # p => temp'[q] = temp[q] /\ file'[q] = file[q]
  BY <1>1 DEF PutRename, SInv, ServerTypeOK
<1>3. OnePerPath' /\ FreeBlank'
  BY DEF Sealed, OnePerPath, FreeBlank, PutRename, SInv, ServerTypeOK
<1>4. TempApart'
  BY <1>1, <1>2 DEF Sealed, TempApart
<1>5. HoldsTemp'
  <2> SUFFICES ASSUME NEW v \in Worker, wino'[v] # None
               PROVE  wpc'[v] = "recv" /\ temp'[wpath'[v]] = wino'[v]
    BY DEF HoldsTemp
  <2>1. wino[v] = wino'[v] /\ wpath'[v] = wpath[v]
    BY DEF PutRename
  <2>2. wpc[v] = "recv" /\ temp[wpath[v]] = wino[v] /\ wpath[v] \in Path
    BY <2>1 DEF Sealed, HoldsTemp, SInv, WorkPath
  <2>3. v # w /\ wpath[v] # p
    BY <2>2 DEF Sealed, OnePerPath, PutRename
  <2>4. QED
    BY <1>2, <2>1, <2>2, <2>3 DEF PutRename, SInv, ServerTypeOK
<1>6. QED
  BY <1>3, <1>4, <1>5 DEF Sealed

\* The clock steps touch neither directory nor open files.
LEMMA SealedClock ==
    ASSUME SInv, Sealed, NEW w \in Worker, PutClockLoad(w) \/ PutClockStore(w)
    PROVE  Sealed'
<1>1. OnePerPath' /\ FreeBlank'
  BY DEF Sealed, OnePerPath, FreeBlank, PutClockLoad, PutClockStore, SInv, ServerTypeOK
<1>2. HoldsTemp' /\ TempApart'
  BY DEF Sealed, HoldsTemp, TempApart, PutClockLoad, PutClockStore, diskVars, SInv, ServerTypeOK
<1>3. QED
  BY <1>1, <1>2 DEF Sealed

\* A crash closes every file.
LEMMA SealedCrash ==
    ASSUME SInv, Sealed, Crash \/ Restart \/ \E S : CancelCalls(S)
    PROVE  Sealed'
<1>1. CASE Crash
  BY <1>1 DEF Sealed, OnePerPath, FreeBlank, HoldsTemp, TempApart, Crash, diskVars
<1>2. CASE Restart \/ \E S : CancelCalls(S)
  BY <1>2 DEF Sealed, OnePerPath, FreeBlank, HoldsTemp, TempApart, Restart,
              CancelCalls, diskVars, workVars
<1>3. QED
  BY <1>1, <1>2

\* Every step of a system without overlapping uploads of one path keeps Sealed.
LEMMA NextSealed ==
    ASSUME "overlap" \notin Env, Inv, Sealed, [Next]_vars
    PROVE  Sealed'
<1>1. CASE UNCHANGED serverVars
  BY <1>1, SealedUnchanged
<1>2. ASSUME NEW s \in Sess, ServerStep(s) PROVE Sealed'
  <2>1. path[s] \in Path /\ buf[s] \in Content
    BY <1>2 DEF Inv, CInv, ClientTypeOK, SessPath, ServerStep, GetFileAttributes, GetFileContents,
                CreateOnServer, RemoveFile, RemoveFileEnd, PutFileContents
  <2>2. CASE CreateOnServer(s)
    BY <2>1, <2>2, SealedCreate DEF Inv, CreateOnServer
  <2>3. CASE RemoveFile(s) \/ RemoveFileEnd(s)
    BY <2>1, <2>3, SealedRemove DEF Inv, RemoveFile, RemoveFileEnd
  <2>4. CASE PutFileContents(s)
    BY <2>1, <2>4, SealedStart DEF Inv, PutFileContents
  <2>5. CASE GetFileAttributes(s) \/ GetFileContents(s)
    BY <2>5, SealedUnchanged DEF GetFileAttributes, GetFileContents
  <2>6. QED
    BY <1>2, <2>2, <2>3, <2>4, <2>5 DEF ServerStep
<1>3. ASSUME NEW w \in Worker, PutStep(w) PROVE Sealed'
  BY <1>3, SealedChunk, SealedEnd, SealedFails, SealedRename, SealedClock DEF Inv, PutStep
<1>4. ASSUME NEW w \in Worker, PutIoError(w) PROVE Sealed'
  BY <1>4, SealedFails DEF Inv, PutIoError
<1>5. ASSUME NEW s \in Sess, Timeout(s) PROVE Sealed'
  BY <1>5, SealedCrash DEF Inv, Timeout
<1>6. ASSUME NEW k \in Client, CrashClient(k) PROVE Sealed'
  BY <1>6, SealedCrash DEF Inv, CrashClient
<1>7. CASE CrashServer \/ RestartServer
  BY <1>7, SealedCrash DEF Inv, CrashServer, RestartServer
<1>8. ASSUME NEW s \in Sess,
             \/ Open(s) \/ LookupNegative(s) \/ AppWrite(s) \/ AppClose(s) \/ AppUnlink(s)
             \/ ClientStep(s) \/ Unavailable(s)
      PROVE  UNCHANGED serverVars
  BY <1>8 DEF Open, LookupNegative, AppWrite, AppClose, AppUnlink, ClientStep, Create, OpenCached,
              Fetch, Commit, PutReturns, AppRelease, Unavailable
<1>9. ASSUME NEW k \in Client, AppTruncate(k) PROVE UNCHANGED serverVars
  BY <1>9 DEF AppTruncate
<1>10. QED
  BY <1>1, <1>2, <1>3, <1>4, <1>5, <1>6, <1>7, <1>8, <1>9 DEF Next, vars

\* Without overlapping uploads of one path, no reader ever sees an upload in
\* the making: not after cancelled, failed or crashed uploads, not while files
\* are created and removed, with any number of paths and handler threads.
THEOREM UploadAlwaysSealed ==
    ASSUME "overlap" \notin Env
    PROVE  Spec => []UploadSealed
<1>1. Init => Sealed
  BY SealedInit DEF Init
<1>2. Inv /\ Sealed /\ [Next]_vars => Sealed'
  BY NextSealed
<1>3. Inv /\ Sealed => UploadSealed
  BY DEF Sealed, HoldsTemp, TempApart, UploadSealed, Inv, SInv, WorkPath
<1>4. QED
  BY <1>1, <1>2, <1>3, Invariance, PTL DEF Spec
=============================================================================
