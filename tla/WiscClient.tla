----------------------------- MODULE WiscClient -----------------------------
(***************************************************************************)
(* The FUSE client (cppWrapper.cpp, Cache.cpp, grpc-client.cpp).  A client *)
(* process keeps a status cache in memory (path -> dirty bit, clock) and a *)
(* cached copy of every file it opened in its root directory.              *)
(*                                                                         *)
(* A session is one application file handle at work on a client: it opens  *)
(* (or creates) a file, writes it, closes it (flush, then release), or     *)
(* unlinks it.  Its pc says which FUSE operation it is in and which RPC it *)
(* waits for; the waiting states are those of RpcPC.                       *)
(***************************************************************************)
EXTENDS FileData

CONSTANTS
    Client,    \* client processes
    host,      \* the client each session runs on
    Garbage,   \* what an uninitialised int may hold
    MaxLen,    \* bound: the longest file an application makes
    MaxWrites  \* bound: the writes of all applications together

ASSUME ClientAssumption ==
    /\ host \in [Sess -> Client]
    /\ Garbage \subseteq Int /\ Garbage # {}
    /\ MaxLen \in Nat /\ MaxWrites \in Nat

VARIABLES
    status,     \* Cache::statusCache of each client: an entry or None
    cacheFile,  \* contents of fileCachePath, or None
    pc, path,   \* what each session does, and on which file
    op,         \* the FUSE operation of a session: its code has shared parts
    snap,       \* dirtyBit and clock of the Cache object open and create hold
    clk,        \* logical_clock as the last RPC left it; None: the RPC failed
    buf,        \* the contents fetched, or read back for the upload
    writes      \* writes so far (bounded by MaxWrites)

sessVars == <<pc, path, op, snap, clk, buf>>
clientVars == <<status, cacheFile, sessVars, writes>>

Entry == [dirty : BOOLEAN, clock : Int]

ASSUME NoneAssumption == None \notin Int \cup Entry

RpcPC == {"getattr", "creating", "fetching", "putting", "unlinking", "erasing"}
SessPC == RpcPC \cup {"idle", "create", "attr", "fetched", "open", "putdone", "release"}

ClientTypeOK ==
    /\ status \in [Client -> [Path -> Entry \cup {None}]]
    /\ cacheFile \in [Client -> [Path -> Content \cup {None}]]
    /\ pc \in [Sess -> SessPC]
    /\ path \in [Sess -> Path \cup {None}]
    /\ op \in [Sess -> {"none", "open", "create", "flush", "release", "unlink"}]
    /\ snap \in [Sess -> Entry]
    /\ clk \in [Sess -> Int \cup {None}]
    /\ buf \in [Sess -> Content]
    /\ writes \in 0 .. MaxWrites

NoEntry == [dirty |-> FALSE, clock |-> 0]

\* cppWrapper_initialize: an empty status cache; nothing is loaded from disk.
ClientInit ==
    /\ status = [k \in Client |-> [p \in Path |-> None]]
    /\ cacheFile = [k \in Client |-> [p \in Path |-> None]]
    /\ pc = [s \in Sess |-> "idle"]
    /\ path = [s \in Sess |-> None]
    /\ op = [s \in Sess |-> "none"]
    /\ snap = [s \in Sess |-> NoEntry]
    /\ clk = [s \in Sess |-> None]
    /\ buf = [s \in Sess |-> <<>>]
    /\ writes = 0

-----------------------------------------------------------------------------
(* Class Cache                                                             *)

\* The entry and the cached copy of the file session s works on.
MyEntry(s) == status[host[s]][path[s]]
MyFile(s) == cacheFile[host[s]][path[s]]

\* Cache::Cache: dirtyBit and clock of the entry, 0 and 0 without one.
CacheObject(k, p) == IF status[k][p] = None THEN NoEntry ELSE status[k][p]

\* (mutant: a copy one version behind is taken for valid)
IsCacheValid_OffByOne(c, server_clock) == ~ (server_clock > c.clock + 1)

IsCacheValid(c, server_clock) == ~ (server_clock > c.clock)

\* (mutant: an entry is taken for valid without a look at the clock)
Hit_NoClock(s) == clk[s] # None /\ MyEntry(s) # None

\* isCacheEntry() looks the path up again; isCacheValid uses the snapshot.
Hit(s) == clk[s] # None /\ MyEntry(s) # None /\ IsCacheValid(snap[s], clk[s])

\* updateCache: only an entry that exists is changed.
UpdateCache(s, e) ==
    status' = IF MyEntry(s) = None THEN status
              ELSE [status EXCEPT ![host[s]][path[s]] = e]

-----------------------------------------------------------------------------
(* The FUSE operations, up to the next RPC.  Goto keeps what the operation *)
(* still needs; Return ends it.                                            *)

Goto(s, l) == pc' = [pc EXCEPT ![s] = l]

Return(s) ==
    /\ Goto(s, "idle")
    /\ path' = [path EXCEPT ![s] = None]
    /\ op' = [op EXCEPT ![s] = "none"]
    /\ snap' = [snap EXCEPT ![s] = NoEntry]
    /\ clk' = [clk EXCEPT ![s] = None]
    /\ buf' = [buf EXCEPT ![s] = <<>>]

\* cppWrapper_open, up to getFileAttributes.
OpenCall(s, p) ==
    /\ pc[s] = "idle"
    /\ Goto(s, "getattr")
    /\ path' = [path EXCEPT ![s] = p]
    /\ op' = [op EXCEPT ![s] = "open"]
    /\ snap' = [snap EXCEPT ![s] = CacheObject(host[s], p)]
    /\ UNCHANGED <<status, cacheFile, clk, buf, writes>>

\* The kernel looked p up, heard ENOENT, and will call create.
CreateNext(s, p) ==
    /\ pc[s] = "idle"
    /\ Goto(s, "create")
    /\ path' = [path EXCEPT ![s] = p]
    /\ UNCHANGED <<status, cacheFile, op, snap, clk, buf, writes>>

\* cppWrapper_create, up to getFileAttributes.
CreateCall(s) ==
    /\ pc[s] = "create"
    /\ Goto(s, "getattr")
    /\ op' = [op EXCEPT ![s] = "create"]
    /\ snap' = [snap EXCEPT ![s] = CacheObject(host[s], path[s])]
    /\ UNCHANGED <<status, cacheFile, path, clk, buf, writes>>

\* open(fileCachePath, fi->flags) on cached contents c.  The flags of create
\* may hold O_TRUNC; those of open never do (the kernel takes it out).
OpenLocal(s, c) ==
    /\ \E trunc \in BOOLEAN :
          /\ trunc => op[s] = "create"
          /\ cacheFile' = [cacheFile EXCEPT ![host[s]][path[s]] =
                             IF trunc THEN <<>> ELSE c]
    /\ Goto(s, "open")
    /\ op' = [op EXCEPT ![s] = "none"]
    /\ snap' = [snap EXCEPT ![s] = NoEntry]
    /\ clk' = [clk EXCEPT ![s] = None]
    /\ buf' = [buf EXCEPT ![s] = <<>>]
    /\ UNCHANGED <<path, writes>>

\* A valid cache entry: the cached copy is opened as it is.
OpenCachedFile(s) ==
    /\ pc[s] = "attr"
    /\ Hit(s)
    /\ OpenLocal(s, MyFile(s))
    /\ UNCHANGED status

\* FetchToCache: create first makes the file on the server.
FetchToCache(s) ==
    /\ pc[s] = "attr"
    /\ ~ Hit(s)
    /\ Goto(s, IF op[s] = "create" THEN "creating" ELSE "fetching")
    /\ UNCHANGED <<status, cacheFile, path, op, snap, clk, buf, writes>>

\* commitFileCache and the local open: the copy is overwritten in place, and
\* the entry gets the dirty bit and the clock of the snapshot, not the server's.
CommitFileCache(s) ==
    /\ pc[s] = "fetched"
    /\ status' = [status EXCEPT ![host[s]][path[s]] = snap[s]]
    /\ OpenLocal(s, Cstr(buf[s]))

\* cppWrapper_read on an open handle: pread of the cached copy, wherever its bytes
\* come from; nothing changes.
Read(s) == MyFile(s)

\* cppWrapper_write on an open handle: pwrite, then the dirty bit.
Write(s, off, b) ==
    /\ pc[s] = "open"
    /\ writes < MaxWrites
    /\ cacheFile' = [cacheFile EXCEPT ![host[s]][path[s]] = PWrite(MyFile(s), off, b)]
    /\ UpdateCache(s, [dirty |-> TRUE, clock |-> CacheObject(host[s], path[s]).clock])
    /\ writes' = writes + 1
    /\ UNCHANGED sessVars

\* cppWrapper_truncate: the cached copy only, and no dirty bit.
Truncate(k, p, n) ==
    /\ cacheFile[k][p] # None
    /\ cacheFile' = [cacheFile EXCEPT ![k][p] = Resize(cacheFile[k][p], n)]
    /\ UNCHANGED <<status, sessVars, writes>>

\* The end of flush leads to release, the end of release to the application.
AfterUpload(s, o) ==
    IF o = "flush"
    THEN /\ Goto(s, "release")
         /\ op' = [op EXCEPT ![s] = "none"]
         /\ clk' = [clk EXCEPT ![s] = None]
         /\ buf' = [buf EXCEPT ![s] = <<>>]
         /\ UNCHANGED <<path, snap>>
    ELSE Return(s)

\* A clean file: by-pass.
UploadBypass(s, o) ==
    /\ ~ CacheObject(host[s], path[s]).dirty
    /\ AfterUpload(s, o)
    /\ UNCHANGED <<status, cacheFile, writes>>

\* A dirty empty file: no call is made, yet the clock is synced with a variable
\* nobody has set.
UploadEmpty(s, o) ==
    /\ CacheObject(host[s], path[s]).dirty
    /\ Len(MyFile(s)) = 0
    /\ \E g \in Garbage : UpdateCache(s, [dirty |-> FALSE, clock |-> g])
    /\ AfterUpload(s, o)
    /\ UNCHANGED <<cacheFile, writes>>

\* A dirty file: the cached copy is read back and putFileContents called.
UploadPut(s, o) ==
    /\ CacheObject(host[s], path[s]).dirty
    /\ Len(MyFile(s)) > 0
    /\ Goto(s, "putting")
    /\ op' = [op EXCEPT ![s] = o]
    /\ buf' = [buf EXCEPT ![s] = MyFile(s)]
    /\ UNCHANGED <<status, cacheFile, path, snap, clk, writes>>

Upload(s, o) == UploadBypass(s, o) \/ UploadEmpty(s, o) \/ UploadPut(s, o)

\* close(2): cppWrapper_flush at once, cppWrapper_release some time later.
Flush(s) == pc[s] = "open" /\ Upload(s, "flush")
Release(s) == pc[s] = "release" /\ Upload(s, "release")

\* putFileContents returned: its result is ignored, resetDirtyBit, syncClock.
\* After a failure logical_clock is still uninitialised.
UploadDone(s) ==
    /\ pc[s] = "putdone"
    /\ \E g \in IF clk[s] = None THEN Garbage ELSE {clk[s]} :
          UpdateCache(s, [dirty |-> FALSE, clock |-> g])
    /\ AfterUpload(s, op[s])
    /\ UNCHANGED <<cacheFile, writes>>

\* (mutant: open handles are not looked at)
HasHandle_Ignored(k, p) == FALSE

\* cppWrapper_unlink: the local entry and copy first, then the server.  While
\* a handle is open on this client, libfuse renames the file instead, and
\* cppWrapper_rename fails: nothing happens.
HasHandle(k, p) ==
    \E t \in Sess : /\ host[t] = k /\ path[t] = p
                    /\ pc[t] \in {"open", "putting", "putdone", "release"}

UnlinkCall(s, p) ==
    /\ pc[s] = "idle"
    /\ ~ HasHandle(host[s], p)
    /\ Goto(s, "unlinking")
    /\ path' = [path EXCEPT ![s] = p]
    /\ op' = [op EXCEPT ![s] = "unlink"]
    /\ status' = [status EXCEPT ![host[s]][p] = None]
    /\ cacheFile' = [cacheFile EXCEPT ![host[s]][p] =
                       IF status[host[s]][p] = None THEN cacheFile[host[s]][p] ELSE None]
    /\ UNCHANGED <<snap, clk, buf, writes>>

-----------------------------------------------------------------------------
(* Answers to the RPCs                                                     *)

\* Where a session goes on when its RPC brings an answer ...
RpcNext == [l \in RpcPC |-> CASE l = "getattr" -> "attr"
                              [] l = "creating" -> "fetching"
                              [] l = "fetching" -> "fetched"
                              [] l = "putting" -> "putdone"
                              [] l = "unlinking" -> "erasing"
                              [] OTHER -> "idle"]

\* (mutant: a failed fetch is tried again)
RpcFailed_Retry(l) ==
    IF l \in {"getattr", "putting"} THEN RpcNext[l] ELSE IF l = "fetching" THEN l ELSE "idle"

\* ... and when it fails.  Only open, create and the uploads go on.
RpcFailed(l) == IF l \in {"getattr", "putting"} THEN RpcNext[l] ELSE "idle"

\* The RPCs of the sessions in S fail.
FailCalls(S) ==
    LET Gone(s) == s \in S /\ RpcFailed(pc[s]) = "idle"
    IN  /\ pc' = [s \in Sess |-> IF s \in S THEN RpcFailed(pc[s]) ELSE pc[s]]
        /\ path' = [s \in Sess |-> IF Gone(s) THEN None ELSE path[s]]
        /\ op' = [s \in Sess |-> IF Gone(s) THEN "none" ELSE op[s]]
        /\ snap' = [s \in Sess |-> IF Gone(s) THEN NoEntry ELSE snap[s]]
        /\ clk' = [s \in Sess |-> IF s \in S THEN None ELSE clk[s]]
        /\ buf' = [s \in Sess |-> IF Gone(s) THEN <<>> ELSE buf[s]]
        /\ UNCHANGED <<status, cacheFile, writes>>

\* An answer of RPC l: a clock c or contents d, whichever the call returns.
Answer(s, l, c, d) ==
    /\ pc[s] = l
    /\ Goto(s, RpcNext[l])
    /\ clk' = [clk EXCEPT ![s] = c]
    /\ buf' = [buf EXCEPT ![s] = d]
    /\ UNCHANGED <<status, cacheFile, path, op, snap, writes>>

\* The client process k dies and is mounted again: handles and the status
\* cache are gone, the cached copies stay on its disk.  removeFile looks at no
\* cancellation: a handler that has begun (pc "erasing") runs to its end, a
\* request on its way (pc "unlinking") may still be served.
ClientCrash(k) ==
    \E Late \in SUBSET {s \in Sess : pc[s] \in {"unlinking", "erasing"}} :
        LET Mine(s) == host[s] = k /\ s \notin Late
        IN  /\ \A s \in Sess : pc[s] = "erasing" => s \in Late
            /\ status' = [status EXCEPT ![k] = [p \in Path |-> None]]
            /\ pc' = [s \in Sess |-> IF Mine(s) THEN "idle" ELSE pc[s]]
            /\ path' = [s \in Sess |-> IF Mine(s) THEN None ELSE path[s]]
            /\ op' = [s \in Sess |-> IF Mine(s) THEN "none" ELSE op[s]]
            /\ snap' = [s \in Sess |-> IF Mine(s) THEN NoEntry ELSE snap[s]]
            /\ clk' = [s \in Sess |-> IF Mine(s) THEN None ELSE clk[s]]
            /\ buf' = [s \in Sess |-> IF Mine(s) THEN <<>> ELSE buf[s]]
            /\ UNCHANGED <<cacheFile, writes>>
=============================================================================
