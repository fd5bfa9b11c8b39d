------------------------------ MODULE WiscAFS -------------------------------
(***************************************************************************)
(* The distributed file system: the clients of module WiscClient and the   *)
(* server of module WiscServer joined by their RPCs.  A call and its       *)
(* answer are separate steps, so everything may happen between the moment  *)
(* the server reads its state and the moment the client uses the answer.   *)
(*                                                                         *)
(* The constant Env says what the applications and the environment do in   *)
(* an instance:                                                            *)
(*   "unlink"    applications remove files                                 *)
(*   "truncate"  applications truncate files (or open them with O_TRUNC)   *)
(*   "sparse"    applications write past the end of a file                 *)
(*   "overlap"   two putFileContents of one path may run at the same time  *)
(*   "timeout"   the 60 s deadline of getFileContents and putFileContents  *)
(*               may expire                                                *)
(*   "ioerr"     open and pwrite of path.TMP may fail on the server        *)
(*   "ccrash"    a client that has no upload in flight may crash           *)
(*   "putcrash"  a client may crash at any moment                          *)
(*   "scrash"    the server may crash and be restarted                     *)
(***************************************************************************)
EXTENDS WiscServer, WiscClient

CONSTANTS
    Env,
    MaxClock,  \* bound: applications close no file whose clock has come this far
    MaxFaults  \* bound: crashes, expired deadlines and I/O errors together

VARIABLE
    faults     \* failures so far

EnvKinds == {"unlink", "truncate", "sparse", "overlap", "timeout", "ioerr",
             "ccrash", "putcrash", "scrash"}

ASSUME EnvAssumption == Env \subseteq EnvKinds /\ MaxClock \in Nat /\ MaxFaults \in Nat

vars == <<serverVars, clientVars, faults>>

Init == ServerInit /\ ClientInit /\ faults = 0

TypeOK == ServerTypeOK /\ ClientTypeOK /\ faults \in 0 .. MaxFaults

-----------------------------------------------------------------------------
(* Steps of the applications and of the client code.  Applications come in *)
(* by unreliable_*, whose error_inject lets them pass: injected faults are *)
(* the subject of module ErrInj.                                           *)

Open(s) == \E p \in Path : OpenCall(s, p) /\ UNCHANGED <<serverVars, faults>>

\* open(O_CREAT) of a path for which the kernel's lookup (cppWrapper_getattr)
\* has just been answered ENOENT.
LookupNegative(s) ==
    \E p \in Path : up /\ file[p] = None /\ CreateNext(s, p) /\ UNCHANGED <<serverVars, faults>>

Create(s) == CreateCall(s) /\ UNCHANGED <<serverVars, faults>>

AppWrite(s) ==
    \E off \in 0 .. MaxLen - 1, b \in Byte :
        /\ pc[s] = "open"
        /\ "sparse" \in Env \/ off <= Len(MyFile(s))
        /\ Write(s, off, b)
        /\ UNCHANGED <<serverVars, faults>>

AppTruncate(k) ==
    /\ "truncate" \in Env
    /\ \E p \in Path, n \in 0 .. MaxLen : Truncate(k, p, n)
    /\ UNCHANGED <<serverVars, faults>>

AppClose(s) ==
    /\ pc[s] = "open"
    /\ serverclock[path[s]] < MaxClock
    /\ Flush(s)
    /\ UNCHANGED <<serverVars, faults>>

AppUnlink(s) ==
    /\ "unlink" \in Env
    /\ \E p \in Path : UnlinkCall(s, p)
    /\ UNCHANGED <<serverVars, faults>>

OpenCached(s) == OpenCachedFile(s) /\ UNCHANGED <<serverVars, faults>>
Fetch(s) == FetchToCache(s) /\ UNCHANGED <<serverVars, faults>>
Commit(s) == CommitFileCache(s) /\ UNCHANGED <<serverVars, faults>>
PutReturns(s) == UploadDone(s) /\ UNCHANGED <<serverVars, faults>>
AppRelease(s) == Release(s) /\ UNCHANGED <<serverVars, faults>>

\* What the client code does on its own once an operation has begun.
ClientStep(s) ==
    \/ Create(s) \/ OpenCached(s) \/ Fetch(s) \/ Commit(s) \/ PutReturns(s) \/ AppRelease(s)

-----------------------------------------------------------------------------
(* Handlers of the server                                                  *)

GetFileAttributes(s) ==
    /\ up
    /\ pc[s] = "getattr"
    /\ Answer(s, "getattr", AttributesReply(path[s]), <<>>)
    /\ UNCHANGED <<serverVars, faults>>

\* err = -1 makes open and create return.
GetFileContents(s) ==
    /\ up
    /\ pc[s] = "fetching"
    /\ IF ContentsReply(path[s]) = None
       THEN Return(s) /\ UNCHANGED <<status, cacheFile, writes>>
       ELSE Answer(s, "fetching", None, ContentsReply(path[s]))
    /\ UNCHANGED <<serverVars, faults>>

CreateOnServer(s) ==
    /\ up
    /\ pc[s] = "creating"
    /\ Answer(s, "creating", None, <<>>)
    /\ CreateEmptyFile(path[s])
    /\ UNCHANGED faults

RemoveFile(s) ==
    /\ up
    /\ pc[s] = "unlinking"
    /\ Answer(s, "unlinking", None, <<>>)
    /\ RemoveEntry(path[s])
    /\ UNCHANGED faults

RemoveFileEnd(s) ==
    /\ up
    /\ pc[s] = "erasing"
    /\ Return(s) /\ UNCHANGED <<status, cacheFile, writes>>
    /\ EraseClock(path[s])
    /\ UNCHANGED faults

\* A handler thread takes the call of s.  Without "overlap" the uploads of a
\* path come one after the other.
PutFileContents(s) ==
    /\ up
    /\ pc[s] = "putting"
    /\ \A w \in Worker : wsess[w] # s
    /\ "overlap" \in Env \/ \A w \in Worker : wpath[w] # path[s]
    /\ \E w \in Worker : PutStart(w, s, path[s], buf[s])
    /\ UNCHANGED <<clientVars, faults>>

\* The answer of putFileContents reaches a caller that still waits for it.
PutAnswer(w, c) ==
    IF wsess[w] = None THEN UNCHANGED clientVars
    ELSE Answer(wsess[w], "putting", c, buf[wsess[w]])

PutStep(w) ==
    \/ PutChunk(w) /\ UNCHANGED <<clientVars, faults>>
    \/ PutEnd(w) /\ UNCHANGED <<clientVars, faults>>
    \/ PutCancelled(w) /\ UNCHANGED <<clientVars, faults>>
    \/ PutRename(w) /\ UNCHANGED <<clientVars, faults>>
    \/ PutClockLoad(w) /\ UNCHANGED <<clientVars, faults>>
    \/ PutClockStore(w) /\ UNCHANGED <<clientVars, faults>>
    \/ PutReply(w) /\ PutAnswer(w, PutClockReply(w)) /\ UNCHANGED faults

ServerStep(s) ==
    \/ GetFileAttributes(s) \/ GetFileContents(s) \/ CreateOnServer(s)
    \/ RemoveFile(s) \/ RemoveFileEnd(s) \/ PutFileContents(s)

-----------------------------------------------------------------------------
(* Failures                                                                *)

\* No server: the call ends with UNAVAILABLE.
Unavailable(s) ==
    /\ ~ up
    /\ pc[s] \in RpcPC
    /\ FailCalls({s})
    /\ UNCHANGED <<serverVars, faults>>

\* The failures an instance may have are counted.
Counted == faults < MaxFaults /\ faults' = faults + 1

\* DEADLINE_EXCEEDED at the client; a handler that runs is cancelled.
Timeout(s) ==
    /\ "timeout" \in Env
    /\ pc[s] \in {"fetching", "putting"}
    /\ FailCalls({s})
    /\ CancelCalls({s})
    /\ Counted

\* The reply of a failed handler carries no clock: protobuf's default, 0.
PutIoError(w) ==
    /\ "ioerr" \in Env
    /\ PutOpenFails(w) \/ PutWriteFails(w)
    /\ PutAnswer(w, 0)
    /\ Counted

CrashClient(k) ==
    /\ \/ "putcrash" \in Env
       \/ "ccrash" \in Env /\ \A s \in Sess : host[s] = k => pc[s] # "putting"
    /\ ClientCrash(k)
    /\ CancelCalls({s \in Sess : host[s] = k})
    /\ Counted

\* The server dies; the calls in progress fail.
CrashServer ==
    /\ "scrash" \in Env
    /\ Crash
    /\ FailCalls({s \in Sess : pc[s] \in RpcPC})
    /\ Counted

RestartServer == Restart /\ UNCHANGED <<clientVars, faults>>

-----------------------------------------------------------------------------
Next ==
    \/ \E s \in Sess :
          \/ Open(s) \/ LookupNegative(s) \/ AppWrite(s) \/ AppClose(s) \/ AppUnlink(s)
          \/ ClientStep(s) \/ ServerStep(s)
          \/ Unavailable(s) \/ Timeout(s)
    \/ \E w \in Worker : PutStep(w) \/ PutIoError(w)
    \/ \E k \in Client : AppTruncate(k) \/ CrashClient(k)
    \/ CrashServer \/ RestartServer

Spec == Init /\ [][Next]_vars

\* The client code and the handler threads of a running server make progress,
\* and a dead connection is noticed.  Applications, crashes and deadlines may
\* come or not.
Fairness ==
    /\ \A s \in Sess : /\ WF_vars(ClientStep(s))
                       /\ WF_vars(ServerStep(s) \/ Unavailable(s))
    /\ \A w \in Worker : WF_vars(PutStep(w))

FairSpec == Spec /\ Fairness
-----------------------------------------------------------------------------
(* Properties                                                              *)

\* Every cache entry, and every open handle, has its cached copy: the local
\* open of a cache hit finds a file, and flush reads back a file that is there,
\* whatever other handles of the client open, unlink or truncate meanwhile.
CopyPresent ==
    /\ \A k \in Client, p \in Path : status[k][p] # None => cacheFile[k][p] # None
    /\ \A s \in Sess : pc[s] \in {"open", "putting", "putdone", "release"} => MyFile(s) # None

\* No handler of putFileContents that is still receiving chunks has the
\* published file open: readers never see an upload in the making, whatever
\* crashes, deadlines or errors cut other uploads short (TMP file and rename).
UploadSealed ==
    \A w \in Worker, p \in Path : wino[w] # None => file[p] # wino[w]

\* No upload of p is under way on the server.
AtRest(p) == \A w \in Worker : wpath[w] # p

\* Cache staleness: a clean cached copy that the clock comparison of
\* isCacheValid would accept now is the file as it is on the server.
CacheFresh ==
    \A k \in Client, p \in Path :
        LET e == status[k][p]
        IN  (e # None /\ ~ e.dirty /\ IsCacheValid(e, serverclock[p]) /\ AtRest(p) /\ file[p] # None)
                => cacheFile[k][p] = data[file[p]]

\* Last closer wins: when no upload of p is under way, the file on the server
\* is exactly what the last finished putFileContents was sent.
LastCloserWins ==
    \A p \in Path : (AtRest(p) /\ file[p] # None) => data[file[p]] = current[p]

\* Flush on close: when putFileContents has returned to flush or release, the
\* server answered, and it publishes what was sent unless a later upload came.
CloseDelivered ==
    \A s \in Sess : pc[s] = "putdone" =>
        /\ clk[s] # None
        /\ serverclock[path[s]] = clk[s] => current[path[s]] = buf[s]

\* A rename of path.TMP publishes a file under the clock of its predecessor.  The
\* clock does not stay there: it is raised, or started anew by removeFile, also
\* when the caller of putFileContents has crashed or given up meanwhile, for
\* otherwise copies of the predecessor would stay valid.  Only a crash of the
\* server can come before it.
PublishedThenRaised ==
    \A p \in Path, c \in 0 .. MaxClock :
        (\E w \in Worker : wpath[w] = p /\ wpc[w] = "load" /\ serverclock[p] = c)
            ~> (serverclock[p] # c \/ ~ up)

\* Every FUSE operation that began ends, with the server alive, dead or
\* restarted: each RPC is answered or fails, and no handler waits for another.
OpsTerminate ==
    \A s \in Sess : pc[s] \notin {"idle", "open"} ~> pc[s] \in {"idle", "open"}

-----------------------------------------------------------------------------
(* Refinement of CloseToOpen, for sessions on clients of their own         *)

\* The handler of s stored the clock: what s sent is published.
Stored(s) == \E w \in Worker : wsess[w] = s /\ wpc[w] = "reply"

absSt == [s \in Sess |->
    CASE pc[s] \in {"create", "getattr", "creating", "fetching"} -> "opening"
      [] pc[s] = "attr" -> IF Hit(s) THEN "sampled" ELSE "opening"
      [] pc[s] = "fetched" -> "sampled"
      [] pc[s] = "putting" -> IF Stored(s) THEN "done" ELSE "closing"
      [] pc[s] \in {"putdone", "release"} -> "done"
      [] OTHER -> pc[s]]

absView == [s \in Sess |->
    CASE pc[s] = "attr" /\ Hit(s) -> MyFile(s)
      [] pc[s] = "fetched" \/ (pc[s] = "putting" /\ ~ Stored(s)) -> buf[s]
      [] pc[s] = "open" -> Read(s)
      [] OTHER -> <<>>]

absModified == [s \in Sess |->
    \/ pc[s] = "open" /\ CacheObject(host[s], path[s]).dirty
    \/ pc[s] = "putting" /\ ~ Stored(s)]

\* create may come with O_TRUNC.
absEmpties == [s \in Sess |-> pc[s] = "create" \/ op[s] = "create"]

C2O == INSTANCE CloseToOpen WITH
    store <- current, st <- absSt, on <- path, view <- absView, modified <- absModified,
    empties <- absEmpties

\* The system is an implementation of close-to-open consistency: what an open
\* returns, and what a close publishes and when, is what CloseToOpen allows.
ImplementsCloseToOpen == C2O!Spec
=============================================================================
