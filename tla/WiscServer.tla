----------------------------- MODULE WiscServer -----------------------------
(***************************************************************************)
(* The gRPC server (grpc-server.cpp): the exported directory on disk, the  *)
(* in-memory logical clocks, and the handler threads that run              *)
(* putFileContents.  The short handlers (getFileAttributes,                *)
(* getFileContents, createEmptyFile) are one step each; removeFile and     *)
(* putFileContents, which change shared state several times without a      *)
(* lock (the mutex is commented out), are one step per change.             *)
(*                                                                         *)
(* A handler runs on behalf of a caller (an element of Sess); what the     *)
(* caller does with the answer is module WiscAFS's business.               *)
(***************************************************************************)
EXTENDS FileData

CONSTANTS
    Worker,    \* handler threads running putFileContents
    Inode      \* inodes of the server's disk

ASSUME ServerAssumption == None \notin Inode \cup Path \cup Sess

VARIABLES
    up,            \* the server process runs
    serverclock,   \* static unordered_map serverclock; a path without an entry reads 0
    file,          \* directory entry of each path: an inode or None
    temp,          \* directory entry of path.TMP: an inode or None
    data,          \* contents of the inodes
    wpc,           \* where each handler thread of putFileContents is
    wsess,         \* its caller, or None once the caller gave up (context cancelled)
    wpath,         \* the path it writes
    wbuf,          \* the contents its caller streams
    wino,          \* the inode its fd is open on, or None
    wn,            \* chunks written so far
    wreg,          \* serverclock[path] as it was loaded
    current        \* ghost: what the last finished putFileContents was sent (<<>>: none)

diskVars == <<file, temp, data>>
workVars == <<wpc, wsess, wpath, wbuf, wino, wn, wreg>>
serverVars == <<up, serverclock, diskVars, workVars, current>>

WorkPC == {"free", "recv", "rename", "load", "store", "reply"}

ServerTypeOK ==
    /\ up \in BOOLEAN
    /\ serverclock \in [Path -> Nat]
    /\ file \in [Path -> Inode \cup {None}]
    /\ temp \in [Path -> Inode \cup {None}]
    /\ data \in [Inode -> Content]
    /\ wpc \in [Worker -> WorkPC]
    /\ wsess \in [Worker -> Sess \cup {None}]
    /\ wpath \in [Worker -> Path \cup {None}]
    /\ wbuf \in [Worker -> Content]
    /\ wino \in [Worker -> Inode \cup {None}]
    /\ wn \in [Worker -> Nat]
    /\ wreg \in [Worker -> Nat]
    /\ current \in [Path -> Content]

\* RunServer: an exported directory that is empty, and no clock.
ServerInit ==
    /\ up = TRUE
    /\ serverclock = [p \in Path |-> 0]
    /\ file = [p \in Path |-> None]
    /\ temp = [p \in Path |-> None]
    /\ data = [i \in Inode |-> <<>>]
    /\ wpc = [w \in Worker |-> "free"]
    /\ wsess = [w \in Worker |-> None]
    /\ wpath = [w \in Worker |-> None]
    /\ wbuf = [w \in Worker |-> <<>>]
    /\ wino = [w \in Worker |-> None]
    /\ wn = [w \in Worker |-> 0]
    /\ wreg = [w \in Worker |-> 0]
    /\ current = [p \in Path |-> <<>>]

\* An inode that no directory entry and no open file holds.
FreeInode ==
    {i \in Inode : /\ \A p \in Path : file[p] # i /\ temp[p] # i
                   /\ \A w \in Worker : wino[w] # i}

-----------------------------------------------------------------------------
(* The short handlers                                                      *)

\* getFileAttributes: the clock of an existing file, an error for a missing one.
AttributesReply(p) == IF file[p] = None THEN None ELSE serverclock[p]

\* getFileContents: the whole file, or err = -1.
ContentsReply(p) == IF file[p] = None THEN None ELSE data[file[p]]

\* createEmptyFile: open(path, O_RDWR | O_CREAT); an existing file and the
\* clock stay as they are.
CreateEmptyFile(p) ==
    /\ IF file[p] = None
       THEN \E i \in FreeInode : /\ file' = [file EXCEPT ![p] = i]
                                 /\ data' = [data EXCEPT ![i] = <<>>]
                                 /\ current' = [current EXCEPT ![p] = <<>>]
       ELSE UNCHANGED <<file, data, current>>
    /\ UNCHANGED <<up, serverclock, temp, workVars>>

\* removeFile, first half: fs::remove.  A missing file is no error to the caller.
RemoveEntry(p) ==
    /\ file' = [file EXCEPT ![p] = None]
    /\ current' = [current EXCEPT ![p] = <<>>]
    /\ UNCHANGED <<up, serverclock, temp, data, workVars>>

\* (mutant: the clock is counted down)
EraseClock_Decrement(p) ==
    /\ serverclock' = [serverclock EXCEPT ![p] = serverclock[p] - 1]
    /\ UNCHANGED <<up, diskVars, workVars, current>>

\* removeFile, second half: serverclock.erase.
EraseClock(p) ==
    /\ serverclock' = [serverclock EXCEPT ![p] = 0]
    /\ UNCHANGED <<up, diskVars, workVars, current>>

-----------------------------------------------------------------------------
(* putFileContents                                                         *)

\* The handler thread w is done: its locals are gone.
WorkerReturns(w) ==
    /\ wpc' = [wpc EXCEPT ![w] = "free"]
    /\ wsess' = [wsess EXCEPT ![w] = None]
    /\ wpath' = [wpath EXCEPT ![w] = None]
    /\ wbuf' = [wbuf EXCEPT ![w] = <<>>]
    /\ wino' = [wino EXCEPT ![w] = None]
    /\ wn' = [wn EXCEPT ![w] = 0]
    /\ wreg' = [wreg EXCEPT ![w] = 0]

\* A free thread takes the call of caller s.
PutStart(w, s, p, c) ==
    /\ wpc[w] = "free"
    /\ wpc' = [wpc EXCEPT ![w] = "recv"]
    /\ wsess' = [wsess EXCEPT ![w] = s]
    /\ wpath' = [wpath EXCEPT ![w] = p]
    /\ wbuf' = [wbuf EXCEPT ![w] = c]
    /\ UNCHANGED <<up, serverclock, diskVars, wino, wn, wreg, current>>

\* (mutant: an existing file is written in place)
OpenTemp_InPlace(w, i) ==
    \/ wn[w] > 0 /\ i = wino[w]
    \/ wn[w] = 0 /\ file[wpath[w]] # None /\ i = file[wpath[w]]
    \/ wn[w] = 0 /\ file[wpath[w]] = None /\ i \in FreeInode

\* open(path.TMP, O_CREAT | O_SYNC | O_WRONLY), without O_TRUNC: a TMP file
\* that is there is opened with what is in it.  The handler then holds inode i.
OpenTemp(w, i) ==
    \/ wn[w] > 0 /\ i = wino[w]
    \/ wn[w] = 0 /\ temp[wpath[w]] # None /\ i = temp[wpath[w]]
    \/ wn[w] = 0 /\ temp[wpath[w]] = None /\ i \in FreeInode

\* The contents pwrite finds: those of the open file, none in a new one.
OpenedData(w, i) == IF i \in FreeInode THEN <<>> ELSE data[i]

\* One turn of the read loop: open at the first chunk, pwrite, fsync.
PutChunk(w) ==
    /\ wpc[w] = "recv"
    /\ wsess[w] # None
    /\ wn[w] < Len(wbuf[w])
    /\ \E i \in Inode :
          /\ OpenTemp(w, i)
          /\ temp' = IF wn[w] = 0 THEN [temp EXCEPT ![wpath[w]] = i] ELSE temp
          /\ data' = [data EXCEPT ![i] =
                        PWrite(OpenedData(w, i), wn[w], wbuf[w][wn[w] + 1])]
          /\ wino' = [wino EXCEPT ![w] = i]
    /\ wn' = [wn EXCEPT ![w] = wn[w] + 1]
    /\ UNCHANGED <<up, serverclock, file, wpc, wsess, wpath, wbuf, wreg, current>>

\* open failed: the reply carries an error and no clock, under Status::OK.
PutOpenFails(w) ==
    /\ wpc[w] = "recv"
    /\ wsess[w] # None
    /\ wn[w] = 0
    /\ WorkerReturns(w)
    /\ UNCHANGED <<up, serverclock, diskVars, current>>

\* pwrite failed: the same reply; path.TMP stays behind.
PutWriteFails(w) ==
    /\ wpc[w] = "recv"
    /\ wsess[w] # None
    /\ wn[w] < Len(wbuf[w])
    /\ \E i \in Inode :
          /\ OpenTemp(w, i)
          /\ temp' = IF wn[w] = 0 THEN [temp EXCEPT ![wpath[w]] = i] ELSE temp
          /\ data' = [data EXCEPT ![i] = OpenedData(w, i)]
    /\ WorkerReturns(w)
    /\ UNCHANGED <<up, serverclock, file, current>>

\* (mutant: the first chunk is taken for the last)
PutEnd_Early(w) ==
    /\ wpc[w] = "recv"
    /\ wn[w] >= 1
    /\ wpc' = [wpc EXCEPT ![w] = "rename"]
    /\ wino' = [wino EXCEPT ![w] = None]
    /\ UNCHANGED <<up, serverclock, diskVars, wsess, wpath, wbuf, wn, wreg, current>>

\* The stream ended with every chunk received, and the call is not cancelled
\* (or the cancellation has not reached the server yet).
PutEnd(w) ==
    /\ wpc[w] = "recv"
    /\ wn[w] = Len(wbuf[w])
    /\ wpc' = [wpc EXCEPT ![w] = "rename"]
    /\ wino' = [wino EXCEPT ![w] = None]          \* close(fd)
    /\ UNCHANGED <<up, serverclock, diskVars, wsess, wpath, wbuf, wn, wreg, current>>

\* The caller gave up: IsCancelled, the handler returns CANCELLED and leaves
\* path.TMP behind.
PutCancelled(w) ==
    /\ wpc[w] = "recv"
    /\ wsess[w] = None
    /\ WorkerReturns(w)
    /\ UNCHANGED <<up, serverclock, diskVars, current>>

\* rename(path.TMP, path).  A failure (someone else renamed path.TMP) goes
\* unnoticed: set_err(0) overwrites the error.
PutRename(w) ==
    /\ wpc[w] = "rename"
    /\ LET p == wpath[w] IN
          /\ file' = [file EXCEPT ![p] = IF temp[p] = None THEN file[p] ELSE temp[p]]
          /\ temp' = [temp EXCEPT ![p] = None]
    /\ wpc' = [wpc EXCEPT ![w] = "load"]
    /\ UNCHANGED <<up, serverclock, data, wsess, wpath, wbuf, wino, wn, wreg, current>>

\* (mutant: IsCancelled is asked again after the rename)
PutClockLoad_Cancelled(w) ==
    /\ wpc[w] = "load"
    /\ IF wsess[w] = None THEN WorkerReturns(w)
       ELSE /\ wreg' = [wreg EXCEPT ![w] = serverclock[wpath[w]]]
            /\ wpc' = [wpc EXCEPT ![w] = "store"]
            /\ UNCHANGED <<wsess, wpath, wbuf, wino, wn>>
    /\ UNCHANGED <<up, serverclock, diskVars, current>>

\* serverclock[path] = serverclock[path] + 1, unlocked: the load ...
PutClockLoad(w) ==
    /\ wpc[w] = "load"
    /\ wreg' = [wreg EXCEPT ![w] = serverclock[wpath[w]]]
    /\ wpc' = [wpc EXCEPT ![w] = "store"]
    /\ UNCHANGED <<up, serverclock, diskVars, wsess, wpath, wbuf, wino, wn, current>>

\* ... and the store.
PutClockStore(w) ==
    /\ wpc[w] = "store"
    /\ serverclock' = [serverclock EXCEPT ![wpath[w]] = wreg[w] + 1]
    /\ current' = [current EXCEPT ![wpath[w]] = wbuf[w]]
    /\ wpc' = [wpc EXCEPT ![w] = "reply"]
    /\ UNCHANGED <<up, diskVars, wsess, wpath, wbuf, wino, wn, wreg>>

\* The reply reads serverclock[path] again.
PutClockReply(w) == serverclock[wpath[w]]

\* (mutant: the answer is sent before the clock is stored)
PutReply_Early(w) ==
    /\ wpc[w] \in {"load", "reply"}
    /\ WorkerReturns(w)
    /\ UNCHANGED <<up, serverclock, diskVars, current>>

PutReply(w) ==
    /\ wpc[w] = "reply"
    /\ WorkerReturns(w)
    /\ UNCHANGED <<up, serverclock, diskVars, current>>

-----------------------------------------------------------------------------
(* Failures                                                                *)

\* The calls of the callers in S are cancelled; their handlers run on.
CancelCalls(S) ==
    /\ wsess' = [w \in Worker |-> IF wsess[w] \in S THEN None ELSE wsess[w]]
    /\ UNCHANGED <<up, serverclock, diskVars, wpc, wpath, wbuf, wino, wn, wreg, current>>

\* The server process dies: handlers and clocks are gone, the disk stays.
Crash ==
    /\ up
    /\ up' = FALSE
    /\ serverclock' = [p \in Path |-> 0]
    /\ wpc' = [w \in Worker |-> "free"]
    /\ wsess' = [w \in Worker |-> None]
    /\ wpath' = [w \in Worker |-> None]
    /\ wbuf' = [w \in Worker |-> <<>>]
    /\ wino' = [w \in Worker |-> None]
    /\ wn' = [w \in Worker |-> 0]
    /\ wreg' = [w \in Worker |-> 0]
    /\ UNCHANGED <<diskVars, current>>

Restart ==
    /\ ~up
    /\ up' = TRUE
    /\ UNCHANGED <<serverclock, diskVars, workVars, current>>
=============================================================================
