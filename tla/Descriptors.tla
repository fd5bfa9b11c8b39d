---------------------------- MODULE Descriptors -----------------------------
(***************************************************************************)
(* The descriptor table that the handler threads of the server share.      *)
(* Every handler works on a path of its own: what it opens is its file.    *)
(* open returns the lowest free descriptor; putFileContents closes its     *)
(* descriptor after the read loop and once more before it renames or       *)
(* returns, and keeps it open when pwrite fails.                           *)
(***************************************************************************)
EXTENDS Integers, FiniteSetsExt

CONSTANTS
    Worker,      \* handler threads
    MaxFd,       \* bound: descriptors of the process (RLIMIT_NOFILE)
    MaxChunks,   \* bound: chunks of an upload
    None

VARIABLES
    table,       \* the handler that opened the file behind each descriptor, or None
    pc,
    fd,          \* the local variable of putFileContents and createEmptyFile
    chunks,      \* chunks still to come
    written      \* <<w, f>>: a chunk of handler w went into the file of handler f

vars == <<table, pc, fd, chunks, written>>

Fd == 1 .. MaxFd

Init ==
    /\ table = [f \in Fd |-> None]
    /\ pc = [w \in Worker |-> "idle"]
    /\ fd = [w \in Worker |-> -1]
    /\ chunks = [w \in Worker |-> 0]
    /\ written = {}

Free == {f \in Fd : table[f] = None}

\* open(2) by w; when it fails w goes to the label failed.
OpenFd(w, label, failed) ==
    IF Free = {} THEN fd' = [fd EXCEPT ![w] = -1] /\ pc' = [pc EXCEPT ![w] = failed] /\ UNCHANGED table
    ELSE /\ fd' = [fd EXCEPT ![w] = Min(Free)]
         /\ table' = [table EXCEPT ![Min(Free)] = w]
         /\ pc' = [pc EXCEPT ![w] = label]

\* close(2) of fd by w, whoever has the descriptor by now.
CloseFd(w) == table' = [table EXCEPT ![fd[w]] = None]

Goto(w, label) == pc' = [pc EXCEPT ![w] = label]

-----------------------------------------------------------------------------
(* createEmptyFile                                                         *)

CreateOpen(w) ==
    /\ pc[w] = "idle"
    /\ OpenFd(w, "created", "idle")
    /\ UNCHANGED <<chunks, written>>

CreateClose(w) ==
    /\ pc[w] = "created"
    /\ CloseFd(w)
    /\ Goto(w, "idle")
    /\ UNCHANGED <<fd, chunks, written>>

-----------------------------------------------------------------------------
(* putFileContents                                                         *)

PutOpen(w) ==
    /\ pc[w] = "idle"
    /\ OpenFd(w, "write", "idle")
    /\ chunks' = [chunks EXCEPT ![w] = MaxChunks]
    /\ UNCHANGED written

\* pwrite goes where the descriptor leads.
PutChunk(w) ==
    /\ pc[w] = "write" /\ chunks[w] > 0
    /\ table[fd[w]] # None
    /\ written' = written \cup {<<w, table[fd[w]]>>}
    /\ chunks' = [chunks EXCEPT ![w] = @ - 1]
    /\ UNCHANGED <<table, pc, fd>>

\* pwrite fails, EBADF included: the handler returns without a close.
PutFails(w) ==
    /\ pc[w] = "write" /\ chunks[w] > 0
    /\ Goto(w, "idle")
    /\ UNCHANGED <<table, fd, chunks, written>>

\* The stream ends, or is cancelled, after the chunk that opened path.TMP at
\* the earliest: close(fd) after the loop.
PutEnd(w) ==
    /\ pc[w] = "write" /\ chunks[w] < MaxChunks
    /\ CloseFd(w)
    /\ Goto(w, "closed")
    /\ UNCHANGED <<fd, chunks, written>>

\* The second close(fd), of the cancelled call as well as before rename.
PutCloseAgain(w) ==
    /\ pc[w] = "closed"
    /\ CloseFd(w)
    /\ Goto(w, "idle")
    /\ UNCHANGED <<fd, chunks, written>>

Next ==
    \E w \in Worker :
        \/ CreateOpen(w) \/ CreateClose(w)
        \/ PutOpen(w) \/ PutChunk(w) \/ PutFails(w) \/ PutEnd(w) \/ PutCloseAgain(w)

Spec == Init /\ [][Next]_vars

-----------------------------------------------------------------------------
\* Uploads of different files do not mix: the chunks of a putFileContents go
\* into the path.TMP that it opened, whatever other handlers open and close.
WritesOwnFile == \A e \in written : e[1] = e[2]
=============================================================================
