----------------------------- MODULE Namespace ------------------------------
(***************************************************************************)
(* The names of the file system: mkdir, rmdir, readdir, unlink and create  *)
(* of several applications on machines of their own.  Directories are kept *)
(* on the server alone; each call is one RPC (two for create) without a    *)
(* deadline, and a crash of the server fails the calls in progress before  *)
(* or after their effect.                                                  *)
(*                                                                         *)
(* The kernel looks a name up (cppWrapper_getattr) before it calls mkdir,  *)
(* rmdir, unlink or create, and calls only what fits the answer; the name  *)
(* may be another by the time of the call.  Contents and caches are the    *)
(* subject of WiscAFS.                                                     *)
(***************************************************************************)
EXTENDS Integers

CONSTANTS
    Sess,        \* applications, each on a client of its own
    Path,        \* names
    Root,        \* the directory of the server
    parent,      \* [Path -> Path \cup {Root}]
    DirName,     \* names that applications use for directories
    FileName,    \* names that applications use for files
    MaxCrashes,  \* bound: crashes of the server
    None

ASSUME NamesAssumption ==
    /\ parent \in [Path -> Path \cup {Root}] /\ Root \notin Path
    /\ DirName \subseteq Path /\ FileName \subseteq Path
    /\ MaxCrashes \in Nat
ASSUME NoneAssumption ==
    None \notin {"mkdir", "rmdir", "readdir", "unlink", "create"}

VARIABLES
    tree,        \* what each name is on the server
    up,          \* the server runs
    crashes,
    pc,          \* where each application's call is
    op,          \* which call it is
    at,          \* its path
    reply,       \* the answer of its RPC; None when the RPC failed
    did,         \* its RPC changed the tree
    ret,         \* what its last call returned
    listing,     \* the names its last readdir returned
    owns         \* directories it was told that it made and has not tried to remove

serverVars == <<tree, up, crashes>>
sessVars == <<pc, op, at, reply, did, ret, listing, owns>>
vars == <<serverVars, sessVars>>

Op == {"mkdir", "rmdir", "readdir", "unlink", "create"}

ENOENT == 2
EEXIST == 17
ENOTDIR == 20
EISDIR == 21
ENOTEMPTY == 39
Errno == {ENOENT, EEXIST, ENOTDIR, EISDIR, ENOTEMPTY}

Init ==
    /\ tree = [p \in Path |-> "none"] /\ up = TRUE /\ crashes = 0
    /\ pc = [s \in Sess |-> "idle"]
    /\ op = [s \in Sess |-> None] /\ at = [s \in Sess |-> None]
    /\ reply = [s \in Sess |-> None] /\ did = [s \in Sess |-> FALSE]
    /\ ret = [s \in Sess |-> None] /\ listing = [s \in Sess |-> {}]
    /\ owns = [s \in Sess |-> {}]

\* (mutant: only regular files are listed)
Children_FilesOnly(d) == {p \in Path : parent[p] = d /\ tree[p] = "file"}

Children(d) == {p \in Path : parent[p] = d /\ tree[p] # "none"}
ParentIsDir(p) == parent[p] = Root \/ tree[parent[p]] = "dir"

-----------------------------------------------------------------------------
(* Calls of the applications                                               *)

\* An application removes only directories that it made, and gives one up
\* when it tries to.
Begin(s, o, p) ==
    /\ pc[s] = "idle"
    /\ o \in {"mkdir", "readdir"} => p \in DirName
    /\ o \in {"unlink", "create"} => p \in FileName
    /\ o = "rmdir" => p \in owns[s]
    /\ pc' = [pc EXCEPT ![s] = "lookup"]
    /\ op' = [op EXCEPT ![s] = o] /\ at' = [at EXCEPT ![s] = p]
    /\ reply' = [reply EXCEPT ![s] = None] /\ did' = [did EXCEPT ![s] = FALSE]
    /\ ret' = [ret EXCEPT ![s] = None] /\ listing' = [listing EXCEPT ![s] = {}]
    /\ owns' = [owns EXCEPT ![s] = IF o = "rmdir" THEN @ \ {p} ELSE @]
    /\ UNCHANGED serverVars

\* The call returns r to the application.
Return(s, r) ==
    /\ pc' = [pc EXCEPT ![s] = "idle"]
    /\ ret' = [ret EXCEPT ![s] = r]
    /\ owns' = [owns EXCEPT ![s] = IF op[s] = "mkdir" /\ r = 0 THEN @ \cup {at[s]} ELSE @]
    /\ UNCHANGED <<op, at, reply, did, listing>>

\* What the kernel does with the name it looked up: call the file system, or
\* return at once.  A create of a file that exists becomes an open.
Calls(s, kind) ==
    kind = CASE op[s] \in {"mkdir", "create"} -> "none"
             [] op[s] \in {"rmdir", "readdir"} -> "dir"
             [] op[s] = "unlink" -> "file"

KernelRet(s, kind) ==
    CASE op[s] = "mkdir" -> -EEXIST
      [] op[s] = "create" -> IF kind = "file" THEN 0 ELSE -EISDIR
      [] op[s] \in {"rmdir", "readdir"} -> IF kind = "none" THEN -ENOENT ELSE -ENOTDIR
      [] op[s] = "unlink" -> IF kind = "none" THEN -ENOENT ELSE -EISDIR

AfterLookup(s, kind) ==
    IF Calls(s, kind)
    THEN pc' = [pc EXCEPT ![s] = "call"] /\ UNCHANGED <<op, at, reply, did, ret, listing, owns>>
    ELSE Return(s, KernelRet(s, kind))

\* cppWrapper_getattr answered by the server.
Lookup(s) ==
    /\ up /\ pc[s] = "lookup"
    /\ AfterLookup(s, tree[at[s]])
    /\ UNCHANGED serverVars

\* getFileAttributes fails and leaves errornum as it was: cppWrapper_getattr
\* returns minus whatever the stack held.  ENOENT makes the name negative; any
\* other value (0 too: a zeroed stat has no file type) fails the call, here with 1.
LookupFails(s) ==
    /\ ~ up /\ pc[s] = "lookup"
    /\ AfterLookup(s, "none") \/ Return(s, 1)
    /\ UNCHANGED serverVars

-----------------------------------------------------------------------------
(* Handlers of the server, with their reply                                *)

OK == [status |-> 0, erronum |-> 0]

Reply(s, r) ==
    /\ up
    /\ pc[s] = "call"
    /\ pc' = [pc EXCEPT ![s] = "answer"]
    /\ reply' = [reply EXCEPT ![s] = r]
    /\ UNCHANGED <<up, crashes, op, at, ret, owns>>

\* The handler turns the path of s into kind.
Becomes(s, kind) ==
    /\ tree' = [tree EXCEPT ![at[s]] = kind]
    /\ did' = [did EXCEPT ![s] = TRUE]
    /\ UNCHANGED listing

Refuses(s) == UNCHANGED <<tree, did, listing>>

\* errno when the directory above p is not there.
ParentError(p) ==
    IF ParentIsDir(p) THEN 0 ELSE IF tree[parent[p]] = "none" THEN ENOENT ELSE ENOTDIR

\* (mutant: a directory that exists is no error)
MkdirError_Exists(p) == IF tree[p] = "file" THEN EEXIST ELSE ParentError(p)

\* errno of mkdir, rmdir, ::remove (as fs::remove uses it) and open(O_CREAT).
MkdirError(p) == IF tree[p] # "none" THEN EEXIST ELSE ParentError(p)
RmdirError(p) ==
    CASE tree[p] = "none" -> IF ParentError(p) = 0 THEN ENOENT ELSE ParentError(p)
      [] tree[p] = "file" -> ENOTDIR
      [] tree[p] = "dir" -> IF Children(p) = {} THEN 0 ELSE ENOTEMPTY
RemoveError(p) == IF tree[p] = "file" THEN 0 ELSE RmdirError(p)
OpenError(p) == IF tree[p] = "dir" THEN EISDIR ELSE ParentError(p)

CreateDirectory(s) ==
    /\ op[s] = "mkdir"
    /\ LET e == MkdirError(at[s])
       IN  IF e = 0 THEN Reply(s, OK) /\ Becomes(s, "dir")
           ELSE Reply(s, [status |-> -1, erronum |-> e]) /\ Refuses(s)

RemoveDirectory(s) ==
    /\ op[s] = "rmdir"
    /\ LET e == RmdirError(at[s])
       IN  IF e = 0 THEN Reply(s, OK) /\ Becomes(s, "none")
           ELSE Reply(s, [status |-> -1, erronum |-> e]) /\ Refuses(s)

\* fs::remove takes an empty directory too; a name that is not there is no
\* error to it: it returns false with a clear error code.
RemoveFile(s) ==
    /\ op[s] = "unlink"
    /\ LET e == RemoveError(at[s])
       IN  IF e = 0 THEN Reply(s, OK) /\ Becomes(s, "none")
           ELSE Reply(s, [status |-> 1, erronum |-> IF e = ENOENT THEN 0 ELSE e]) /\ Refuses(s)

\* Neither O_EXCL nor O_TRUNC: a file that is there stays as it is.
CreateEmptyFile(s) ==
    /\ op[s] = "create"
    /\ LET e == OpenError(at[s])
       IN  IF e = 0 /\ tree[at[s]] = "none" THEN Reply(s, OK) /\ Becomes(s, "file")
           ELSE Reply(s, [status |-> -e, erronum |-> 0]) /\ Refuses(s)

\* A directory that cannot be opened is an empty one.
ReadDirectory(s) ==
    /\ op[s] = "readdir"
    /\ Reply(s, OK)
    /\ listing' = [listing EXCEPT ![s] = IF tree[at[s]] = "dir" THEN Children(at[s]) ELSE {}]
    /\ UNCHANGED <<tree, did>>

Handle(s) ==
    \/ CreateDirectory(s) \/ RemoveDirectory(s) \/ RemoveFile(s) \/ CreateEmptyFile(s)
    \/ ReadDirectory(s)

-----------------------------------------------------------------------------
(* The client's side: from the answer to what FUSE is told                 *)

\* GRPC_Client::createDirectory: its result, and errornum.
MkdirStub(r) == IF r = None THEN [ret |-> -1, errornum |-> -1]
                ELSE [ret |-> r.status, errornum |-> r.erronum]

\* GRPC_Client::removeDirectory, and removeFile.
RmdirStub(r) == IF r = None THEN -1 ELSE IF r.status # 0 THEN r.erronum ELSE 0
UnlinkStub(r) == IF r = None THEN -1 ELSE IF r.status # 0 THEN r.erronum ELSE 0

\* cppWrapper_mkdir
MkdirRet(r) == IF MkdirStub(r).ret = -1 THEN -MkdirStub(r).errornum ELSE 0

\* (mutant: a failed RPC leaves the status of the empty reply, 0)
RmdirRet_Unchecked(r) == IF r = None THEN 0 ELSE -RmdirStub(r)

\* (mutant: return ret)
RmdirRet_Positive(r) == RmdirStub(r)

\* cppWrapper_rmdir
RmdirRet(r) == -RmdirStub(r)

\* cppWrapper_unlink returns minus the errno of its own thread, which neither
\* the RPC nor its failure sets.
UnlinkRets(r) == IF UnlinkStub(r) # 0 THEN {0} \cup {-e : e \in Errno} ELSE {0}

\* cppWrapper_readdir: errornum is 0 whether or not the RPC failed.
ReaddirRet(r) == 0

\* cppWrapper_create: the error of createEmptyFile; else the file is fetched.
CreateErr(r) == IF r = None THEN -1 ELSE r.status

Answer(s) ==
    /\ pc[s] = "answer"
    /\ \/ op[s] = "mkdir" /\ Return(s, MkdirRet(reply[s]))
       \/ op[s] = "rmdir" /\ Return(s, RmdirRet(reply[s]))
       \/ op[s] = "unlink" /\ \E r \in UnlinkRets(reply[s]) : Return(s, r)
       \/ op[s] = "readdir" /\ Return(s, ReaddirRet(reply[s]))
       \/ op[s] = "create" /\ CreateErr(reply[s]) # 0 /\ Return(s, CreateErr(reply[s]))
       \/ /\ op[s] = "create" /\ CreateErr(reply[s]) = 0
          /\ pc' = [pc EXCEPT ![s] = "fetch"]
          /\ UNCHANGED <<op, at, reply, did, ret, listing, owns>>
    /\ UNCHANGED serverVars

\* getFileContents for create.
CreateFetch(s) ==
    /\ pc[s] = "fetch"
    /\ Return(s, IF up /\ tree[at[s]] = "file" THEN 0 ELSE -1)
    /\ UNCHANGED serverVars

\* cppWrapper_create finds that the file exists by now, and a cached copy of
\* it that is valid: it creates nothing.
CreateCached(s) ==
    /\ up /\ pc[s] = "call" /\ op[s] = "create"
    /\ tree[at[s]] = "file"
    /\ Return(s, 0)
    /\ UNCHANGED serverVars

-----------------------------------------------------------------------------
(* Failures                                                                *)

\* (mutant: the call waits for the server to come back)
Unavailable_Retry(s) == ~ up /\ pc[s] = "call" /\ UNCHANGED vars

\* No server: the RPC fails.
Unavailable(s) ==
    /\ ~ up
    /\ pc[s] = "call"
    /\ pc' = [pc EXCEPT ![s] = "answer"]
    /\ UNCHANGED <<serverVars, op, at, reply, did, ret, listing, owns>>

\* The tree is on disk.  Answers that have not arrived are lost.
Crash ==
    /\ up /\ crashes < MaxCrashes
    /\ up' = FALSE /\ crashes' = crashes + 1
    /\ \E lost \in SUBSET {s \in Sess : pc[s] = "answer"} :
          /\ reply' = [s \in Sess |-> IF s \in lost THEN None ELSE reply[s]]
          /\ listing' = [s \in Sess |-> IF s \in lost THEN {} ELSE listing[s]]
    /\ UNCHANGED <<tree, pc, op, at, did, ret, owns>>

Restart == ~ up /\ up' = TRUE /\ UNCHANGED <<tree, crashes, sessVars>>

-----------------------------------------------------------------------------
ClientStep(s) == Answer(s) \/ CreateFetch(s) \/ CreateCached(s) \/ LookupFails(s) \/ Unavailable(s)
ServerStep(s) == Lookup(s) \/ Handle(s)

Next ==
    \/ \E s \in Sess :
          \/ \E o \in Op, p \in Path : Begin(s, o, p)
          \/ ClientStep(s) \/ ServerStep(s)
    \/ Crash \/ Restart

\* The client code and a running server make progress and a dead connection
\* is noticed; a server that is down may stay down.
Spec ==
    /\ Init /\ [][Next]_vars
    /\ \A s \in Sess : WF_vars(ClientStep(s) \/ ServerStep(s))

-----------------------------------------------------------------------------
(* Properties                                                              *)

RetCode == {None, 0, 1, -1} \cup {-e : e \in Errno}
Response == [status : {-1, 0, 1} \cup {-e : e \in Errno}, erronum : Errno \cup {0}]

\* In particular, every call returns 0, minus an errno, or one of the two odd
\* codes for a failed RPC (1, which FUSE turns into ERANGE, and -1).
TypeOK ==
    /\ tree \in [Path -> {"none", "dir", "file"}] /\ up \in BOOLEAN /\ crashes \in 0 .. MaxCrashes
    /\ pc \in [Sess -> {"idle", "lookup", "call", "answer", "fetch"}]
    /\ op \in [Sess -> Op \cup {None}] /\ at \in [Sess -> Path \cup {None}]
    /\ reply \in [Sess -> Response \cup {None}]
    /\ did \in [Sess -> BOOLEAN]
    /\ ret \in [Sess -> RetCode]
    /\ listing \in [Sess -> SUBSET Path] /\ owns \in [Sess -> SUBSET Path]

\* mkdir is a lock between machines: of all applications that call mkdir for a
\* name, at most one is told that it made the directory until it removes it
\* again, and the directory is there that long.  Crashes of the server, lost
\* answers and failed lookups included.  (Names that are not used for files.)
OneOwner ==
    \A s \in Sess : \A p \in owns[s] \ FileName :
        /\ tree[p] = "dir"
        /\ \A t \in Sess : p \in owns[t] => t = s

\* What mkdir and rmdir report is what happened: 0 means that this very call
\* changed the directory, an errno of the server that it changed nothing; only
\* a failed RPC (1) leaves it open.
ReportedTruly ==
    \A s \in Sess : (pc[s] = "idle" /\ op[s] \in {"mkdir", "rmdir"}) =>
        /\ ret[s] = 0 => did[s]
        /\ -ret[s] \in Errno => ~ did[s]

\* readdir shows an application the directories that it has made, when its RPC
\* was answered, whatever others make and remove beside them.
OwnListed ==
    \A s \in Sess : (pc[s] = "idle" /\ op[s] = "readdir" /\ ret[s] = 0 /\ reply[s] # None) =>
        {p \in owns[s] \ FileName : parent[p] = at[s]} \subseteq listing[s]

\* Every call ends, although these RPCs have no deadline: with the server
\* running, crashed for good, or restarted.
CallsEnd == \A s \in Sess : pc[s] # "idle" ~> pc[s] = "idle"
=============================================================================
