-------------------------- MODULE NamespaceProofs ---------------------------
(***************************************************************************)
(* mkdir is a lock between machines, mkdir and rmdir report truly, and     *)
(* readdir shows what its caller has made: for any number of applications  *)
(* and names, any tree of names and any number of crashes of the server.   *)
(*                                                                         *)
(* OneOwner alone is not inductive.  A directory is in somebody's hands    *)
(* from the moment the handler of its mkdir made it, before anyone knows,  *)
(* until the handler of its owner's rmdir has run, after the owner gave it *)
(* up.  Holds says so; that at most one application holds a name, and that *)
(* the directory is there while someone does, is inductive (Held).         *)
(***************************************************************************)
EXTENDS Namespace, TLAPS

Holds(s, p) ==
    \/ p \in owns[s]
    \/ pc[s] = "answer" /\ op[s] = "mkdir" /\ at[s] = p /\ did[s] = TRUE
    \/ pc[s] \in {"lookup", "call"} /\ op[s] = "rmdir" /\ at[s] = p

Held ==
    \A s \in Sess, p \in Path \ FileName : Holds(s, p) =>
        /\ tree[p] = "dir"
        /\ \A t \in Sess : Holds(t, p) => t = s

\* A call in progress is about a name; files are removed and created under
\* the names of files only.
Named ==
    \A s \in Sess : pc[s] # "idle" =>
        /\ op[s] \in Op /\ at[s] \in Path
        /\ op[s] \in {"unlink", "create"} => at[s] \in FileName

\* Before its handler has run a call has no answer and has done nothing.
Fresh ==
    \A s \in Sess : pc[s] \in {"lookup", "call"} => reply[s] = None /\ did[s] = FALSE

\* The status of an answer to mkdir or rmdir is whether the handler did it.
AnswerTrue ==
    \A s \in Sess : (pc[s] = "answer" /\ op[s] \in {"mkdir", "rmdir"} /\ reply[s] # None) =>
        \/ did[s] = TRUE /\ reply[s].status = 0
        \/ did[s] = FALSE /\ reply[s].status = -1 /\ reply[s].erronum \in Errno

\* A directory that is being removed was given up.
GivenUp ==
    \A s \in Sess : pc[s] \in {"lookup", "call"} /\ op[s] = "rmdir" => at[s] \notin owns[s]

\* create alone comes to the fetch.
FetchCreates == \A s \in Sess : pc[s] = "fetch" => op[s] = "create"

Inv == TypeOK /\ Named /\ Fresh /\ AnswerTrue /\ GivenUp /\ FetchCreates /\ Held /\ ReportedTruly

-----------------------------------------------------------------------------
LEMMA ErrnoFacts ==
    /\ Errno \subseteq Int /\ 0 \notin Errno /\ 1 \notin Errno /\ -1 \notin Errno
    /\ \A e \in Errno : -e \in RetCode /\ -(-e) = e /\ -e # 0
    /\ {ENOENT, EEXIST, ENOTDIR, EISDIR, ENOTEMPTY} \subseteq Errno
<1>1. Errno \subseteq Int /\ 0 \notin Errno /\ 1 \notin Errno /\ -1 \notin Errno
  BY DEF Errno, ENOENT, EEXIST, ENOTDIR, EISDIR, ENOTEMPTY
<1>2. \A e \in Errno : -(-e) = e /\ -e # 0
  BY <1>1
<1>3. \A e \in Errno : -e \in RetCode
  BY DEF RetCode
<1>4. {ENOENT, EEXIST, ENOTDIR, EISDIR, ENOTEMPTY} \subseteq Errno
  BY DEF Errno
<1> QED
  BY <1>1, <1>2, <1>3, <1>4

\* A call that returns r keeps the invariant, if r is true for mkdir and rmdir,
\* and mkdir is told 0 only when its handler has run.
LEMMA ReturnKeeps ==
    ASSUME Inv, NEW s \in Sess, NEW r \in RetCode,
           Return(s, r), UNCHANGED serverVars, pc[s] # "idle",
           op[s] \in {"mkdir", "rmdir"} => (r = 0 => did[s]) /\ (-r \in Errno => ~ did[s]),
           op[s] = "mkdir" /\ r = 0 => pc[s] = "answer"
    PROVE  Inv'
<1> USE DEF Return, serverVars
<1>1. TypeOK'
  BY DEF Inv, TypeOK, Named
<1>2. Named' /\ Fresh' /\ AnswerTrue' /\ GivenUp' /\ FetchCreates'
  BY DEF Inv, TypeOK, Named, Fresh, AnswerTrue, GivenUp, FetchCreates
<1>3. \A t \in Sess, p \in Path : Holds(t, p)' => Holds(t, p)
  BY DEF Inv, TypeOK, Named, Holds
<1>4. Held'
  BY <1>3 DEF Inv, Held
<1>5. ReportedTruly'
  BY DEF Inv, TypeOK, ReportedTruly
<1> QED
  BY <1>1, <1>2, <1>4, <1>5 DEF Inv

-----------------------------------------------------------------------------
(* Calls and lookups                                                       *)

LEMMA InitKeeps == Init => Inv
<1> SUFFICES ASSUME Init PROVE Inv
  OBVIOUS
<1>1. TypeOK
  BY NamesAssumption DEF Init, TypeOK, RetCode
<1>2. Named /\ Fresh /\ AnswerTrue /\ GivenUp /\ FetchCreates /\ Held
  BY DEF Init, Named, Fresh, AnswerTrue, GivenUp, FetchCreates, Held, Holds
<1>3. ReportedTruly
  BY NoneAssumption DEF Init, ReportedTruly
<1> QED
  BY <1>1, <1>2, <1>3 DEF Inv

LEMMA BeginKeeps ==
    ASSUME Inv, NEW s \in Sess, NEW o \in Op, NEW p \in Path, Begin(s, o, p)
    PROVE  Inv'
<1> USE DEF Begin, serverVars
<1>1. TypeOK'
  BY DEF Inv, TypeOK, RetCode
<1>2. Named' /\ Fresh' /\ AnswerTrue' /\ GivenUp' /\ FetchCreates'
  BY DEF Inv, TypeOK, Named, Fresh, AnswerTrue, GivenUp, FetchCreates
<1>3. \A t \in Sess, q \in Path : Holds(t, q)' => Holds(t, q)
  BY DEF Inv, TypeOK, Holds
<1>4. Held'
  BY <1>3 DEF Inv, Held
<1>5. ReportedTruly'
  BY DEF Inv, TypeOK, ReportedTruly
<1> QED
  BY <1>1, <1>2, <1>4, <1>5 DEF Inv

LEMMA AfterLookupKeeps ==
    ASSUME Inv, NEW s \in Sess, NEW kind \in {"none", "dir", "file"}, pc[s] = "lookup",
           AfterLookup(s, kind), UNCHANGED serverVars
    PROVE  Inv'
<1>1. CASE Calls(s, kind)
  <2> USE DEF AfterLookup, serverVars
  <2>1. TypeOK'
    BY <1>1 DEF Inv, TypeOK
  <2>2. Named' /\ Fresh' /\ AnswerTrue' /\ GivenUp' /\ FetchCreates'
    BY <1>1 DEF Inv, TypeOK, Named, Fresh, AnswerTrue, GivenUp, FetchCreates
  <2>3. \A t \in Sess, q \in Path : Holds(t, q)' => Holds(t, q)
    BY <1>1 DEF Inv, TypeOK, Holds
  <2>4. Held'
    BY <1>1, <2>3 DEF Inv, Held
  <2>5. ReportedTruly'
    BY <1>1 DEF Inv, TypeOK, ReportedTruly
  <2> QED
    BY <2>1, <2>2, <2>4, <2>5 DEF Inv
<1>2. CASE ~ Calls(s, kind)
  <2>1. op[s] \in Op /\ did[s] = FALSE
    BY DEF Inv, Named, Fresh
  <2>2. KernelRet(s, kind) \in {0} \cup {-e : e \in Errno}
    BY <2>1, ErrnoFacts DEF KernelRet, Op
  <2>3. op[s] \in {"mkdir", "rmdir"} => KernelRet(s, kind) # 0
    BY ErrnoFacts DEF KernelRet
  <2>4. KernelRet(s, kind) \in RetCode
    BY <2>2 DEF RetCode
  <2> QED
    BY <1>2, <2>1, <2>3, <2>4, ReturnKeeps DEF AfterLookup
<1> QED
  BY <1>1, <1>2

-----------------------------------------------------------------------------
(* Handlers                                                                *)

\* A handler that answers r and sets did[s] to what r says keeps all but Held.
LEMMA ReplyKeeps ==
    ASSUME Inv, NEW s \in Sess, NEW r \in Response, Reply(s, r),
           NEW b \in BOOLEAN, did' = [did EXCEPT ![s] = b],
           tree' \in [Path -> {"none", "dir", "file"}], listing' \in [Sess -> SUBSET Path],
           op[s] \in {"mkdir", "rmdir"} =>
               \/ b = TRUE /\ r.status = 0
               \/ b = FALSE /\ r.status = -1 /\ r.erronum \in Errno,
           Held'
    PROVE  Inv'
<1> USE DEF Reply
<1>1. TypeOK'
  BY DEF Inv, TypeOK
<1>2. Named' /\ Fresh' /\ AnswerTrue' /\ GivenUp' /\ FetchCreates'
  BY DEF Inv, TypeOK, Named, Fresh, AnswerTrue, GivenUp, FetchCreates
<1>3. ReportedTruly'
  BY DEF Inv, TypeOK, ReportedTruly
<1> QED
  BY <1>1, <1>2, <1>3 DEF Inv

\* A handler that refuses, or that only lists.
LEMMA RefusalKeeps ==
    ASSUME Inv, NEW s \in Sess, NEW r \in Response, Reply(s, r), UNCHANGED <<tree, did>>,
           listing' \in [Sess -> SUBSET Path],
           op[s] \in {"mkdir", "rmdir"} => r.status = -1 /\ r.erronum \in Errno
    PROVE  Inv'
<1>1. pc[s] = "call" /\ did[s] = FALSE /\ did' = [did EXCEPT ![s] = FALSE]
  BY DEF Inv, TypeOK, Fresh, Reply
<1>2. \A t \in Sess, q \in Path : Holds(t, q)' => Holds(t, q)
  BY <1>1 DEF Inv, TypeOK, Holds, Reply
<1>3. Held'
  BY <1>2 DEF Inv, Held
<1>4. tree' \in [Path -> {"none", "dir", "file"}]
  BY DEF Inv, TypeOK
<1> QED
  BY <1>1, <1>3, <1>4, ReplyKeeps

LEMMA RefuseOK ==
    ASSUME Inv, NEW s \in Sess, NEW r \in Response, Reply(s, r), Refuses(s),
           op[s] \in {"mkdir", "rmdir"} => r.status = -1 /\ r.erronum \in Errno
    PROVE  Inv'
<1>1. UNCHANGED <<tree, did>> /\ listing' \in [Sess -> SUBSET Path]
  BY DEF Inv, TypeOK, Refuses
<1> QED
  BY <1>1, RefusalKeeps

LEMMA ErrorTypes ==
    ASSUME Inv, NEW p \in Path
    PROVE  /\ MkdirError(p) \in Errno \cup {0} /\ RmdirError(p) \in Errno \cup {0}
           /\ RemoveError(p) \in Errno \cup {0} /\ OpenError(p) \in Errno \cup {0}
<1>1. ParentError(p) \in Errno \cup {0}
  BY ErrnoFacts DEF ParentError
<1>2. tree[p] \in {"none", "dir", "file"}
  BY DEF Inv, TypeOK
<1>3. RmdirError(p) \in Errno \cup {0}
  BY <1>1, <1>2, ErrnoFacts DEF RmdirError
<1> QED
  BY <1>1, <1>3, ErrnoFacts DEF MkdirError, RemoveError, OpenError

\* A handler that turns the name into something else.
LEMMA ChangeKeeps ==
    ASSUME Inv, NEW s \in Sess, NEW kind \in {"none", "dir", "file"},
           Reply(s, OK), Becomes(s, kind), Held'
    PROVE  Inv'
<1>1. OK \in Response /\ OK.status = 0
  BY DEF OK, Response
<1>2. at[s] \in Path
  BY DEF Inv, Named, Reply
<1>3. /\ did' = [did EXCEPT ![s] = TRUE] /\ tree' \in [Path -> {"none", "dir", "file"}]
      /\ listing' \in [Sess -> SUBSET Path]
  BY <1>2 DEF Inv, TypeOK, Becomes
<1> QED
  BY <1>1, <1>3, ReplyKeeps

LEMMA CreateDirectoryKeeps ==
    ASSUME Inv, NEW s \in Sess, CreateDirectory(s)
    PROVE  Inv'
<1> DEFINE e == MkdirError(at[s])
<1>1. pc[s] = "call" /\ at[s] \in Path /\ op[s] = "mkdir"
  BY DEF Inv, Named, CreateDirectory, Reply
<1>2. CASE e = 0
  <2>1. Reply(s, OK) /\ Becomes(s, "dir")
    BY <1>2 DEF CreateDirectory
  <2>2. tree[at[s]] = "none"
    BY <1>2, ErrnoFacts DEF MkdirError
  <2>3. \A t \in Sess, q \in Path : Holds(t, q)' => Holds(t, q) \/ (t = s /\ q = at[s])
    BY <1>1, <2>1 DEF Inv, TypeOK, Holds, Reply, Becomes
  <2>4. \A q \in Path : tree'[q] = IF q = at[s] THEN "dir" ELSE tree[q]
    BY <1>1, <2>1 DEF Inv, TypeOK, Becomes
  <2>5. \A t \in Sess : at[s] \notin FileName => ~ Holds(t, at[s])
    BY <1>1, <2>2 DEF Inv, Held
  <2>6. Held'
    BY <2>3, <2>4, <2>5 DEF Inv, Held
  <2> QED
    BY <2>1, <2>6, ChangeKeeps
<1>3. CASE e # 0
  <2> DEFINE r == [status |-> -1, erronum |-> e]
  <2>1. e \in Errno
    BY <1>1, <1>3, ErrorTypes
  <2>2. r \in Response /\ r.status = -1 /\ r.erronum \in Errno
    BY <2>1 DEF Response
  <2>3. Reply(s, r) /\ Refuses(s)
    BY <1>3 DEF CreateDirectory
  <2> QED
    BY <2>2, <2>3, RefuseOK
<1> QED
  BY <1>2, <1>3

LEMMA RemoveDirectoryKeeps ==
    ASSUME Inv, NEW s \in Sess, RemoveDirectory(s)
    PROVE  Inv'
<1> DEFINE e == RmdirError(at[s])
<1>1. pc[s] = "call" /\ at[s] \in Path /\ op[s] = "rmdir"
  BY DEF Inv, Named, RemoveDirectory, Reply
<1>2. CASE e = 0
  <2>1. Reply(s, OK) /\ Becomes(s, "none")
    BY <1>2 DEF RemoveDirectory
  <2> PICK p \in Path : p = at[s]
    BY <1>1
  <2>2. Holds(s, p) /\ p \notin owns[s]
    BY <1>1 DEF Inv, GivenUp, Holds
  <2>3. \A t \in Sess, q \in Path : Holds(t, q)' => Holds(t, q)
    BY <1>1, <2>1 DEF Inv, TypeOK, Holds, Reply, Becomes
  <2>4. ~ Holds(s, p)'
    BY <1>1, <2>1, <2>2 DEF Inv, TypeOK, Holds, Reply, Becomes
  <2>5. p \notin FileName => \A t \in Sess : ~ Holds(t, p)'
    BY <2>2, <2>3, <2>4 DEF Inv, Held
  <2>6. \A q \in Path : q # p => tree'[q] = tree[q]
    BY <2>1 DEF Inv, TypeOK, Becomes
  <2>7. Held'
    BY <2>3, <2>5, <2>6 DEF Inv, Held
  <2> QED
    BY <2>1, <2>7, ChangeKeeps
<1>3. CASE e # 0
  <2> DEFINE r == [status |-> -1, erronum |-> e]
  <2>1. e \in Errno
    BY <1>1, <1>3, ErrorTypes
  <2>2. r \in Response /\ r.status = -1 /\ r.erronum \in Errno
    BY <2>1 DEF Response
  <2>3. Reply(s, r) /\ Refuses(s)
    BY <1>3 DEF RemoveDirectory
  <2> QED
    BY <2>2, <2>3, RefuseOK
<1> QED
  BY <1>2, <1>3

\* unlink and create change names of files only.
LEMMA FileChangeKeeps ==
    ASSUME Inv, NEW s \in Sess, NEW kind \in {"none", "dir", "file"},
           op[s] \in {"unlink", "create"}, Reply(s, OK), Becomes(s, kind)
    PROVE  Inv'
<1>1. pc[s] = "call" /\ at[s] \in FileName /\ at[s] \in Path
  BY DEF Inv, Named, Reply
<1>2. \A t \in Sess, q \in Path : Holds(t, q)' => Holds(t, q)
  BY <1>1 DEF Inv, TypeOK, Holds, Reply, Becomes
<1>3. \A q \in Path \ FileName : tree'[q] = tree[q]
  BY <1>1 DEF Inv, TypeOK, Becomes
<1>4. Held'
  BY <1>2, <1>3 DEF Inv, Held
<1> QED
  BY <1>4, ChangeKeeps

LEMMA RemoveFileKeeps ==
    ASSUME Inv, NEW s \in Sess, RemoveFile(s)
    PROVE  Inv'
<1> DEFINE e == RemoveError(at[s])
           r == [status |-> 1, erronum |-> IF e = ENOENT THEN 0 ELSE e]
<1>1. at[s] \in Path /\ op[s] = "unlink"
  BY DEF Inv, Named, RemoveFile, Reply
<1>2. CASE e = 0
  BY <1>1, <1>2, FileChangeKeeps DEF RemoveFile
<1>3. CASE e # 0
  <2>1. r \in Response
    BY <1>1, <1>3, ErrorTypes DEF Response
  <2> QED
    BY <1>1, <1>3, <2>1, RefuseOK DEF RemoveFile
<1> QED
  BY <1>2, <1>3

LEMMA CreateEmptyFileKeeps ==
    ASSUME Inv, NEW s \in Sess, CreateEmptyFile(s)
    PROVE  Inv'
<1> DEFINE e == OpenError(at[s])
           r == [status |-> -e, erronum |-> 0]
<1>1. at[s] \in Path /\ op[s] = "create"
  BY DEF Inv, Named, CreateEmptyFile, Reply
<1>2. CASE e = 0 /\ tree[at[s]] = "none"
  BY <1>1, <1>2, FileChangeKeeps DEF CreateEmptyFile
<1>3. CASE ~ (e = 0 /\ tree[at[s]] = "none")
  <2>1. r \in Response
    BY <1>1, ErrorTypes DEF Response
  <2> QED
    BY <1>1, <1>3, <2>1, RefuseOK DEF CreateEmptyFile
<1> QED
  BY <1>2, <1>3

LEMMA ReadDirectoryKeeps ==
    ASSUME Inv, NEW s \in Sess, ReadDirectory(s)
    PROVE  Inv'
<1>1. OK \in Response
  BY DEF OK, Response
<1>2. listing' \in [Sess -> SUBSET Path]
  BY DEF Inv, TypeOK, ReadDirectory, Children
<1> QED
  BY <1>1, <1>2, RefusalKeeps DEF ReadDirectory

-----------------------------------------------------------------------------
(* Answers, failures, and the theorems                                     *)

LEMMA Negation == -(-1) = 1 /\ -0 = 0
<1>1. \A n \in Int : -(-n) = n /\ -n = 0 - n
  OBVIOUS
<1>2. -(-1) = 1 /\ -0 = 0 - 0
  BY <1>1, 1 \in Int, 0 \in Int, Zenon
<1>3. 0 - 0 = 0
  OBVIOUS
<1> QED
  BY <1>2, <1>3, Zenon

\* What mkdir and rmdir return: 1 when the RPC failed, else what the answer says.
LEMMA FailedRet == MkdirRet(None) = 1 /\ RmdirRet(None) = 1
<1>1. MkdirStub(None) = [ret |-> -1, errornum |-> -1] /\ RmdirStub(None) = -1
  BY Zenon DEF MkdirStub, RmdirStub
<1>3. MkdirStub(None).ret = -1 /\ MkdirStub(None).errornum = -1
  BY <1>1
<1>4. MkdirRet(None) = -(-1)
  BY <1>3, Zenon DEF MkdirRet
<1>5. RmdirRet(None) = -(-1)
  BY <1>1, Zenon DEF RmdirRet
<1> QED
  BY <1>4, <1>5, Negation, Zenon

LEMMA DoneRet ==
    ASSUME NEW r, r # None, r.status = 0
    PROVE  MkdirRet(r) = 0 /\ RmdirRet(r) = 0
<1>1. MkdirStub(r) = [ret |-> 0, errornum |-> r.erronum] /\ RmdirStub(r) = 0
  BY Zenon DEF MkdirStub, RmdirStub
<1>2. MkdirStub(r).ret = 0 /\ 0 # -1
  BY <1>1
<1>3. MkdirRet(r) = 0
  BY <1>2, Zenon DEF MkdirRet
<1>4. RmdirRet(r) = -0
  BY <1>1, Zenon DEF RmdirRet
<1> QED
  BY <1>3, <1>4, Negation, Zenon

LEMMA RefusedRet ==
    ASSUME NEW r, r # None, r.status = -1
    PROVE  MkdirRet(r) = -r.erronum /\ RmdirRet(r) = -r.erronum
<1>1. 0 # -1
  OBVIOUS
<1>2. MkdirStub(r) = [ret |-> -1, errornum |-> r.erronum] /\ RmdirStub(r) = r.erronum
  BY <1>1, Zenon DEF MkdirStub, RmdirStub
<1>3. MkdirStub(r).ret = -1 /\ MkdirStub(r).errornum = r.erronum
  BY <1>2
<1>4. MkdirRet(r) = -r.erronum
  BY <1>3, Zenon DEF MkdirRet
<1>5. RmdirRet(r) = -r.erronum
  BY <1>2, Zenon DEF RmdirRet
<1> QED
  BY <1>4, <1>5

\* The code that mkdir or rmdir returns is a true one.
LEMMA TrueRet ==
    ASSUME Inv, NEW s \in Sess, pc[s] = "answer", op[s] \in {"mkdir", "rmdir"},
           NEW r, r = MkdirRet(reply[s]) \/ r = RmdirRet(reply[s])
    PROVE  r \in RetCode /\ (r = 0 => did[s]) /\ (-r \in Errno => ~ did[s])
<1>1. CASE reply[s] = None
  <2>1. r = 1
    BY <1>1, FailedRet
  <2>2. 1 \in RetCode /\ 1 # 0
    BY DEF RetCode
  <2> QED
    BY <2>1, <2>2, ErrnoFacts
<1>2. CASE reply[s] # None /\ did[s] = TRUE /\ reply[s].status = 0
  <2>1. r = 0
    BY <1>2, DoneRet
  <2>2. 0 \in RetCode
    BY DEF RetCode
  <2> QED
    BY <1>2, <2>1, <2>2, ErrnoFacts, Negation, Zenon
<1>3. CASE /\ reply[s] # None
           /\ did[s] = FALSE /\ reply[s].status = -1 /\ reply[s].erronum \in Errno
  <2>1. r = -reply[s].erronum
    BY <1>3, RefusedRet
  <2> QED
    BY <1>3, <2>1, ErrnoFacts
<1> QED
  BY <1>1, <1>2, <1>3 DEF Inv, AnswerTrue

LEMMA AnswerKeeps ==
    ASSUME Inv, NEW s \in Sess, Answer(s)
    PROVE  Inv'
<1>1. pc[s] = "answer" /\ UNCHANGED serverVars
  BY DEF Answer
<1>2. reply[s] \in Response \cup {None}
  BY DEF Inv, TypeOK
<1>3. CASE op[s] = "mkdir" /\ Return(s, MkdirRet(reply[s]))
  BY <1>1, <1>3, TrueRet, ReturnKeeps
<1>4. CASE op[s] = "rmdir" /\ Return(s, RmdirRet(reply[s]))
  BY <1>1, <1>4, TrueRet, ReturnKeeps
<1>5. CASE op[s] = "unlink" /\ \E r \in UnlinkRets(reply[s]) : Return(s, r)
  <2>1. UnlinkRets(reply[s]) \subseteq RetCode
    BY DEF UnlinkRets, RetCode
  <2> QED
    BY <1>1, <1>5, <2>1, ReturnKeeps
<1>6. CASE op[s] = "readdir" /\ Return(s, ReaddirRet(reply[s]))
  <2>1. ReaddirRet(reply[s]) \in RetCode
    BY DEF ReaddirRet, RetCode
  <2> QED
    BY <1>1, <1>6, <2>1, ReturnKeeps
<1>7. CASE op[s] = "create" /\ CreateErr(reply[s]) # 0 /\ Return(s, CreateErr(reply[s]))
  <2>1. CreateErr(reply[s]) \in RetCode
    BY <1>2 DEF CreateErr, RetCode, Response
  <2> QED
    BY <1>1, <1>7, <2>1, ReturnKeeps
<1>8. CASE /\ op[s] = "create" /\ CreateErr(reply[s]) = 0
           /\ pc' = [pc EXCEPT ![s] = "fetch"]
           /\ UNCHANGED <<op, at, reply, did, ret, listing, owns>>
  <2> USE <1>1, <1>8 DEF serverVars
  <2>1. TypeOK'
    BY DEF Inv, TypeOK
  <2>2. Named' /\ Fresh' /\ AnswerTrue' /\ GivenUp' /\ FetchCreates'
    BY <1>1 DEF Inv, TypeOK, Named, Fresh, AnswerTrue, GivenUp, FetchCreates
  <2>3. \A t \in Sess, q \in Path : Holds(t, q)' => Holds(t, q)
    BY DEF Inv, TypeOK, Holds
  <2>4. Held'
    BY <2>3 DEF Inv, Held
  <2>5. ReportedTruly'
    BY DEF Inv, TypeOK, ReportedTruly
  <2> QED
    BY <2>1, <2>2, <2>4, <2>5 DEF Inv
<1> QED
  BY <1>3, <1>4, <1>5, <1>6, <1>7, <1>8 DEF Answer

LEMMA UnavailableKeeps ==
    ASSUME Inv, NEW s \in Sess, Unavailable(s)
    PROVE  Inv'
<1> USE DEF Unavailable, serverVars
<1>1. TypeOK'
  BY DEF Inv, TypeOK
<1>2. Named' /\ Fresh' /\ AnswerTrue' /\ GivenUp' /\ FetchCreates'
  BY DEF Inv, TypeOK, Named, Fresh, AnswerTrue, GivenUp, FetchCreates
<1>3. \A t \in Sess, q \in Path : Holds(t, q)' => Holds(t, q)
  BY DEF Inv, TypeOK, Holds, Fresh
<1>4. Held'
  BY <1>3 DEF Inv, Held
<1>5. ReportedTruly'
  BY DEF Inv, TypeOK, ReportedTruly
<1> QED
  BY <1>1, <1>2, <1>4, <1>5 DEF Inv

LEMMA CrashKeeps ==
    ASSUME Inv, Crash
    PROVE  Inv'
<1>1. PICK lost \in SUBSET {s \in Sess : pc[s] = "answer"} :
          /\ reply' = [s \in Sess |-> IF s \in lost THEN None ELSE reply[s]]
          /\ listing' = [s \in Sess |-> IF s \in lost THEN {} ELSE listing[s]]
  BY DEF Crash
<1> USE DEF Crash
<1>2. TypeOK'
  <2>1. crashes' \in 0 .. MaxCrashes
    BY NamesAssumption DEF Inv, TypeOK
  <2>2. reply' \in [Sess -> Response \cup {None}]
    BY <1>1 DEF Inv, TypeOK
  <2>3. listing' \in [Sess -> SUBSET Path]
    BY <1>1 DEF Inv, TypeOK
  <2> QED
    BY <2>1, <2>2, <2>3 DEF Inv, TypeOK
<1>3. Named' /\ GivenUp' /\ FetchCreates' /\ ReportedTruly'
  BY DEF Inv, Named, GivenUp, FetchCreates, ReportedTruly
<1>4. Fresh' /\ AnswerTrue'
  BY <1>1 DEF Inv, Fresh, AnswerTrue
<1>5. Held'
  BY DEF Inv, Held, Holds
<1> QED
  BY <1>2, <1>3, <1>4, <1>5 DEF Inv

\* The invariant is inductive.
LEMMA StepKeeps == Inv /\ [Next]_vars => Inv'
<1> SUFFICES ASSUME Inv, [Next]_vars PROVE Inv'
  OBVIOUS
<1>1. ASSUME NEW s \in Sess, NEW o \in Op, NEW p \in Path, Begin(s, o, p) PROVE Inv'
  BY <1>1, BeginKeeps
<1>2. ASSUME NEW s \in Sess, ClientStep(s) PROVE Inv'
  <2>1. 0 \in RetCode /\ 1 \in RetCode /\ -1 \in RetCode
    BY DEF RetCode
  <2>2. CASE Answer(s)
    BY <2>2, AnswerKeeps
  <2>3. CASE CreateFetch(s)
    <3>1. op[s] = "create" /\ pc[s] = "fetch"
      BY <2>3 DEF CreateFetch, Inv, FetchCreates
    <3> QED
      BY <2>1, <2>3, <3>1, ReturnKeeps DEF CreateFetch
  <2>4. CASE CreateCached(s)
    BY <2>1, <2>4, ReturnKeeps DEF CreateCached
  <2>5. CASE LookupFails(s)
    <3>1. CASE AfterLookup(s, "none")
      BY <2>5, <3>1, AfterLookupKeeps DEF LookupFails
    <3>2. CASE Return(s, 1)
      BY <2>1, <2>5, <3>2, ErrnoFacts, ReturnKeeps DEF LookupFails
    <3> QED
      BY <2>5, <3>1, <3>2 DEF LookupFails
  <2>6. CASE Unavailable(s)
    BY <2>6, UnavailableKeeps
  <2> QED
    BY <1>2, <2>2, <2>3, <2>4, <2>5, <2>6 DEF ClientStep
<1>3. ASSUME NEW s \in Sess, ServerStep(s) PROVE Inv'
  <2>1. CASE Lookup(s)
    <3>1. tree[at[s]] \in {"none", "dir", "file"}
      BY <2>1 DEF Inv, TypeOK, Named, Lookup
    <3> QED
      BY <2>1, <3>1, AfterLookupKeeps DEF Lookup
  <2>2. CASE Handle(s)
    BY <2>2, CreateDirectoryKeeps, RemoveDirectoryKeeps, RemoveFileKeeps, CreateEmptyFileKeeps,
       ReadDirectoryKeeps DEF Handle
  <2> QED
    BY <1>3, <2>1, <2>2 DEF ServerStep
<1>4. CASE Crash
  BY <1>4, CrashKeeps
<1>5. CASE Restart
  BY <1>5 DEF Restart, sessVars, Inv, TypeOK, Named, Fresh, AnswerTrue, GivenUp, FetchCreates, Held,
               Holds, ReportedTruly
<1>6. CASE UNCHANGED vars
  BY <1>6 DEF vars, serverVars, sessVars, Inv, TypeOK, Named, Fresh, AnswerTrue, GivenUp,
               FetchCreates, Held, Holds, ReportedTruly
<1> QED
  BY <1>1, <1>2, <1>3, <1>4, <1>5, <1>6 DEF Next

LEMMA Invariance == Spec => []Inv
BY InitKeeps, StepKeeps, PTL DEF Spec

\* Types: every call returns 0, minus an errno, or one of the two codes of a
\* failed RPC, whatever the conversions between server, stub and FUSE.
THEOREM TypeCorrect == Spec => []TypeOK
<1>1. Inv => TypeOK
  BY DEF Inv
<1> QED
  BY <1>1, Invariance, PTL

\* mkdir is a lock between any number of machines, with any number of crashes
\* of the server and answers lost with them.
THEOREM MkdirLocks == Spec => []OneOwner
<1>1. Inv => OneOwner
  <2> SUFFICES ASSUME Inv, NEW s \in Sess, NEW p \in owns[s] \ FileName
               PROVE  tree[p] = "dir" /\ \A t \in Sess : p \in owns[t] => t = s
    BY DEF OneOwner
  <2>1. p \in Path \ FileName
    BY DEF Inv, TypeOK
  <2> QED
    BY <2>1 DEF Inv, Held, Holds
<1> QED
  BY <1>1, Invariance, PTL

\* mkdir and rmdir report what they did.
THEOREM ReportsAreTrue == Spec => []ReportedTruly
<1>1. Inv => ReportedTruly
  BY DEF Inv
<1> QED
  BY <1>1, Invariance, PTL

-----------------------------------------------------------------------------
(* Listings                                                                *)

\* What exists is in a directory: nothing is removed from above its names.
Rooted == \A p \in Path : tree[p] # "none" => ParentIsDir(p)

\* An answered readdir shows what its application owned then, and owns still.
Listed ==
    \A s \in Sess : op[s] = "readdir" /\ reply[s] # None =>
        \A p \in owns[s] \ FileName : parent[p] = at[s] => p \in listing[s]

Seen == Rooted /\ Listed

\* The tree stays rooted while a name is made below a directory or one without
\* names below it removed.
LEMMA RootedKeeps ==
    ASSUME Inv, Rooted, NEW s \in Sess, NEW kind \in {"none", "dir", "file"}, at[s] \in Path,
           Becomes(s, kind),
           \/ kind = "none" /\ Children(at[s]) = {}
           \/ kind # "none" /\ tree[at[s]] = "none" /\ ParentError(at[s]) = 0
    PROVE  Rooted'
<1> DEFINE p == at[s]
<1>1. \A q \in Path : tree'[q] = IF q = p THEN kind ELSE tree[q]
  BY DEF Becomes, Inv, TypeOK
<1>2. CASE kind = "none" /\ Children(p) = {}
  <2>1. \A q \in Path : parent[q] = p => tree[q] = "none"
    BY <1>2 DEF Children
  <2>2. QED
    BY <1>1, <1>2, <2>1, NamesAssumption DEF Rooted, ParentIsDir
<1>3. CASE kind # "none" /\ tree[p] = "none" /\ ParentError(p) = 0
  <2>1. ParentIsDir(p)
    BY <1>3 DEF ParentError, ENOENT, ENOTDIR
  <2>2. \A q \in Path : tree[q] = "dir" => tree'[q] = "dir"
    BY <1>1, <1>3
  <2>3. QED
    BY <1>1, <2>1, <2>2, NamesAssumption DEF Rooted, ParentIsDir
<1>4. QED
  BY <1>2, <1>3

\* A file has no names below it.
LEMMA FileIsLeaf ==
    ASSUME Rooted, NEW p \in Path, tree[p] = "file"
    PROVE  Children(p) = {}
BY NamesAssumption DEF Rooted, ParentIsDir, Children

\* Listings are about readdir alone.
LEMMA ListedReply ==
    ASSUME Inv, Listed, NEW s \in Sess, NEW r, Reply(s, r), UNCHANGED listing, op[s] # "readdir"
    PROVE  Listed'
BY DEF Reply, Listed, Inv, TypeOK

\* readdir: what the application owns is there, and so is the directory above.
LEMMA ReadDirectoryLists ==
    ASSUME Inv, Seen, NEW s \in Sess, ReadDirectory(s)
    PROVE  Seen'
<1>1. /\ pc[s] = "call" /\ at[s] \in Path /\ UNCHANGED <<tree, op, at, owns>>
      /\ \A t \in Sess : t # s => reply'[t] = reply[t] /\ listing'[t] = listing[t]
      /\ listing'[s] = IF tree[at[s]] = "dir" THEN Children(at[s]) ELSE {}
  BY DEF ReadDirectory, Reply, Inv, TypeOK, Named
<1>2. ASSUME NEW p \in owns[s] \ FileName, parent[p] = at[s] PROVE p \in listing'[s]
  <2>1. p \in Path /\ tree[p] = "dir"
    BY <1>2 DEF Inv, TypeOK, Held, Holds
  <2>2. tree[at[s]] = "dir"
    BY <1>1, <1>2, <2>1, NamesAssumption DEF Seen, Rooted, ParentIsDir
  <2>3. QED
    BY <1>1, <1>2, <2>1, <2>2 DEF Children
<1>3. Listed'
  BY <1>1, <1>2 DEF Seen, Listed
<1>4. Rooted'
  BY <1>1 DEF Seen, Rooted, ParentIsDir
<1>5. QED
  BY <1>3, <1>4 DEF Seen

\* The other handlers.
LEMMA HandleSees ==
    ASSUME Inv, Seen, NEW s \in Sess,
           CreateDirectory(s) \/ RemoveDirectory(s) \/ RemoveFile(s) \/ CreateEmptyFile(s)
    PROVE  Seen'
<1>1. op[s] # "readdir" /\ \E r : Reply(s, r)
  BY DEF CreateDirectory, RemoveDirectory, RemoveFile, CreateEmptyFile
<1>2. at[s] \in Path /\ tree[at[s]] \in {"none", "dir", "file"}
  BY <1>1 DEF Reply, Inv, TypeOK, Named
<1>3. Listed'
  <2>1. UNCHANGED listing
    BY DEF CreateDirectory, RemoveDirectory, RemoveFile, CreateEmptyFile, Becomes, Refuses
  <2>2. QED
    BY <1>1, <2>1, ListedReply DEF Seen
<1>4. Rooted'
  <2>1. CASE Refuses(s)
    BY <2>1 DEF Refuses, Seen, Rooted, ParentIsDir
  <2>2. CASE CreateDirectory(s) /\ ~ Refuses(s)
    <3>1. MkdirError(at[s]) = 0 /\ Becomes(s, "dir")
      BY <2>2 DEF CreateDirectory
    <3>2. tree[at[s]] = "none" /\ ParentError(at[s]) = 0
      BY <3>1 DEF MkdirError, EEXIST
    <3>3. QED
      BY <1>2, <3>1, <3>2, RootedKeeps DEF Seen
  <2>3. CASE CreateEmptyFile(s) /\ ~ Refuses(s)
    <3>1. OpenError(at[s]) = 0 /\ tree[at[s]] = "none" /\ Becomes(s, "file")
      BY <2>3 DEF CreateEmptyFile
    <3>2. ParentError(at[s]) = 0
      BY <3>1 DEF OpenError
    <3>3. QED
      BY <1>2, <3>1, <3>2, RootedKeeps DEF Seen
  <2>4. CASE (RemoveDirectory(s) \/ RemoveFile(s)) /\ ~ Refuses(s)
    <3>1. Becomes(s, "none") /\ (RmdirError(at[s]) = 0 \/ RemoveError(at[s]) = 0)
      BY <2>4 DEF RemoveDirectory, RemoveFile
    <3>2. tree[at[s]] = "dir" => RemoveError(at[s]) = RmdirError(at[s])
      BY DEF RemoveError
    <3>3. tree[at[s]] = "dir" /\ RmdirError(at[s]) = 0 => Children(at[s]) = {}
      BY DEF RmdirError, ENOTEMPTY
    <3>4. tree[at[s]] = "none" => RmdirError(at[s]) # 0 /\ RemoveError(at[s]) # 0
      BY DEF RmdirError, RemoveError, ParentError, ENOENT, ENOTDIR
    <3>5. Children(at[s]) = {}
      BY <1>2, <3>1, <3>2, <3>3, <3>4, FileIsLeaf DEF Seen
    <3>6. QED
      BY <1>2, <3>1, <3>5, RootedKeeps DEF Seen
  <2>5. QED
    BY <2>1, <2>2, <2>3, <2>4
<1>5. QED
  BY <1>3, <1>4 DEF Seen

\* A call that returns leaves its listing.
LEMMA ReturnSees ==
    ASSUME Inv, Seen, NEW s \in Sess, NEW r, Return(s, r), UNCHANGED serverVars
    PROVE  Seen'
<1>1. Listed'
  BY DEF Return, Seen, Listed, Inv, TypeOK
<1>2. QED
  BY <1>1 DEF serverVars, Seen, Rooted, ParentIsDir

\* A step that leaves tree, answers and listings alone.
LEMMA QuietSees ==
    ASSUME Seen, UNCHANGED <<tree, op, at, reply, listing, owns>>
    PROVE  Seen'
BY DEF Seen, Rooted, ParentIsDir, Listed

\* Every step keeps what listings show.
LEMMA StepSees == Inv /\ Seen /\ [Next]_vars => Seen'
<1> SUFFICES ASSUME Inv, Seen, [Next]_vars PROVE Seen'
  OBVIOUS
<1>1. ASSUME NEW s \in Sess, NEW o \in Op, NEW p \in Path, Begin(s, o, p) PROVE Seen'
  <2>1. Listed'
    BY <1>1 DEF Begin, Seen, Listed, Inv, TypeOK
  <2>2. QED
    BY <1>1, <2>1 DEF Begin, serverVars, Seen, Rooted, ParentIsDir
<1>2. ASSUME NEW s \in Sess, Lookup(s) \/ LookupFails(s) PROVE Seen'
  <2>1. ASSUME NEW kind, AfterLookup(s, kind), UNCHANGED serverVars PROVE Seen'
    BY <2>1, ReturnSees, QuietSees DEF AfterLookup, serverVars
  <2>2. QED
    BY <1>2, <2>1, ReturnSees DEF Lookup, LookupFails
<1>3. ASSUME NEW s \in Sess, Answer(s) PROVE Seen'
  BY <1>3, ReturnSees, QuietSees DEF Answer, serverVars
<1>4. ASSUME NEW s \in Sess, CreateFetch(s) \/ CreateCached(s) PROVE Seen'
  BY <1>4, ReturnSees DEF CreateFetch, CreateCached
<1>5. ASSUME NEW s \in Sess, Unavailable(s) PROVE Seen'
  BY <1>5, QuietSees DEF Unavailable, serverVars
<1>6. ASSUME NEW s \in Sess, Handle(s) PROVE Seen'
  BY <1>6, ReadDirectoryLists, HandleSees DEF Handle
<1>7. CASE Crash
  <2>1. Listed'
    BY <1>7 DEF Crash, Seen, Listed
  <2>2. QED
    BY <1>7, <2>1 DEF Crash, Seen, Rooted, ParentIsDir
<1>8. CASE Restart \/ UNCHANGED vars
  BY <1>8, QuietSees DEF Restart, vars, sessVars, serverVars
<1>9. QED
  BY <1>1, <1>2, <1>3, <1>4, <1>5, <1>6, <1>7, <1>8 DEF Next, ClientStep, ServerStep

\* readdir shows an application the directories that it has made, whatever the
\* others make and remove beside them, and whenever the server crashes.
THEOREM OwnAlwaysListed == Spec => []OwnListed
<1>1. Init => Seen
  BY DEF Init, Seen, Rooted, Listed
<1>2. Seen => OwnListed
  BY DEF Seen, Listed, OwnListed
<1>3. QED
  BY <1>1, <1>2, InitKeeps, StepKeeps, StepSees, PTL DEF Spec
=============================================================================
