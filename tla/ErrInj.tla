------------------------------- MODULE ErrInj -------------------------------
(***************************************************************************)
(* The fault injection layer of the client (unreliablefs_errinj.c and the  *)
(* first lines of every operation of unreliablefs_ops.c).  FUSE threads    *)
(* call error_inject before they do an operation; it walks the configured  *)
(* injections under conf.mutex and decides whether the operation is done.  *)
(* An operation on the configuration file itself loads it again instead.   *)
(*                                                                         *)
(* A regular expression is the set of the strings it matches; one that     *)
(* does not compile matches nothing.                                       *)
(***************************************************************************)
EXTENDS Integers, FiniteSets, SequencesExt

CONSTANTS
    Thread,          \* FUSE threads
    Path, Op,        \* paths and names of operations
    config_path,     \* the path of unreliablefs.conf
    ConfigFile,      \* the configurations there may be: sequences of Line
    ErrnoTable,      \* errno_lstat, errno_creat, ...: the table of each operation
    Beyond,          \* ints that may lie in memory behind a table
    MAX_PROBABLITY,
    UintMod,         \* 2^w for the w bits of an unsigned int
    None,            \* NULL, no holder, no file
    Unreadable,      \* a configuration file that fopen refuses
    MaxReloads       \* bound: times the configuration is loaded

\* The operations no cppWrapper_* does: their calls are commented out, and the
\* code of unreliablefs does them on the client's own disk.
LocalOps == {"lstat", "readlink", "symlink", "link", "chmod", "chown", "statfs", "ioctl", "fallocate"}

\* What the expressions are matched with: paths and the names in fuse_op_name.
Strings == Path \cup Op
ErrType == {"errno", "kill_caller", "noop", "slowdown"}

\* A line of the file: its value read as a number and as a regular expression.
Line == [section : STRING, key : STRING, num : Int, re : SUBSET Strings]

\* struct errinj_conf.
ErrConf == [type : ErrType, probability : 0 .. UintMod - 1,
            path_regexp : SUBSET Strings, op_regexp : SUBSET Strings]

\* -ERRNO_NOOP
NOOP == 999

ASSUME ErrInjAssumption ==
    /\ config_path \in Path
    /\ ConfigFile \subseteq Seq(Line)
    /\ \A o \in Op : Len(ErrnoTable[o]) > 0 /\ \A i \in 1 .. Len(ErrnoTable[o]) : ErrnoTable[o][i] \in 1 .. NOOP - 1
    /\ Beyond \subseteq Int
    /\ MAX_PROBABLITY \in Nat /\ UintMod \in Nat /\ UintMod > MAX_PROBABLITY
    /\ MaxReloads \in Nat
    /\ None \notin Thread /\ {None, Unreadable} \cap ConfigFile = {}

VARIABLES
    file,     \* the configuration file: contents, None or Unreadable
    errors,   \* conf.errors: a queue, or None (NULL)
    loaded,   \* ghost: the file errors was read from
    reloads,  \* names the queue conf.errors points to; the ones before are freed
    mutex,    \* holder of conf.mutex
    tpc,      \* where each thread is
    path, op, \* arguments of error_inject
    queue,    \* the queue the thread walks, and its name
    err,      \* index of the entry the thread has come to
    rc,       \* rc of error_inject
    killed    \* the caller was sent SIGKILL

threadVars == <<tpc, path, op, queue, err, rc, killed>>
vars == <<file, errors, loaded, reloads, mutex, threadVars>>

NoQueue == [name |-> 0, entries |-> <<>>]

TypeOK ==
    /\ file \in ConfigFile \cup {None, Unreadable}
    /\ loaded \in ConfigFile \cup {None, Unreadable}
    /\ errors = None \/ errors \in Seq(ErrConf)
    /\ reloads \in 0 .. MaxReloads
    /\ mutex \in Thread \cup {None}
    /\ tpc \in [Thread -> {"idle", "lock", "locked", "walk", "unlock", "return", "wrapper"}]
    /\ path \in [Thread -> Path \cup {None}]
    /\ op \in [Thread -> Op \cup {None}]
    /\ \A t \in Thread : queue[t].name \in 0 .. MaxReloads /\ queue[t].entries \in Seq(ErrConf)
    /\ err \in [Thread -> Nat]
    /\ rc \in [Thread -> Int]
    /\ killed \in [Thread -> BOOLEAN]

-----------------------------------------------------------------------------
(* Loading the configuration                                               *)

\* (mutant: a signed probability)
Unsigned_Signed(n) == n

\* err->probability = atoi(value), into an unsigned int.
Unsigned(n) == n % UintMod

NewEntry(type) ==
    [type |-> type, probability |-> 0, path_regexp |-> Strings, op_regexp |-> Strings]

\* (mutant: the queue is not searched for the section)
conf_option_handler_NoSearch(cfg, l) ==
    IF l.section \notin ErrType THEN cfg
    ELSE LET q == Append(cfg, NewEntry(l.section))
         IN  CASE l.key = "path_regexp" -> [q EXCEPT ![Len(q)].path_regexp = l.re]
               [] l.key = "op_regexp" -> [q EXCEPT ![Len(q)].op_regexp = l.re]
               [] l.key = "probability" -> [q EXCEPT ![Len(q)].probability = Unsigned(l.num)]
               [] OTHER -> q

\* One entry per section, in the order of the sections; an entry is there even
\* when the key is unknown.
conf_option_handler(cfg, l) ==
    LET at == SelectInSeq(cfg, LAMBDA e : e.type = l.section)
        q  == IF at = 0 THEN Append(cfg, NewEntry(l.section)) ELSE cfg
        i  == IF at = 0 THEN Len(q) ELSE at
    IN  IF l.section \notin ErrType THEN cfg
        ELSE CASE l.key = "path_regexp" -> [q EXCEPT ![i].path_regexp = l.re]
               [] l.key = "op_regexp" -> [q EXCEPT ![i].op_regexp = l.re]
               [] l.key = "probability" -> [q EXCEPT ![i].probability = Unsigned(l.num)]
               [] OTHER -> q

\* ini_parse: the handler gets the lines one by one, whatever it answers.
ini_parse == [f \in ConfigFile |-> FoldLeft(conf_option_handler, <<>>, f)]

\* A missing file leaves an empty queue, an unreadable one no queue at all.
config_init(f) ==
    CASE f = None -> <<>>
      [] f = Unreadable -> None
      [] OTHER -> ini_parse[f]

\* main: the file is read at the start, before there are threads.
Init ==
    /\ file \in ConfigFile \cup {None, Unreadable}
    /\ errors = config_init(file)
    /\ loaded = file
    /\ reloads = 0
    /\ mutex = None
    /\ tpc = [t \in Thread |-> "idle"]
    /\ path = [t \in Thread |-> None]
    /\ op = [t \in Thread |-> None]
    /\ queue = [t \in Thread |-> NoQueue]
    /\ err = [t \in Thread |-> 0]
    /\ rc = [t \in Thread |-> 0]
    /\ killed = [t \in Thread |-> FALSE]

-----------------------------------------------------------------------------
(* error_inject                                                            *)

Goto(t, l) == tpc' = [tpc EXCEPT ![t] = l]

\* Loads that are still to come (for the bound).
Reloading == {t \in Thread : tpc[t] \in {"lock", "locked"} /\ path[t] = config_path}

\* The kernel hands an operation to an idle thread.
Call(t) ==
    /\ tpc[t] = "idle"
    /\ \E p \in Path, o \in Op :
          /\ p = config_path => reloads + Cardinality(Reloading) < MaxReloads
          /\ path' = [path EXCEPT ![t] = p]
          /\ op' = [op EXCEPT ![t] = o]
    /\ Goto(t, "lock")
    /\ UNCHANGED <<file, errors, loaded, reloads, mutex, queue, err, rc, killed>>

\* (mutant: the mutex is not taken)
Lock_Unlocked(t) ==
    /\ tpc[t] = "lock"
    /\ Goto(t, "locked")
    /\ UNCHANGED <<file, errors, loaded, reloads, mutex, path, op, queue, err, rc, killed>>

Lock(t) ==
    /\ tpc[t] = "lock"
    /\ mutex = None
    /\ mutex' = t
    /\ Goto(t, "locked")
    /\ UNCHANGED <<file, errors, loaded, reloads, path, op, queue, err, rc, killed>>

\* config_delete: the queue and its entries are freed.
config_delete == reloads' = reloads + 1

\* (mutant: return instead of goto cleanup)
Reload_NoCleanup(t) ==
    /\ tpc[t] = "locked"
    /\ path[t] = config_path
    /\ config_delete
    /\ errors' = config_init(file)
    /\ loaded' = file
    /\ Goto(t, "wrapper")
    /\ UNCHANGED <<file, mutex, path, op, queue, err, rc, killed>>

\* An operation on the configuration file: the old queue goes, a new one comes.
Reload(t) ==
    /\ tpc[t] = "locked"
    /\ path[t] = config_path
    /\ config_delete
    /\ errors' = config_init(file)
    /\ loaded' = file
    /\ Goto(t, "unlock")
    /\ UNCHANGED <<file, mutex, path, op, queue, err, rc, killed>>

NotConfigured(t) ==
    /\ tpc[t] = "locked"
    /\ path[t] # config_path
    /\ errors = None
    /\ Goto(t, "unlock")
    /\ UNCHANGED <<file, errors, loaded, reloads, mutex, path, op, queue, err, rc, killed>>

StartWalk(t) ==
    /\ tpc[t] = "locked"
    /\ path[t] # config_path
    /\ errors # None
    /\ queue' = [queue EXCEPT ![t] = [name |-> reloads, entries |-> errors]]
    /\ err' = [err EXCEPT ![t] = 1]
    /\ Goto(t, "walk")
    /\ UNCHANGED <<file, errors, loaded, reloads, mutex, path, op, rc, killed>>

AtEntry(t) == tpc[t] = "walk" /\ err[t] <= Len(queue[t].entries)
Entry(t) == queue[t].entries[err[t]]

\* (mutant: < for <=)
Drawn_Less(e, p) == p < e.probability

\* The probability, drawn anew for every entry, and both expressions match.
Drawn(e, p) == p <= e.probability
Matched(e, t) == path[t] \in e.path_regexp /\ op[t] \in e.op_regexp

Skip(t) ==
    /\ AtEntry(t)
    /\ \E p \in 0 .. MAX_PROBABLITY : ~ (Drawn(Entry(t), p) /\ Matched(Entry(t), t))
    /\ err' = [err EXCEPT ![t] = err[t] + 1]
    /\ UNCHANGED <<file, errors, loaded, reloads, mutex, tpc, path, op, queue, rc, killed>>

\* The errnos in the table of an operation.
Supported(o) == {ErrnoTable[o][i] : i \in 1 .. Len(ErrnoTable[o])}

\* rand_range(0, ARRAY_SIZE(arr)) may be ARRAY_SIZE: the int behind the table.
op_random_errno(o) == Supported(o) \cup Beyond

\* What an injection that fires leaves in rc.
Inject(e, o, old) ==
    CASE e.type = "noop" -> {NOOP}
      [] e.type = "errno" -> {- n : n \in op_random_errno(o)}
      [] OTHER -> {old}

\* (mutant: op_regexp is not looked at)
Trigger_AnyOp(t) ==
    /\ AtEntry(t)
    /\ \E p \in 0 .. MAX_PROBABLITY : Drawn(Entry(t), p)
    /\ path[t] \in Entry(t).path_regexp
    /\ \E r \in Inject(Entry(t), op[t], rc[t]) : rc' = [rc EXCEPT ![t] = r]
    /\ killed' = [killed EXCEPT ![t] = killed[t] \/ Entry(t).type = "kill_caller"]
    /\ err' = [err EXCEPT ![t] = err[t] + 1]
    /\ UNCHANGED <<file, errors, loaded, reloads, mutex, tpc, path, op, queue>>

Trigger(t) ==
    /\ AtEntry(t)
    /\ \E p \in 0 .. MAX_PROBABLITY : Drawn(Entry(t), p) /\ Matched(Entry(t), t)
    /\ \E r \in Inject(Entry(t), op[t], rc[t]) : rc' = [rc EXCEPT ![t] = r]
    /\ killed' = [killed EXCEPT ![t] = killed[t] \/ Entry(t).type = "kill_caller"]
    /\ err' = [err EXCEPT ![t] = err[t] + 1]
    /\ UNCHANGED <<file, errors, loaded, reloads, mutex, tpc, path, op, queue>>

EndWalk(t) ==
    /\ tpc[t] = "walk"
    /\ err[t] > Len(queue[t].entries)
    /\ Goto(t, "unlock")
    /\ UNCHANGED <<file, errors, loaded, reloads, mutex, path, op, queue, err, rc, killed>>

\* The head of every unreliable_*: only for a result of 0 the operation is done.
AfterInject(ret) == IF ret = 0 THEN "wrapper" ELSE "return"

\* cleanup:
Unlock(t) ==
    /\ tpc[t] = "unlock"
    /\ mutex' = None
    /\ Goto(t, AfterInject(rc[t]))
    /\ UNCHANGED <<file, errors, loaded, reloads, path, op, queue, err, rc, killed>>

\* The operation is over: the thread is idle again.
Forget(t) ==
    /\ Goto(t, "idle")
    /\ path' = [path EXCEPT ![t] = None]
    /\ op' = [op EXCEPT ![t] = None]
    /\ queue' = [queue EXCEPT ![t] = NoQueue]
    /\ err' = [err EXCEPT ![t] = 0]
    /\ rc' = [rc EXCEPT ![t] = 0]
    /\ killed' = [killed EXCEPT ![t] = FALSE]
    /\ UNCHANGED <<errors, loaded, reloads, mutex>>

\* unreliable_*: an injected result is returned, 0 for -ERRNO_NOOP.
Injected(t) == tpc[t] = "return" /\ Forget(t) /\ UNCHANGED file

\* ... and otherwise cppWrapper_* does the operation.  It works on the cached
\* copy, which has another name: the configuration file is not touched.
Wrapper(t) == tpc[t] = "wrapper" /\ op[t] \notin LocalOps /\ Forget(t) /\ UNCHANGED file

\* A local operation works on the root directory itself: chmod and chown of the
\* configuration file change whether the next reload can read it.
Local(t) ==
    /\ tpc[t] = "wrapper"
    /\ op[t] \in LocalOps
    /\ Forget(t)
    /\ \/ UNCHANGED file
       \/ /\ path[t] = config_path /\ op[t] \in {"chmod", "chown"} /\ file # None
          /\ file' \in IF file = Unreadable THEN ConfigFile ELSE {Unreadable}

\* Someone edits unreliablefs.conf in the root directory, at any moment.
EditConfig ==
    /\ reloads < MaxReloads
    /\ file' \in ConfigFile \cup {None, Unreadable}
    /\ UNCHANGED <<errors, loaded, reloads, mutex, threadVars>>

Inside(t) ==
    \/ Reload(t) \/ NotConfigured(t) \/ StartWalk(t) \/ Skip(t) \/ Trigger(t) \/ EndWalk(t)
    \/ Unlock(t) \/ Injected(t) \/ Wrapper(t) \/ Local(t)

Next == EditConfig \/ \E t \in Thread : Call(t) \/ Lock(t) \/ Inside(t)

Spec == Init /\ [][Next]_vars

\* A thread that has the mutex runs; nobody is promised to get it.
FairSpec == Spec /\ \A t \in Thread : WF_vars(Inside(t))

-----------------------------------------------------------------------------
(* Properties                                                              *)

\* error_inject never walks a queue that another thread's operation on the
\* configuration file has freed (config_delete), and conf.mutex has one holder.
NoUseAfterFree ==
    \A t \in Thread : tpc[t] = "walk" => queue[t].name = reloads /\ mutex = t

\* The value of the last line of file f for key k of section s, d without one.
LastValue(f, s, k, d) ==
    LET I == {i \in 1 .. Len(f) : f[i].section = s /\ f[i].key = k}
    IN  IF I = {} THEN d ELSE Unsigned(f[CHOOSE i \in I : \A j \in I : j <= i].num)

\* The queue conf.errors points to says what the file said: one entry for each
\* known section of the file, with the section's last probability.
QueueFaithful ==
    (errors # None /\ loaded # None) =>
        /\ {errors[i].type : i \in 1 .. Len(errors)}
              = {loaded[i].section : i \in 1 .. Len(loaded)} \cap ErrType
        /\ \A i, j \in 1 .. Len(errors) : errors[i].type = errors[j].type => i = j
        /\ \A i \in 1 .. Len(errors) :
              errors[i].probability = LastValue(loaded, errors[i].type, "probability", 0)

\* error_inject has returned to thread t, which walked the queue.
Decided(t) == tpc[t] \in {"return", "wrapper"} /\ path[t] # config_path

\* The entries of the queue thread t walked.
Walked(t) == {queue[t].entries[i] : i \in 1 .. Len(queue[t].entries)}

\* "Probability equal to 100 means that error injection will happen on each
\* file operation": a matching errinj_noop of probability 100 or more replaces
\* the operation, whatever other injections come before or after it in the file,
\* as long as errinj_errno, which may write its own result over it, is not there.
CertainFires ==
    \A t \in Thread :
        (/\ Decided(t)
         /\ \E e \in Walked(t) : e.type = "noop" /\ e.probability >= MAX_PROBABLITY /\ Matched(e, t)
         /\ \A e \in Walked(t) : e.type # "errno")
            => tpc[t] = "return" /\ rc[t] = NOOP

\* An entry of the given type that thread t came past matches its operation.
Applicable(type, t) == \E e \in Walked(t) : e.type = type /\ Matched(e, t)

\* What an injection does stays with the operations its own expressions match: a
\* caller is killed only for an errinj_kill_caller, and an operation is replaced by
\* a no-op only for an errinj_noop, by an error only for an errinj_errno and then
\* with a number drawn for this operation, whatever injections follow, threads
\* walk and reloads come between.  It does not say with which probability, and
\* the number may be the one behind the table: see InjectsAsDocumented.
OnlyMatching ==
    \A t \in Thread : Decided(t) =>
        /\ killed[t] => Applicable("kill_caller", t)
        /\ tpc[t] = "return" =>
              \/ rc[t] = NOOP /\ Applicable("noop", t)
              \/ - rc[t] \in op_random_errno(op[t]) /\ Applicable("errno", t)

\* What unreliablefs.conf(5) says of a replaced operation: an injection for it has
\* a probability other than 0, and an errno is one of those of its table.
InjectsAsDocumented ==
    \A t \in Thread : (Decided(t) /\ tpc[t] = "return") =>
        \E e \in Walked(t) :
            /\ Matched(e, t)
            /\ e.probability > 0
            /\ \/ e.type = "noop" /\ rc[t] = NOOP
               \/ e.type = "errno" /\ - rc[t] \in Supported(op[t])

\* An operation whose error_inject got the mutex returns, on every path through
\* error_inject: reload, nothing configured, injections that fire or are skipped.
InjectTerminates == \A t \in Thread : mutex = t ~> tpc[t] = "idle"
=============================================================================
