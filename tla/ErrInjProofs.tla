---------------------------- MODULE ErrInjProofs ----------------------------
(***************************************************************************)
(* Fault injection, for any number of threads, any configurations and any  *)
(* number of reloads: error_inject never walks a freed queue, the queue is *)
(* what the file that was loaded says, an injection has an effect only for *)
(* an entry that matches it, and always for one that is certain.           *)
(***************************************************************************)
EXTENDS ConfigProofs

\* Where a thread has conf.mutex.
Critical == {"locked", "walk", "unlock"}

ThreadPC == {"idle", "lock", "return", "wrapper"} \cup Critical

\* NoUseAfterFree is not inductive: that nobody else reloads while a thread
\* walks follows from whoever is inside the critical section holding the mutex.
LockInv ==
    /\ tpc \in [Thread -> ThreadPC]
    /\ DOMAIN queue = Thread
    /\ queue = [t \in Thread |-> queue[t]]
    /\ \A t \in Thread : tpc[t] \in Critical => mutex = t
    /\ \A t \in Thread : tpc[t] = "walk" => queue[t].name = reloads

\* The mutex is taken only when it is free, and only its holder reloads.
LEMMA LockStep == LockInv /\ [Next]_vars => LockInv'
<1> SUFFICES ASSUME LockInv, [Next]_vars PROVE LockInv'
  OBVIOUS
<1> USE DEF LockInv, Critical, ThreadPC
<1>1. ASSUME NEW t \in Thread, Call(t) PROVE LockInv'
  BY <1>1 DEF Call, Goto
<1>2. ASSUME NEW t \in Thread, Lock(t) PROVE LockInv'
  BY <1>2, ErrInjAssumption DEF Lock, Goto, ErrInjAssumption
<1>3. ASSUME NEW t \in Thread, Reload(t) PROVE LockInv'
  BY <1>3 DEF Reload, config_delete, Goto
<1>4. ASSUME NEW t \in Thread, NotConfigured(t) PROVE LockInv'
  BY <1>4 DEF NotConfigured, Goto
<1>5. ASSUME NEW t \in Thread, StartWalk(t) PROVE LockInv'
  BY <1>5 DEF StartWalk, Goto
<1>6. ASSUME NEW t \in Thread, Skip(t) \/ Trigger(t) PROVE LockInv'
  BY <1>6 DEF Skip, Trigger
<1>7. ASSUME NEW t \in Thread, EndWalk(t) PROVE LockInv'
  BY <1>7 DEF EndWalk, Goto
<1>8. ASSUME NEW t \in Thread, Unlock(t) PROVE LockInv'
  BY <1>8 DEF Unlock, AfterInject, Goto
<1>9. ASSUME NEW t \in Thread, Injected(t) \/ Wrapper(t) \/ Local(t) PROVE LockInv'
  BY <1>9 DEF Injected, Wrapper, Local, Forget, Goto
<1>10. CASE EditConfig
  BY <1>10 DEF EditConfig, threadVars
<1>11. CASE UNCHANGED vars
  BY <1>11 DEF vars, threadVars
<1> QED
  BY <1>1, <1>2, <1>3, <1>4, <1>5, <1>6, <1>7, <1>8, <1>9, <1>10, <1>11 DEF Next, Inside

\* No FUSE thread ever walks a queue of injections that a reload of the
\* configuration freed: error_inject holds conf.mutex from the first entry to
\* the last, and config_delete runs under the same mutex.
THEOREM QueueNeverFreed == Spec => []NoUseAfterFree
<1>1. Init => LockInv
  BY DEF Init, LockInv, Critical, ThreadPC
<1>2. LockInv => NoUseAfterFree
  BY DEF LockInv, Critical, NoUseAfterFree
<1> QED
  BY <1>1, <1>2, LockStep, PTL DEF Spec

-----------------------------------------------------------------------------
(* What error_inject decides                                               *)

\* The state of a thread is a function of the thread.
PerThread ==
    /\ tpc \in [Thread -> ThreadPC]
    /\ path = [t \in Thread |-> path[t]] /\ op = [t \in Thread |-> op[t]]
    /\ queue = [t \in Thread |-> queue[t]] /\ err = [t \in Thread |-> err[t]]
    /\ rc = [t \in Thread |-> rc[t]] /\ killed = [t \in Thread |-> killed[t]]

\* ... in every step.
LEMMA PerThreadStep == PerThread /\ [Next]_vars => PerThread'
<1> SUFFICES ASSUME PerThread, [Next]_vars PROVE PerThread'
  OBVIOUS
<1> USE DEF PerThread, Critical, ThreadPC
<1>1. ASSUME NEW t \in Thread, Call(t) PROVE PerThread'
  BY <1>1 DEF Call, Goto
<1>2. ASSUME NEW t \in Thread, Lock(t) \/ Reload(t) \/ NotConfigured(t) \/ EndWalk(t) PROVE PerThread'
  BY <1>2 DEF Lock, Reload, NotConfigured, EndWalk, Goto
<1>3. ASSUME NEW t \in Thread, StartWalk(t) PROVE PerThread'
  BY <1>3 DEF StartWalk, Goto
<1>4. ASSUME NEW t \in Thread, Skip(t) PROVE PerThread'
  BY <1>4 DEF Skip
<1>5. ASSUME NEW t \in Thread, Trigger(t) PROVE PerThread'
  BY <1>5 DEF Trigger
<1>6. ASSUME NEW t \in Thread, Unlock(t) PROVE PerThread'
  BY <1>6 DEF Unlock, AfterInject, Goto
<1>7. ASSUME NEW t \in Thread, Injected(t) \/ Wrapper(t) \/ Local(t) PROVE PerThread'
  BY <1>7 DEF Injected, Wrapper, Local, Forget, Goto
<1>8. CASE EditConfig \/ UNCHANGED vars
  BY <1>8 DEF EditConfig, vars, threadVars
<1>9. QED
  BY <1>1, <1>2, <1>3, <1>4, <1>5, <1>6, <1>7, <1>8 DEF Next, Inside

\* An entry that thread t came past gives the result it has.
Explained(t) ==
    \/ rc[t] = NOOP /\ Applicable("noop", t)
    \/ - rc[t] \in op_random_errno(op[t]) /\ Applicable("errno", t)

\* Before the walk there is no result; a result has an entry that gave it.
Reason(t) ==
    /\ tpc[t] \in {"idle", "lock", "locked"} => rc[t] = 0 /\ queue[t] = NoQueue /\ ~ killed[t]
    /\ tpc[t] = "return" => rc[t] # 0
    /\ tpc[t] = "wrapper" => rc[t] = 0
    /\ killed[t] => Applicable("kill_caller", t)
    /\ rc[t] # 0 => Explained(t)

\* The locals of thread u stay as they are.
ThreadSame(u) ==
    /\ tpc'[u] = tpc[u] /\ path'[u] = path[u] /\ op'[u] = op[u] /\ queue'[u] = queue[u]
    /\ err'[u] = err[u] /\ rc'[u] = rc[u] /\ killed'[u] = killed[u]

\* A step of one thread leaves the others alone.
LEMMA OthersSame ==
    ASSUME PerThread, NEW t \in Thread, Call(t) \/ Lock(t) \/ Inside(t), NEW u \in Thread, u # t
    PROVE  ThreadSame(u)
<1> USE DEF PerThread, ThreadSame
<1>1. CASE Call(t) \/ Lock(t) \/ Reload(t) \/ NotConfigured(t) \/ EndWalk(t) \/ Unlock(t)
  BY <1>1 DEF Call, Lock, Reload, NotConfigured, EndWalk, Unlock, Goto
<1>2. CASE StartWalk(t) \/ Skip(t) \/ Trigger(t)
  BY <1>2 DEF StartWalk, Skip, Trigger, Goto
<1>3. CASE Injected(t) \/ Wrapper(t) \/ Local(t)
  BY <1>3 DEF Injected, Wrapper, Local, Forget, Goto
<1>4. QED
  BY <1>1, <1>2, <1>3 DEF Inside

\* The entry a thread has come to is one of the queue.
LEMMA EntryWalked ==
    ASSUME NEW t \in Thread, AtEntry(t), err[t] \in Nat, err[t] > 0
    PROVE  Entry(t) \in Walked(t)
<1>1. err[t] \in 1 .. Len(queue[t].entries)
  BY DEF AtEntry
<1>2. QED
  BY <1>1 DEF Entry, Walked

\* An operation under way has a name; a walk under way is at an entry.
Started(t) ==
    /\ tpc[t] # "idle" => op[t] \in Op
    /\ tpc[t] = "walk" => err[t] \in Nat /\ err[t] > 0

\* OnlyMatching is not inductive: what rc is now must have had its reason at an
\* entry that the walk has come past.
ReasonInv ==
    /\ PerThread
    /\ \A t \in Thread : Started(t) /\ Reason(t)

\* A thread that does not move keeps its reason.
LEMMA ReasonKept ==
    ASSUME NEW u \in Thread, Reason(u), ThreadSame(u)
    PROVE  Reason(u)'
BY DEF Reason, Explained, Applicable, ThreadSame, Walked, Matched

\* Whatever lies behind a table is a number, and so is what is in it.
LEMMA RandomErrnoInt ==
    ASSUME NEW o \in Op
    PROVE  \A n \in op_random_errno(o) : n \in Int
<1>1. \A i \in 1 .. Len(ErrnoTable[o]) : ErrnoTable[o][i] \in Int
  <2>1. \A i \in 1 .. Len(ErrnoTable[o]) : ErrnoTable[o][i] \in 1 .. NOOP - 1
    BY ErrInjAssumption DEF ErrInjAssumption
  <2>2. \A x \in 1 .. NOOP - 1 : x \in Int
    BY DEF NOOP
  <2> QED
    BY <2>1, <2>2, Zenon
<1>2. Beyond \subseteq Int
  BY ErrInjAssumption DEF ErrInjAssumption
<1> QED
  BY <1>1, <1>2 DEF op_random_errno, Supported

\* What an entry that fires leaves in rc, if it is not what was there.
LEMMA InjectFacts ==
    ASSUME NEW e, NEW o \in Op, NEW old, NEW r \in Inject(e, o, old), r # old
    PROVE  (e.type = "noop" /\ r = NOOP) \/ (e.type = "errno" /\ - r \in op_random_errno(o))
<1>1. CASE e.type = "noop"
  BY <1>1 DEF Inject
<1>2. CASE e.type = "errno"
  <2>1. PICK n \in op_random_errno(o) : r = - n
    BY <1>2 DEF Inject
  <2>2. n \in Int
    BY RandomErrnoInt
  <2>3. - (- n) = n
    BY <2>2
  <2> QED
    BY <1>2, <2>1, <2>3
<1>3. CASE e.type \notin {"noop", "errno"}
  BY <1>3 DEF Inject
<1> QED
  BY <1>1, <1>2, <1>3

\* An entry that fires is a reason for what it does.
LEMMA TriggerReason ==
    ASSUME PerThread, NEW t \in Thread, Trigger(t), Reason(t), err[t] \in Nat, err[t] > 0, op[t] \in Op
    PROVE  Reason(t)'
<1>1. /\ tpc[t] = "walk" /\ UNCHANGED <<tpc, path, op, queue>> /\ Matched(Entry(t), t)
      /\ killed'[t] = (killed[t] \/ Entry(t).type = "kill_caller")
  BY DEF Trigger, AtEntry, PerThread
<1>2. PICK r \in Inject(Entry(t), op[t], rc[t]) : rc'[t] = r
  BY DEF Trigger, PerThread
<1>3. Entry(t) \in Walked(t)
  BY EntryWalked DEF Trigger
<1>4. Applicable(Entry(t).type, t)
  BY <1>1, <1>3 DEF Applicable
<1>5. \A type : Applicable(type, t) => Applicable(type, t)'
  BY <1>1 DEF Applicable, Walked, Matched
<1>6. killed'[t] => Applicable("kill_caller", t)'
  BY <1>1, <1>4, <1>5 DEF Reason
<1>7. rc'[t] # 0 => Explained(t)'
  <2>1. CASE r = rc[t]
    BY <1>1, <1>2, <1>5, <2>1 DEF Reason, Explained
  <2>2. CASE r # rc[t]
    <3>1. \/ Entry(t).type = "noop" /\ r = NOOP
          \/ Entry(t).type = "errno" /\ - r \in op_random_errno(op[t])
      BY <1>2, <2>2, InjectFacts
    <3> QED
      BY <1>1, <1>2, <1>4, <1>5, <3>1 DEF Explained
  <2> QED
    BY <2>1, <2>2
<1> QED
  BY <1>1, <1>6, <1>7 DEF Reason

LEMMA ReasonStep == ReasonInv /\ [Next]_vars => ReasonInv'
<1> SUFFICES ASSUME ReasonInv, [Next]_vars PROVE ReasonInv'
  OBVIOUS
<1>1. PerThread /\ PerThread'
  BY PerThreadStep DEF ReasonInv
<1>2. CASE EditConfig \/ UNCHANGED vars
  <2>1. \A u \in Thread : ThreadSame(u)
    BY <1>2 DEF EditConfig, vars, threadVars, ThreadSame
  <2> QED
    BY <1>1, <2>1, ReasonKept DEF ReasonInv, ThreadSame, Started
<1>3. ASSUME NEW t \in Thread, Call(t) \/ Lock(t) \/ Inside(t)
      PROVE  ReasonInv'
  <2>1. \A u \in Thread : u # t => ThreadSame(u)
    BY <1>1, <1>3, OthersSame
  <2>2. SUFFICES Started(t)' /\ Reason(t)'
    BY <1>1, <2>1, ReasonKept DEF ReasonInv, ThreadSame, Started
  <2>3. Started(t) /\ Reason(t)
    BY DEF ReasonInv
  <2>4. CASE Call(t)
    BY <1>1, <2>3, <2>4 DEF Call, Goto, PerThread, Reason, Started
  <2>5. CASE Lock(t) \/ Reload(t) \/ NotConfigured(t)
    BY <1>1, <2>3, <2>5 DEF Lock, Reload, NotConfigured, Goto, PerThread, Reason, Started
  <2>6. CASE StartWalk(t)
    BY <1>1, <2>3, <2>6 DEF StartWalk, Goto, PerThread, Reason, Started
  <2>7. CASE Skip(t)
    <3>1. /\ tpc[t] = "walk" /\ UNCHANGED <<tpc, path, op, queue, rc, killed>>
          /\ err'[t] = err[t] + 1
      BY <1>1, <2>7 DEF Skip, AtEntry, PerThread
    <3> QED
      BY <2>3, <3>1 DEF Reason, Started, Explained, Applicable, Walked, Matched
  <2>8. CASE Trigger(t)
    <3>1. tpc[t] = "walk" /\ UNCHANGED <<tpc, op>> /\ err'[t] = err[t] + 1
      BY <1>1, <2>8 DEF Trigger, AtEntry, PerThread
    <3>2. Reason(t)'
      BY <1>1, <2>3, <2>8, <3>1, TriggerReason DEF Started
    <3> QED
      BY <2>3, <3>1, <3>2 DEF Started
  <2>9. CASE EndWalk(t) \/ Unlock(t)
    <3>1. /\ UNCHANGED <<path, op, queue, err, rc, killed>> /\ tpc[t] \in {"walk", "unlock"}
          /\ \/ tpc'[t] = "unlock"
             \/ tpc'[t] = "wrapper" /\ rc[t] = 0
             \/ tpc'[t] = "return" /\ rc[t] # 0
      BY <1>1, <2>9 DEF EndWalk, Unlock, Goto, AfterInject, PerThread
    <3> QED
      BY <2>3, <3>1 DEF Reason, Started, Explained, Applicable, Walked, Matched
  <2>10. CASE Injected(t) \/ Wrapper(t) \/ Local(t)
    BY <1>1, <2>10 DEF Injected, Wrapper, Local, Forget, Goto, PerThread, Reason, Started
  <2> QED
    BY <1>3, <2>4, <2>5, <2>6, <2>7, <2>8, <2>9, <2>10 DEF Inside
<1> QED
  BY <1>2, <1>3 DEF Next

\* A caller is killed, and an operation replaced, only where the walk came past an
\* entry of that kind whose two expressions match the operation, and an injected
\* error is drawn for the operation itself: error_inject leaves nothing of another
\* thread, another entry or an earlier call behind, with any number of threads.
THEOREM InjectsOnlyMatching == Spec => []OnlyMatching
<1>1. Init => ReasonInv
  BY DEF Init, ReasonInv, PerThread, ThreadPC, Critical, Started, Reason
<1>2. ReasonInv => OnlyMatching
  BY DEF ReasonInv, Reason, Explained, OnlyMatching, Decided
<1> QED
  BY <1>1, <1>2, ReasonStep, PTL DEF Spec

-----------------------------------------------------------------------------
(* What is loaded                                                          *)

Files == ConfigFile \cup {None, Unreadable}

\* conf.errors is always what config_init makes of the file loaded last.
LoadInv == file \in Files /\ loaded \in Files /\ errors = config_init(loaded)

LEMMA LoadStep == LoadInv /\ [Next]_vars => LoadInv'
<1> SUFFICES ASSUME LoadInv, [Next]_vars PROVE LoadInv'
  OBVIOUS
<1> USE DEF LoadInv
<1>1. ASSUME NEW t \in Thread, Reload(t) PROVE LoadInv'
  BY <1>1 DEF Reload
<1>2. ASSUME NEW t \in Thread,
             \/ Call(t) \/ Lock(t) \/ NotConfigured(t) \/ StartWalk(t) \/ EndWalk(t) \/ Unlock(t)
      PROVE  LoadInv'
  BY <1>2 DEF Call, Lock, NotConfigured, StartWalk, EndWalk, Unlock
<1>3. ASSUME NEW t \in Thread, Skip(t) \/ Trigger(t) \/ Injected(t) \/ Wrapper(t) PROVE LoadInv'
  BY <1>3 DEF Skip, Trigger, Injected, Wrapper, Forget
<1>4. ASSUME NEW t \in Thread, Local(t) PROVE LoadInv'
  BY <1>4 DEF Local, Forget, Files
<1>5. CASE EditConfig \/ UNCHANGED vars
  BY <1>5 DEF EditConfig, vars, Files
<1> QED
  BY <1>1, <1>2, <1>3, <1>4, <1>5 DEF Next, Inside

LEMMA LoadInit == Init => LoadInv
BY DEF Init, LoadInv, Files

\* A queue, when there is one, has entries of the right form.
LEMMA LoadedQueue ==
    ASSUME LoadInv
    PROVE  errors = None \/ errors \in Seq(ErrConf)
<1>1. CASE loaded = None
  BY <1>1 DEF LoadInv, config_init
<1>2. CASE loaded = Unreadable
  BY <1>2 DEF LoadInv, config_init
<1>3. CASE loaded \in ConfigFile
  <2>1. errors = ini_parse[loaded]
    BY <1>3, ErrInjAssumption DEF LoadInv, config_init, ErrInjAssumption
  <2> QED
    BY <1>3, <2>1, ParseSays DEF Says
<1> QED
  BY <1>1, <1>2, <1>3 DEF LoadInv, Files

\* The injections in force are those of the file that was loaded, whatever
\* order its lines are in, however often a section or a key comes up in it,
\* and however the file changes meanwhile.
THEOREM QueueAlwaysFaithful == Spec => []QueueFaithful
<1>1. LoadInv => QueueFaithful
  <2> SUFFICES ASSUME LoadInv, errors # None, loaded # None
               PROVE  /\ {errors[i].type : i \in 1 .. Len(errors)}
                           = {loaded[i].section : i \in 1 .. Len(loaded)} \cap ErrType
                      /\ \A i, j \in 1 .. Len(errors) : errors[i].type = errors[j].type => i = j
                      /\ \A i \in 1 .. Len(errors) :
                            errors[i].probability = LastValue(loaded, errors[i].type, "probability", 0)
    BY DEF QueueFaithful
  <2>1. loaded \in ConfigFile
    BY DEF LoadInv, Files, config_init
  <2>2. errors = ini_parse[loaded]
    BY <2>1, ErrInjAssumption DEF LoadInv, config_init, ErrInjAssumption
  <2>3. Says(errors, loaded, Len(loaded))
    BY <2>1, <2>2, ParseSays
  <2>4. \A s : LastValue(loaded, s, "probability", 0) = LastIn(loaded, Len(loaded), s)
    BY DEF LastValue, LastIn
  <2>5. \A i \in 1 .. Len(errors) : errors[i].type \in ErrType
    <3>1. \A i \in 1 .. Len(errors) : errors[i] \in ErrConf
      BY <2>3 DEF Says
    <3> QED
      BY <3>1 DEF ErrConf
  <2>6. {errors[i].type : i \in 1 .. Len(errors)}
            = {loaded[i].section : i \in 1 .. Len(loaded)} \cap ErrType
    <3>1. \A i \in 1 .. Len(errors) : \E m \in 1 .. Len(loaded) : loaded[m].section = errors[i].type
      BY <2>3 DEF Says
    <3>2. \A m \in 1 .. Len(loaded) : loaded[m].section \in ErrType =>
              \E i \in 1 .. Len(errors) : errors[i].type = loaded[m].section
      BY <2>3 DEF Says
    <3>3. ASSUME NEW i \in 1 .. Len(errors)
          PROVE  errors[i].type \in {loaded[m].section : m \in 1 .. Len(loaded)} \cap ErrType
      BY <2>5, <3>1
    <3>4. ASSUME NEW m \in 1 .. Len(loaded), loaded[m].section \in ErrType
          PROVE  loaded[m].section \in {errors[i].type : i \in 1 .. Len(errors)}
      BY <3>2, <3>4
    <3> QED
      BY <3>3, <3>4
  <2> QED
    BY <2>3, <2>4, <2>6 DEF Says
<1> QED
  BY <1>1, LoadInit, LoadStep, PTL DEF Spec

-----------------------------------------------------------------------------
(* Types                                                                   *)

\* A reload that is still to come counts against the bound already.
Bounded ==
    /\ reloads \in Nat
    /\ IsFiniteSet(Reloading) /\ reloads + Cardinality(Reloading) <= MaxReloads

\* An operation under way has its arguments; queues that are walked were loaded.
Arguments(t) ==
    /\ path[t] \in Path \cup {None} /\ op[t] \in Op \cup {None}
    /\ tpc[t] # "idle" => path[t] \in Path /\ op[t] \in Op
    /\ queue[t].name \in 0 .. MaxReloads /\ queue[t].entries \in Seq(ErrConf)
    /\ err[t] \in Nat /\ rc[t] \in Int

TypeInv ==
    /\ PerThread /\ LoadInv /\ Bounded
    /\ mutex \in Thread \cup {None} /\ killed \in [Thread -> BOOLEAN]
    /\ \A t \in Thread : Arguments(t)

LEMMA TypeInvTypeOK == TypeInv => TypeOK
<1> SUFFICES ASSUME TypeInv PROVE TypeOK
  OBVIOUS
<1>1. errors = None \/ errors \in Seq(ErrConf)
  BY LoadedQueue DEF TypeInv
<1>2. reloads \in 0 .. MaxReloads
  BY FS_CardinalityType, ErrInjAssumption DEF TypeInv, Bounded, ErrInjAssumption
<1>3. file \in Files /\ loaded \in Files
  BY DEF TypeInv, LoadInv
<1>4. /\ tpc \in [Thread -> ThreadPC] /\ path \in [Thread -> Path \cup {None}]
      /\ op \in [Thread -> Op \cup {None}] /\ err \in [Thread -> Nat] /\ rc \in [Thread -> Int]
  BY DEF TypeInv, PerThread, Arguments
<1>5. \A t \in Thread : queue[t].name \in 0 .. MaxReloads /\ queue[t].entries \in Seq(ErrConf)
  BY DEF TypeInv, Arguments
<1> QED
  BY <1>1, <1>2, <1>3, <1>4, <1>5 DEF TypeOK, TypeInv, Files, ThreadPC, Critical

\* Steps that neither begin nor end the wait for a reload.
LEMMA BoundedKept ==
    ASSUME Bounded, reloads' = reloads, Reloading' = Reloading
    PROVE  Bounded'
BY DEF Bounded

LEMMA BoundedStep ==
    ASSUME PerThread, Bounded, [Next]_vars
    PROVE  Bounded'
<1>0. reloads \in Nat /\ IsFiniteSet(Reloading) /\ Cardinality(Reloading) \in Nat /\ MaxReloads \in Nat
  BY FS_CardinalityType, ErrInjAssumption DEF Bounded, ErrInjAssumption
<1>1. ASSUME NEW t \in Thread, Call(t) PROVE Bounded'
  <2>1. PICK p \in Path : /\ p = config_path => reloads + Cardinality(Reloading) < MaxReloads
                          /\ path' = [path EXCEPT ![t] = p]
    BY <1>1 DEF Call
  <2>2. tpc[t] = "idle" /\ tpc' = [tpc EXCEPT ![t] = "lock"] /\ reloads' = reloads
    BY <1>1 DEF Call, Goto
  <2>3. CASE p = config_path
    <3>1. Reloading' = Reloading \cup {t} /\ t \notin Reloading
      BY <2>1, <2>2, <2>3 DEF Reloading, PerThread
    <3>2. IsFiniteSet(Reloading') /\ Cardinality(Reloading') = Cardinality(Reloading) + 1
      BY <1>0, <3>1, FS_AddElement
    <3> QED
      BY <1>0, <2>1, <2>2, <2>3, <3>2 DEF Bounded
  <2>4. CASE p # config_path
    <3>1. Reloading' = Reloading
      BY <2>1, <2>2, <2>4 DEF Reloading, PerThread
    <3> QED
      BY <2>2, <3>1, BoundedKept
  <2> QED
    BY <2>3, <2>4
<1>2. ASSUME NEW t \in Thread, Reload(t) PROVE Bounded'
  <2>1. Reloading' = Reloading \ {t} /\ t \in Reloading /\ reloads' = reloads + 1
    BY <1>2 DEF Reload, config_delete, Goto, Reloading, PerThread
  <2>2. IsFiniteSet(Reloading') /\ Cardinality(Reloading') = Cardinality(Reloading) - 1
    BY <1>0, <2>1, FS_RemoveElement
  <2> QED
    BY <1>0, <2>1, <2>2 DEF Bounded
<1>3. ASSUME NEW t \in Thread, Lock(t) \/ NotConfigured(t) \/ EndWalk(t) \/ Unlock(t) PROVE Bounded'
  <2>1. Reloading' = Reloading
    BY <1>3 DEF Lock, NotConfigured, EndWalk, Unlock, AfterInject, Goto, Reloading, PerThread
  <2> QED
    BY <1>3, <2>1, BoundedKept DEF Lock, NotConfigured, EndWalk, Unlock
<1>4. ASSUME NEW t \in Thread, StartWalk(t) \/ Skip(t) \/ Trigger(t) PROVE Bounded'
  <2>1. Reloading' = Reloading
    BY <1>4 DEF StartWalk, Skip, Trigger, Goto, Reloading, PerThread
  <2> QED
    BY <1>4, <2>1, BoundedKept DEF StartWalk, Skip, Trigger
<1>5. ASSUME NEW t \in Thread, Injected(t) \/ Wrapper(t) \/ Local(t) PROVE Bounded'
  <2>1. Reloading' = Reloading
    BY <1>5 DEF Injected, Wrapper, Local, Forget, Goto, Reloading, PerThread
  <2> QED
    BY <1>5, <2>1, BoundedKept DEF Injected, Wrapper, Local, Forget
<1>6. CASE EditConfig \/ UNCHANGED vars
  <2>1. Reloading' = Reloading /\ reloads' = reloads
    BY <1>6 DEF EditConfig, vars, threadVars, Reloading
  <2> QED
    BY <2>1, BoundedKept
<1> QED
  BY <1>1, <1>2, <1>3, <1>4, <1>5, <1>6 DEF Next, Inside

\* A thread that does not move keeps its arguments.
LEMMA ArgumentsKept ==
    ASSUME NEW u \in Thread, Arguments(u), ThreadSame(u)
    PROVE  Arguments(u)'
BY DEF Arguments, ThreadSame

\* A result that is injected is a number.
LEMMA InjectInt ==
    ASSUME NEW e, NEW o \in Op, NEW old \in Int, NEW r \in Inject(e, o, old)
    PROVE  r \in Int
<1>1. \A n \in op_random_errno(o) : n \in Int
  BY RandomErrnoInt
<1>2. \A n \in Int : - n \in Int
  OBVIOUS
<1>3. CASE e.type = "noop"
  BY <1>3 DEF Inject, NOOP
<1>4. CASE e.type = "errno"
  BY <1>1, <1>2, <1>4 DEF Inject
<1>5. CASE e.type \notin {"noop", "errno"}
  BY <1>5 DEF Inject
<1> QED
  BY <1>3, <1>4, <1>5

LEMMA NoQueueType == NoQueue.name \in 0 .. MaxReloads /\ NoQueue.entries \in Seq(ErrConf)
<1>1. 0 \in 0 .. MaxReloads /\ <<>> \in Seq(ErrConf)
  BY ErrInjAssumption DEF ErrInjAssumption
<1>2. NoQueue.name = 0 /\ NoQueue.entries = <<>>
  BY DEF NoQueue
<1> QED
  BY <1>1, <1>2

LEMMA ArgumentsStep ==
    ASSUME TypeInv, NEW t \in Thread, Call(t) \/ Lock(t) \/ Inside(t)
    PROVE  Arguments(t)'
<1>1. PerThread /\ Arguments(t)
  BY DEF TypeInv
<1>2. CASE Call(t)
  BY <1>1, <1>2 DEF Call, Goto, PerThread, Arguments
<1>3. CASE Lock(t) \/ Reload(t) \/ NotConfigured(t) \/ EndWalk(t) \/ Unlock(t)
  BY <1>1, <1>3 DEF Lock, Reload, NotConfigured, EndWalk, Unlock, AfterInject, Goto, PerThread, Arguments
<1>4. CASE StartWalk(t)
  <2>1. errors \in Seq(ErrConf) /\ reloads \in 0 .. MaxReloads
    BY <1>4, TypeInvTypeOK DEF TypeOK, StartWalk
  <2> QED
    BY <1>1, <1>4, <2>1 DEF StartWalk, Goto, PerThread, Arguments
<1>5. CASE Skip(t)
  BY <1>1, <1>5 DEF Skip, PerThread, Arguments
<1>6. CASE Trigger(t)
  <2>1. /\ tpc[t] = "walk" /\ UNCHANGED <<tpc, path, op, queue>> /\ err'[t] = err[t] + 1
    BY <1>1, <1>6 DEF Trigger, AtEntry, PerThread
  <2>2. PICK r \in Inject(Entry(t), op[t], rc[t]) : rc'[t] = r
    BY <1>1, <1>6 DEF Trigger, PerThread
  <2>3. r \in Int
    BY <1>1, <2>1, <2>2, InjectInt DEF Arguments
  <2> QED
    BY <1>1, <2>1, <2>2, <2>3 DEF Arguments
<1>7. CASE Injected(t) \/ Wrapper(t) \/ Local(t)
  <2>1. queue'[t] = NoQueue
    BY <1>1, <1>7 DEF Injected, Wrapper, Local, Forget, PerThread
  <2>2. /\ path'[t] = None /\ op'[t] = None /\ tpc'[t] = "idle"
        /\ err'[t] = 0 /\ rc'[t] = 0
    BY <1>1, <1>7 DEF Injected, Wrapper, Local, Forget, Goto, PerThread
  <2> QED
    BY <2>1, <2>2, NoQueueType DEF Arguments
<1> QED
  BY <1>2, <1>3, <1>4, <1>5, <1>6, <1>7 DEF Inside

LEMMA TypeStep == TypeInv /\ [Next]_vars => TypeInv'
<1> SUFFICES ASSUME TypeInv, [Next]_vars PROVE TypeInv'
  OBVIOUS
<1>1. PerThread' /\ LoadInv' /\ Bounded'
  BY PerThreadStep, LoadStep, BoundedStep DEF TypeInv
<1>2. CASE EditConfig \/ UNCHANGED vars
  <2>1. \A u \in Thread : ThreadSame(u)
    BY <1>2 DEF EditConfig, vars, threadVars, ThreadSame
  <2>2. UNCHANGED <<mutex, killed>>
    BY <1>2 DEF EditConfig, vars, threadVars
  <2> QED
    BY <1>1, <2>1, <2>2, ArgumentsKept DEF TypeInv
<1>3. ASSUME NEW t \in Thread, Call(t) \/ Lock(t) \/ Inside(t)
      PROVE  TypeInv'
  <2>1. \A u \in Thread : Arguments(u)'
    <3>1. Arguments(t)'
      BY <1>3, ArgumentsStep
    <3>2. ASSUME NEW u \in Thread, u # t PROVE Arguments(u)'
      <4>1. ThreadSame(u)
        BY <1>3, <3>2, OthersSame DEF TypeInv
      <4> QED
        BY <4>1, ArgumentsKept DEF TypeInv
    <3> QED
      BY <3>1, <3>2
  <2>2. mutex' \in Thread \cup {None}
    <3>1. CASE Call(t) \/ Lock(t) \/ Reload(t) \/ NotConfigured(t) \/ EndWalk(t) \/ Unlock(t)
      BY <3>1 DEF Call, Lock, Reload, NotConfigured, EndWalk, Unlock, TypeInv
    <3>2. CASE StartWalk(t) \/ Skip(t) \/ Trigger(t) \/ Injected(t) \/ Wrapper(t) \/ Local(t)
      BY <3>2 DEF StartWalk, Skip, Trigger, Injected, Wrapper, Local, Forget, TypeInv
    <3> QED
      BY <1>3, <3>1, <3>2 DEF Inside
  <2>3. killed' \in [Thread -> BOOLEAN]
    <3>1. CASE Call(t) \/ Lock(t) \/ Reload(t) \/ NotConfigured(t) \/ EndWalk(t) \/ Unlock(t)
      BY <3>1 DEF Call, Lock, Reload, NotConfigured, EndWalk, Unlock, TypeInv
    <3>2. CASE StartWalk(t) \/ Skip(t) \/ Injected(t) \/ Wrapper(t) \/ Local(t)
      BY <3>2 DEF StartWalk, Skip, Injected, Wrapper, Local, Forget, TypeInv
    <3>3. CASE Trigger(t)
      <4>1. (killed[t] \/ Entry(t).type = "kill_caller") \in BOOLEAN
        BY Zenon DEF TypeInv
      <4> QED
        BY <3>3, <4>1, Zenon DEF Trigger, TypeInv
    <3> QED
      BY <1>3, <3>1, <3>2, <3>3 DEF Inside
  <2> QED
    BY <1>1, <2>1, <2>2, <2>3 DEF TypeInv
<1> QED
  BY <1>2, <1>3 DEF Next

LEMMA TypeInit == Init => TypeInv
<1> SUFFICES ASSUME Init PROVE TypeInv
  OBVIOUS
<1>1. LoadInv
  BY LoadInit
<1>2. PerThread
  BY DEF Init, PerThread, ThreadPC, Critical
<1>3. Reloading = {}
  BY DEF Init, Reloading
<1>4. Bounded
  BY <1>3, FS_EmptySet, ErrInjAssumption DEF Init, Bounded, ErrInjAssumption
<1>5. \A t \in Thread : Arguments(t)
  BY NoQueueType DEF Init, Arguments
<1> QED
  BY <1>1, <1>2, <1>4, <1>5 DEF Init, TypeInv

\* The state of fault injection keeps its types: among them that no loading
\* leaves an entry of an unknown type, or a probability that is not an unsigned
\* int, in the queue, and that rc is a number whatever lies behind a table.
THEOREM InjectTypes == Spec => []TypeOK
BY TypeInit, TypeStep, TypeInvTypeOK, PTL DEF Spec

-----------------------------------------------------------------------------
(* Certain injections                                                      *)

CertainNoop(e, t) == e.type = "noop" /\ e.probability >= MAX_PROBABLITY /\ Matched(e, t)

\* A walk that is over came past every entry; a certain no-op that it came past
\* is still in rc, as long as no errinj_errno is there to write over it.
Came(t) ==
    /\ (tpc[t] \in {"unlock", "return", "wrapper"} /\ path[t] # config_path) =>
           \A i \in 1 .. Len(queue[t].entries) : i < err[t]
    /\ (tpc[t] \in {"walk", "unlock", "return", "wrapper"} /\ \A e \in Walked(t) : e.type # "errno") =>
           \A i \in 1 .. Len(queue[t].entries) :
               i < err[t] /\ CertainNoop(queue[t].entries[i], t) => rc[t] = NOOP

CertainInv == TypeInv /\ ReasonInv /\ \A t \in Thread : Came(t)

LEMMA CameKept ==
    ASSUME NEW u \in Thread, Came(u), ThreadSame(u)
    PROVE  Came(u)'
BY DEF Came, ThreadSame, Walked, Matched, CertainNoop

\* rand_range stays at or below MAX_PROBABLITY: a certain entry is not skipped.
LEMMA CertainDrawn ==
    ASSUME NEW e \in ErrConf, NEW t, CertainNoop(e, t), NEW p \in 0 .. MAX_PROBABLITY
    PROVE  Drawn(e, p) /\ Matched(e, t)
<1>1. e.probability \in Int /\ MAX_PROBABLITY \in Int
  BY ErrInjAssumption DEF ErrConf, ErrInjAssumption
<1> QED
  BY <1>1 DEF CertainNoop, Drawn

\* Coming past one more entry.
LEMMA CamePast ==
    ASSUME TypeInv, NEW t \in Thread, Came(t), AtEntry(t), err[t] > 0,
           UNCHANGED <<tpc, path, op, queue>>, err'[t] = err[t] + 1,
           rc[t] = NOOP /\ (\A e \in Walked(t) : e.type # "errno") => rc'[t] = NOOP,
           CertainNoop(Entry(t), t) => rc'[t] = NOOP
    PROVE  Came(t)'
<1>1. tpc[t] = "walk" /\ err[t] \in Nat /\ tpc'[t] = "walk"
  BY DEF AtEntry, TypeInv, Arguments
<1>2. Walked(t)' = Walked(t) /\ \A e : CertainNoop(e, t)' <=> CertainNoop(e, t)
  BY DEF Walked, CertainNoop, Matched
<1>3. SUFFICES ASSUME \A e \in Walked(t) : e.type # "errno",
                      NEW i \in 1 .. Len(queue[t].entries), i < err[t] + 1,
                      CertainNoop(queue[t].entries[i], t)
               PROVE  rc'[t] = NOOP
  BY <1>1, <1>2 DEF Came
<1>4. CASE i < err[t]
  BY <1>1, <1>3, <1>4 DEF Came
<1>5. CASE i = err[t]
  BY <1>3, <1>5 DEF Entry
<1> QED
  BY <1>1, <1>3, <1>4, <1>5

LEMMA CameStep ==
    ASSUME CertainInv, NEW t \in Thread, Call(t) \/ Lock(t) \/ Inside(t)
    PROVE  Came(t)'
<1>1. PerThread /\ TypeInv /\ Came(t) /\ Reason(t) /\ Arguments(t)
  BY DEF CertainInv, TypeInv, ReasonInv
<1>2. tpc[t] = "walk" => err[t] \in Nat /\ err[t] > 0
  BY DEF CertainInv, ReasonInv, Started
<1>3. Len(NoQueue.entries) = 0
  BY DEF NoQueue
<1>4. CASE Call(t) \/ Lock(t)
  BY <1>1, <1>4 DEF Call, Lock, Goto, PerThread, Came
<1>5. CASE Reload(t) \/ NotConfigured(t)
  <2>1. queue'[t] = NoQueue
    BY <1>1, <1>5 DEF Reload, NotConfigured, Reason
  <2> QED
    BY <1>3, <2>1 DEF Came
<1>6. CASE StartWalk(t)
  <2>1. tpc'[t] = "walk" /\ err'[t] = 1
    BY <1>1, <1>6 DEF StartWalk, Goto, PerThread
  <2>2. \A i \in 1 .. Len(queue'[t].entries) : ~ (i < 1)
    <3>1. \A n : \A i \in 1 .. n : ~ (i < 1)
      OBVIOUS
    <3> QED
      BY <3>1, Zenon
  <2> QED
    BY <2>1, <2>2 DEF Came
<1>7. CASE Skip(t)
  <2>1. PICK p \in 0 .. MAX_PROBABLITY : ~ (Drawn(Entry(t), p) /\ Matched(Entry(t), t))
    BY <1>7 DEF Skip
  <2>2. AtEntry(t) /\ err'[t] = err[t] + 1 /\ UNCHANGED <<tpc, path, op, queue, rc>>
    BY <1>1, <1>7 DEF Skip, PerThread
  <2>3. Entry(t) \in ErrConf
    <3>1. err[t] \in 1 .. Len(queue[t].entries) /\ queue[t].entries \in Seq(ErrConf)
      BY <1>1, <1>2, <2>2 DEF AtEntry, Arguments
    <3> QED
      BY <3>1 DEF Entry
  <2>4. ~ CertainNoop(Entry(t), t)
    BY <2>1, <2>3, CertainDrawn
  <2>5. err[t] > 0
    BY <1>2, <2>2 DEF AtEntry
  <2> QED
    BY <1>1, <2>2, <2>4, <2>5, CamePast
<1>8. CASE Trigger(t)
  <2>1. AtEntry(t) /\ err'[t] = err[t] + 1 /\ UNCHANGED <<tpc, path, op, queue>>
    BY <1>1, <1>8 DEF Trigger, PerThread
  <2>2. PICK r \in Inject(Entry(t), op[t], rc[t]) : rc'[t] = r
    BY <1>1, <1>8 DEF Trigger, PerThread
  <2>3. err[t] \in Nat /\ err[t] > 0
    BY <1>2, <2>1 DEF AtEntry
  <2>4. Entry(t) \in Walked(t)
    BY <2>1, <2>3, EntryWalked
  <2>5. rc[t] = NOOP /\ (\A e \in Walked(t) : e.type # "errno") => rc'[t] = NOOP
    BY <2>2, <2>4 DEF Inject
  <2>6. CertainNoop(Entry(t), t) => rc'[t] = NOOP
    BY <2>2 DEF Inject, CertainNoop
  <2> QED
    BY <1>1, <2>1, <2>3, <2>5, <2>6, CamePast
<1>9. CASE EndWalk(t)
  <2>1. /\ tpc[t] = "walk" /\ tpc'[t] = "unlock" /\ UNCHANGED <<path, op, queue, err, rc>>
        /\ err[t] > Len(queue[t].entries)
    BY <1>1, <1>9 DEF EndWalk, Goto, PerThread
  <2>2. Len(queue[t].entries) \in Nat
    BY <1>1 DEF Arguments
  <2>3. \A i \in 1 .. Len(queue[t].entries) : i < err[t]
    BY <1>2, <2>1, <2>2
  <2> QED
    BY <1>1, <2>1, <2>3 DEF Came, Walked, CertainNoop, Matched
<1>10. CASE Unlock(t)
  <2>1. tpc[t] = "unlock" /\ tpc'[t] \in {"return", "wrapper"} /\ UNCHANGED <<path, op, queue, err, rc>>
    BY <1>1, <1>10 DEF Unlock, Goto, AfterInject, PerThread
  <2> QED
    BY <1>1, <2>1 DEF Came, Walked, CertainNoop, Matched
<1>11. CASE Injected(t) \/ Wrapper(t) \/ Local(t)
  BY <1>1, <1>11 DEF Injected, Wrapper, Local, Forget, Goto, PerThread, Came
<1> QED
  BY <1>4, <1>5, <1>6, <1>7, <1>8, <1>9, <1>10, <1>11 DEF Inside

LEMMA CertainStep == CertainInv /\ [Next]_vars => CertainInv'
<1> SUFFICES ASSUME CertainInv, [Next]_vars PROVE CertainInv'
  OBVIOUS
<1>1. TypeInv' /\ ReasonInv'
  BY TypeStep, ReasonStep DEF CertainInv
<1>2. PerThread /\ \A u \in Thread : Came(u)
  BY DEF CertainInv, TypeInv
<1>3. CASE EditConfig \/ UNCHANGED vars
  <2>1. \A u \in Thread : ThreadSame(u)
    BY <1>3 DEF EditConfig, vars, threadVars, ThreadSame
  <2> QED
    BY <1>1, <1>2, <2>1, CameKept DEF CertainInv
<1>4. ASSUME NEW t \in Thread, Call(t) \/ Lock(t) \/ Inside(t)
      PROVE  CertainInv'
  <2>1. Came(t)'
    BY <1>4, CameStep
  <2>2. \A u \in Thread : u # t => Came(u)'
    BY <1>2, <1>4, OthersSame, CameKept
  <2> QED
    BY <1>1, <2>1, <2>2 DEF CertainInv
<1> QED
  BY <1>3, <1>4 DEF Next

\* A matching errinj_noop of probability 100 or more always replaces the
\* operation: for every queue, at every place in it, whatever is drawn for the
\* entries around it, and whatever other threads and reloads do meanwhile.
THEOREM CertainAlwaysFires == Spec => []CertainFires
<1>1. Init => ReasonInv
  BY DEF Init, ReasonInv, PerThread, ThreadPC, Critical, Started, Reason
<1>2. Init => CertainInv
  BY <1>1, TypeInit DEF Init, CertainInv, Came
<1>3. CertainInv => CertainFires
  <2> SUFFICES ASSUME CertainInv, NEW t \in Thread, Decided(t),
                      NEW e \in Walked(t), CertainNoop(e, t), \A d \in Walked(t) : d.type # "errno"
               PROVE  tpc[t] = "return" /\ rc[t] = NOOP
    BY DEF CertainFires, CertainNoop
  <2>1. PICK i \in 1 .. Len(queue[t].entries) : e = queue[t].entries[i]
    BY DEF Walked
  <2>2. tpc[t] \in {"return", "wrapper"} /\ path[t] # config_path
    BY DEF Decided
  <2>3. rc[t] = NOOP
    BY <2>1, <2>2 DEF CertainInv, Came
  <2>4. tpc[t] = "wrapper" => rc[t] = 0
    BY DEF CertainInv, ReasonInv, Reason
  <2> QED
    BY <2>2, <2>3, <2>4 DEF NOOP
<1> QED
  BY <1>2, <1>3, CertainStep, PTL DEF Spec
=============================================================================
