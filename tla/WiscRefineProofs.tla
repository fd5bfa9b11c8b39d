-------------------------- MODULE WiscRefineProofs --------------------------
(***************************************************************************)
(* WiscAFS implements CloseToOpen, for every number of clients, paths,     *)
(* handler threads and blocks, where module WiscFreshProofs proves its     *)
(* invariant: sessions on clients of their own, and no failure but crashes *)
(* of clients that have no upload in flight.                               *)
(***************************************************************************)
EXTENDS WiscFreshProofs

-----------------------------------------------------------------------------
(* The refinement mapping, one session at a time                           *)

\* What the mapping makes of session s, by the place its code has come to.
Mapped(s) ==
    /\ pc[s] = "idle" =>
          absSt[s] = "idle" /\ absView[s] = <<>> /\ absModified[s] = FALSE
    /\ pc[s] \in {"create", "getattr", "creating", "fetching"} =>
          absSt[s] = "opening" /\ absView[s] = <<>> /\ absModified[s] = FALSE
    /\ pc[s] = "attr" /\ Hit(s) =>
          absSt[s] = "sampled" /\ absView[s] = MyFile(s) /\ absModified[s] = FALSE
    /\ pc[s] = "attr" /\ ~ Hit(s) =>
          absSt[s] = "opening" /\ absView[s] = <<>> /\ absModified[s] = FALSE
    /\ pc[s] = "fetched" =>
          absSt[s] = "sampled" /\ absView[s] = buf[s] /\ absModified[s] = FALSE
    /\ pc[s] = "open" =>
          /\ absSt[s] = "open" /\ absView[s] = MyFile(s)
          /\ CacheObject(host[s], path[s]).dirty = TRUE => absModified[s] = TRUE
          /\ CacheObject(host[s], path[s]).dirty = FALSE => absModified[s] = FALSE
    /\ pc[s] = "putting" /\ ~ Stored(s) =>
          absSt[s] = "closing" /\ absView[s] = buf[s] /\ absModified[s] = TRUE
    /\ pc[s] = "putting" /\ Stored(s) =>
          absSt[s] = "done" /\ absView[s] = <<>> /\ absModified[s] = FALSE
    /\ pc[s] \in {"putdone", "release"} =>
          absSt[s] = "done" /\ absView[s] = <<>> /\ absModified[s] = FALSE
    /\ pc[s] = "create" \/ op[s] = "create" => absEmpties[s] = TRUE
    /\ pc[s] # "create" /\ op[s] # "create" => absEmpties[s] = FALSE

\* The mapping is what Mapped says, before and after a step.
LEMMA MappedTrue ==
    ASSUME NEW s \in Sess
    PROVE  Mapped(s) /\ Mapped(s)'
<1>1. Mapped(s)
  BY DEF Mapped, absSt, absView, Read, absModified, absEmpties
<1>2. Mapped(s)'
  BY DEF Mapped, absSt, absView, Read, absModified, absEmpties
<1>3. QED
  BY <1>1, <1>2

\* The mapping of session t, and the file it works on, stay the same.
AbsSame(t) ==
    /\ absSt'[t] = absSt[t] /\ absView'[t] = absView[t] /\ path'[t] = path[t]
    /\ absModified'[t] = absModified[t] /\ absEmpties'[t] = absEmpties[t]

\* Only the mapping of session s changes.
AbsOnly(s) == \A t \in Sess : t # s => AbsSame(t)

\* The mapped variables are functions.
LEMMA AbsFunctions ==
    ASSUME CInv, CInv'
    PROVE  /\ absSt = [t \in Sess |-> absSt[t]] /\ absSt' = [t \in Sess |-> absSt'[t]]
           /\ path = [t \in Sess |-> path[t]] /\ path' = [t \in Sess |-> path'[t]]
           /\ absView = [t \in Sess |-> absView[t]] /\ absView' = [t \in Sess |-> absView'[t]]
           /\ absModified = [t \in Sess |-> absModified[t]]
           /\ absModified' = [t \in Sess |-> absModified'[t]]
           /\ absEmpties = [t \in Sess |-> absEmpties[t]]
           /\ absEmpties' = [t \in Sess |-> absEmpties'[t]]
BY DEF absSt, absView, absModified, absEmpties, CInv, ClientTypeOK

\* If only the mapping of s changes they are changed at s.
LEMMA AbsExcept ==
    ASSUME CInv, CInv', NEW s \in Sess, AbsOnly(s)
    PROVE  /\ absSt' = [absSt EXCEPT ![s] = absSt'[s]]
           /\ path' = [path EXCEPT ![s] = path'[s]]
           /\ absView' = [absView EXCEPT ![s] = absView'[s]]
           /\ absModified' = [absModified EXCEPT ![s] = absModified'[s]]
           /\ absEmpties' = [absEmpties EXCEPT ![s] = absEmpties'[s]]
BY AbsFunctions DEF AbsOnly, AbsSame

\* One that stays the same at s stays the same.
LEMMA AbsStill ==
    ASSUME CInv, CInv', NEW s \in Sess, AbsOnly(s)
    PROVE  /\ absSt'[s] = absSt[s] => absSt' = absSt
           /\ path'[s] = path[s] => path' = path
           /\ absView'[s] = absView[s] => absView' = absView
           /\ absModified'[s] = absModified[s] => absModified' = absModified
           /\ absEmpties'[s] = absEmpties[s] => absEmpties' = absEmpties
BY AbsFunctions DEF AbsOnly, AbsSame

-----------------------------------------------------------------------------
(* The steps of CloseToOpen, seen at the session that takes them           *)

\* Nothing happens,
LEMMA AbsNothing ==
    ASSUME CInv, CInv', \A t \in Sess : AbsSame(t), UNCHANGED current
    PROVE  UNCHANGED C2O!vars
BY AbsFunctions DEF AbsSame, C2O!vars

\* not even at s.
LEMMA AbsStutter ==
    ASSUME CInv, CInv', NEW s \in Sess, AbsOnly(s), AbsSame(s), UNCHANGED current
    PROVE  UNCHANGED C2O!vars
BY AbsNothing DEF AbsOnly

\* An open begins.
LEMMA AbsBeginOpen ==
    ASSUME CInv, CInv', NEW s \in Sess, AbsOnly(s), UNCHANGED current,
           absSt[s] = "idle", absSt'[s] = "opening", path'[s] \in Path,
           absView'[s] = absView[s], absModified'[s] = absModified[s], absEmpties'[s] \in BOOLEAN
    PROVE  C2O!Next
<1>1. C2O!BeginOpen(s, path'[s])
  BY AbsExcept, AbsStill DEF C2O!BeginOpen
<1>2. QED
  BY <1>1 DEF C2O!Next

\* An open chooses its version.
LEMMA AbsSample ==
    ASSUME CInv, CInv', NEW s \in Sess, AbsOnly(s), UNCHANGED current,
           absSt[s] = "opening", absSt'[s] = "sampled", path'[s] = path[s],
           absView'[s] \in C2O!Versions(path[s]),
           absModified'[s] = absModified[s], absEmpties'[s] = absEmpties[s]
    PROVE  C2O!Next
<1>1. C2O!Sample(s)
  BY AbsExcept, AbsStill DEF C2O!Sample
<1>2. QED
  BY <1>1 DEF C2O!Next

\* An open returns.
LEMMA AbsEndOpen ==
    ASSUME CInv, CInv', NEW s \in Sess, AbsOnly(s), UNCHANGED current,
           absSt[s] = "sampled", absSt'[s] = "open", path'[s] = path[s],
           absView'[s] = absView[s] \/ (absEmpties[s] = TRUE /\ absView'[s] = <<>>),
           absModified'[s] = absModified[s], absEmpties'[s] = FALSE
    PROVE  C2O!Next
<1>1. C2O!EndOpen(s)
  BY AbsExcept, AbsStill DEF C2O!EndOpen
<1>2. QED
  BY <1>1 DEF C2O!Next

\* An application writes.
LEMMA AbsModify ==
    ASSUME CInv, CInv', NEW s \in Sess, AbsOnly(s), UNCHANGED current,
           absSt[s] = "open", absSt'[s] = "open", path'[s] = path[s],
           absView'[s] \in Content, absModified'[s] = TRUE, absEmpties'[s] = absEmpties[s]
    PROVE  C2O!Next
<1>1. C2O!Modify(s)
  BY AbsExcept, AbsStill DEF C2O!Modify
<1>2. QED
  BY <1>1 DEF C2O!Next

\* A close begins.
LEMMA AbsBeginClose ==
    ASSUME CInv, CInv', NEW s \in Sess, AbsOnly(s), UNCHANGED current,
           absSt[s] = "open", path'[s] = path[s],
           \/ absModified[s] = TRUE /\ absSt'[s] = "closing" /\ absView'[s] = absView[s]
           \/ absModified[s] = FALSE /\ absSt'[s] = "done" /\ absView'[s] = <<>>,
           absModified'[s] = absModified[s], absEmpties'[s] = absEmpties[s]
    PROVE  C2O!Next
<1>1. C2O!BeginClose(s)
  BY AbsExcept, AbsStill DEF C2O!BeginClose
<1>2. QED
  BY <1>1 DEF C2O!Next

\* A close publishes.
LEMMA AbsPublish ==
    ASSUME CInv, CInv', NEW s \in Sess, AbsOnly(s),
           current' = [current EXCEPT ![path[s]] = absView[s]],
           absSt[s] = "closing", absSt'[s] = "done", path'[s] = path[s],
           absView'[s] = <<>>, absModified'[s] = FALSE, absEmpties'[s] = absEmpties[s]
    PROVE  C2O!Next
<1>1. C2O!Publish(s)
  BY AbsExcept, AbsStill DEF C2O!Publish
<1>2. QED
  BY <1>1 DEF C2O!Next

\* A close returns, or an open is given up.
LEMMA AbsEnd ==
    ASSUME CInv, CInv', NEW s \in Sess, AbsOnly(s), UNCHANGED current,
           absSt[s] \in {"opening", "sampled", "open", "done"}, absSt'[s] = "idle",
           path'[s] = None, absView'[s] = <<>>, absModified'[s] = FALSE, absEmpties'[s] = FALSE
    PROVE  C2O!Next
<1>1. C2O!GiveUp(s)
  BY AbsExcept DEF C2O!GiveUp, C2O!Forget
<1>2. QED
  BY <1>1 DEF C2O!Next

-----------------------------------------------------------------------------
(* What a step leaves alone                                                *)

\* A session nobody touched, whose upload nobody stored, is mapped as before.
LEMMA AbsKeeps ==
    ASSUME Inv, NEW t \in Sess, SessSame(t),
           path[t] \in Path => CacheSame(host[t], path[t]),
           pc[t] = "putting" => (Stored(t)' <=> Stored(t))
    PROVE  AbsSame(t)
<1>1. CASE pc[t] = "idle"
  BY <1>1 DEF AbsSame, SessSame, absSt, absView, absModified, absEmpties
<1>2. CASE pc[t] # "idle"
  <2>1. path[t] \in Path /\ CacheSame(host[t], path[t])
    BY <1>2 DEF Inv, CInv, SessPath
  <2>2. /\ (Hit(t)' <=> Hit(t)) /\ MyFile(t)' = MyFile(t)
        /\ CacheObject(host[t], path[t])' = CacheObject(host[t], path[t])
    BY <2>1 DEF CacheSame, SessSame, Hit, MyEntry, MyFile, CacheObject, IsCacheValid
  <2>3. absSt'[t] = absSt[t]
    BY <2>2 DEF SessSame, absSt
  <2>4. absView'[t] = absView[t]
    BY <2>2 DEF SessSame, absView, Read
  <2>5. absModified'[t] = absModified[t]
    BY <2>2 DEF SessSame, absModified
  <2>6. QED
    BY <2>3, <2>4, <2>5 DEF AbsSame, SessSame, absEmpties
<1>3. QED
  BY <1>1, <1>2

\* A step of the code of s on p, the handlers standing still.
LEMMA AbsLocal ==
    ASSUME Inv, Alone, NEW s \in Sess, NEW p \in Path, Local(s, p), UNCHANGED <<wsess, wpc>>
    PROVE  AbsOnly(s)
<1> SUFFICES ASSUME NEW t \in Sess, t # s PROVE AbsSame(t)
  BY DEF AbsOnly
<1>1. host[t] # host[s] /\ host[t] \in Client
  BY ClientAssumption DEF Alone
<1>2. SessSame(t) /\ (path[t] \in Path => CacheSame(host[t], path[t]))
  BY <1>1 DEF Local
<1>3. Stored(t)' <=> Stored(t)
  BY DEF Stored
<1>4. QED
  BY <1>2, <1>3, AbsKeeps

\* A step of the server alone that stores the upload of no session, or of s.
LEMMA AbsServer ==
    ASSUME Inv, UNCHANGED clientVars, NEW s \in Sess,
           \A t \in Sess : t # s /\ pc[t] = "putting" => (Stored(t)' <=> Stored(t))
    PROVE  AbsOnly(s)
<1> SUFFICES ASSUME NEW t \in Sess, t # s PROVE AbsSame(t)
  BY DEF AbsOnly
<1>1. SessSame(t) /\ (path[t] \in Path => CacheSame(host[t], path[t]))
  BY DEF SessSame, CacheSame, clientVars, sessVars
<1>2. QED
  BY <1>1, AbsKeeps

-----------------------------------------------------------------------------
(* The steps of the client code                                            *)

\* A step of CloseToOpen, or none.
AbsStep == C2O!Next \/ UNCHANGED C2O!vars

\* open and create begin an open.
LEMMA RefineOpen ==
    ASSUME Inv, Inv', Alone, FInv, NEW s \in Sess, NEW p \in Path,
           OpenCall(s, p) \/ CreateNext(s, p), UNCHANGED serverVars
    PROVE  AbsStep
<1>1. /\ \A t \in Sess : t # s => SessSame(t)
      /\ pc[s] = "idle" /\ pc'[s] \in {"getattr", "create"} /\ path'[s] = p
      /\ UNCHANGED <<status, cacheFile, wsess, wpc, current>>
  BY DEF OpenCall, CreateNext, Goto, SessSame, Inv, CInv, ClientTypeOK, serverVars, workVars
<1>2. AbsOnly(s)
  BY <1>1, AbsLocal DEF Local, CacheSame
<1>3. Mapped(s) /\ Mapped(s)'
  BY MappedTrue
<1>4. /\ absSt[s] = "idle" /\ absSt'[s] = "opening" /\ absView[s] = <<>> /\ absView'[s] = <<>>
      /\ absModified[s] = FALSE /\ absModified'[s] = FALSE
  BY <1>1, <1>3 DEF Mapped
<1>5. absEmpties'[s] \in BOOLEAN
  BY DEF absEmpties
<1>6. QED
  BY <1>1, <1>2, <1>4, <1>5, AbsBeginOpen DEF AbsStep, Inv

\* create goes on to getFileAttributes, and a miss to the server: nothing is
\* chosen yet.
LEMMA RefineGoOn ==
    ASSUME Inv, Inv', Alone, FInv, NEW s \in Sess, CreateCall(s) \/ FetchToCache(s), UNCHANGED serverVars
    PROVE  AbsStep
<1>1. /\ \A t \in Sess : t # s => SessSame(t)
      /\ pc[s] = "create" \/ (pc[s] = "attr" /\ ~ Hit(s))
      /\ pc'[s] \in {"getattr", "creating", "fetching"} /\ path'[s] = path[s] /\ path[s] \in Path
      /\ pc[s] = "create" => op'[s] = "create"
      /\ pc[s] = "attr" => op'[s] = op[s]
      /\ UNCHANGED <<status, cacheFile, wsess, wpc, current>>
  BY DEF CreateCall, FetchToCache, Goto, SessSame, Inv, CInv, SessPath, ClientTypeOK, serverVars, workVars
<1>2. AbsOnly(s)
  BY <1>1, AbsLocal DEF Local, CacheSame
<1>3. Mapped(s) /\ Mapped(s)'
  BY MappedTrue
<1>4. AbsSame(s)
  BY <1>1, <1>3 DEF Mapped, AbsSame
<1>5. QED
  BY <1>1, <1>2, <1>4, AbsStutter DEF AbsStep, Inv

\* An open that fails is given up.
LEMMA RefineReturn ==
    ASSUME Inv, Inv', Alone, FInv, NEW s \in Sess, Return(s),
           UNCHANGED <<status, cacheFile, serverVars>>, pc[s] = "fetching"
    PROVE  AbsStep
<1>1. /\ \A t \in Sess : t # s => SessSame(t)
      /\ pc'[s] = "idle" /\ path'[s] = None /\ op'[s] = "none" /\ path[s] \in Path
      /\ UNCHANGED <<wsess, wpc, current>>
  BY DEF Return, Goto, SessSame, Inv, CInv, SessPath, ClientTypeOK, serverVars, workVars
<1>2. AbsOnly(s)
  BY <1>1, AbsLocal DEF Local, CacheSame
<1>3. Mapped(s) /\ Mapped(s)'
  BY MappedTrue
<1>4. QED
  BY <1>1, <1>2, <1>3, AbsEnd DEF AbsStep, Inv, Mapped

\* What is fresh on p is published, or the upload of a close in progress.
LEMMA FreshVersion ==
    ASSUME Inv, Sealed, FInv, NEW p \in Path, NEW c, Fresh(c, p)
    PROVE  c \in C2O!Versions(p)
<1>1. CASE c = current[p]
  BY <1>1 DEF C2O!Versions
<1>2. CASE c # current[p]
  <2>1. PICK w \in Worker : Renamed(w, p) /\ c = wbuf[w]
    BY <1>2 DEF Fresh
  <2>2. PICK t \in Sess : /\ t = wsess[w] /\ pc[t] = "putting" /\ path[t] = p /\ buf[t] = c
    BY <2>1, Busy DEF Served, Renamed
  <2>3. ~ Stored(t)
    <3>1. ASSUME NEW v \in Worker, wsess[v] = t, wpc[v] = "reply" PROVE FALSE
      <4>1. wpath[v] = p
        BY <2>2, <3>1, Busy DEF Served
      <4>2. v # w
        BY <2>1, <3>1 DEF Renamed
      <4>3. QED
        BY <2>1, <4>1, <4>2, Busy DEF Renamed
    <3>2. QED
      BY <3>1 DEF Stored
  <2>4. absSt[t] = "closing" /\ absView[t] = c
    BY <2>2, <2>3, MappedTrue DEF Mapped
  <2>5. QED
    BY <2>2, <2>4 DEF C2O!Versions
<1>3. QED
  BY <1>1, <1>2

\* A copy that the answer of getFileAttributes makes a hit is a version an
\* open may return: it is chosen now.
LEMMA RefineAttributes ==
    ASSUME Inv, Inv', Alone, Sealed, FInv, NEW s \in Sess, GetFileAttributes(s)
    PROVE  AbsStep
<1>p. PICK p \in Path : p = path[s]
  BY DEF GetFileAttributes, Inv, CInv, SessPath
<1> USE <1>p
<1>1. RpcNext["getattr"] = "attr"
  BY DEF RpcNext, RpcPC
<1>2. /\ \A t \in Sess : t # s => SessSame(t)
      /\ pc[s] = "getattr" /\ pc'[s] = "attr" /\ path'[s] = p /\ op'[s] = op[s]
      /\ snap'[s] = snap[s] /\ clk'[s] = AttributesReply(p)
      /\ UNCHANGED <<status, cacheFile, wsess, wpc, current>>
  BY <1>1 DEF GetFileAttributes, Answer, Goto, SessSame, Inv, CInv, ClientTypeOK, serverVars, workVars
<1>3. AbsOnly(s)
  BY <1>2, AbsLocal DEF Local, CacheSame
<1>4. Mapped(s) /\ Mapped(s)'
  BY MappedTrue
<1>5. absEmpties'[s] = absEmpties[s] /\ absModified'[s] = absModified[s]
  BY <1>2, <1>4 DEF Mapped
<1>6. CASE ~ Hit(s)'
  <2>1. AbsSame(s)
    BY <1>2, <1>4, <1>5, <1>6 DEF Mapped, AbsSame
  <2>2. QED
    BY <1>2, <1>3, <2>1, AbsStutter DEF AbsStep, Inv
<1>7. CASE Hit(s)'
  <2>1. /\ host[s] \in Client /\ snap[s] = CacheObject(host[s], p)
        /\ snap[s].clock \in Int /\ snap[s].clock <= serverclock[p] /\ snap[s].dirty = FALSE
        /\ EntryOK(host[s], p) /\ serverclock[p] \in Int
    <3>1. /\ host[s] \in Client /\ snap[s] = CacheObject(host[s], p)
          /\ snap[s].clock \in Int /\ snap[s].clock <= serverclock[p] /\ snap[s].dirty = FALSE
      BY <1>2, SnapClean DEF Opening
    <3>2. QED
      BY <3>1 DEF FInv, ClientPart, Inv, SInv, ServerTypeOK
  <2>2. MyEntry(s) # None /\ ~ (serverclock[p] > snap[s].clock)
    BY <1>2, <1>7 DEF Hit, MyEntry, AttributesReply, IsCacheValid
  <2>3. snap[s] = MyEntry(s)
    BY <2>1, <2>2 DEF CacheObject, MyEntry
  <2>4. Tagged(MyFile(s), snap[s].clock, p)
    BY <2>1, <2>2, <2>3 DEF EntryOK, MyEntry, MyFile
  <2>5. Fresh(MyFile(s), p)
    BY <2>1, <2>2, <2>4 DEF Tagged
  <2>6. MyFile(s) \in C2O!Versions(p)
    BY <2>5, FreshVersion
  <2>7. absSt'[s] = "sampled" /\ absView'[s] = MyFile(s) /\ absSt[s] = "opening"
    BY <1>2, <1>4, <1>7 DEF Mapped, MyFile
  <2>8. QED
    BY <1>2, <1>3, <1>5, <2>6, <2>7, AbsSample DEF AbsStep, Inv
<1>8. QED
  BY <1>6, <1>7

\* What getFileContents reads is such a version too.
LEMMA RefineContents ==
    ASSUME Inv, Inv', Alone, Sealed, FInv, NEW s \in Sess, GetFileContents(s)
    PROVE  AbsStep
<1>p. PICK p \in Path : p = path[s]
  BY DEF GetFileContents, Inv, CInv, SessPath
<1> USE <1>p
<1>1. CASE file[p] = None
  BY <1>1, RefineReturn DEF GetFileContents, ContentsReply
<1>2. CASE file[p] # None
  <2>1. ContentsReply(p) = data[file[p]] /\ data[file[p]] # None
    BY <1>2, BlockAssumption DEF ContentsReply, Inv, SInv, ServerTypeOK
  <2>2. RpcNext["fetching"] = "fetched"
    BY DEF RpcNext, RpcPC
  <2>3. /\ \A t \in Sess : t # s => SessSame(t)
        /\ pc[s] = "fetching" /\ pc'[s] = "fetched" /\ path'[s] = p /\ op'[s] = op[s]
        /\ buf'[s] = data[file[p]]
        /\ UNCHANGED <<status, cacheFile, wsess, wpc, current>>
    BY <2>1, <2>2 DEF GetFileContents, Answer, Goto, SessSame, Inv, CInv, ClientTypeOK, serverVars, workVars
  <2>4. AbsOnly(s)
    BY <2>3, AbsLocal DEF Local, CacheSame
  <2>5. Mapped(s) /\ Mapped(s)'
    BY MappedTrue
  <2>6. data[file[p]] \in C2O!Versions(p)
    BY <1>2, ReadFresh, FreshVersion DEF FInv
  <2>7. /\ absSt[s] = "opening" /\ absSt'[s] = "sampled" /\ absView'[s] = data[file[p]]
        /\ absEmpties'[s] = absEmpties[s] /\ absModified'[s] = absModified[s]
    BY <2>3, <2>5 DEF Mapped
  <2>8. QED
    BY <2>3, <2>4, <2>6, <2>7, AbsSample DEF AbsStep, Inv
<1>3. QED
  BY <1>1, <1>2

\* A hit returns what was chosen: a create never hits, so nothing is emptied.
LEMMA RefineOpenCached ==
    ASSUME Inv, Inv', Alone, FInv, NEW s \in Sess, OpenCachedFile(s), UNCHANGED serverVars
    PROVE  AbsStep
<1>p. PICK p \in Path : p = path[s]
  BY DEF OpenCachedFile, Inv, CInv, SessPath
<1> USE <1>p
<1>1. /\ \A t \in Sess : t # s => SessSame(t)
      /\ pc'[s] = "open" /\ path'[s] = p /\ op'[s] = "none"
      /\ UNCHANGED <<status, wsess, wpc, current>>
  BY OpenLocalOthers DEF OpenCachedFile, Inv, serverVars, workVars
<1>2. pc[s] = "attr" /\ Hit(s) /\ MyEntry(s) # None /\ host[s] \in Client
  BY ClientAssumption DEF OpenCachedFile, Hit
<1>3. op[s] # "create"
  BY <1>2 DEF FInv, ClientPart, SessOK, Opening
<1>4. UNCHANGED cacheFile
  <2>1. cacheFile' = [cacheFile EXCEPT ![host[s]][p] = MyFile(s)]
    BY <1>3 DEF OpenCachedFile, OpenLocal
  <2>2. QED
    BY <1>2, <2>1 DEF MyFile, Inv, CInv, ClientTypeOK
<1>5. AbsOnly(s)
  BY <1>1, <1>4, AbsLocal DEF Local, CacheSame
<1>6. Mapped(s) /\ Mapped(s)'
  BY MappedTrue
<1>7. CacheObject(host[s], path[s])'.dirty = FALSE
  <2>1. snap[s] = CacheObject(host[s], p) /\ snap[s].dirty = FALSE
    BY <1>2, SnapClean DEF Opening
  <2>2. QED
    BY <1>1, <2>1 DEF CacheObject
<1>8. absSt[s] = "sampled" /\ absView[s] = MyFile(s) /\ absModified[s] = FALSE
  BY <1>2, <1>6 DEF Mapped
<1>9. /\ absSt'[s] = "open" /\ absView'[s] = MyFile(s) /\ absModified'[s] = FALSE
      /\ absEmpties'[s] = FALSE
  BY <1>1, <1>4, <1>6, <1>7 DEF Mapped, MyFile
<1>10. QED
  BY <1>1, <1>5, <1>8, <1>9, AbsEndOpen DEF AbsStep, Inv

\* commitFileCache returns what was chosen, or the empty file of a create.
LEMMA RefineCommit ==
    ASSUME Inv, Inv', Alone, FInv, NEW s \in Sess, CommitFileCache(s), UNCHANGED serverVars
    PROVE  AbsStep
<1>p. PICK p \in Path : p = path[s]
  BY DEF CommitFileCache, Inv, CInv, SessPath
<1> USE <1>p
<1>1. /\ \A t \in Sess : t # s => SessSame(t)
      /\ pc[s] = "fetched" /\ pc'[s] = "open" /\ path'[s] = p /\ op'[s] = "none"
      /\ UNCHANGED <<wsess, wpc, current>>
  BY OpenLocalOthers DEF CommitFileCache, Inv, serverVars, workVars
<1>2. host[s] \in Client /\ snap[s] \in Entry /\ snap[s].dirty = FALSE
  BY <1>1, SnapClean DEF Opening, Inv, CInv, ClientTypeOK
<1>3. Cstr(buf[s]) = buf[s]
  BY CstrWhole DEF FInv, AllText, Text
<1>4. PICK c : /\ c = buf[s] \/ (c = <<>> /\ op[s] = "create")
               /\ cacheFile' = [cacheFile EXCEPT ![host[s]][p] = c]
  BY <1>3 DEF CommitFileCache, OpenLocal
<1>5. /\ status'[host[s]][p] = snap[s] /\ cacheFile'[host[s]][p] = c
      /\ \A k \in Client, q \in Path : ~ (k = host[s] /\ q = p) => CacheSame(k, q)
  BY <1>2, <1>4 DEF CommitFileCache, CacheSame, Inv, CInv, ClientTypeOK
<1>6. AbsOnly(s)
  BY <1>1, <1>5, AbsLocal DEF Local
<1>7. Mapped(s) /\ Mapped(s)'
  BY MappedTrue
<1>8. CacheObject(host[s], path[s])'.dirty = FALSE
  BY <1>1, <1>2, <1>5, NoneAssumption DEF CacheObject
<1>9. /\ absSt[s] = "sampled" /\ absView[s] = buf[s] /\ absModified[s] = FALSE
      /\ op[s] = "create" => absEmpties[s] = TRUE
  BY <1>1, <1>7 DEF Mapped
<1>10. /\ absSt'[s] = "open" /\ absView'[s] = c /\ absModified'[s] = FALSE
       /\ absEmpties'[s] = FALSE
  BY <1>1, <1>5, <1>7, <1>8 DEF Mapped, MyFile
<1>11. QED
  BY <1>1, <1>4, <1>6, <1>9, <1>10, AbsEndOpen DEF AbsStep, Inv

\* A write changes the version in hand.
LEMMA RefineWrite ==
    ASSUME Inv, Inv', Alone, FInv, FInv', NEW s \in Sess, NEW off, NEW b,
           Write(s, off, b), UNCHANGED serverVars
    PROVE  AbsStep
<1>p. PICK p \in Path : p = path[s]
  BY DEF Write, Inv, CInv, SessPath
<1> USE <1>p
<1>1. /\ \A t \in Sess : SessSame(t)
      /\ pc[s] = "open" /\ pc'[s] = "open" /\ path'[s] = p /\ host[s] \in Client
      /\ UNCHANGED <<wsess, wpc, current>>
  BY ClientAssumption DEF Write, sessVars, SessSame, serverVars, workVars
<1>2. MyEntry(s) # None /\ CacheObject(host[s], p) = MyEntry(s)
  BY <1>1, DirtyCopy
<1>3. PICK e : e = [dirty |-> TRUE, clock |-> MyEntry(s).clock] /\ UpdateCache(s, e)
  BY <1>2 DEF Write
<1>4. /\ status'[host[s]][p] = e
      /\ \A k \in Client, q \in Path : ~ (k = host[s] /\ q = p) => status'[k][q] = status[k][q]
  BY <1>2, <1>3, CacheSet DEF Inv
<1>5. \A k \in Client, q \in Path : ~ (k = host[s] /\ q = p) => cacheFile'[k][q] = cacheFile[k][q]
  BY <1>1 DEF Write, Inv, CInv, ClientTypeOK
<1>6. AbsOnly(s)
  BY <1>1, <1>4, <1>5, AbsLocal DEF Local, CacheSame
<1>7. Mapped(s) /\ Mapped(s)'
  BY MappedTrue
<1>8. MyFile(s)' \in Content
  BY <1>1 DEF Inv, CInv, CopyPresent, MyFile, ClientTypeOK
<1>9. CacheObject(host[s], path[s])'.dirty = TRUE
  <2>1. status'[host[s]][p] # None
    BY <1>1 DEF FInv, ClientPart, SessOK, MyEntry
  <2>2. QED
    BY <1>1, <1>3, <1>4, <2>1 DEF CacheObject
<1>10. op'[s] = op[s]
  BY <1>1 DEF SessSame
<1>11. /\ absSt[s] = "open" /\ absSt'[s] = "open" /\ absView'[s] \in Content
       /\ absModified'[s] = TRUE /\ absEmpties'[s] = absEmpties[s]
  BY <1>1, <1>7, <1>8, <1>9, <1>10 DEF Mapped
<1>12. QED
  BY <1>1, <1>6, <1>11, AbsModify DEF AbsStep, Inv

\* No handler has stored an upload that is not made yet.
LEMMA NotStored ==
    ASSUME FInv, NEW s \in Sess, pc[s] # "putting"
    PROVE  ~ Stored(s)
BY DEF Stored, FInv, ServerPart, Served

\* flush begins the close: a clean file has nothing to publish.
LEMMA RefineFlush ==
    ASSUME Inv, Inv', Alone, FInv, NEW s \in Sess, pc[s] = "open", Upload(s, "flush"),
           UNCHANGED serverVars
    PROVE  AbsStep
<1>p. PICK p \in Path : p = path[s]
  BY DEF Inv, CInv, SessPath
<1> USE <1>p
<1>1. /\ MyEntry(s) \in Entry /\ CacheObject(host[s], p) = MyEntry(s)
      /\ MyEntry(s).dirty => Len(MyFile(s)) > 0
  BY DirtyCopy
<1>2. MyEntry(s).dirty \in BOOLEAN /\ ~ UploadEmpty(s, "flush")
  BY <1>1 DEF Entry, UploadEmpty
<1>3. Mapped(s) /\ Mapped(s)'
  BY MappedTrue
<1>4. op[s] # "create" /\ UNCHANGED <<wsess, wpc, current>>
  BY DEF FInv, ClientPart, SessOK, Opening, serverVars, workVars
<1>5. CASE UploadBypass(s, "flush")
  <2>1. /\ \A t \in Sess : t # s => SessSame(t)
        /\ pc'[s] = "release" /\ path'[s] = p /\ op'[s] = "none"
        /\ UNCHANGED <<status, cacheFile>>
    BY <1>5 DEF UploadBypass, AfterUpload, Goto, SessSame, Inv, CInv, ClientTypeOK
  <2>2. AbsOnly(s)
    BY <1>4, <2>1, AbsLocal DEF Local, CacheSame
  <2>3. CacheObject(host[s], p).dirty = FALSE
    BY <1>1, <1>2, <1>5 DEF UploadBypass
  <2>4. absSt[s] = "open" /\ absModified[s] = FALSE /\ absEmpties[s] = FALSE
    BY <1>3, <1>4, <2>3 DEF Mapped
  <2>5. /\ absSt'[s] = "done" /\ absView'[s] = <<>> /\ absModified'[s] = FALSE
        /\ absEmpties'[s] = FALSE
    BY <1>3, <2>1 DEF Mapped
  <2>6. QED
    BY <1>4, <2>1, <2>2, <2>4, <2>5, AbsBeginClose DEF AbsStep, Inv
<1>6. CASE UploadPut(s, "flush")
  <2>1. /\ \A t \in Sess : t # s => SessSame(t)
        /\ pc'[s] = "putting" /\ path'[s] = p /\ op'[s] = "flush" /\ buf'[s] = MyFile(s)
        /\ UNCHANGED <<status, cacheFile>>
    BY <1>6 DEF UploadPut, Goto, SessSame, Inv, CInv, ClientTypeOK
  <2>2. AbsOnly(s)
    BY <1>4, <2>1, AbsLocal DEF Local, CacheSame
  <2>3. CacheObject(host[s], p).dirty = TRUE
    BY <1>1, <1>2, <1>6 DEF UploadPut
  <2>4. absSt[s] = "open" /\ absView[s] = MyFile(s) /\ absModified[s] = TRUE /\ absEmpties[s] = FALSE
    BY <1>3, <1>4, <2>3 DEF Mapped
  <2>5. ~ Stored(s)'
    BY <1>4, NotStored DEF Stored
  <2>6. /\ absSt'[s] = "closing" /\ absView'[s] = MyFile(s) /\ absModified'[s] = TRUE
        /\ absEmpties'[s] = FALSE
    BY <1>3, <2>1, <2>5 DEF Mapped
  <2>7. QED
    BY <1>4, <2>1, <2>2, <2>4, <2>6, AbsBeginClose DEF AbsStep, Inv
<1>7. QED
  BY <1>2, <1>5, <1>6 DEF Upload

\* release finds a clean file, and ends the close.
LEMMA RefineRelease ==
    ASSUME Inv, Inv', Alone, FInv, NEW s \in Sess, pc[s] = "release", Upload(s, "release"),
           UNCHANGED serverVars
    PROVE  AbsStep
<1>p. PICK p \in Path : p = path[s]
  BY DEF Inv, CInv, SessPath
<1> USE <1>p
<1>1. ~ CacheObject(host[s], p).dirty
  BY DirtyCopy, NotInHand
<1>2. UploadBypass(s, "release")
  BY <1>1 DEF Upload, UploadEmpty, UploadPut
<1>3. /\ \A t \in Sess : t # s => SessSame(t)
      /\ pc'[s] = "idle" /\ path'[s] = None /\ op'[s] = "none"
      /\ UNCHANGED <<status, cacheFile, wsess, wpc, current>>
  BY <1>2 DEF UploadBypass, AfterUpload, Return, Goto, SessSame, Inv, CInv, ClientTypeOK, serverVars, workVars
<1>4. AbsOnly(s)
  BY <1>3, AbsLocal DEF Local, CacheSame
<1>5. Mapped(s) /\ Mapped(s)'
  BY MappedTrue
<1>6. QED
  BY <1>3, <1>4, <1>5, AbsEnd DEF AbsStep, Inv, Mapped

\* The return of the upload publishes nothing; that of release ends the close.
LEMMA RefineDone ==
    ASSUME Inv, Inv', Alone, FInv, NEW s \in Sess, UploadDone(s), UNCHANGED serverVars
    PROVE  AbsStep
<1>p. PICK p \in Path : p = path[s]
  BY DEF UploadDone, Inv, CInv, SessPath
<1> USE <1>p
<1>1. /\ \A t \in Sess : t # s => SessSame(t)
      /\ (pc'[s] = "idle" /\ path'[s] = None) \/ (pc'[s] = "release" /\ path'[s] = p)
      /\ op'[s] = "none" /\ pc[s] = "putdone"
      /\ UNCHANGED <<cacheFile, wsess, wpc, current>>
  BY AfterUploadSess DEF UploadDone, Inv, serverVars, workVars
<1>2. MyEntry(s) # None /\ op[s] # "create"
  <2>1. MyEntry(s) # None
    BY <1>1, DirtyCopy
  <2>2. QED
    BY <1>1, <2>1 DEF FInv, ClientPart, SessOK, Opening
<1>3. \A k \in Client, q \in Path : ~ (k = host[s] /\ q = p) => status'[k][q] = status[k][q]
  BY <1>2, CacheSet DEF UploadDone, Inv
<1>4. AbsOnly(s)
  BY <1>1, <1>3, AbsLocal DEF Local, CacheSame
<1>5. Mapped(s) /\ Mapped(s)'
  BY MappedTrue
<1>6. /\ absSt[s] = "done" /\ absView[s] = <<>> /\ absModified[s] = FALSE /\ absEmpties[s] = FALSE
  BY <1>1, <1>2, <1>5 DEF Mapped
<1>7. CASE pc'[s] = "idle" /\ path'[s] = None
  <2>1. /\ absSt'[s] = "idle" /\ absView'[s] = <<>> /\ absModified'[s] = FALSE
        /\ absEmpties'[s] = FALSE
    BY <1>1, <1>5, <1>7 DEF Mapped
  <2>2. QED
    BY <1>1, <1>4, <1>6, <1>7, <2>1, AbsEnd DEF AbsStep, Inv
<1>8. CASE pc'[s] = "release" /\ path'[s] = p
  <2>1. AbsSame(s)
    BY <1>1, <1>5, <1>6, <1>8 DEF Mapped, AbsSame
  <2>2. QED
    BY <1>1, <1>4, <2>1, AbsStutter DEF AbsStep, Inv
<1>9. QED
  BY <1>1, <1>7, <1>8

\* The crash of a client gives up what its session was doing.
LEMMA RefineCrash ==
    ASSUME Inv, Inv', Alone, FInv, NEW k \in Client, ClientCrash(k), UNCHANGED current,
           CancelCalls({s \in Sess : host[s] = k}), \A s \in Sess : host[s] = k => pc[s] # "putting"
    PROVE  AbsStep
<1>0. ClientPart
  BY DEF FInv
<1>1. ASSUME NEW t \in Sess, host[t] # k PROVE AbsSame(t)
  <2>1. SessSame(t)
    BY <1>0, <1>1, CrashEnds
  <2>2. path[t] \in Path => CacheSame(host[t], path[t])
    BY <1>0, <1>1, CrashEnds, ClientAssumption DEF CacheSame, Inv, CInv, ClientTypeOK
  <2>3. \A w \in Worker : wpc'[w] = wpc[w] /\ (wsess'[w] = t <=> wsess[w] = t)
    BY <1>1, ServerAssumption DEF CancelCalls, Inv, SInv, ServerTypeOK
  <2>4. Stored(t)' <=> Stored(t)
    BY <2>3 DEF Stored
  <2>5. QED
    BY <2>1, <2>2, <2>4, AbsKeeps
<1>2. CASE \A t \in Sess : host[t] # k
  BY <1>1, <1>2, AbsNothing DEF AbsStep, Inv
<1>3. CASE \E t \in Sess : host[t] = k
  <2>1. PICK s \in Sess : host[s] = k
    BY <1>3
  <2>2. AbsOnly(s)
    BY <1>1, <2>1 DEF AbsOnly, Alone
  <2>3. pc'[s] = "idle" /\ path'[s] = None /\ op'[s] = "none"
    BY <1>0, <2>1, CrashEnds
  <2>4. Mapped(s) /\ Mapped(s)'
    BY MappedTrue
  <2>5. /\ absSt'[s] = "idle" /\ absView'[s] = <<>> /\ absModified'[s] = FALSE
        /\ absEmpties'[s] = FALSE
    BY <2>3, <2>4 DEF Mapped
  <2>6. SessOK(s)
    BY DEF FInv, ClientPart
  <2>7. CASE pc[s] = "idle"
    <3>1. path[s] = None /\ op[s] # "create"
      BY <2>6, <2>7 DEF SessOK, Opening
    <3>2. AbsSame(s)
      BY <2>3, <2>4, <2>5, <2>7, <3>1 DEF Mapped, AbsSame
    <3>3. QED
      BY <2>2, <3>2, AbsStutter DEF AbsStep, Inv
  <2>8. CASE pc[s] # "idle"
    <3>1. pc[s] \in {"create", "getattr", "attr", "creating", "fetching", "fetched", "open",
                     "putdone", "release"}
      BY <2>1, <2>6, <2>8 DEF SessOK, Inv, CInv, ClientTypeOK, SessPC, RpcPC
    <3>2. absSt[s] \in {"opening", "sampled", "open", "done"}
      BY <2>4, <3>1 DEF Mapped
    <3>3. QED
      BY <2>2, <2>3, <2>5, <3>2, AbsEnd DEF AbsStep, Inv
  <2>9. QED
    BY <2>7, <2>8
<1>4. QED
  BY <1>2, <1>3

-----------------------------------------------------------------------------
(* The steps of the server                                                 *)

\* Until the clock is stored an upload is not visible: a handler that starts,
\* receives, renames or loads the clock is no step of CloseToOpen.
LEMMA RefineQuiet ==
    ASSUME Inv, Inv', UNCHANGED <<clientVars, current>>,
           \A w \in Worker : /\ wpc'[w] = "reply" <=> wpc[w] = "reply"
                             /\ wpc[w] = "reply" => wsess'[w] = wsess[w]
    PROVE  AbsStep
<1>1. ASSUME NEW t \in Sess PROVE AbsSame(t)
  <2>1. Stored(t)' <=> Stored(t)
    BY DEF Stored
  <2>2. SessSame(t) /\ (path[t] \in Path => CacheSame(host[t], path[t]))
    BY DEF SessSame, CacheSame, clientVars, sessVars
  <2>3. QED
    BY <2>1, <2>2, AbsKeeps
<1>2. QED
  BY <1>1, AbsNothing DEF AbsStep, Inv

\* The store of the clock publishes the upload.
LEMMA RefineStore ==
    ASSUME Inv, Inv', Sealed, FInv, NEW w \in Worker, PutClockStore(w), UNCHANGED clientVars
    PROVE  AbsStep
<1>1. /\ wpc[w] = "store" /\ wpc'[w] = "reply" /\ UNCHANGED wsess
      /\ \A v \in Worker : v # w => wpc'[v] = wpc[v]
      /\ current' = [current EXCEPT ![wpath[w]] = wbuf[w]]
  BY DEF PutClockStore, Inv, SInv, ServerTypeOK
<1>2. Served(w) /\ \A v \in Worker : v # w => wpath[v] # wpath[w]
  BY <1>1, Busy
<1>3. PICK s \in Sess : /\ s = wsess[w] /\ pc[s] = "putting"
                        /\ path[s] = wpath[w] /\ buf[s] = wbuf[w]
  BY <1>1, <1>2 DEF Served
<1>4. ~ Stored(s)
  <2>1. ASSUME NEW v \in Worker, wsess[v] = s, wpc[v] = "reply" PROVE FALSE
    <3>1. wpath[v] = wpath[w] /\ v # w
      BY <1>1, <1>3, <2>1, Busy DEF Served
    <3>2. QED
      BY <1>2, <3>1
  <2>2. QED
    BY <2>1 DEF Stored
<1>5. Stored(s)'
  BY <1>1, <1>3 DEF Stored
<1>6. \A t \in Sess : t # s => (Stored(t)' <=> Stored(t))
  BY <1>1, <1>3 DEF Stored
<1>7. AbsOnly(s)
  BY <1>6, AbsServer
<1>8. Mapped(s) /\ Mapped(s)'
  BY MappedTrue
<1>9. op[s] # "create" /\ pc'[s] = "putting" /\ op'[s] = op[s] /\ path'[s] = path[s]
  BY <1>3 DEF FInv, ClientPart, SessOK, Opening, clientVars, sessVars
<1>10. absSt[s] = "closing" /\ absView[s] = wbuf[w] /\ absEmpties[s] = FALSE
  BY <1>3, <1>4, <1>8, <1>9 DEF Mapped
<1>11. /\ absSt'[s] = "done" /\ absView'[s] = <<>> /\ absModified'[s] = FALSE
       /\ absEmpties'[s] = FALSE
  BY <1>5, <1>8, <1>9 DEF Mapped
<1>12. QED
  BY <1>1, <1>3, <1>7, <1>9, <1>10, <1>11, AbsPublish DEF AbsStep, Inv

\* The reply changes nothing more.
LEMMA RefineReply ==
    ASSUME Inv, Inv', Sealed, Alone, FInv, NEW w \in Worker, PutReply(w),
           PutAnswer(w, PutClockReply(w))
    PROVE  AbsStep
<1>1. /\ wpc[w] = "reply" /\ wpc'[w] = "free" /\ UNCHANGED current
      /\ \A v \in Worker : v # w => wpc'[v] = wpc[v] /\ wsess'[v] = wsess[v]
  BY DEF PutReply, WorkerReturns, Inv, SInv, ServerTypeOK
<1>2. PICK s \in Sess : /\ s = wsess[w] /\ s # None /\ pc[s] = "putting" /\ path[s] \in Path
  BY <1>1, Busy, ServerAssumption DEF Served
<1>3. RpcNext["putting"] = "putdone"
  BY DEF RpcNext, RpcPC
<1>4. /\ \A t \in Sess : t # s => SessSame(t)
      /\ pc'[s] = "putdone" /\ path'[s] = path[s] /\ op'[s] = op[s]
      /\ UNCHANGED <<status, cacheFile>>
  BY <1>2, <1>3 DEF PutAnswer, Answer, Goto, SessSame, Inv, CInv, ClientTypeOK
<1>5. ASSUME NEW t \in Sess, t # s PROVE AbsSame(t)
  <2>1. Stored(t)' <=> Stored(t)
    BY <1>1, <1>2, <1>5 DEF Stored
  <2>2. SessSame(t) /\ (path[t] \in Path => CacheSame(host[t], path[t]))
    BY <1>4, <1>5 DEF CacheSame
  <2>3. QED
    BY <2>1, <2>2, AbsKeeps
<1>6. AbsOnly(s) /\ Stored(s)
  BY <1>1, <1>2, <1>5 DEF AbsOnly, Stored
<1>7. Mapped(s) /\ Mapped(s)'
  BY MappedTrue
<1>8. AbsSame(s)
  BY <1>2, <1>4, <1>6, <1>7 DEF Mapped, AbsSame
<1>9. QED
  BY <1>1, <1>6, <1>8, AbsStutter DEF AbsStep, Inv

\* create on the server publishes nothing: a path without a file has no version
\* but the empty one.
LEMMA RefineCreate ==
    ASSUME Inv, Inv', Alone, FInv, NEW s \in Sess, CreateOnServer(s)
    PROVE  AbsStep
<1>p. PICK p \in Path : p = path[s]
  BY DEF CreateOnServer, Inv, CInv, SessPath
<1> USE <1>p
<1>1. RpcNext["creating"] = "fetching"
  BY DEF RpcNext, RpcPC
<1>2. /\ \A t \in Sess : t # s => SessSame(t)
      /\ pc[s] = "creating" /\ pc'[s] = "fetching" /\ path'[s] = p /\ op'[s] = op[s]
      /\ UNCHANGED <<status, cacheFile, wsess, wpc>>
  BY <1>1 DEF CreateOnServer, CreateEmptyFile, Answer, Goto, SessSame, Inv, CInv, ClientTypeOK, workVars
<1>3. UNCHANGED current
  <2>1. CASE file[p] # None
    BY <2>1 DEF CreateOnServer, CreateEmptyFile
  <2>2. CASE file[p] = None
    <3>1. current[p] = <<>> /\ current' = [current EXCEPT ![p] = <<>>]
      BY <2>2 DEF CreateOnServer, CreateEmptyFile, FInv, ServerPart, Settled
    <3>2. QED
      BY <3>1 DEF Inv, SInv, ServerTypeOK
  <2>3. QED
    BY <2>1, <2>2
<1>4. AbsOnly(s)
  BY <1>2, AbsLocal DEF Local, CacheSame
<1>5. Mapped(s) /\ Mapped(s)'
  BY MappedTrue
<1>6. AbsSame(s)
  BY <1>2, <1>5 DEF Mapped, AbsSame
<1>7. QED
  BY <1>3, <1>4, <1>6, AbsStutter DEF AbsStep, Inv

-----------------------------------------------------------------------------
(* The composition                                                         *)

\* At the start no session has a file and nothing is published.
LEMMA RefineInit == Init => C2O!Init
<1> SUFFICES ASSUME Init PROVE C2O!Init
  OBVIOUS
<1>1. \A s \in Sess : pc[s] = "idle" /\ op[s] = "none"
  BY DEF Init, ClientInit
<1>2. /\ absSt = [s \in Sess |-> "idle"] /\ absView = [s \in Sess |-> <<>>]
      /\ absModified = [s \in Sess |-> FALSE] /\ absEmpties = [s \in Sess |-> FALSE]
  BY <1>1 DEF absSt, absView, absModified, absEmpties
<1>3. QED
  BY <1>2 DEF C2O!Init, Init, ServerInit, ClientInit

\* Every step of the applications and of the client code is a step of
\* CloseToOpen, or none.
LEMMA ClientRefines ==
    ASSUME Env \subseteq {"ccrash"}, Alone, Inv, Inv', FInv, FInv', NEW s \in Sess,
           \/ Open(s) \/ LookupNegative(s) \/ AppWrite(s) \/ AppClose(s) \/ AppUnlink(s)
           \/ ClientStep(s)
    PROVE  AbsStep
<1>1. CASE Open(s)
  BY <1>1, RefineOpen DEF Open
<1>2. CASE LookupNegative(s)
  BY <1>2, RefineOpen DEF LookupNegative
<1>3. CASE AppWrite(s)
  BY <1>3, RefineWrite DEF AppWrite
<1>4. CASE AppClose(s)
  BY <1>4, RefineFlush DEF AppClose, Flush
<1>5. CASE AppUnlink(s)
  BY <1>5 DEF AppUnlink
<1>6. CASE Create(s)
  BY <1>6, RefineGoOn DEF Create
<1>7. CASE OpenCached(s)
  BY <1>7, RefineOpenCached DEF OpenCached
<1>8. CASE Fetch(s)
  BY <1>8, RefineGoOn DEF Fetch
<1>9. CASE Commit(s)
  BY <1>9, RefineCommit DEF Commit
<1>10. CASE PutReturns(s)
  BY <1>10, RefineDone DEF PutReturns
<1>11. CASE AppRelease(s)
  BY <1>11, RefineRelease DEF AppRelease, Release
<1>12. QED
  BY <1>1, <1>2, <1>3, <1>4, <1>5, <1>6, <1>7, <1>8, <1>9, <1>10, <1>11 DEF ClientStep

\* So is every step of a handler.
LEMMA HandlerRefines ==
    ASSUME Env \subseteq {"ccrash"}, Alone, Inv, Inv', Sealed, FInv,
           (\E s \in Sess : ServerStep(s)) \/ (\E w \in Worker : PutStep(w))
    PROVE  AbsStep
<1>1. ASSUME NEW s \in Sess, RemoveFile(s) \/ RemoveFileEnd(s) PROVE FALSE
  BY <1>1 DEF RemoveFile, RemoveFileEnd, FInv, ClientPart, SessOK
<1>2. ASSUME NEW s \in Sess, PutFileContents(s) PROVE AbsStep
  <2>1. PICK w \in Worker : PutStart(w, s, path[s], buf[s]) /\ UNCHANGED clientVars
    BY <1>2 DEF PutFileContents
  <2>2. /\ \A v \in Worker : /\ wpc'[v] = "reply" <=> wpc[v] = "reply"
                             /\ wpc[v] = "reply" => wsess'[v] = wsess[v]
        /\ UNCHANGED current
    BY <2>1 DEF PutStart, Inv, SInv, ServerTypeOK
  <2>3. QED
    BY <2>1, <2>2, RefineQuiet
<1>3. ASSUME NEW w \in Worker, PutChunk(w) \/ PutEnd(w) \/ PutRename(w) \/ PutClockLoad(w),
             UNCHANGED clientVars
      PROVE  AbsStep
  <2>1. /\ \A v \in Worker : wpc'[v] = "reply" <=> wpc[v] = "reply"
        /\ UNCHANGED <<wsess, current>>
    BY <1>3, ZenonT(60) DEF PutChunk, PutEnd, PutRename, PutClockLoad, Inv, SInv, ServerTypeOK
  <2>2. QED
    BY <1>3, <2>1, RefineQuiet
<1>4. ASSUME NEW w \in Worker, PutStep(w) PROVE AbsStep
  <2>1. ~ PutCancelled(w)
    BY ServerAssumption DEF PutCancelled, FInv, ServerPart, Served
  <2>2. QED
    BY <1>3, <1>4, <2>1, RefineStore, RefineReply DEF PutStep
<1>5. QED
  BY <1>1, <1>2, <1>4, RefineAttributes, RefineContents, RefineCreate DEF ServerStep

\* So is every step.
LEMMA NextRefines ==
    ASSUME Env \subseteq {"ccrash"}, Alone, Inv, Inv', Sealed, FInv, FInv', [Next]_vars
    PROVE  AbsStep
<1>1. CASE UNCHANGED vars
  BY <1>1, RefineQuiet DEF vars, serverVars, workVars
<1>2. ASSUME NEW s \in Sess, Unavailable(s) \/ Timeout(s) PROVE FALSE
  BY <1>2 DEF Unavailable, Timeout, FInv, ServerPart
<1>3. ASSUME NEW w \in Worker, PutIoError(w) PROVE FALSE
  BY <1>3 DEF PutIoError
<1>4. ASSUME NEW k \in Client, CrashClient(k) PROVE AbsStep
  BY <1>4, RefineCrash DEF CrashClient, CancelCalls
<1>5. ASSUME \/ \E k \in Client : AppTruncate(k)
             \/ CrashServer \/ RestartServer
      PROVE  FALSE
  BY <1>5 DEF AppTruncate, CrashServer, RestartServer, Restart, FInv, ServerPart
<1>6. CASE \E s \in Sess :
              \/ Open(s) \/ LookupNegative(s) \/ AppWrite(s) \/ AppClose(s) \/ AppUnlink(s)
              \/ ClientStep(s)
  BY <1>6, ClientRefines
<1>7. CASE (\E s \in Sess : ServerStep(s)) \/ (\E w \in Worker : PutStep(w))
  BY <1>7, HandlerRefines
<1>8. QED
  BY <1>1, <1>2, <1>3, <1>4, <1>5, <1>6, <1>7 DEF Next

\* Close-to-open consistency: whatever the number of clients, files, handler
\* threads and blocks, and whenever clients crash, what open returns and what
\* close publishes through cache, clocks and temporary files is what
\* CloseToOpen allows.
THEOREM CloseToOpenImplemented ==
    ASSUME Env \subseteq {"ccrash"}, Alone
    PROVE  Spec => ImplementsCloseToOpen
<1> DEFINE I == Inv /\ Sealed /\ FInv
<1>1. I /\ I' /\ [Next]_vars => [C2O!Next]_(C2O!vars)
  BY NextRefines DEF AbsStep
<1>2. Spec => []I
  BY AlwaysFresh
<1>3. QED
  BY <1>1, <1>2, RefineInit, PTL DEF Spec, ImplementsCloseToOpen, C2O!Spec
=============================================================================
