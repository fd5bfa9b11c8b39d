-------------------------- MODULE WiscFreshProofs ---------------------------
(***************************************************************************)
(* Proofs about WiscAFS where close-to-open consistency holds: sessions on *)
(* clients of their own (Alone), clients that crash but not during an      *)
(* upload, and no other failure (Env \subseteq {"ccrash"}), for every      *)
(* number of clients, paths, handler threads and blocks.                   *)
(***************************************************************************)
EXTENDS WiscAFSProofs

\* No two sessions on one client.
Alone == \A s, t \in Sess : host[s] = host[t] => s = t

\* Contents without a zero byte.
Text == Seq(Byte)

-----------------------------------------------------------------------------
(* The invariant: what is where while files are opened, closed, uploaded   *)

\* No zero byte is anywhere.
AllText ==
    /\ \A k \in Client, p \in Path : cacheFile[k][p] # None => cacheFile[k][p] \in Text
    /\ \A s \in Sess : buf[s] \in Text
    /\ \A w \in Worker : wbuf[w] \in Text
    /\ \A i \in Inode : data[i] \in Text

\* A handler at work serves a session that waits for it; a free one is blank.
Served(w) ==
    IF wpc[w] = "free" THEN wsess[w] = None /\ wn[w] = 0 /\ wino[w] = None
    ELSE /\ wsess[w] \in Sess /\ pc[wsess[w]] = "putting"
         /\ path[wsess[w]] = wpath[w] /\ buf[wsess[w]] = wbuf[w]

\* How far an upload has come: path.TMP holds the chunks received, and nothing
\* else; once renamed, the file holds all of them.
Reached(w) ==
    LET p == wpath[w]
    IN  /\ wpc[w] = "recv" /\ wn[w] = 0 => temp[p] = None /\ wino[w] = None
        /\ wpc[w] = "recv" /\ wn[w] # 0 =>
              /\ temp[p] # None /\ wino[w] = temp[p]
              /\ wn[w] <= Len(wbuf[w]) /\ Len(data[temp[p]]) = wn[w]
              /\ \A j \in 1 .. wn[w] : data[temp[p]][j] = wbuf[w][j]
        /\ wpc[w] = "rename" => temp[p] # None /\ data[temp[p]] = wbuf[w]
        /\ wpc[w] \in {"load", "store", "reply"} =>
              temp[p] = None /\ file[p] # None /\ data[file[p]] = wbuf[w]
        /\ wpc[w] = "store" => wreg[w] = serverclock[p]
        /\ wpc[w] = "reply" => current[p] = wbuf[w]
        /\ wpc[w] # "free" => Len(wbuf[w]) > 0

\* An upload of p is renamed, and its clock not stored yet.
Renamed(w, p) == wpath[w] = p /\ wpc[w] \in {"load", "store"}

\* Without an upload no path.TMP is there, and the file is the one last
\* published, unless a renamed upload waits for its clock.
Settled(p) ==
    /\ AtRest(p) => temp[p] = None
    /\ file[p] # None /\ (\A w \in Worker : ~ Renamed(w, p)) => data[file[p]] = current[p]
    /\ file[p] = None \/ serverclock[p] = 0 => current[p] = <<>>

\* What a client may take for the version of p that clock serverclock[p] names.
Fresh(c, p) == c = current[p] \/ \E w \in Worker : Renamed(w, p) /\ c = wbuf[w]

\* Contents c with clock n are no newer than the server's, and stale only if
\* the clock tells.
Tagged(c, n, p) == n <= serverclock[p] /\ (n = serverclock[p] => Fresh(c, p))

\* A dirty copy is not empty, and the session that made it still has it in hand.
InHand(k, p) ==
    /\ Len(cacheFile[k][p]) > 0
    /\ \E s \in Sess : host[s] = k /\ path[s] = p /\ pc[s] \in {"open", "putting", "putdone"}

EntryOK(k, p) ==
    LET e == status[k][p]
    IN  e # None => /\ file[p] # None
                    /\ e.clock <= serverclock[p]
                    /\ IF e.dirty THEN InHand(k, p) ELSE Tagged(cacheFile[k][p], e.clock, p)

Opening == {"getattr", "attr", "creating", "fetching", "fetched"}

SessOK(s) ==
    /\ pc[s] \notin {"unlinking", "erasing"}
    /\ pc[s] = "idle" => path[s] = None
    /\ op[s] = "create" => pc[s] \in Opening
    /\ pc[s] \in Opening => snap[s] = CacheObject(host[s], path[s])
    /\ pc[s] = "create" \/ (pc[s] \in Opening /\ op[s] = "create") => MyEntry(s) = None
    /\ pc[s] = "fetched" =>
          /\ file[path[s]] # None
          /\ Tagged(buf[s], snap[s].clock, path[s])
    /\ pc[s] \in {"open", "putting", "putdone", "release"} => MyEntry(s) # None
    /\ pc[s] \in {"putting", "putdone"} => MyEntry(s).dirty /\ MyFile(s) = buf[s]
    /\ pc[s] = "putdone" =>
          /\ clk[s] # None /\ clk[s] <= serverclock[path[s]]
          /\ clk[s] = serverclock[path[s]] => current[path[s]] = buf[s]

ServerPart == /\ up
              /\ \A w \in Worker : Served(w) /\ Reached(w)
              /\ \A p \in Path : Settled(p)
ClientPart == /\ \A k \in Client, p \in Path : EntryOK(k, p)
              /\ \A s \in Sess : SessOK(s)

FInv == AllText /\ ServerPart /\ ClientPart

-----------------------------------------------------------------------------
(* What a step of one actor leaves alone                                   *)

\* The server forgets no file, turns no clock back, and changes what a clock
\* stands for only with the clock.
Steady ==
    \A p \in Path :
        /\ file[p] # None => file'[p] # None
        /\ serverclock[p] <= serverclock'[p]
        /\ serverclock'[p] = serverclock[p] =>
              current'[p] = current[p] /\ \A c : Fresh(c, p) => Fresh(c, p)'

\* The locals of session t stay as they are.
SessSame(t) ==
    /\ pc'[t] = pc[t] /\ path'[t] = path[t] /\ op'[t] = op[t]
    /\ snap'[t] = snap[t] /\ clk'[t] = clk[t] /\ buf'[t] = buf[t]

\* What client k has cached of p stays as it is.
CacheSame(k, p) == status'[k][p] = status[k][p] /\ cacheFile'[k][p] = cacheFile[k][p]

\* A step of session s on path p.
Local(s, p) ==
    /\ \A t \in Sess : t # s => SessSame(t)
    /\ \A k \in Client, q \in Path : ~ (k = host[s] /\ q = p) => CacheSame(k, q)

\* Text is contents.
LEMMA TextContent == Text \subseteq Content /\ <<>> \in Text
BY SeqMonotonic, EmptySeq DEF Text, Content, Block

\* A steady server keeps what is known of contents with a clock.
LEMMA TaggedKeeps ==
    ASSUME SInv, SInv', Steady, NEW c, NEW n \in Int, NEW p \in Path, Tagged(c, n, p)
    PROVE  Tagged(c, n, p)'
<1>1. serverclock[p] \in Int /\ serverclock'[p] \in Int /\ serverclock[p] <= serverclock'[p]
  BY DEF SInv, ServerTypeOK, Steady
<1>2. n <= serverclock'[p]
  BY <1>1 DEF Tagged
<1>3. ASSUME n = serverclock'[p] PROVE Fresh(c, p)'
  <2>1. n = serverclock[p] /\ serverclock'[p] = serverclock[p]
    BY <1>1, <1>3 DEF Tagged
  <2>2. QED
    BY <2>1 DEF Tagged, Steady
<1>4. QED
  BY <1>2, <1>3 DEF Tagged

\* An entry nobody touched stays good.
LEMMA EntryKeeps ==
    ASSUME Inv, SInv', Steady, NEW k \in Client, NEW p \in Path, EntryOK(k, p), CacheSame(k, p),
           InHand(k, p) => InHand(k, p)'
    PROVE  EntryOK(k, p)'
<1> DEFINE e == status[k][p]
<1>1. CASE e = None
  BY <1>1 DEF EntryOK, CacheSame
<1>2. CASE e # None
  <2>1. e \in Entry /\ e.clock \in Int /\ e.dirty \in BOOLEAN
    BY <1>2 DEF Inv, CInv, ClientTypeOK, Entry
  <2>2. /\ file[p] # None /\ e.clock <= serverclock[p]
        /\ IF e.dirty THEN InHand(k, p) ELSE Tagged(cacheFile[k][p], e.clock, p)
    BY <1>2 DEF EntryOK
  <2>3. file'[p] # None
    BY <2>2 DEF Steady
  <2>4. e.clock <= serverclock'[p]
    BY <2>1, <2>2 DEF Steady, Inv, SInv, ServerTypeOK
  <2>5. CASE e.dirty
    BY <2>2, <2>3, <2>4, <2>5 DEF EntryOK, CacheSame
  <2>6. CASE ~ e.dirty
    <3>1. PICK c \in Content, n \in Int : c = cacheFile[k][p] /\ n = e.clock
      BY <1>2, <2>1 DEF Inv, CInv, ClientTypeOK, CopyPresent
    <3>2. Tagged(c, n, p)
      BY <2>2, <2>6, <3>1
    <3>3. Tagged(c, n, p)'
      BY <3>2, TaggedKeeps DEF Inv
    <3>4. status'[k][p] = e /\ cacheFile'[k][p] = c /\ status'[k][p].clock = n
      BY <3>1 DEF CacheSame
    <3>5. Tagged(cacheFile[k][p], status[k][p].clock, p)'
      BY <3>3, <3>4 DEF Tagged, Fresh
    <3>6. QED
      BY <2>3, <2>4, <2>6, <3>4, <3>5 DEF EntryOK
  <2>7. QED
    BY <2>1, <2>5, <2>6
<1>3. QED
  BY <1>1, <1>2

\* A session nobody touched stays good.
LEMMA SessKeeps ==
    ASSUME Inv, SInv', Steady, NEW t \in Sess, SessOK(t), SessSame(t),
           path[t] \in Path => CacheSame(host[t], path[t])
    PROVE  SessOK(t)'
<1>1. CASE pc[t] = "idle"
  BY <1>1 DEF SessOK, SessSame, Opening
<1>2. CASE pc[t] # "idle"
  <2> DEFINE p == path[t]
  <2>1. p \in Path /\ CacheSame(host[t], p) /\ host[t] \in Client
    BY <1>2, ClientAssumption DEF Inv, CInv, SessPath
  <2>2. /\ MyEntry(t)' = MyEntry(t) /\ MyFile(t)' = MyFile(t)
        /\ CacheObject(host[t], path[t])' = CacheObject(host[t], path[t])
    BY <2>1 DEF CacheSame, SessSame, MyEntry, MyFile, CacheObject
  <2>3. /\ file[p] # None => file'[p] # None
        /\ serverclock[p] <= serverclock'[p]
        /\ serverclock[p] \in Int /\ serverclock'[p] \in Int
    BY <2>1 DEF Steady, Inv, SInv, ServerTypeOK
  <2>4. ASSUME pc[t] = "fetched"
        PROVE  file'[path'[t]] # None /\ Tagged(buf[t], snap[t].clock, path[t])'
    <3>1. PICK c \in Content, n \in Int, q \in Path : c = buf[t] /\ n = snap[t].clock /\ q = p
      BY <2>1 DEF Inv, CInv, ClientTypeOK, Entry
    <3>2. Tagged(c, n, q)
      BY <2>4, <3>1 DEF SessOK
    <3>3. Tagged(c, n, q)'
      BY <3>2, TaggedKeeps DEF Inv
    <3>4. Tagged(buf[t], snap[t].clock, path[t])'
      BY <3>1, <3>3 DEF SessSame, Tagged, Fresh, Renamed
    <3>5. QED
      BY <2>3, <2>4, <3>4 DEF SessOK, SessSame
  <2>5. ASSUME pc[t] = "putdone"
        PROVE  /\ clk'[t] # None /\ clk'[t] <= serverclock'[path'[t]]
               /\ clk'[t] = serverclock'[path'[t]] => current'[path'[t]] = buf'[t]
    <3>1. clk[t] # None /\ clk[t] \in Int /\ clk[t] <= serverclock[p]
      BY <2>5 DEF SessOK, Inv, CInv, ClientTypeOK
    <3>2. clk[t] <= serverclock'[p]
      BY <2>3, <3>1
    <3>3. ASSUME clk[t] = serverclock'[p] PROVE current'[p] = buf[t]
      <4>1. clk[t] = serverclock[p] /\ serverclock'[p] = serverclock[p]
        BY <2>3, <3>1, <3>3
      <4>2. QED
        BY <2>1, <2>5, <4>1 DEF SessOK, Steady
    <3>4. QED
      BY <3>1, <3>2, <3>3 DEF SessSame
  <2>6. QED
    BY <2>2, <2>4, <2>5 DEF SessOK, SessSame
<1>3. QED
  BY <1>1, <1>2

\* A steady server and a step of session s on p: only what s does on p is left
\* to show.
LEMMA LocalKeeps ==
    ASSUME Inv, SInv', Alone, ClientPart, Steady, NEW s \in Sess, NEW p \in Path, Local(s, p),
           path[s] = p \/ pc[s] \notin {"open", "putting", "putdone"},
           EntryOK(host[s], p)', SessOK(s)'
    PROVE  ClientPart'
<1>1. ASSUME NEW k \in Client, NEW q \in Path PROVE EntryOK(k, q)'
  <2>1. CASE k = host[s] /\ q = p
    BY <2>1
  <2>2. CASE ~ (k = host[s] /\ q = p)
    <3>1. CacheSame(k, q) /\ EntryOK(k, q)
      BY <2>2 DEF Local, ClientPart
    <3>2. ASSUME InHand(k, q) PROVE InHand(k, q)'
      <4>1. PICK t \in Sess : /\ host[t] = k /\ path[t] = q
                              /\ pc[t] \in {"open", "putting", "putdone"}
        BY <3>2 DEF InHand
      <4>2. t # s
        BY <2>2, <4>1
      <4>3. SessSame(t)
        BY <4>2 DEF Local
      <4>4. QED
        BY <3>1, <3>2, <4>1, <4>3 DEF InHand, SessSame, CacheSame
    <3>3. QED
      BY <3>1, <3>2, EntryKeeps
  <2>3. QED
    BY <2>1, <2>2
<1>2. ASSUME NEW t \in Sess PROVE SessOK(t)'
  <2>1. CASE t = s
    BY <2>1
  <2>2. CASE t # s
    <3>1. host[t] # host[s] /\ host[t] \in Client
      BY <2>2, ClientAssumption DEF Alone
    <3>2. SessSame(t) /\ (path[t] \in Path => CacheSame(host[t], path[t])) /\ SessOK(t)
      BY <2>2, <3>1 DEF Local, ClientPart
    <3>3. QED
      BY <3>2, SessKeeps
  <2>3. QED
    BY <2>1, <2>2
<1>3. QED
  BY <1>1, <1>2 DEF ClientPart

\* A server whose state does not change is steady.
LEMMA SteadyUnchanged ==
    ASSUME SInv, UNCHANGED <<file, serverclock, current, wpc, wpath, wbuf>>
    PROVE  Steady
BY DEF Steady, Fresh, Renamed, SInv, ServerTypeOK

\* The server's part of the invariant is about sessions that upload only.
LEMMA ServerKeeps ==
    ASSUME ServerPart, UNCHANGED serverVars,
           \A t \in Sess : pc[t] = "putting" =>
              pc'[t] = pc[t] /\ path'[t] = path[t] /\ buf'[t] = buf[t]
    PROVE  ServerPart'
<1> USE DEF serverVars, diskVars, workVars
<1>1. ASSUME NEW w \in Worker PROVE Served(w)'
  BY DEF ServerPart, Served
<1>2. ASSUME NEW w \in Worker PROVE Reached(w)'
  BY DEF ServerPart, Reached
<1>3. ASSUME NEW p \in Path PROVE Settled(p)'
  BY DEF ServerPart, Settled, AtRest, Renamed
<1>4. QED
  BY <1>1, <1>2, <1>3 DEF ServerPart

\* A step of the code of session s on the file p, the server standing still.
LEMMA ClientMove ==
    ASSUME Inv, Alone, FInv, NEW s \in Sess, NEW p \in Path, Local(s, p), UNCHANGED serverVars,
           pc[s] # "putting", path[s] = p \/ pc[s] \notin {"open", "putting", "putdone"},
           cacheFile'[host[s]][p] # None => cacheFile'[host[s]][p] \in Text, buf'[s] \in Text,
           Steady => EntryOK(host[s], p)' /\ SessOK(s)'
    PROVE  FInv'
<1>1. SInv' /\ Steady
  BY ServerUnchanged, SteadyUnchanged DEF Inv, serverVars, workVars, diskVars
<1>2. ClientPart'
  BY <1>1, LocalKeeps DEF FInv
<1>3. ServerPart'
  BY ServerKeeps DEF FInv, Local, SessSame
<1>4. AllText'
  BY DEF AllText, FInv, Local, SessSame, CacheSame, serverVars, diskVars, workVars
<1>5. QED
  BY <1>2, <1>3, <1>4 DEF FInv

\* A session that has no file open has no dirty copy on its client.
LEMMA NotInHand ==
    ASSUME Alone, NEW s \in Sess, pc[s] \notin {"open", "putting", "putdone"}, NEW p
    PROVE  ~ InHand(host[s], p)
BY DEF Alone, InHand

\* Such a session leaves entry and copy of p as they are.
LEMMA EntryLeft ==
    ASSUME Inv, Alone, FInv, SInv', Steady, NEW s \in Sess, NEW p \in Path, CacheSame(host[s], p),
           pc[s] \notin {"open", "putting", "putdone"}
    PROVE  EntryOK(host[s], p)'
<1>1. host[s] \in Client /\ EntryOK(host[s], p)
  BY ClientAssumption DEF FInv, ClientPart
<1>2. QED
  BY <1>1, NotInHand, EntryKeeps

-----------------------------------------------------------------------------
(* The steps of the client code                                            *)

\* A step that moves a session to another place of open or create and touches
\* no file.
LEMMA QuietMove ==
    ASSUME Inv, Alone, FInv, NEW s \in Sess, NEW p \in Path, UNCHANGED <<serverVars, status, cacheFile>>,
           \A t \in Sess : t # s => SessSame(t),
           pc[s] \notin {"open", "putting", "putdone"}, buf'[s] \in Text, SessOK(s)'
    PROVE  FInv'
<1>1. SInv'
  BY ServerUnchanged DEF Inv
<1>2. Local(s, p) /\ CacheSame(host[s], p)
  BY DEF Local, CacheSame
<1>3. Steady => EntryOK(host[s], p)'
  BY <1>1, <1>2, EntryLeft
<1>4. cacheFile'[host[s]][p] # None => cacheFile'[host[s]][p] \in Text
  BY ClientAssumption DEF FInv, AllText
<1>5. QED
  BY <1>2, <1>3, <1>4, ClientMove

\* open begins: the Cache object is a snapshot of the entry.
LEMMA FreshOpen ==
    ASSUME Inv, Alone, FInv, NEW s \in Sess, NEW p \in Path, OpenCall(s, p), UNCHANGED serverVars
    PROVE  FInv'
<1>1. \A t \in Sess : t # s => SessSame(t)
  BY DEF OpenCall, Goto, SessSame, Inv, CInv, ClientTypeOK
<1>2. /\ pc'[s] = "getattr" /\ path'[s] = p /\ op'[s] = "open"
      /\ snap'[s] = CacheObject(host[s], p) /\ buf'[s] = buf[s]
      /\ pc[s] = "idle"
  BY DEF OpenCall, Goto, Inv, CInv, ClientTypeOK
<1>3. SessOK(s)'
  BY <1>2 DEF OpenCall, SessOK, CacheObject, Opening
<1>4. buf'[s] \in Text
  BY <1>2 DEF FInv, AllText
<1>5. QED
  BY <1>1, <1>2, <1>3, <1>4, QuietMove DEF OpenCall

\* A path the server does not have is cached nowhere.
LEMMA FreshCreateNext ==
    ASSUME Inv, Alone, FInv, NEW s \in Sess, NEW p \in Path, CreateNext(s, p), file[p] = None,
           UNCHANGED serverVars
    PROVE  FInv'
<1>1. \A t \in Sess : t # s => SessSame(t)
  BY DEF CreateNext, Goto, SessSame, Inv, CInv, ClientTypeOK
<1>2. /\ pc'[s] = "create" /\ path'[s] = p /\ buf'[s] = buf[s] /\ pc[s] = "idle"
      /\ op'[s] = op[s] /\ op[s] # "create"
  BY DEF CreateNext, Goto, Inv, CInv, ClientTypeOK, FInv, ClientPart, SessOK, Opening
<1>3. status[host[s]][p] = None
  BY ClientAssumption DEF FInv, ClientPart, EntryOK
<1>4. SessOK(s)'
  BY <1>2, <1>3 DEF CreateNext, SessOK, MyEntry, Opening
<1>5. buf'[s] \in Text
  BY <1>2 DEF FInv, AllText
<1>6. QED
  BY <1>1, <1>2, <1>4, <1>5, QuietMove DEF CreateNext

\* create begins on a path without an entry.
LEMMA FreshCreate ==
    ASSUME Inv, Alone, FInv, NEW s \in Sess, CreateCall(s), UNCHANGED serverVars
    PROVE  FInv'
<1>1. \A t \in Sess : t # s => SessSame(t)
  BY DEF CreateCall, Goto, SessSame, Inv, CInv, ClientTypeOK
<1>2. /\ pc'[s] = "getattr" /\ path'[s] = path[s] /\ op'[s] = "create"
      /\ snap'[s] = CacheObject(host[s], path[s]) /\ buf'[s] = buf[s]
      /\ pc[s] = "create" /\ path[s] \in Path
  BY DEF CreateCall, Goto, Inv, CInv, ClientTypeOK, SessPath
<1>3. MyEntry(s) = None
  BY <1>2 DEF FInv, ClientPart, SessOK
<1>4. SessOK(s)'
  BY <1>2, <1>3 DEF CreateCall, SessOK, CacheObject, MyEntry, Opening
<1>5. buf'[s] \in Text
  BY <1>2 DEF FInv, AllText
<1>6. QED
  BY <1>1, <1>2, <1>4, <1>5, QuietMove DEF CreateCall

\* A miss goes on with what it knows.
LEMMA FreshFetch ==
    ASSUME Inv, Alone, FInv, NEW s \in Sess, FetchToCache(s), UNCHANGED serverVars
    PROVE  FInv'
<1>1. \A t \in Sess : t # s => SessSame(t)
  BY DEF FetchToCache, Goto, SessSame, Inv, CInv, ClientTypeOK
<1>2. /\ pc'[s] \in {"creating", "fetching"} /\ path'[s] = path[s] /\ op'[s] = op[s]
      /\ snap'[s] = snap[s] /\ buf'[s] = buf[s]
      /\ pc[s] = "attr" /\ path[s] \in Path
  BY DEF FetchToCache, Goto, Inv, CInv, ClientTypeOK, SessPath
<1>3. /\ snap[s] = CacheObject(host[s], path[s])
      /\ op[s] = "create" => MyEntry(s) = None
  BY <1>2 DEF FInv, ClientPart, SessOK, Opening
<1>4. SessOK(s)'
  BY <1>2, <1>3 DEF FetchToCache, SessOK, CacheObject, MyEntry, Opening
<1>5. buf'[s] \in Text
  BY <1>2 DEF FInv, AllText
<1>6. QED
  BY <1>1, <1>2, <1>4, <1>5, QuietMove DEF FetchToCache

\* An open that fails forgets everything.
LEMMA FreshReturn ==
    ASSUME Inv, Alone, FInv, NEW s \in Sess, Return(s), UNCHANGED <<serverVars, status, cacheFile>>,
           pc[s] \notin {"idle", "open", "putting", "putdone"}
    PROVE  FInv'
<1>1. \A t \in Sess : t # s => SessSame(t)
  BY DEF Return, Goto, SessSame, Inv, CInv, ClientTypeOK
<1>2. /\ pc'[s] = "idle" /\ buf'[s] = <<>> /\ path[s] \in Path
      /\ path'[s] = None /\ op'[s] = "none"
  BY DEF Return, Goto, Inv, CInv, ClientTypeOK, SessPath
<1>3. SessOK(s)'
  BY <1>2 DEF SessOK, Opening
<1>4. buf'[s] \in Text
  BY <1>2, TextContent
<1>5. QED
  BY <1>1, <1>2, <1>3, <1>4, QuietMove

\* The answer of getFileAttributes.
LEMMA FreshAttributes ==
    ASSUME Inv, Alone, FInv, NEW s \in Sess, NEW c, Answer(s, "getattr", c, <<>>), UNCHANGED serverVars
    PROVE  FInv'
<1>1. \A t \in Sess : t # s => SessSame(t)
  BY DEF Answer, Goto, SessSame, Inv, CInv, ClientTypeOK
<1>2. RpcNext["getattr"] = "attr"
  BY DEF RpcNext, RpcPC
<1>3. /\ pc'[s] = "attr" /\ path'[s] = path[s] /\ op'[s] = op[s]
      /\ snap'[s] = snap[s] /\ buf'[s] = <<>>
      /\ pc[s] = "getattr" /\ path[s] \in Path
  BY <1>2 DEF Answer, Goto, Inv, CInv, ClientTypeOK, SessPath
<1>4. /\ snap[s] = CacheObject(host[s], path[s])
      /\ op[s] = "create" => MyEntry(s) = None
  BY <1>3 DEF FInv, ClientPart, SessOK, Opening
<1>5. SessOK(s)'
  BY <1>3, <1>4 DEF Answer, SessOK, CacheObject, MyEntry, Opening
<1>6. buf'[s] \in Text
  BY <1>3, TextContent
<1>7. QED
  BY <1>1, <1>3, <1>5, <1>6, QuietMove DEF Answer

\* What getFileContents reads is what the clock stands for, or the upload that
\* is about to raise it.
LEMMA ReadFresh ==
    ASSUME Inv, ServerPart, NEW p \in Path, file[p] # None
    PROVE  Fresh(data[file[p]], p)
<1>1. CASE \A w \in Worker : ~ Renamed(w, p)
  BY <1>1 DEF ServerPart, Settled, Fresh
<1>2. CASE \E w \in Worker : Renamed(w, p)
  BY <1>2 DEF ServerPart, Reached, Renamed, Fresh
<1>3. QED
  BY <1>1, <1>2

\* The snapshot of an open is clean, and its clock not above the server's.
LEMMA SnapClean ==
    ASSUME Inv, Alone, FInv, NEW s \in Sess, pc[s] \in Opening
    PROVE  /\ path[s] \in Path /\ host[s] \in Client
           /\ snap[s] = CacheObject(host[s], path[s])
           /\ snap[s].clock \in Int /\ snap[s].clock <= serverclock[path[s]]
           /\ snap[s].dirty = FALSE
<1>1. path[s] \in Path /\ host[s] \in Client
  BY ClientAssumption DEF Inv, CInv, SessPath, Opening
<1>2. snap[s] = CacheObject(host[s], path[s]) /\ EntryOK(host[s], path[s])
  BY <1>1 DEF FInv, ClientPart, SessOK
<1>3. ~ InHand(host[s], path[s])
  BY NotInHand DEF Opening
<1>4. CASE MyEntry(s) = None
  BY <1>1, <1>2, <1>4 DEF CacheObject, MyEntry, NoEntry, Inv, SInv, ServerTypeOK
<1>5. CASE MyEntry(s) # None
  <2>1. MyEntry(s) \in Entry /\ snap[s] = MyEntry(s)
    BY <1>1, <1>2, <1>5 DEF CacheObject, MyEntry, Inv, CInv, ClientTypeOK
  <2>2. QED
    BY <1>1, <1>2, <1>3, <1>5, <2>1 DEF EntryOK, MyEntry, Entry
<1>6. QED
  BY <1>4, <1>5

\* The answer of getFileContents.
LEMMA FreshContents ==
    ASSUME Inv, Alone, FInv, NEW s \in Sess, file[path[s]] # None,
           Answer(s, "fetching", None, data[file[path[s]]]), UNCHANGED serverVars
    PROVE  FInv'
<1> DEFINE p == path[s]
<1>1. \A t \in Sess : t # s => SessSame(t)
  BY DEF Answer, Goto, SessSame, Inv, CInv, ClientTypeOK
<1>2. RpcNext["fetching"] = "fetched"
  BY DEF RpcNext, RpcPC
<1>3. /\ pc'[s] = "fetched" /\ path'[s] = p /\ op'[s] = op[s]
      /\ snap'[s] = snap[s] /\ buf'[s] = data[file[p]]
      /\ pc[s] = "fetching" /\ p \in Path
  BY <1>2 DEF Answer, Goto, Inv, CInv, ClientTypeOK, SessPath
<1>4. /\ snap[s] = CacheObject(host[s], p)
      /\ op[s] = "create" => MyEntry(s) = None
  BY <1>3 DEF FInv, ClientPart, SessOK, Opening
<1>5. Fresh(data[file[p]], p) /\ snap[s].clock <= serverclock[p]
  BY <1>3, ReadFresh, SnapClean DEF FInv, Opening
<1>6. Tagged(buf[s], snap[s].clock, path[s])'
  BY <1>3, <1>5 DEF Tagged, Fresh, Renamed, serverVars, workVars, diskVars
<1>7. SessOK(s)'
  BY <1>3, <1>4, <1>6 DEF Answer, SessOK, CacheObject, MyEntry, Opening, serverVars, diskVars
<1>8. buf'[s] \in Text
  BY <1>3 DEF FInv, AllText, Inv, SInv, ServerTypeOK
<1>9. QED
  BY <1>1, <1>3, <1>7, <1>8, QuietMove DEF Answer

\* The locals of the other sessions when s opens the local copy.
LEMMA OpenLocalOthers ==
    ASSUME CInv, NEW s \in Sess, NEW c, OpenLocal(s, c)
    PROVE  /\ \A t \in Sess : t # s => SessSame(t)
           /\ pc'[s] = "open" /\ path'[s] = path[s] /\ op'[s] = "none" /\ buf'[s] = <<>>
BY DEF OpenLocal, Goto, SessSame, CInv, ClientTypeOK

\* A hit opens the copy as it is: a create never hits, so O_TRUNC cannot empty
\* a copy whose entry stays valid.
LEMMA FreshOpenCached ==
    ASSUME Inv, Alone, FInv, NEW s \in Sess, OpenCachedFile(s), UNCHANGED serverVars
    PROVE  FInv'
<1> DEFINE p == path[s]
<1>1. /\ \A t \in Sess : t # s => SessSame(t)
      /\ pc'[s] = "open" /\ path'[s] = p /\ op'[s] = "none" /\ buf'[s] = <<>>
  BY OpenLocalOthers DEF OpenCachedFile, Inv
<1>2. pc[s] = "attr" /\ MyEntry(s) # None /\ p \in Path /\ host[s] \in Client
  BY ClientAssumption DEF OpenCachedFile, Hit, Inv, CInv, SessPath
<1>3. op[s] # "create"
  BY <1>2 DEF FInv, ClientPart, SessOK, Opening
<1>4. UNCHANGED <<status, cacheFile>>
  <2>1. cacheFile' = [cacheFile EXCEPT ![host[s]][p] = MyFile(s)]
    BY <1>3 DEF OpenCachedFile, OpenLocal
  <2>2. QED
    BY <1>2, <2>1 DEF MyFile, OpenCachedFile, Inv, CInv, ClientTypeOK
<1>5. SessOK(s)'
  BY <1>1, <1>2, <1>4 DEF SessOK, MyEntry, Opening
<1>6. buf'[s] \in Text
  BY <1>1, TextContent
<1>7. QED
  BY <1>1, <1>2, <1>4, <1>5, <1>6, QuietMove

\* commitFileCache: the copy is what was fetched, under the clock of the old
\* entry; a copy emptied by O_TRUNC has clock 0, and stands for no upload.
LEMMA FreshCommit ==
    ASSUME Inv, Alone, FInv, NEW s \in Sess, CommitFileCache(s), UNCHANGED serverVars
    PROVE  FInv'
<1>p. PICK p \in Path : p = path[s]
  BY DEF CommitFileCache, Inv, CInv, SessPath
<1> USE <1>p
<1>1. /\ \A t \in Sess : t # s => SessSame(t)
      /\ pc'[s] = "open" /\ path'[s] = p /\ op'[s] = "none" /\ buf'[s] = <<>>
  BY OpenLocalOthers DEF CommitFileCache, Inv
<1>2. /\ p \in Path /\ host[s] \in Client /\ pc[s] = "fetched"
      /\ snap[s] = CacheObject(host[s], p) /\ snap[s] \in Entry
      /\ snap[s].clock \in Int /\ snap[s].clock <= serverclock[p] /\ snap[s].dirty = FALSE
  BY SnapClean DEF CommitFileCache, Opening, Inv, CInv, ClientTypeOK
<1>3. /\ status'[host[s]][p] = snap[s]
      /\ \A k \in Client, q \in Path : ~ (k = host[s] /\ q = p) => status'[k][q] = status[k][q]
  BY <1>2 DEF CommitFileCache, Inv, CInv, ClientTypeOK
<1>4. Cstr(buf[s]) = buf[s] /\ buf[s] \in Text
  BY CstrWhole DEF FInv, AllText, Text
<1>5. PICK c \in Text : /\ c = buf[s] \/ (c = <<>> /\ op[s] = "create")
                        /\ cacheFile' = [cacheFile EXCEPT ![host[s]][p] = c]
  <2>1. PICK trunc \in BOOLEAN :
           /\ trunc => op[s] = "create"
           /\ cacheFile' = [cacheFile EXCEPT ![host[s]][p] = IF trunc THEN <<>> ELSE buf[s]]
    BY <1>4 DEF CommitFileCache, OpenLocal
  <2>2. CASE trunc
    BY <2>1, <2>2, TextContent
  <2>3. CASE ~ trunc
    BY <1>4, <2>1, <2>3
  <2>4. QED
    BY <2>2, <2>3
<1>6. /\ cacheFile'[host[s]][p] = c
      /\ \A k \in Client, q \in Path : ~ (k = host[s] /\ q = p) => cacheFile'[k][q] = cacheFile[k][q]
  BY <1>2, <1>5 DEF Inv, CInv, ClientTypeOK
<1>7. Tagged(c, snap[s].clock, p)
  <2>1. CASE c = buf[s]
    BY <1>2, <2>1 DEF FInv, ClientPart, SessOK
  <2>2. CASE c = <<>> /\ op[s] = "create"
    <3>1. MyEntry(s) = None
      BY <1>2, <2>2 DEF FInv, ClientPart, SessOK, Opening
    <3>2. snap[s].clock = 0
      BY <1>2, <3>1 DEF CacheObject, MyEntry, NoEntry
    <3>3. serverclock[p] = 0 => current[p] = <<>>
      BY <1>2 DEF FInv, ServerPart, Settled
    <3>4. QED
      BY <1>2, <2>2, <3>2, <3>3 DEF Tagged, Fresh
  <2>3. QED
    BY <1>5, <2>1, <2>2
<1>8. EntryOK(host[s], p)'
  <2>1. file[p] # None
    BY <1>2 DEF FInv, ClientPart, SessOK
  <2>2. Tagged(cacheFile[host[s]][p], status[host[s]][p].clock, p)'
    <3>1. cacheFile'[host[s]][p] = c /\ status'[host[s]][p].clock = snap[s].clock
      BY <1>3, <1>6
    <3>2. UNCHANGED <<serverclock, current, wpath, wpc, wbuf>>
      BY DEF serverVars, workVars
    <3>3. QED
      BY <1>7, <3>1, <3>2 DEF Tagged, Fresh, Renamed
  <2>3. QED
    BY <1>1, <1>2, <1>3, <2>1, <2>2 DEF EntryOK, serverVars, diskVars
<1>9. SessOK(s)'
  <2>1. snap[s] # None
    BY <1>2, NoneAssumption
  <2>2. QED
    BY <1>1, <1>3, <2>1 DEF SessOK, MyEntry, Opening
<1>10. Local(s, p)
  BY <1>1, <1>3, <1>6 DEF Local, CacheSame
<1>11. buf'[s] \in Text /\ cacheFile'[host[s]][p] \in Text
  BY <1>1, <1>5, <1>6, TextContent
<1>12. QED
  BY <1>2, <1>8, <1>9, <1>10, <1>11, ClientMove

\* What is cached of p on k, when entry and copy become e and c.
LEMMA CacheSet ==
    ASSUME CInv, NEW s \in Sess, NEW p \in Path, p = path[s], MyEntry(s) # None, NEW e,
           UpdateCache(s, e)
    PROVE  /\ status'[host[s]][p] = e
           /\ \A k \in Client, q \in Path : ~ (k = host[s] /\ q = p) => status'[k][q] = status[k][q]
BY ClientAssumption DEF UpdateCache, MyEntry, CInv, ClientTypeOK

\* A write keeps the copy free of holes, makes the entry dirty, and leaves at
\* least one block.
LEMMA FreshWrite ==
    ASSUME Inv, Alone, FInv, NEW s \in Sess, NEW off \in 0 .. Len(MyFile(s)), NEW b \in Byte,
           Write(s, off, b), UNCHANGED serverVars
    PROVE  FInv'
<1>p. PICK p \in Path : p = path[s]
  BY DEF Write, Inv, CInv, SessPath
<1> USE <1>p
<1>1. /\ \A t \in Sess : t # s => SessSame(t)
      /\ pc'[s] = "open" /\ path'[s] = p /\ buf'[s] = buf[s] /\ pc[s] = "open"
      /\ host[s] \in Client /\ op'[s] # "create"
  BY ClientAssumption DEF Write, sessVars, SessSame, FInv, ClientPart, SessOK, Opening
<1>2. /\ MyEntry(s) # None /\ MyEntry(s) \in Entry /\ EntryOK(host[s], p)
      /\ MyFile(s) \in Text
  <2>1. MyEntry(s) # None /\ EntryOK(host[s], p)
    BY <1>1 DEF FInv, ClientPart, SessOK
  <2>2. MyFile(s) \in Text
    BY <1>1 DEF FInv, AllText, MyFile, Inv, CInv, CopyPresent
  <2>3. QED
    BY <1>1, <2>1, <2>2 DEF MyEntry, Inv, CInv, ClientTypeOK
<1>3. PICK e \in Entry : e = [dirty |-> TRUE, clock |-> MyEntry(s).clock]
  BY <1>2 DEF Entry
<1>4. UpdateCache(s, e)
  BY <1>2, <1>3 DEF Write, CacheObject, MyEntry
<1>5. /\ status'[host[s]][p] = e
      /\ \A k \in Client, q \in Path : ~ (k = host[s] /\ q = p) => status'[k][q] = status[k][q]
  BY <1>2, <1>4, CacheSet DEF Inv
<1>6. PICK c \in Text : c = PWrite(MyFile(s), off, b) /\ Len(c) > 0
  <2>1. PICK d \in Seq(Byte) : d = MyFile(s) /\ off \in 0 .. Len(d)
    BY <1>2 DEF Text
  <2>2. Len(d) \in Nat
    BY LenProperties
  <2>3. /\ PWrite(d, off, b) \in Seq(Byte)
        /\ Len(PWrite(d, off, b)) = IF off < Len(d) THEN Len(d) ELSE Len(d) + 1
    BY <2>1, PWriteInside DEF Written
  <2>4. QED
    BY <2>1, <2>2, <2>3 DEF Text
<1>7. cacheFile' = [cacheFile EXCEPT ![host[s]][p] = c]
  BY <1>6 DEF Write
<1>8. /\ cacheFile'[host[s]][p] = c
      /\ \A k \in Client, q \in Path : ~ (k = host[s] /\ q = p) => cacheFile'[k][q] = cacheFile[k][q]
  BY <1>1, <1>7 DEF Inv, CInv, ClientTypeOK
<1>9. EntryOK(host[s], p)'
  <2>1. file[p] # None /\ e.clock <= serverclock[p]
    BY <1>2, <1>3 DEF EntryOK, MyEntry
  <2>2. InHand(host[s], p)'
    BY <1>1, <1>6, <1>8 DEF InHand
  <2>3. QED
    BY <1>3, <1>5, <2>1, <2>2 DEF EntryOK, serverVars, diskVars
<1>10. SessOK(s)'
  BY <1>1, <1>5, NoneAssumption DEF SessOK, MyEntry, Opening
<1>11. Local(s, p)
  BY <1>1, <1>5, <1>8 DEF Local, CacheSame
<1>12. buf'[s] \in Text /\ cacheFile'[host[s]][p] \in Text
  BY <1>1, <1>6, <1>8 DEF FInv, AllText
<1>13. QED
  BY <1>1, <1>9, <1>10, <1>11, <1>12, ClientMove

\* Whether the copy of a handle is dirty is what its entry says; a dirty one is
\* not empty.
LEMMA DirtyCopy ==
    ASSUME Inv, FInv, NEW s \in Sess, pc[s] \in {"open", "putting", "putdone", "release"}
    PROVE  /\ path[s] \in Path /\ host[s] \in Client
           /\ MyEntry(s) # None /\ MyEntry(s) \in Entry
           /\ CacheObject(host[s], path[s]) = MyEntry(s)
           /\ EntryOK(host[s], path[s])
           /\ MyFile(s) \in Text
           /\ MyEntry(s).dirty => InHand(host[s], path[s]) /\ Len(MyFile(s)) > 0
<1>1. path[s] \in Path /\ host[s] \in Client
  BY ClientAssumption DEF Inv, CInv, SessPath
<1>2. MyEntry(s) # None /\ EntryOK(host[s], path[s])
  BY <1>1 DEF FInv, ClientPart, SessOK
<1>3. MyEntry(s) \in Entry /\ CacheObject(host[s], path[s]) = MyEntry(s)
  BY <1>1, <1>2 DEF Inv, CInv, ClientTypeOK, MyEntry, CacheObject
<1>4. MyFile(s) \in Text
  BY <1>1 DEF FInv, AllText, MyFile, Inv, CInv, CopyPresent
<1>5. MyEntry(s).dirty => InHand(host[s], path[s]) /\ Len(MyFile(s)) > 0
  BY <1>2 DEF EntryOK, MyEntry, InHand, MyFile
<1>6. QED
  BY <1>1, <1>2, <1>3, <1>4, <1>5

\* What the end of flush or release does to the sessions.
LEMMA AfterUploadSess ==
    ASSUME CInv, NEW s \in Sess, NEW o, AfterUpload(s, o)
    PROVE  /\ \A t \in Sess : t # s => SessSame(t)
           /\ (pc'[s] = "idle" /\ path'[s] = None) \/ (pc'[s] = "release" /\ path'[s] = path[s])
           /\ buf'[s] = <<>> /\ op'[s] = "none"
BY DEF AfterUpload, Return, Goto, SessSame, CInv, ClientTypeOK

\* The by-pass leaves a clean entry; release never finds a dirty one.
LEMMA FreshBypass ==
    ASSUME Inv, Alone, FInv, NEW s \in Sess, NEW o \in {"flush", "release"}, pc[s] \in {"open", "release"},
           UploadBypass(s, o), UNCHANGED serverVars
    PROVE  FInv'
<1>p. PICK p \in Path : p = path[s]
  BY DEF Inv, CInv, SessPath
<1> USE <1>p
<1>1. /\ \A t \in Sess : t # s => SessSame(t)
      /\ (pc'[s] = "idle" /\ path'[s] = None) \/ (pc'[s] = "release" /\ path'[s] = p)
      /\ buf'[s] = <<>> /\ op'[s] = "none" /\ UNCHANGED <<status, cacheFile>>
  BY AfterUploadSess DEF UploadBypass, Inv
<1>2. /\ host[s] \in Client /\ MyEntry(s) # None /\ EntryOK(host[s], p)
      /\ MyFile(s) \in Text /\ ~ MyEntry(s).dirty
  BY DirtyCopy DEF UploadBypass
<1>3. EntryOK(host[s], p)'
  BY <1>1, <1>2 DEF EntryOK, MyEntry, Tagged, Fresh, Renamed, serverVars, diskVars, workVars
<1>4. SessOK(s)'
  BY <1>1, <1>2 DEF SessOK, MyEntry, Opening
<1>5. Local(s, p)
  BY <1>1 DEF Local, CacheSame
<1>6. buf'[s] \in Text /\ cacheFile'[host[s]][p] \in Text
  BY <1>1, <1>2, TextContent DEF MyFile
<1>7. QED
  BY <1>3, <1>4, <1>5, <1>6, ClientMove

\* flush of a dirty file: its copy is sent.
LEMMA FreshPut ==
    ASSUME Inv, Alone, FInv, NEW s \in Sess, NEW o \in {"flush", "release"}, pc[s] \in {"open", "release"},
           UploadPut(s, o), UNCHANGED serverVars
    PROVE  FInv'
<1>p. PICK p \in Path : p = path[s]
  BY DEF Inv, CInv, SessPath
<1> USE <1>p
<1>1. /\ \A t \in Sess : t # s => SessSame(t)
      /\ pc'[s] = "putting" /\ path'[s] = p /\ op'[s] = o
      /\ buf'[s] = MyFile(s) /\ UNCHANGED <<status, cacheFile>>
  BY DEF UploadPut, Goto, SessSame, Inv, CInv, ClientTypeOK
<1>2. /\ host[s] \in Client /\ MyEntry(s) # None /\ MyEntry(s) \in Entry /\ EntryOK(host[s], p)
      /\ MyFile(s) \in Text /\ MyEntry(s).dirty
  BY DirtyCopy DEF UploadPut
<1>3. EntryOK(host[s], p)'
  <2>1. InHand(host[s], p)'
    BY <1>1, <1>2 DEF EntryOK, MyEntry, InHand
  <2>2. QED
    BY <1>1, <1>2, <2>1 DEF EntryOK, MyEntry, serverVars, diskVars
<1>4. SessOK(s)'
  BY <1>1, <1>2 DEF SessOK, MyEntry, MyFile, Opening
<1>5. Local(s, p)
  BY <1>1 DEF Local, CacheSame
<1>6. buf'[s] \in Text /\ cacheFile'[host[s]][p] \in Text
  BY <1>1, <1>2 DEF MyFile
<1>7. QED
  BY <1>3, <1>4, <1>5, <1>6, ClientMove

\* flush and release, as a whole: a dirty empty file does not occur.
LEMMA FreshUpload ==
    ASSUME Inv, Alone, FInv, NEW s \in Sess, NEW o \in {"flush", "release"}, pc[s] \in {"open", "release"},
           Upload(s, o), UNCHANGED serverVars
    PROVE  FInv'
<1>1. ~ UploadEmpty(s, o)
  <2>1. CacheObject(host[s], path[s]) = MyEntry(s) /\ (MyEntry(s).dirty => Len(MyFile(s)) > 0)
    BY DirtyCopy
  <2>2. QED
    BY <2>1 DEF UploadEmpty
<1>2. QED
  BY <1>1, FreshBypass, FreshPut DEF Upload

\* The upload returned: the copy is what was sent, under the clock of the reply.
LEMMA FreshDone ==
    ASSUME Inv, Alone, FInv, NEW s \in Sess, UploadDone(s), UNCHANGED serverVars
    PROVE  FInv'
<1>p. PICK p \in Path : p = path[s]
  BY DEF UploadDone, Inv, CInv, SessPath
<1> USE <1>p
<1>1. pc[s] = "putdone"
  BY DEF UploadDone
<1>2. /\ \A t \in Sess : t # s => SessSame(t)
      /\ (pc'[s] = "idle" /\ path'[s] = None) \/ (pc'[s] = "release" /\ path'[s] = p)
      /\ buf'[s] = <<>> /\ op'[s] = "none" /\ UNCHANGED cacheFile
  BY AfterUploadSess DEF UploadDone, Inv
<1>3. /\ host[s] \in Client /\ MyEntry(s) # None /\ EntryOK(host[s], p)
      /\ MyFile(s) \in Text
  BY <1>1, DirtyCopy
<1>4. /\ MyFile(s) = buf[s] /\ clk[s] # None /\ clk[s] \in Int /\ clk[s] <= serverclock[p]
      /\ clk[s] = serverclock[p] => current[p] = buf[s]
  BY <1>1 DEF FInv, ClientPart, SessOK, Inv, CInv, ClientTypeOK
<1>5. PICK e \in Entry : e = [dirty |-> FALSE, clock |-> clk[s]] /\ UpdateCache(s, e)
  BY <1>4 DEF UploadDone, Entry
<1>6. /\ status'[host[s]][p] = e
      /\ \A k \in Client, q \in Path : ~ (k = host[s] /\ q = p) => status'[k][q] = status[k][q]
  BY <1>3, <1>5, CacheSet DEF Inv
<1>7. EntryOK(host[s], p)'
  <2>1. file[p] # None
    BY <1>3 DEF EntryOK, MyEntry
  <2>2. Tagged(cacheFile[host[s]][p], status[host[s]][p].clock, p)'
    BY <1>2, <1>4, <1>5, <1>6 DEF Tagged, Fresh, MyFile, serverVars
  <2>3. QED
    BY <1>5, <1>6, <2>1, <2>2 DEF EntryOK, Tagged, serverVars, diskVars
<1>8. SessOK(s)'
  BY <1>2, <1>6, NoneAssumption DEF SessOK, MyEntry, Opening
<1>9. Local(s, p)
  BY <1>2, <1>6 DEF Local, CacheSame
<1>10. buf'[s] \in Text /\ cacheFile'[host[s]][p] \in Text
  BY <1>2, <1>3, TextContent DEF MyFile
<1>11. QED
  BY <1>1, <1>7, <1>8, <1>9, <1>10, ClientMove

\* Where no removeFile is called, a crash ends every session of the client.
LEMMA CrashEnds ==
    ASSUME ClientPart, NEW k \in Client, ClientCrash(k)
    PROVE  /\ status' = [status EXCEPT ![k] = [p \in Path |-> None]]
           /\ UNCHANGED cacheFile
           /\ \A s \in Sess :
                 IF host[s] = k
                 THEN /\ pc'[s] = "idle" /\ path'[s] = None /\ op'[s] = "none"
                      /\ snap'[s] = NoEntry /\ clk'[s] = None /\ buf'[s] = <<>>
                 ELSE SessSame(s)
<1>1. PICK Late \in SUBSET {s \in Sess : pc[s] \in {"unlinking", "erasing"}} :
         /\ pc' = [s \in Sess |-> IF host[s] = k /\ s \notin Late THEN "idle" ELSE pc[s]]
         /\ path' = [s \in Sess |-> IF host[s] = k /\ s \notin Late THEN None ELSE path[s]]
         /\ op' = [s \in Sess |-> IF host[s] = k /\ s \notin Late THEN "none" ELSE op[s]]
         /\ snap' = [s \in Sess |-> IF host[s] = k /\ s \notin Late THEN NoEntry ELSE snap[s]]
         /\ clk' = [s \in Sess |-> IF host[s] = k /\ s \notin Late THEN None ELSE clk[s]]
         /\ buf' = [s \in Sess |-> IF host[s] = k /\ s \notin Late THEN <<>> ELSE buf[s]]
  BY DEF ClientCrash
<1>2. \A s \in Sess : s \notin Late
  BY <1>1 DEF ClientPart, SessOK
<1>3. status' = [status EXCEPT ![k] = [p \in Path |-> None]] /\ UNCHANGED cacheFile
  BY DEF ClientCrash
<1>4. QED
  BY <1>1, <1>2, <1>3 DEF SessSame

\* A client that crashes with no upload in flight takes its entries and its
\* session with it; no handler served it.
LEMMA FreshCrash ==
    ASSUME Inv, Alone, FInv, NEW k \in Client, ClientCrash(k),
           CancelCalls({s \in Sess : host[s] = k}), \A s \in Sess : host[s] = k => pc[s] # "putting"
    PROVE  FInv'
<1>0. ClientPart
  BY DEF FInv
<1>1. UNCHANGED serverVars
  <2>1. ASSUME NEW w \in Worker PROVE wsess'[w] = wsess[w]
    <3>1. Served(w)
      BY DEF FInv, ServerPart
    <3>2. QED
      BY <3>1 DEF CancelCalls, Served
  <2>2. wsess' = wsess
    BY <2>1 DEF CancelCalls, Inv, SInv, ServerTypeOK
  <2>3. QED
    BY <2>2 DEF CancelCalls, serverVars, workVars
<1>2. SInv' /\ Steady
  BY <1>1, ServerUnchanged, SteadyUnchanged DEF Inv, serverVars, workVars, diskVars
<1>3. ASSUME NEW t \in Sess, host[t] # k PROVE SessSame(t)
  BY <1>0, <1>3, CrashEnds
<1>4. ASSUME NEW h \in Client, h # k, NEW p \in Path PROVE CacheSame(h, p)
  BY <1>0, <1>4, CrashEnds DEF CacheSame, Inv, CInv, ClientTypeOK
<1>5. ServerPart'
  BY <1>1, <1>3, ServerKeeps DEF FInv, SessSame
<1>6. ASSUME NEW h \in Client, NEW p \in Path PROVE EntryOK(h, p)'
  <2>1. CASE h = k
    BY <1>0, <2>1, CrashEnds DEF EntryOK, Inv, CInv, ClientTypeOK
  <2>2. CASE h # k
    <3>1. InHand(h, p) => InHand(h, p)'
      BY <1>3, <1>4, <2>2 DEF InHand, SessSame, CacheSame
    <3>2. QED
      BY <1>2, <1>4, <2>2, <3>1, EntryKeeps DEF FInv, ClientPart
  <2>3. QED
    BY <2>1, <2>2
<1>7. ASSUME NEW t \in Sess PROVE SessOK(t)'
  <2>1. CASE host[t] = k
    BY <1>0, <2>1, CrashEnds DEF SessOK, Opening
  <2>2. CASE host[t] # k
    BY <1>2, <1>3, <1>4, <2>2, SessKeeps, ClientAssumption DEF FInv, ClientPart
  <2>3. QED
    BY <2>1, <2>2
<1>8. AllText'
  <2>1. <<>> \in Text
    BY TextContent
  <2>2. \A s \in Sess : buf'[s] = buf[s] \/ buf'[s] = <<>>
    BY <1>0, CrashEnds DEF SessSame
  <2>3. UNCHANGED cacheFile
    BY <1>0, CrashEnds
  <2>4. QED
    BY <1>1, <2>1, <2>2, <2>3 DEF FInv, AllText, serverVars, diskVars, workVars
<1>9. QED
  BY <1>5, <1>6, <1>7, <1>8 DEF FInv, ClientPart

-----------------------------------------------------------------------------
(* The steps of the server                                                 *)

\* The locals of handler v stay as they are.
WorkSame(v) ==
    /\ wpc'[v] = wpc[v] /\ wsess'[v] = wsess[v] /\ wpath'[v] = wpath[v] /\ wbuf'[v] = wbuf[v]
    /\ wino'[v] = wino[v] /\ wn'[v] = wn[v] /\ wreg'[v] = wreg[v]

\* The server keeps what it has of path q.
PathSame(q) ==
    /\ file'[q] = file[q] /\ temp'[q] = temp[q]
    /\ serverclock'[q] = serverclock[q] /\ current'[q] = current[q]
    /\ file[q] # None => data'[file[q]] = data[file[q]]
    /\ temp[q] # None => data'[temp[q]] = data[temp[q]]

\* A step of handler w on path p.
PutLocal(w, p) ==
    /\ up' = up
    /\ \A v \in Worker : v # w => WorkSame(v) /\ wpath[v] # p
    /\ \A q \in Path : q # p => PathSame(q)
    /\ wpath[w] \in {p, None} /\ wpath'[w] \in {p, None}

\* Handlers and paths that a step of w on p leaves alone stay good.
LEMMA PutKeeps ==
    ASSUME Inv, ServerPart, NEW w \in Worker, NEW p \in Path, PutLocal(w, p),
           wpc[w] # "free" => wpath[w] = p,
           \A t \in Sess : t # wsess[w] => SessSame(t),
           Served(w)', Reached(w)', Settled(p)'
    PROVE  ServerPart'
<1>1. ASSUME NEW v \in Worker PROVE Served(v)'
  <2>1. CASE v = w
    BY <2>1
  <2>2. CASE v # w
    <3>1. WorkSame(v) /\ wpath[v] # p /\ Served(v) /\ Served(w)
      BY <2>2 DEF PutLocal, ServerPart
    <3>2. CASE wpc[v] = "free"
      BY <3>1, <3>2 DEF Served, WorkSame
    <3>3. CASE wpc[v] # "free"
      <4>1. wsess[v] \in Sess /\ path[wsess[v]] # p
        BY <3>1, <3>3 DEF Served
      <4>2. wsess[v] # wsess[w]
        BY <3>1, <4>1, ServerAssumption DEF Served
      <4>3. SessSame(wsess[v])
        BY <4>1, <4>2
      <4>4. QED
        BY <3>1, <3>3, <4>3 DEF Served, WorkSame, SessSame
    <3>4. QED
      BY <3>2, <3>3
  <2>3. QED
    BY <2>1, <2>2
<1>2. ASSUME NEW v \in Worker PROVE Reached(v)'
  <2>1. CASE v = w
    BY <2>1
  <2>2. CASE v # w
    <3>1. WorkSame(v) /\ wpath[v] # p /\ Reached(v)
      BY <2>2 DEF PutLocal, ServerPart
    <3>2. CASE wpc[v] = "free"
      BY <3>1, <3>2 DEF Reached, WorkSame
    <3>3. CASE wpc[v] # "free"
      <4>1. wpath[v] \in Path /\ PathSame(wpath[v])
        BY <3>1, <3>3 DEF PutLocal, Inv, SInv, WorkPath
      <4>2. QED
        BY <3>1, <4>1 DEF Reached, WorkSame, PathSame
    <3>4. QED
      BY <3>2, <3>3
  <2>3. QED
    BY <2>1, <2>2
<1>3. ASSUME NEW q \in Path PROVE Settled(q)'
  <2>1. CASE q = p
    BY <2>1
  <2>2. CASE q # p
    <3>1. PathSame(q) /\ Settled(q)
      BY <2>2 DEF PutLocal, ServerPart
    <3>2. ASSUME NEW v \in Worker
          PROVE  (wpath'[v] = q <=> wpath[v] = q) /\ (Renamed(v, q)' <=> Renamed(v, q))
      BY <2>2, ServerAssumption DEF PutLocal, WorkSame, Renamed
    <3>3. AtRest(q)' <=> AtRest(q)
      BY <3>2 DEF AtRest
    <3>4. QED
      BY <3>1, <3>2, <3>3 DEF Settled, PathSame
  <2>3. QED
    BY <2>1, <2>2
<1>4. QED
  BY <1>1, <1>2, <1>3 DEF ServerPart, PutLocal

\* Such a step is steady if it is so on p.
LEMMA PutSteady ==
    ASSUME SInv, SInv', NEW w \in Worker, NEW p \in Path, PutLocal(w, p),
           \/ /\ serverclock'[p] = serverclock[p] /\ current'[p] = current[p]
              /\ file[p] # None => file'[p] # None
              /\ Renamed(w, p) => Renamed(w, p)' /\ wbuf'[w] = wbuf[w]
           \/ serverclock'[p] > serverclock[p] /\ file'[p] # None
    PROVE  Steady
<1> SUFFICES ASSUME NEW q \in Path
             PROVE  /\ file[q] # None => file'[q] # None
                    /\ serverclock[q] <= serverclock'[q]
                    /\ serverclock'[q] = serverclock[q] =>
                          current'[q] = current[q] /\ \A c : Fresh(c, q) => Fresh(c, q)'
  BY DEF Steady
<1>1. serverclock[q] \in Int /\ serverclock'[q] \in Int
  BY DEF SInv, ServerTypeOK
<1>2. CASE q # p
  <2>1. PathSame(q) /\ ~ Renamed(w, q)
    BY <1>2, ServerAssumption DEF PutLocal, Renamed
  <2>2. ASSUME NEW c, Fresh(c, q) PROVE Fresh(c, q)'
    BY <2>1, <2>2 DEF Fresh, PutLocal, PathSame, WorkSame, Renamed
  <2>3. QED
    BY <1>1, <2>1, <2>2 DEF PathSame
<1>3. CASE q = p
  <2>1. CASE serverclock'[p] > serverclock[p] /\ file'[p] # None
    BY <1>1, <1>3, <2>1
  <2>2. CASE /\ serverclock'[p] = serverclock[p] /\ current'[p] = current[p]
             /\ file[p] # None => file'[p] # None
             /\ Renamed(w, p) => Renamed(w, p)' /\ wbuf'[w] = wbuf[w]
    <3>1. ASSUME NEW c, Fresh(c, p) PROVE Fresh(c, p)'
      BY <2>2, <3>1 DEF Fresh, PutLocal, WorkSame, Renamed
    <3>2. QED
      BY <1>1, <1>3, <2>2, <3>1
  <2>3. QED
    BY <2>1, <2>2
<1>4. QED
  BY <1>2, <1>3

\* A step of the server alone.
LEMMA ServerMove ==
    ASSUME Inv, SInv', FInv, Steady, ServerPart', UNCHANGED clientVars,
           \A i \in Inode : data'[i] \in Text, \A v \in Worker : wbuf'[v] \in Text
    PROVE  FInv'
<1>1. /\ \A k \in Client, p \in Path : CacheSame(k, p)
      /\ \A t \in Sess : SessSame(t)
  BY DEF CacheSame, SessSame, clientVars, sessVars
<1>2. ASSUME NEW k \in Client, NEW p \in Path PROVE EntryOK(k, p)'
  <2>1. InHand(k, p) => InHand(k, p)'
    BY DEF InHand, clientVars, sessVars
  <2>2. QED
    BY <1>1, <2>1, EntryKeeps DEF FInv, ClientPart
<1>3. ASSUME NEW t \in Sess PROVE SessOK(t)'
  BY <1>1, SessKeeps, ClientAssumption DEF FInv, ClientPart
<1>4. AllText'
  BY DEF FInv, AllText, clientVars, sessVars
<1>5. QED
  BY <1>2, <1>3, <1>4 DEF FInv, ClientPart

\* What is known of a handler at work.
LEMMA Busy ==
    ASSUME Inv, Sealed, FInv, NEW w \in Worker, wpc[w] # "free"
    PROVE  /\ wpath[w] \in Path /\ Served(w) /\ Reached(w) /\ Settled(wpath[w])
           /\ \A v \in Worker : v # w => wpath[v] # wpath[w]
<1>1. wpath[w] \in Path
  BY DEF Inv, SInv, WorkPath
<1>2. \A v \in Worker : v # w => wpath[v] # wpath[w]
  BY <1>1, ServerAssumption DEF Sealed, OnePerPath, FreeBlank
<1>3. QED
  BY <1>1, <1>2 DEF FInv, ServerPart

\* An upload starts with no path.TMP in its way.
LEMMA FreshStart ==
    ASSUME Inv, SInv', Sealed, FInv, NEW s \in Sess, pc[s] = "putting", NEW w \in Worker,
           PutStart(w, s, path[s], buf[s]), \A v \in Worker : wpath[v] # path[s],
           UNCHANGED clientVars
    PROVE  FInv'
<1>p. PICK p \in Path : p = path[s]
  BY DEF Inv, CInv, SessPath
<1> USE <1>p
<1>1. /\ wpc[w] = "free" /\ wpc'[w] = "recv" /\ wsess'[w] = s /\ wpath'[w] = p /\ wbuf'[w] = buf[s]
      /\ UNCHANGED <<up, serverclock, file, temp, data, wino, wn, wreg, current>>
      /\ \A v \in Worker : v # w => WorkSame(v)
  BY DEF PutStart, diskVars, WorkSame, Inv, SInv, ServerTypeOK
<1>2. wpath[w] = None /\ Served(w) /\ Settled(p)
  BY <1>1 DEF Sealed, FreeBlank, FInv, ServerPart
<1>3. PutLocal(w, p)
  BY <1>1, <1>2 DEF PutLocal, PathSame
<1>4. Served(w)'
  BY <1>1 DEF Served, clientVars, sessVars
<1>5. Reached(w)'
  <2>1. temp[p] = None /\ wn[w] = 0 /\ wino[w] = None
    BY <1>1, <1>2 DEF Settled, AtRest, Served
  <2>2. Len(buf[s]) > 0
    BY DirtyCopy DEF FInv, ClientPart, SessOK
  <2>3. QED
    BY <1>1, <2>1, <2>2 DEF Reached
<1>6. Settled(p)'
  <2>1. ~ AtRest(p)'
    BY <1>1 DEF AtRest
  <2>2. \A v \in Worker : Renamed(v, p) => Renamed(v, p)'
    BY <1>1 DEF Renamed, WorkSame
  <2>3. QED
    BY <1>1, <1>2, <2>1, <2>2 DEF Settled
<1>7. ServerPart'
  BY <1>1, <1>3, <1>4, <1>5, <1>6, PutKeeps DEF FInv, SessSame, clientVars, sessVars
<1>8. Steady
  BY <1>1, <1>2, <1>3, PutSteady, ServerAssumption DEF Inv, Renamed
<1>9. /\ \A i \in Inode : data'[i] \in Text
      /\ \A v \in Worker : wbuf'[v] \in Text
  BY <1>1 DEF FInv, AllText, WorkSame
<1>10. QED
  BY <1>7, <1>8, <1>9, ServerMove

\* path.TMP grows by the chunk received; it was made new at the first chunk.
LEMMA ChunkTemp ==
    ASSUME Inv, Sealed, FInv, NEW w \in Worker, PutChunk(w)
    PROVE  \E i \in Inode, c \in Text :
              /\ i = temp[wpath[w]] \/ i \in FreeInode
              /\ temp'[wpath[w]] = i
              /\ \A q \in Path : q # wpath[w] => temp'[q] = temp[q]
              /\ data' = [data EXCEPT ![i] = c]
              /\ wino' = [wino EXCEPT ![w] = i]
              /\ Len(c) = wn[w] + 1
              /\ \A j \in 1 .. wn[w] + 1 : c[j] = wbuf[w][j]
<1> DEFINE n == wn[w]
           b == wbuf[w][n + 1]
<1>1. PICK i \in Inode :
         /\ OpenTemp(w, i)
         /\ temp' = IF wn[w] = 0 THEN [temp EXCEPT ![wpath[w]] = i] ELSE temp
         /\ data' = [data EXCEPT ![i] = PWrite(OpenedData(w, i), n, b)]
         /\ wino' = [wino EXCEPT ![w] = i]
  BY DEF PutChunk
<1>2. /\ temp'[wpath[w]] = i
      /\ \A q \in Path : q # wpath[w] => temp'[q] = temp[q]
  BY <1>1, SealedTemp DEF PutChunk, Inv
<1>3. wpath[w] \in Path /\ Reached(w)
  BY Busy DEF PutChunk
<1>4. i # None /\ wpc[w] = "recv" /\ n \in Nat /\ n < Len(wbuf[w])
  BY ServerAssumption DEF PutChunk, Inv, SInv, ServerTypeOK
<1>5. b \in Byte
  <2>1. wbuf[w] \in Seq(Byte)
    BY DEF FInv, AllText, Text
  <2>2. n + 1 \in 1 .. Len(wbuf[w])
    BY <1>4, <2>1, LenProperties
  <2>3. QED
    BY <2>1, <2>2, ElementOfSeq
<1>6. PICK d \in Seq(Byte) : /\ d = OpenedData(w, i) /\ Len(d) = n
                             /\ \A j \in 1 .. n : d[j] = wbuf[w][j]
                             /\ i = temp[wpath[w]] \/ i \in FreeInode
  <2>1. CASE n = 0
    <3>1. temp[wpath[w]] = None
      BY <1>3, <1>4, <2>1 DEF Reached
    <3>2. i \in FreeInode
      BY <1>1, <2>1, <3>1 DEF OpenTemp
    <3>3. <<>> \in Seq(Byte) /\ OpenedData(w, i) = <<>> /\ Len(<<>>) = 0
      BY <3>2, EmptySeq DEF OpenedData
    <3>4. PICK d \in Seq(Byte) : d = OpenedData(w, i) /\ Len(d) = 0
      BY <3>3
    <3>5. \A j \in 1 .. n : FALSE
      BY <2>1
    <3>6. QED
      BY <2>1, <3>2, <3>4, <3>5
  <2>2. CASE n # 0
    <3>1. /\ temp[wpath[w]] # None /\ i = temp[wpath[w]] /\ Len(data[i]) = n
          /\ \A j \in 1 .. n : data[i][j] = wbuf[w][j]
      BY <1>1, <1>3, <1>4, <2>2 DEF Reached, OpenTemp
    <3>2. i \notin FreeInode
      BY <1>3, <3>1 DEF FreeInode
    <3>3. data[i] \in Seq(Byte) /\ OpenedData(w, i) = data[i]
      BY <3>2 DEF OpenedData, FInv, AllText, Text
    <3>4. QED
      BY <3>1, <3>3
  <2>3. QED
    BY <2>1, <2>2
<1> DEFINE c == PWrite(d, n, b)
<1>7. /\ c \in Seq(Byte)
      /\ Len(c) = IF n < Len(d) THEN Len(d) ELSE Len(d) + 1
      /\ \A j \in 1 .. Len(c) : c[j] = IF j = n + 1 THEN b ELSE d[j]
  <2>1. n \in 0 .. Len(d)
    BY <1>4, <1>6
  <2>2. Written(c, d, n, b)
    BY <1>5, <2>1, PWriteInside
  <2> HIDE DEF n, b, c
  <2>3. QED
    BY <2>2 DEF Written
<1>8. data' = [data EXCEPT ![i] = c]
  BY <1>1, <1>6
<1> HIDE DEF c
<1>9. Len(c) = n + 1
  BY <1>4, <1>6, <1>7
<1>10. ASSUME NEW j \in 1 .. n + 1 PROVE c[j] = wbuf[w][j]
  <2>1. CASE j = n + 1
    BY <1>7, <1>9, <2>1
  <2>2. CASE j # n + 1
    <3>1. j \in 1 .. n
      BY <1>4, <2>2
    <3>2. QED
      BY <1>6, <1>7, <1>9, <2>2, <3>1
  <2>3. QED
    BY <2>1, <2>2
<1>11. c \in Text
  BY <1>7 DEF Text
<1>12. QED
  BY <1>1, <1>2, <1>6, <1>8, <1>9, <1>10, <1>11

\* A chunk is received.
LEMMA FreshChunk ==
    ASSUME Inv, SInv', Sealed, FInv, NEW w \in Worker, PutChunk(w), UNCHANGED clientVars
    PROVE  FInv'
<1>p. PICK p \in Path : p = wpath[w]
  BY Busy DEF PutChunk
<1> USE <1>p
<1>1. /\ Served(w) /\ Reached(w) /\ Settled(p)
      /\ \A v \in Worker : v # w => wpath[v] # p
  BY Busy DEF PutChunk
<1>2. PICK i \in Inode, c \in Text :
         /\ i = temp[p] \/ i \in FreeInode
         /\ temp'[p] = i
         /\ \A q \in Path : q # p => temp'[q] = temp[q]
         /\ data' = [data EXCEPT ![i] = c]
         /\ wino' = [wino EXCEPT ![w] = i]
         /\ Len(c) = wn[w] + 1
         /\ \A j \in 1 .. wn[w] + 1 : c[j] = wbuf[w][j]
  BY ChunkTemp
<1>3. /\ wpc[w] = "recv" /\ wn[w] < Len(wbuf[w]) /\ wn[w] \in Nat /\ i # None
      /\ UNCHANGED <<up, serverclock, file, wpc, wsess, wpath, wbuf, wreg, current>>
      /\ wn'[w] = wn[w] + 1 /\ wino'[w] = i
      /\ \A v \in Worker : v # w => wn'[v] = wn[v] /\ wino'[v] = wino[v]
  BY <1>2, ServerAssumption DEF PutChunk, Inv, SInv, ServerTypeOK
<1>4. /\ data'[i] = c
      /\ \A h \in Inode : h # i => data'[h] = data[h]
  BY <1>2 DEF Inv, SInv, ServerTypeOK
<1>5. \A q \in Path : file[q] # i /\ (q # p => temp[q] # i)
  BY <1>2, <1>3 DEF Sealed, TempApart, FreeInode
<1>6. PutLocal(w, p)
  <2>1. ASSUME NEW q \in Path, q # p PROVE PathSame(q)
    BY <1>2, <1>3, <1>4, <1>5, <2>1 DEF PathSame, Inv, SInv, ServerTypeOK
  <2>2. QED
    BY <1>1, <1>3, <2>1 DEF PutLocal, WorkSame
<1>7. Served(w)'
  BY <1>1, <1>3 DEF Served, clientVars, sessVars
<1>8. Reached(w)'
  <2>1. wn[w] + 1 # 0 /\ wn[w] + 1 <= Len(wbuf[w]) /\ Len(wbuf[w]) > 0
    <3>1. Len(wbuf[w]) \in Nat
      BY LenProperties DEF FInv, AllText, Text
    <3>2. QED
      BY <1>3, <3>1
  <2>2. QED
    BY <1>2, <1>3, <1>4, <2>1 DEF Reached
<1>9. Settled(p)'
  <2>1. ~ AtRest(p)'
    BY <1>3 DEF AtRest
  <2>2. \A v \in Worker : Renamed(v, p)' <=> Renamed(v, p)
    BY <1>3 DEF Renamed
  <2>3. file[p] # None => data'[file[p]] = data[file[p]]
    BY <1>4, <1>5 DEF Inv, SInv, ServerTypeOK
  <2>4. QED
    BY <1>1, <1>3, <2>1, <2>2, <2>3 DEF Settled
<1>10. ServerPart'
  BY <1>6, <1>7, <1>8, <1>9, PutKeeps DEF FInv, SessSame, clientVars, sessVars
<1>11. Steady
  BY <1>3, SteadyUnchanged DEF Inv
<1>12. /\ \A h \in Inode : data'[h] \in Text
       /\ \A v \in Worker : wbuf'[v] \in Text
  BY <1>3, <1>4 DEF FInv, AllText
<1>13. QED
  BY <1>10, <1>11, <1>12, ServerMove

\* The stream ended: path.TMP is what was sent.
LEMMA FreshEnd ==
    ASSUME Inv, SInv', Sealed, FInv, NEW w \in Worker, PutEnd(w), UNCHANGED clientVars
    PROVE  FInv'
<1>p. PICK p \in Path : p = wpath[w]
  BY Busy DEF PutEnd
<1> USE <1>p
<1>1. /\ Served(w) /\ Reached(w) /\ Settled(p)
      /\ \A v \in Worker : v # w => wpath[v] # p
  BY Busy DEF PutEnd
<1>2. /\ wpc[w] = "recv" /\ wn[w] = Len(wbuf[w]) /\ wpc'[w] = "rename"
      /\ UNCHANGED <<up, serverclock, file, temp, data, wsess, wpath, wbuf, wn, wreg, current>>
      /\ \A v \in Worker : v # w => WorkSame(v)
  BY DEF PutEnd, diskVars, WorkSame, Inv, SInv, ServerTypeOK
<1>3. PutLocal(w, p)
  BY <1>1, <1>2 DEF PutLocal, PathSame
<1>4. Served(w)'
  BY <1>1, <1>2 DEF Served, clientVars, sessVars
<1>5. Reached(w)'
  <2>1. Len(wbuf[w]) > 0 /\ wn[w] # 0
    BY <1>1, <1>2 DEF Reached
  <2>2. /\ temp[p] # None /\ Len(data[temp[p]]) = Len(wbuf[w])
        /\ \A j \in 1 .. Len(data[temp[p]]) : data[temp[p]][j] = wbuf[w][j]
    BY <1>1, <1>2, <2>1 DEF Reached
  <2>3. data[temp[p]] \in Seq(Byte) /\ wbuf[w] \in Seq(Byte)
    BY <2>2 DEF FInv, AllText, Text, Inv, SInv, ServerTypeOK
  <2>4. data[temp[p]] = wbuf[w]
    BY <2>2, <2>3, SeqEqual
  <2>5. QED
    BY <1>2, <2>1, <2>2, <2>4 DEF Reached
<1>6. Settled(p)'
  <2>1. ~ AtRest(p)' /\ \A v \in Worker : Renamed(v, p) => Renamed(v, p)'
    BY <1>2 DEF AtRest, Renamed, WorkSame
  <2>2. QED
    BY <1>1, <1>2, <2>1 DEF Settled
<1>7. ServerPart'
  BY <1>3, <1>4, <1>5, <1>6, PutKeeps DEF FInv, SessSame, clientVars, sessVars
<1>8. Steady
  BY <1>2, <1>3, PutSteady DEF Inv, Renamed
<1>9. QED
  BY <1>2, <1>7, <1>8, ServerMove DEF FInv, AllText

\* rename publishes what was sent, under the old clock.
LEMMA FreshRename ==
    ASSUME Inv, SInv', Sealed, FInv, NEW w \in Worker, PutRename(w), UNCHANGED clientVars
    PROVE  FInv'
<1>p. PICK p \in Path : p = wpath[w]
  BY Busy DEF PutRename
<1> USE <1>p
<1>1. /\ Served(w) /\ Reached(w) /\ Settled(p)
      /\ \A v \in Worker : v # w => wpath[v] # p
  BY Busy DEF PutRename
<1>2. /\ wpc[w] = "rename" /\ wpc'[w] = "load"
      /\ UNCHANGED <<up, serverclock, data, wsess, wpath, wbuf, wn, wreg, current>>
      /\ \A v \in Worker : v # w => WorkSame(v)
  BY DEF PutRename, WorkSame, Inv, SInv, ServerTypeOK
<1>3. temp[p] # None /\ data[temp[p]] = wbuf[w]
  BY <1>1, <1>2 DEF Reached
<1>4. /\ file'[p] = temp[p] /\ temp'[p] = None
      /\ \A q \in Path : q # p => file'[q] = file[q] /\ temp'[q] = temp[q]
  BY <1>3 DEF PutRename, Inv, SInv, ServerTypeOK
<1>5. PutLocal(w, p)
  BY <1>1, <1>2, <1>4 DEF PutLocal, PathSame
<1>6. Served(w)'
  BY <1>1, <1>2 DEF Served, clientVars, sessVars
<1>7. Reached(w)'
  BY <1>1, <1>2, <1>3, <1>4 DEF Reached
<1>8. Settled(p)'
  <2>1. ~ AtRest(p)' /\ Renamed(w, p)'
    BY <1>2 DEF AtRest, Renamed
  <2>2. QED
    BY <1>1, <1>2, <1>3, <1>4, <2>1 DEF Settled
<1>9. ServerPart'
  BY <1>5, <1>6, <1>7, <1>8, PutKeeps DEF FInv, SessSame, clientVars, sessVars
<1>10. Steady
  BY <1>2, <1>3, <1>4, <1>5, PutSteady DEF Inv, Renamed
<1>11. QED
  BY <1>2, <1>9, <1>10, ServerMove DEF FInv, AllText

\* The clock of the path is loaded,
LEMMA FreshLoad ==
    ASSUME Inv, SInv', Sealed, FInv, NEW w \in Worker, PutClockLoad(w), UNCHANGED clientVars
    PROVE  FInv'
<1>p. PICK p \in Path : p = wpath[w]
  BY Busy DEF PutClockLoad
<1> USE <1>p
<1>1. /\ Served(w) /\ Reached(w) /\ Settled(p)
      /\ \A v \in Worker : v # w => wpath[v] # p
  BY Busy DEF PutClockLoad
<1>2. /\ wpc[w] = "load" /\ wpc'[w] = "store" /\ wreg'[w] = serverclock[p]
      /\ UNCHANGED <<up, serverclock, file, temp, data, wsess, wpath, wbuf, wn, wino, current>>
      /\ \A v \in Worker : v # w => WorkSame(v)
  BY DEF PutClockLoad, diskVars, WorkSame, Inv, SInv, ServerTypeOK
<1>3. PutLocal(w, p)
  BY <1>1, <1>2 DEF PutLocal, PathSame
<1>4. Served(w)'
  BY <1>1, <1>2 DEF Served, clientVars, sessVars
<1>5. Reached(w)'
  BY <1>1, <1>2 DEF Reached
<1>6. Settled(p)'
  <2>1. ~ AtRest(p)' /\ Renamed(w, p)'
    BY <1>2 DEF AtRest, Renamed
  <2>2. QED
    BY <1>1, <1>2, <2>1 DEF Settled
<1>7. ServerPart'
  BY <1>3, <1>4, <1>5, <1>6, PutKeeps DEF FInv, SessSame, clientVars, sessVars
<1>8. Steady
  BY <1>2, <1>3, PutSteady DEF Inv, Renamed
<1>9. QED
  BY <1>2, <1>7, <1>8, ServerMove DEF FInv, AllText

\* and stored, one higher: every copy with the old clock is stale.
LEMMA FreshStore ==
    ASSUME Inv, SInv', Sealed, FInv, NEW w \in Worker, PutClockStore(w), UNCHANGED clientVars
    PROVE  FInv'
<1>p. PICK p \in Path : p = wpath[w]
  BY Busy DEF PutClockStore
<1> USE <1>p
<1>1. /\ Served(w) /\ Reached(w) /\ Settled(p)
      /\ \A v \in Worker : v # w => wpath[v] # p
  BY Busy DEF PutClockStore
<1>2. /\ wpc[w] = "store" /\ wpc'[w] = "reply"
      /\ UNCHANGED <<up, file, temp, data, wsess, wpath, wbuf, wn, wino, wreg>>
      /\ \A v \in Worker : v # w => WorkSame(v)
  BY DEF PutClockStore, diskVars, WorkSame, Inv, SInv, ServerTypeOK
<1>3. /\ serverclock'[p] = wreg[w] + 1 /\ current'[p] = wbuf[w]
      /\ \A q \in Path : q # p => serverclock'[q] = serverclock[q] /\ current'[q] = current[q]
  BY DEF PutClockStore, Inv, SInv, ServerTypeOK
<1>4. wreg[w] = serverclock[p] /\ serverclock[p] \in Nat /\ file[p] # None /\ data[file[p]] = wbuf[w]
  BY <1>1, <1>2 DEF Reached, Inv, SInv, ServerTypeOK
<1>5. PutLocal(w, p)
  BY <1>1, <1>2, <1>3 DEF PutLocal, PathSame
<1>6. Served(w)'
  BY <1>1, <1>2 DEF Served, clientVars, sessVars
<1>7. Reached(w)'
  BY <1>1, <1>2, <1>3 DEF Reached
<1>8. Settled(p)'
  <2>1. ~ AtRest(p)' /\ serverclock'[p] # 0
    BY <1>2, <1>3, <1>4 DEF AtRest
  <2>2. QED
    BY <1>2, <1>3, <1>4, <2>1 DEF Settled
<1>9. ServerPart'
  BY <1>5, <1>6, <1>7, <1>8, PutKeeps DEF FInv, SessSame, clientVars, sessVars
<1>10. Steady
  <2>1. serverclock'[p] > serverclock[p] /\ file'[p] # None
    BY <1>2, <1>3, <1>4
  <2>2. QED
    BY <1>5, <2>1, PutSteady DEF Inv
<1>11. QED
  BY <1>2, <1>9, <1>10, ServerMove DEF FInv, AllText

\* The reply brings the caller the clock that stands for what it sent.
LEMMA FreshReply ==
    ASSUME Inv, SInv', Sealed, Alone, FInv, NEW w \in Worker, PutReply(w),
           PutAnswer(w, PutClockReply(w))
    PROVE  FInv'
<1>p. PICK p \in Path : p = wpath[w]
  BY Busy DEF PutReply
<1> USE <1>p
<1>1. /\ Served(w) /\ Reached(w) /\ Settled(p)
      /\ \A v \in Worker : v # w => wpath[v] # p
  BY Busy DEF PutReply
<1>2. /\ wpc[w] = "reply" /\ wpc'[w] = "free" /\ wsess'[w] = None /\ wpath'[w] = None
      /\ wn'[w] = 0 /\ wino'[w] = None /\ wbuf'[w] = <<>>
      /\ UNCHANGED <<up, serverclock, file, temp, data, current>>
      /\ \A v \in Worker : v # w => WorkSame(v)
  BY DEF PutReply, WorkerReturns, diskVars, WorkSame, Inv, SInv, ServerTypeOK
<1>s. PICK s \in Sess : /\ s = wsess[w] /\ s # None /\ pc[s] = "putting"
                        /\ path[s] = p /\ buf[s] = wbuf[w]
  BY <1>1, <1>2, ServerAssumption DEF Served
<1>3. Answer(s, "putting", serverclock[p], buf[s])
  BY <1>s DEF PutAnswer, PutClockReply
<1>4. RpcNext["putting"] = "putdone"
  BY DEF RpcNext, RpcPC
<1>5. /\ \A t \in Sess : t # s => SessSame(t)
      /\ pc'[s] = "putdone" /\ path'[s] = p /\ clk'[s] = serverclock[p] /\ buf'[s] = buf[s]
      /\ op'[s] = op[s] /\ UNCHANGED <<status, cacheFile>>
  BY <1>s, <1>3, <1>4 DEF Answer, Goto, SessSame, Inv, CInv, ClientTypeOK
<1>6. temp[p] = None /\ file[p] # None /\ data[file[p]] = wbuf[w] /\ current[p] = wbuf[w]
  BY <1>1, <1>2 DEF Reached
<1>7. PutLocal(w, p)
  BY <1>1, <1>2 DEF PutLocal, PathSame
<1>8. Served(w)' /\ Reached(w)'
  BY <1>2 DEF Served, Reached
<1>9. Settled(p)'
  BY <1>1, <1>2, <1>6 DEF Settled
<1>10. ServerPart'
  BY <1>s, <1>2, <1>5, <1>7, <1>8, <1>9, PutKeeps DEF FInv
<1>11. Steady
  BY <1>2, <1>7, PutSteady DEF Inv, Renamed
<1>12. /\ host[s] \in Client /\ MyEntry(s) # None /\ EntryOK(host[s], p) /\ MyEntry(s).dirty
       /\ MyFile(s) = buf[s] /\ op[s] # "create"
  BY <1>s, DirtyCopy DEF FInv, ClientPart, SessOK, Opening
<1>13. EntryOK(host[s], p)'
  <2>1. InHand(host[s], p)'
    BY <1>5, <1>s, <1>12 DEF InHand, EntryOK, MyEntry
  <2>2. QED
    BY <1>s, <1>2, <1>5, <1>12, <2>1 DEF EntryOK, MyEntry
<1>14. SessOK(s)'
  <2>1. serverclock[p] \in Int /\ serverclock[p] # None
    BY NoneAssumption DEF Inv, SInv, ServerTypeOK
  <2>2. QED
    BY <1>s, <1>2, <1>5, <1>6, <1>12, <2>1 DEF SessOK, MyEntry, MyFile, Opening
<1>15. ClientPart'
  <2>1. Local(s, p)
    BY <1>5 DEF Local, CacheSame
  <2>2. QED
    BY <1>s, <1>11, <1>13, <1>14, <2>1, LocalKeeps DEF FInv
<1>16. AllText'
  BY <1>2, <1>5, TextContent DEF FInv, AllText, SessSame, WorkSame
<1>17. QED
  BY <1>10, <1>15, <1>16 DEF FInv

\* createEmptyFile of a path the server does not have publishes nothing new.
LEMMA CreateKeeps ==
    ASSUME Inv, FInv, NEW p \in Path, CreateEmptyFile(p),
           \A t \in Sess : pc[t] = "putting" => SessSame(t)
    PROVE  Steady /\ ServerPart' /\ UNCHANGED wbuf /\ \A h \in Inode : data'[h] \in Text
<1>1. /\ UNCHANGED <<up, serverclock, temp, wpc, wsess, wpath, wbuf, wino, wn, wreg>>
  BY DEF CreateEmptyFile, workVars
<1>2. CASE file[p] # None
  <2>1. UNCHANGED <<serverVars>>
    BY <1>1, <1>2 DEF CreateEmptyFile, serverVars, diskVars, workVars
  <2>2. QED
    BY <2>1, ServerKeeps, SteadyUnchanged
       DEF FInv, AllText, Inv, SessSame, serverVars, diskVars, workVars
<1>3. CASE file[p] = None
  <2>1. PICK i \in FreeInode : /\ file' = [file EXCEPT ![p] = i]
                               /\ data' = [data EXCEPT ![i] = <<>>]
                               /\ current' = [current EXCEPT ![p] = <<>>]
    BY <1>3 DEF CreateEmptyFile
  <2>2. /\ i \in Inode /\ i # None
        /\ \A q \in Path : file[q] # i /\ temp[q] # i
    BY ServerAssumption DEF FreeInode
  <2>3. current[p] = <<>>
    BY <1>3 DEF FInv, ServerPart, Settled
  <2>4. /\ file'[p] = i /\ data'[i] = <<>> /\ UNCHANGED current
        /\ \A q \in Path : q # p => file'[q] = file[q]
        /\ \A h \in Inode : h # i => data'[h] = data[h]
    BY <2>1, <2>2, <2>3 DEF Inv, SInv, ServerTypeOK
  <2>5. Steady
    BY <1>1, <2>2, <2>4 DEF Steady, Fresh, Renamed, Inv, SInv, ServerTypeOK
  <2>6. \A q \in Path : /\ file[q] # None => file'[q] = file[q] /\ data'[file[q]] = data[file[q]]
                        /\ temp[q] # None => data'[temp[q]] = data[temp[q]]
    BY <1>3, <2>2, <2>4 DEF Inv, SInv, ServerTypeOK
  <2>7. ASSUME NEW w \in Worker PROVE Served(w)'
    BY <1>1 DEF Served, FInv, ServerPart, SessSame
  <2>8. ASSUME NEW w \in Worker PROVE Reached(w)'
    <3>1. CASE wpc[w] = "free"
      BY <1>1, <3>1 DEF Reached
    <3>2. CASE wpc[w] # "free"
      <4>1. wpath[w] \in Path /\ Reached(w)
        BY <3>2 DEF Inv, SInv, WorkPath, FInv, ServerPart
      <4>2. QED
        BY <1>1, <2>4, <2>6, <4>1 DEF Reached
    <3>3. QED
      BY <3>1, <3>2
  <2>9. ASSUME NEW q \in Path PROVE Settled(q)'
    <3>1. Settled(q) /\ (AtRest(q)' <=> AtRest(q)) /\ \A w \in Worker : Renamed(w, q)' <=> Renamed(w, q)
      BY <1>1 DEF FInv, ServerPart, AtRest, Renamed
    <3>2. CASE q = p
      BY <1>1, <2>2, <2>3, <2>4, <3>1, <3>2 DEF Settled
    <3>3. CASE q # p
      BY <1>1, <2>4, <2>6, <3>1, <3>3 DEF Settled
    <3>4. QED
      BY <3>2, <3>3
  <2>10. \A h \in Inode : data'[h] \in Text
    BY <2>4, TextContent DEF FInv, AllText
  <2>11. QED
    BY <1>1, <2>5, <2>7, <2>8, <2>9, <2>10 DEF FInv, ServerPart
<1>4. QED
  BY <1>2, <1>3

\* create on the server, with the answer to its caller.
LEMMA FreshCreateOnServer ==
    ASSUME Inv, SInv', Alone, FInv, NEW s \in Sess, CreateOnServer(s)
    PROVE  FInv'
<1>p. PICK p \in Path : p = path[s]
  BY DEF CreateOnServer, Inv, CInv, SessPath
<1> USE <1>p
<1>1. RpcNext["creating"] = "fetching"
  BY DEF RpcNext, RpcPC
<1>2. /\ \A t \in Sess : t # s => SessSame(t)
      /\ pc[s] = "creating" /\ pc'[s] = "fetching" /\ path'[s] = p /\ op'[s] = op[s]
      /\ snap'[s] = snap[s] /\ buf'[s] = <<>>
      /\ UNCHANGED <<status, cacheFile>>
  BY <1>1 DEF CreateOnServer, Answer, Goto, SessSame, Inv, CInv, ClientTypeOK
<1>3. Steady /\ ServerPart' /\ UNCHANGED wbuf /\ \A h \in Inode : data'[h] \in Text
  <2>1. \A t \in Sess : pc[t] = "putting" => SessSame(t)
    BY <1>2
  <2>2. QED
    BY <2>1, CreateKeeps DEF CreateOnServer
<1>4. CacheSame(host[s], p) /\ Local(s, p)
  BY <1>2 DEF CacheSame, Local
<1>5. EntryOK(host[s], p)'
  BY <1>2, <1>3, <1>4, EntryLeft
<1>6. SessOK(s)'
  <2>1. /\ snap[s] = CacheObject(host[s], p)
        /\ op[s] = "create" => MyEntry(s) = None
    BY <1>2 DEF FInv, ClientPart, SessOK, Opening
  <2>2. QED
    BY <1>2, <2>1 DEF SessOK, CacheObject, MyEntry, Opening
<1>7. ClientPart'
  BY <1>2, <1>3, <1>4, <1>5, <1>6, LocalKeeps DEF FInv
<1>8. AllText'
  BY <1>2, <1>3, TextContent DEF FInv, AllText, SessSame
<1>9. QED
  BY <1>3, <1>7, <1>8 DEF FInv

-----------------------------------------------------------------------------
(* The composition                                                         *)

\* At the start nothing is cached, published or under way.
LEMMA InitFresh == Init => FInv
<1> SUFFICES ASSUME Init PROVE FInv
  OBVIOUS
<1> USE DEF Init, ServerInit, ClientInit
<1>1. AllText
  BY TextContent DEF AllText
<1>2. ASSUME NEW w \in Worker PROVE Served(w) /\ Reached(w)
  BY DEF Served, Reached
<1>3. ASSUME NEW p \in Path PROVE Settled(p)
  BY DEF Settled
<1>4. ASSUME NEW k \in Client, NEW p \in Path PROVE EntryOK(k, p)
  BY DEF EntryOK
<1>5. ASSUME NEW s \in Sess PROVE SessOK(s)
  BY DEF SessOK, Opening
<1>6. QED
  BY <1>1, <1>2, <1>3, <1>4, <1>5 DEF FInv, ServerPart, ClientPart

\* Every step of the applications and of the client code keeps the invariant.
LEMMA ClientFresh ==
    ASSUME Env \subseteq {"ccrash"}, Alone, Inv, FInv, NEW s \in Sess,
           \/ Open(s) \/ LookupNegative(s) \/ AppWrite(s) \/ AppClose(s) \/ AppUnlink(s)
           \/ ClientStep(s)
    PROVE  FInv'
<1>1. CASE Open(s)
  BY <1>1, FreshOpen DEF Open
<1>2. CASE LookupNegative(s)
  BY <1>2, FreshCreateNext DEF LookupNegative
<1>3. CASE AppWrite(s)
  <2>1. PICK off \in 0 .. MaxLen - 1, b \in Byte :
           off <= Len(MyFile(s)) /\ Write(s, off, b) /\ UNCHANGED serverVars
    BY <1>3 DEF AppWrite
  <2>2. MyFile(s) \in Seq(Byte)
    BY <2>1, DirtyCopy DEF Write, Text
  <2>3. off \in 0 .. Len(MyFile(s))
    BY <2>1, <2>2, LenProperties, ClientAssumption
  <2>4. QED
    BY <2>1, <2>3, FreshWrite
<1>4. CASE AppClose(s)
  BY <1>4, FreshUpload DEF AppClose, Flush
<1>5. CASE AppUnlink(s)
  BY <1>5 DEF AppUnlink
<1>6. CASE Create(s)
  BY <1>6, FreshCreate DEF Create
<1>7. CASE OpenCached(s)
  BY <1>7, FreshOpenCached DEF OpenCached
<1>8. CASE Fetch(s)
  BY <1>8, FreshFetch DEF Fetch
<1>9. CASE Commit(s)
  BY <1>9, FreshCommit DEF Commit
<1>10. CASE PutReturns(s)
  BY <1>10, FreshDone DEF PutReturns
<1>11. CASE AppRelease(s)
  BY <1>11, FreshUpload DEF AppRelease, Release
<1>12. QED
  BY <1>1, <1>2, <1>3, <1>4, <1>5, <1>6, <1>7, <1>8, <1>9, <1>10, <1>11 DEF ClientStep

\* Every handler of the server keeps it.
LEMMA HandlerFresh ==
    ASSUME Env \subseteq {"ccrash"}, Alone, Inv, SInv', Sealed, FInv,
           (\E s \in Sess : ServerStep(s)) \/ (\E w \in Worker : PutStep(w))
    PROVE  FInv'
<1>1. ASSUME NEW s \in Sess, GetFileAttributes(s) PROVE FInv'
  BY <1>1, FreshAttributes DEF GetFileAttributes
<1>2. ASSUME NEW s \in Sess, GetFileContents(s) PROVE FInv'
  <2>1. path[s] \in Path /\ pc[s] = "fetching"
    BY <1>2 DEF GetFileContents, Inv, CInv, SessPath
  <2>2. CASE file[path[s]] = None
    BY <1>2, <2>1, <2>2, FreshReturn DEF GetFileContents, ContentsReply
  <2>3. CASE file[path[s]] # None
    <3>1. ContentsReply(path[s]) = data[file[path[s]]]
      BY <2>3 DEF ContentsReply
    <3>2. data[file[path[s]]] # None
      BY <2>1, <2>3, BlockAssumption DEF Inv, SInv, ServerTypeOK
    <3>3. QED
      BY <1>2, <2>3, <3>1, <3>2, FreshContents DEF GetFileContents
  <2>4. QED
    BY <2>2, <2>3
<1>3. ASSUME NEW s \in Sess, RemoveFile(s) \/ RemoveFileEnd(s) PROVE FALSE
  BY <1>3 DEF RemoveFile, RemoveFileEnd, FInv, ClientPart, SessOK
<1>4. ASSUME NEW s \in Sess, PutFileContents(s) PROVE FInv'
  BY <1>4, FreshStart DEF PutFileContents
<1>5. ASSUME NEW w \in Worker, PutStep(w) PROVE FInv'
  <2>1. ~ PutCancelled(w)
    BY ServerAssumption DEF PutCancelled, FInv, ServerPart, Served
  <2>2. QED
    BY <1>5, <2>1, FreshChunk, FreshEnd, FreshRename, FreshLoad, FreshStore, FreshReply DEF PutStep
<1>6. QED
  BY <1>1, <1>2, <1>3, <1>4, <1>5, FreshCreateOnServer DEF ServerStep

\* Every step keeps it.
LEMMA NextFresh ==
    ASSUME Env \subseteq {"ccrash"}, Alone, Inv, Inv', Sealed, FInv, [Next]_vars
    PROVE  FInv'
<1>1. CASE UNCHANGED vars
  <2>1. Steady /\ ServerPart'
    BY <1>1, SteadyUnchanged, ServerKeeps
       DEF FInv, Inv, vars, serverVars, workVars, diskVars, clientVars, sessVars
  <2>2. QED
    BY <1>1, <2>1, ServerMove DEF FInv, AllText, Inv, vars, serverVars, workVars, diskVars
<1>2. ASSUME NEW s \in Sess, Unavailable(s) \/ Timeout(s) PROVE FALSE
  BY <1>2 DEF Unavailable, Timeout, FInv, ServerPart
<1>3. ASSUME NEW w \in Worker, PutIoError(w) PROVE FALSE
  BY <1>3 DEF PutIoError
<1>4. ASSUME NEW k \in Client, CrashClient(k) PROVE FInv'
  BY <1>4, FreshCrash DEF CrashClient
<1>5. ASSUME \/ \E k \in Client : AppTruncate(k)
             \/ CrashServer \/ RestartServer
      PROVE  FALSE
  BY <1>5 DEF AppTruncate, CrashServer, RestartServer, Restart, FInv, ServerPart
<1>6. CASE \E s \in Sess :
              \/ Open(s) \/ LookupNegative(s) \/ AppWrite(s) \/ AppClose(s) \/ AppUnlink(s)
              \/ ClientStep(s)
  BY <1>6, ClientFresh
<1>7. CASE (\E s \in Sess : ServerStep(s)) \/ (\E w \in Worker : PutStep(w))
  BY <1>7, HandlerFresh DEF Inv
<1>8. QED
  BY <1>1, <1>2, <1>3, <1>4, <1>5, <1>6, <1>7 DEF Next

\* The invariant holds in every state of such a system.
LEMMA AlwaysFresh ==
    ASSUME Env \subseteq {"ccrash"}, Alone
    PROVE  Spec => [](Inv /\ Sealed /\ FInv)
<1>1. "overlap" \notin Env
  OBVIOUS
<1>2. Init => Inv /\ Sealed /\ FInv
  BY InitInv, SealedInit, InitFresh DEF Init
<1>3. Inv /\ Sealed /\ FInv /\ [Next]_vars => (Inv /\ Sealed /\ FInv)'
  BY <1>1, NextInv, NextSealed, NextFresh
<1>4. QED
  BY <1>2, <1>3, PTL DEF Spec

\* Cache staleness: with one session per client, whatever the number of
\* clients, files and handler threads and whenever clients crash, a copy that
\* isCacheValid accepts is the file as it is on the server.
THEOREM CacheAlwaysFresh ==
    ASSUME Env \subseteq {"ccrash"}, Alone
    PROVE  Spec => []CacheFresh
<1>1. Inv /\ FInv => CacheFresh
  <2> SUFFICES ASSUME Inv, FInv, NEW k \in Client, NEW p \in Path,
                      status[k][p] # None, ~ status[k][p].dirty,
                      IsCacheValid(status[k][p], serverclock[p]), AtRest(p), file[p] # None
               PROVE  cacheFile[k][p] = data[file[p]]
    BY DEF CacheFresh
  <2>1. EntryOK(k, p) /\ Settled(p)
    BY DEF FInv, ClientPart, ServerPart
  <2>2. Tagged(cacheFile[k][p], status[k][p].clock, p)
    BY <2>1 DEF EntryOK
  <2>3. status[k][p].clock \in Int /\ serverclock[p] \in Int
    BY DEF Inv, CInv, SInv, ClientTypeOK, ServerTypeOK, Entry
  <2>4. Fresh(cacheFile[k][p], p)
    BY <2>2, <2>3 DEF Tagged, IsCacheValid
  <2>5. QED
    BY <2>1, <2>4 DEF Fresh, Settled, AtRest, Renamed
<1>2. QED
  BY <1>1, AlwaysFresh, PTL

\* Last closer wins: between uploads the server publishes exactly what the last
\* finished putFileContents was sent.
THEOREM LastCloserAlwaysWins ==
    ASSUME Env \subseteq {"ccrash"}, Alone
    PROVE  Spec => []LastCloserWins
<1>1. Inv /\ FInv => LastCloserWins
  BY DEF LastCloserWins, FInv, ServerPart, Settled, AtRest, Renamed
<1>2. QED
  BY <1>1, AlwaysFresh, PTL

\* Flush on close: an upload that returned was answered, and is published until
\* a later one raises the clock.
THEOREM CloseAlwaysDelivered ==
    ASSUME Env \subseteq {"ccrash"}, Alone
    PROVE  Spec => []CloseDelivered
<1>1. Inv /\ FInv => CloseDelivered
  BY DEF CloseDelivered, FInv, ClientPart, SessOK
<1>2. QED
  BY <1>1, AlwaysFresh, PTL
=============================================================================
