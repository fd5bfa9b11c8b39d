---------------------------- MODULE ConfigProofs ----------------------------
(***************************************************************************)
(* What loading a configuration yields, for every file.                    *)
(*                                                                         *)
(* ini_parse folds conf_option_handler over the lines.  That the fold is   *)
(* the handler applied line by line, and what holds after each line, are   *)
(* shown by induction over the lines: if a statement failed for some       *)
(* number of lines, it would fail for a least one.                         *)
(***************************************************************************)
EXTENDS ErrInj, SequenceTheorems, FiniteSetTheorems, WellFoundedInduction, TLAPS

\* A set of natural numbers has a least one.
LEMMA LeastNumber ==
    ASSUME NEW T, T \subseteq Nat, T # {}
    PROVE  \E n \in T : \A m \in T : n <= m
<1> DEFINE R == OpToRel(<, Nat)
<1>1. IsWellFoundedOn(R, Nat)
  BY NatLessThanWellFounded
<1>2. \A x, y \in Nat : <<x, y>> \in R <=> x < y
  BY DEF OpToRel
<1> HIDE DEF R
<1>3. PICK x \in T : \A y \in T : ~ (<<y, x>> \in R)
  BY <1>1, WFMin
<1>4. \A y \in T : x \in Nat /\ y \in Nat /\ ~ (y < x)
  BY <1>2, <1>3
<1>5. \A y \in T : x <= y
  BY <1>4
<1> QED
  BY <1>5

-----------------------------------------------------------------------------
(* The fold                                                                *)

LEMMA MaxIs ==
    ASSUME NEW s, s \subseteq Int, NEW n \in s, \A y \in s : y <= n
    PROVE  Max(s) = n
<1>1. \A x \in s : (\A y \in s : x >= y) => x = n
  OBVIOUS
<1>2. n \in s /\ \A y \in s : n >= y
  OBVIOUS
<1> QED
  BY <1>1, <1>2 DEF Max

\* g gives, for each set of the first n line numbers, what the handler makes
\* of those lines.
Folds(g, f, n) ==
    /\ g = [s \in SUBSET (1 .. n) |->
               IF s = {} THEN <<>> ELSE conf_option_handler(g[s \ {Max(s)}], f[Max(s)])]
    /\ \A s \in SUBSET (1 .. n) : s # {} => Max(s) \in s

LEMMA FoldsNone == ASSUME NEW f PROVE \E g : Folds(g, f, 0)
<1>1. \A s \in SUBSET (1 .. 0) : s = {}
  OBVIOUS
<1>2. Folds([s \in SUBSET (1 .. 0) |-> <<>>], f, 0)
  BY <1>1 DEF Folds
<1> QED
  BY <1>2

LEMMA FoldsOneMore ==
    ASSUME NEW f, NEW m \in Nat, NEW g, Folds(g, f, m)
    PROVE  \E k : Folds(k, f, m + 1)
<1> DEFINE n == m + 1
           k == [s \in SUBSET (1 .. n) |->
                    IF n \in s THEN conf_option_handler(g[s \ {n}], f[n]) ELSE g[s]]
<1>0. SUFFICES Folds(k, f, n)
  OBVIOUS
<1> DEFINE K(s) == IF s = {} THEN <<>> ELSE conf_option_handler(k[s \ {Max(s)}], f[Max(s)])
<1>1. ASSUME NEW s \in SUBSET (1 .. n)
      PROVE  k[s] = K(s) /\ (s # {} => Max(s) \in s)
  <2>1. CASE n \in s
    <3>1. Max(s) = n
      <4>1. s \subseteq Int /\ \A y \in s : y <= n
        OBVIOUS
      <4> QED
        BY <2>1, <4>1, MaxIs
    <3>2. s \ {n} \in SUBSET (1 .. n) /\ n \notin s \ {n}
      OBVIOUS
    <3>3. k[s \ {n}] = g[s \ {n}]
      BY <3>2
    <3> QED
      BY <2>1, <3>1, <3>3
  <2>2. CASE n \notin s
    <3>1. s \in SUBSET (1 .. m)
      BY <2>2
    <3>2. k[s] = g[s]
      BY <2>2
    <3>3. CASE s = {}
      BY <3>1, <3>2, <3>3 DEF Folds
    <3>4. CASE s # {}
      <4>1. Max(s) \in s /\ g[s] = conf_option_handler(g[s \ {Max(s)}], f[Max(s)])
        BY <3>1, <3>4 DEF Folds
      <4>2. k[s \ {Max(s)}] = g[s \ {Max(s)}]
        <5>1. s \ {Max(s)} \in SUBSET (1 .. n) /\ n \notin s \ {Max(s)}
          BY <2>2
        <5> QED
          BY <5>1
      <4> QED
        BY <3>2, <3>4, <4>1, <4>2
    <3> QED
      BY <3>3, <3>4
  <2> QED
    BY <2>1, <2>2
<1>2. k = [s \in SUBSET (1 .. n) |-> k[s]]
  OBVIOUS
<1> HIDE DEF k
<1>3. k = [s \in SUBSET (1 .. n) |-> K(s)]
  BY <1>1, <1>2
<1> QED
  BY <1>1, <1>3 DEF Folds

LEMMA FoldsExists ==
    ASSUME NEW f, NEW n \in Nat
    PROVE  \E g : Folds(g, f, n)
<1> DEFINE T == {m \in Nat : ~ \E g : Folds(g, f, m)}
<1>1. SUFFICES ASSUME T # {} PROVE FALSE
  OBVIOUS
<1>2. PICK m \in T : \A j \in T : m <= j
  BY <1>1, LeastNumber
<1>3. m # 0
  BY FoldsNone
<1>4. m - 1 \in Nat /\ m - 1 \notin T /\ (m - 1) + 1 = m
  BY <1>2, <1>3
<1>5. PICK g : Folds(g, f, m - 1)
  BY <1>4
<1>6. \E k : Folds(k, f, (m - 1) + 1)
  BY <1>4, <1>5, FoldsOneMore
<1> QED
  BY <1>4, <1>6

\* r holds the queue after each line: the handler gets the lines one by one.
Reads(r, f) ==
    /\ r[0] = <<>>
    /\ \A n \in 1 .. Len(f) : r[n] = conf_option_handler(r[n - 1], f[n])

LEMMA ParseReads ==
    ASSUME NEW f \in ConfigFile
    PROVE  \E r : Reads(r, f) /\ ini_parse[f] = r[Len(f)]
<1> DEFINE N == Len(f)
<1>1. f \in Seq(Line) /\ N \in Nat /\ DOMAIN f = 1 .. N
  BY ErrInjAssumption DEF ErrInjAssumption
<1>2. ini_parse[f] = FoldLeft(conf_option_handler, <<>>, f)
  BY DEF ini_parse
<1>3. PICK g : /\ g = [s \in SUBSET (1 .. N) |->
                          IF s = {} THEN <<>> ELSE conf_option_handler(g[s \ {Max(s)}], f[Max(s)])]
               /\ ini_parse[f] = g[1 .. N]
  <2>1. \E g : g = [s \in SUBSET (DOMAIN f) |->
                       IF s = {} THEN <<>> ELSE conf_option_handler(g[s \ {Max(s)}], f[Max(s)])]
    <3>1. PICK g : Folds(g, f, N)
      BY <1>1, FoldsExists
    <3>2. g = [s \in SUBSET (1 .. N) |->
                  IF s = {} THEN <<>> ELSE conf_option_handler(g[s \ {Max(s)}], f[Max(s)])]
      BY <3>1 DEF Folds
    <3> QED
      BY <1>1, <3>2
  <2> DEFINE G == CHOOSE g : g = [s \in SUBSET (DOMAIN f) |->
                       IF s = {} THEN <<>> ELSE conf_option_handler(g[s \ {Max(s)}], f[Max(s)])]
  <2>2. G = [s \in SUBSET (DOMAIN f) |->
                IF s = {} THEN <<>> ELSE conf_option_handler(G[s \ {Max(s)}], f[Max(s)])]
    BY <2>1
  <2>3. FoldLeft(conf_option_handler, <<>>, f) = G[DOMAIN f]
    BY DEF FoldLeft, MapThenFoldSet
  <2> HIDE DEF G
  <2> QED
    BY <1>1, <1>2, <2>2, <2>3
<1> DEFINE r == [n \in 0 .. N |-> g[1 .. n]]
<1>4. r[0] = <<>>
  <2>1. 1 .. 0 = {} /\ {} \in SUBSET (1 .. N) /\ 0 \in 0 .. N
    BY <1>1
  <2> QED
    BY <1>3, <2>1
<1>5. ASSUME NEW n \in 1 .. N PROVE r[n] = conf_option_handler(r[n - 1], f[n])
  <2>0. n \in Nat /\ 1 <= n /\ n <= N
    BY <1>1
  <2>1. Max(1 .. n) = n
    <3>1. n \in 1 .. n /\ 1 .. n \subseteq Int /\ \A y \in 1 .. n : y <= n
      BY <2>0
    <3> QED
      BY <3>1, MaxIs
  <2>2. (1 .. n) \ {n} = 1 .. n - 1 /\ 1 .. n # {} /\ 1 .. n \in SUBSET (1 .. N)
    <3>1. \A i : i \in (1 .. n) \ {n} <=> i \in 1 .. n - 1
      BY <2>0
    <3>2. \A i \in 1 .. n : i \in 1 .. N
      BY <1>1, <2>0
    <3>3. n \in 1 .. n
      BY <2>0
    <3> QED
      BY <3>1, <3>2, <3>3, Zenon
  <2>3. g[1 .. n] = conf_option_handler(g[1 .. n - 1], f[n])
    BY <1>3, <2>1, <2>2
  <2>4. n \in 0 .. N /\ n - 1 \in 0 .. N
    BY <1>1
  <2> QED
    BY <2>3, <2>4
<1>6. r[N] = g[1 .. N]
  BY <1>1
<1> HIDE DEF r
<1> QED
  BY <1>3, <1>4, <1>5, <1>6 DEF Reads

-----------------------------------------------------------------------------
(* The handler                                                             *)

LEMMA UnsignedFacts == ASSUME NEW n \in Int PROVE Unsigned(n) \in 0 .. UintMod - 1
<1>1. UintMod \in Nat /\ UintMod > 0
  BY ErrInjAssumption DEF ErrInjAssumption
<1> QED
  BY <1>1 DEF Unsigned

LEMMA NewEntryFacts ==
    ASSUME NEW type \in ErrType
    PROVE  NewEntry(type) \in ErrConf /\ NewEntry(type).type = type /\ NewEntry(type).probability = 0
<1>1. 0 \in 0 .. UintMod - 1
  BY ErrInjAssumption DEF ErrInjAssumption
<1> QED
  BY <1>1 DEF NewEntry, ErrConf

\* The search for the entry of a section.
At(q, s) == SelectInSeq(q, LAMBDA e : e.type = s)

LEMMA AtFacts ==
    ASSUME NEW q \in Seq(ErrConf), NEW s
    PROVE  \/ At(q, s) = 0 /\ \A i \in 1 .. Len(q) : q[i].type # s
           \/ At(q, s) \in 1 .. Len(q) /\ q[At(q, s)].type = s
<1> DEFINE I == {i \in 1 .. Len(q) : q[i].type = s}
<1>1. At(q, s) = IF I # {} THEN Min(I) ELSE 0
  BY DEF At, SelectInSeq
<1>2. I # {} => Min(I) \in I
  <2> SUFFICES ASSUME I # {} PROVE Min(I) \in I
    OBVIOUS
  <2>1. I \subseteq Nat
    OBVIOUS
  <2>2. PICK n \in I : \A m \in I : n <= m
    BY <2>1, LeastNumber
  <2> HIDE DEF I
  <2> QED
    BY <2>2 DEF Min
<1> QED
  BY <1>1, <1>2

\* q holds one changed entry, at i: of type s, with probability p.
Changed(new, q, i, s, p) ==
    /\ new \in Seq(ErrConf) /\ Len(new) = Len(q) /\ i \in 1 .. Len(q)
    /\ \A j \in 1 .. Len(q) : j # i => new[j] = q[j]
    /\ new[i].type = s /\ new[i].probability = p

\* The entry at i gets the value of line l.
SetKey(q, i, l) ==
    CASE l.key = "path_regexp" -> [q EXCEPT ![i].path_regexp = l.re]
      [] l.key = "op_regexp" -> [q EXCEPT ![i].op_regexp = l.re]
      [] l.key = "probability" -> [q EXCEPT ![i].probability = Unsigned(l.num)]
      [] OTHER -> q

LEMMA ReplaceEntry ==
    ASSUME NEW q \in Seq(ErrConf), NEW i \in 1 .. Len(q), NEW e \in ErrConf
    PROVE  Changed([q EXCEPT ![i] = e], q, i, e.type, e.probability)
<1>1. [q EXCEPT ![i] = e] \in Seq(ErrConf) /\ Len([q EXCEPT ![i] = e]) = Len(q)
  BY ExceptSeq
<1> QED
  BY <1>1 DEF Changed

LEMMA SetKeyFacts ==
    ASSUME NEW q \in Seq(ErrConf), NEW i \in 1 .. Len(q), NEW l \in Line
    PROVE  Changed(SetKey(q, i, l), q, i, q[i].type,
                   IF l.key = "probability" THEN Unsigned(l.num) ELSE q[i].probability)
<1>1. q[i] \in ErrConf /\ l.num \in Int /\ l.re \in SUBSET Strings
  BY DEF Line
<1>2. CASE l.key = "path_regexp"
  <2> DEFINE e == [q[i] EXCEPT !.path_regexp = l.re]
  <2>1. e \in ErrConf /\ e.type = q[i].type /\ e.probability = q[i].probability
    BY <1>1 DEF ErrConf
  <2>2. SetKey(q, i, l) = [q EXCEPT ![i] = e]
    BY <1>2 DEF SetKey
  <2> QED
    BY <1>2, <2>1, <2>2, ReplaceEntry
<1>3. CASE l.key = "op_regexp"
  <2> DEFINE e == [q[i] EXCEPT !.op_regexp = l.re]
  <2>1. e \in ErrConf /\ e.type = q[i].type /\ e.probability = q[i].probability
    BY <1>1 DEF ErrConf
  <2>2. SetKey(q, i, l) = [q EXCEPT ![i] = e]
    BY <1>3 DEF SetKey
  <2> QED
    BY <1>3, <2>1, <2>2, ReplaceEntry
<1>4. CASE l.key = "probability"
  <2> DEFINE e == [q[i] EXCEPT !.probability = Unsigned(l.num)]
  <2>1. e \in ErrConf /\ e.type = q[i].type /\ e.probability = Unsigned(l.num)
    BY <1>1, UnsignedFacts DEF ErrConf
  <2>2. SetKey(q, i, l) = [q EXCEPT ![i] = e]
    BY <1>4 DEF SetKey
  <2> HIDE DEF e
  <2>3. Changed([q EXCEPT ![i] = e], q, i, e.type, e.probability)
    BY <2>1, ReplaceEntry
  <2> QED
    BY <1>4, <2>1, <2>2, <2>3
<1>5. CASE l.key \notin {"path_regexp", "op_regexp", "probability"}
  <2>1. SetKey(q, i, l) = q /\ l.key # "probability"
    BY <1>5 DEF SetKey
  <2>2. Changed(q, q, i, q[i].type, q[i].probability)
    BY DEF Changed
  <2> QED
    BY <2>1, <2>2
<1> QED
  BY <1>2, <1>3, <1>4, <1>5

\* A line of an unknown section is passed over; one of a known section goes
\* into the entry of its section, which is appended when there is none.
LEMMA HandlerFacts ==
    ASSUME NEW q \in Seq(ErrConf), NEW l \in Line
    PROVE  \/ l.section \notin ErrType /\ conf_option_handler(q, l) = q
           \/ /\ l.section \in ErrType
              /\ \E i \in 1 .. Len(q) :
                    q[i].type = l.section /\ conf_option_handler(q, l) = SetKey(q, i, l)
           \/ /\ l.section \in ErrType
              /\ \A i \in 1 .. Len(q) : q[i].type # l.section
              /\ conf_option_handler(q, l) = SetKey(Append(q, NewEntry(l.section)), Len(q) + 1, l)
<1>1. CASE l.section \notin ErrType
  BY <1>1 DEF conf_option_handler
<1>2. CASE l.section \in ErrType /\ At(q, l.section) # 0
  <2>1. conf_option_handler(q, l) = SetKey(q, At(q, l.section), l)
    BY <1>2 DEF conf_option_handler, SetKey, At
  <2> QED
    BY <1>2, <2>1, AtFacts
<1>3. CASE l.section \in ErrType /\ At(q, l.section) = 0
  <2> DEFINE a == Append(q, NewEntry(l.section))
  <2>1. conf_option_handler(q, l) = SetKey(a, Len(a), l)
    BY <1>3 DEF conf_option_handler, SetKey, At
  <2>2. Len(a) = Len(q) + 1
    BY <1>3, NewEntryFacts, AppendProperties
  <2>3. \A i \in 1 .. Len(q) : q[i].type # l.section
    BY <1>3, AtFacts
  <2> QED
    BY <1>3, <2>1, <2>2, <2>3
<1> QED
  BY <1>1, <1>2, <1>3

\* The last probability that the first n lines give for section s.
LastIn(f, n, s) ==
    LET I == {i \in 1 .. n : f[i].section = s /\ f[i].key = "probability"}
    IN  IF I = {} THEN 0 ELSE Unsigned(f[CHOOSE i \in I : \A j \in I : j <= i].num)

LEMMA LastInNext ==
    ASSUME NEW f, NEW n \in Nat, NEW s
    PROVE  LastIn(f, n + 1, s) =
               IF f[n + 1].section = s /\ f[n + 1].key = "probability"
               THEN Unsigned(f[n + 1].num) ELSE LastIn(f, n, s)
<1> DEFINE I(m) == {i \in 1 .. m : f[i].section = s /\ f[i].key = "probability"}
<1>1. CASE f[n + 1].section = s /\ f[n + 1].key = "probability"
  <2>1. n + 1 \in I(n + 1) /\ I(n + 1) \subseteq Int /\ \A j \in I(n + 1) : j <= n + 1
    BY <1>1
  <2>2. (CHOOSE i \in I(n + 1) : \A j \in I(n + 1) : j <= i) = n + 1
    <3> HIDE DEF I
    <3>1. \A i \in I(n + 1) : (\A j \in I(n + 1) : j <= i) => i = n + 1
      BY <2>1
    <3> QED
      BY <2>1, <3>1
  <2> QED
    BY <1>1, <2>1, <2>2 DEF LastIn
<1>2. CASE ~ (f[n + 1].section = s /\ f[n + 1].key = "probability")
  <2>1. I(n + 1) = I(n)
    <3>1. \A i : i \in 1 .. n + 1 <=> i \in 1 .. n \/ i = n + 1
      OBVIOUS
    <3>2. \A i : i \in I(n + 1) <=> i \in I(n)
      BY <1>2, <3>1, Zenon
    <3> HIDE DEF I
    <3> QED
      BY <3>2, Zenon
  <2> DEFINE V(J) == IF J = {} THEN 0 ELSE Unsigned(f[CHOOSE i \in J : \A j \in J : j <= i].num)
  <2>2. LastIn(f, n + 1, s) = V(I(n + 1)) /\ LastIn(f, n, s) = V(I(n))
    BY DEF LastIn
  <2> HIDE DEF I, V
  <2> QED
    BY <1>2, <2>1, <2>2
<1> QED
  BY <1>1, <1>2

LEMMA LastInNone ==
    ASSUME NEW f, NEW n \in Nat, NEW s, \A i \in 1 .. n : f[i].section # s
    PROVE  LastIn(f, n, s) = 0
<1>1. {i \in 1 .. n : f[i].section = s /\ f[i].key = "probability"} = {}
  OBVIOUS
<1> QED
  BY <1>1 DEF LastIn

\* q is what the first n lines of file f say: one entry for each known section
\* of theirs, with the section's last probability.
Says(q, f, n) ==
    /\ q \in Seq(ErrConf)
    /\ \A i \in 1 .. Len(q) : \E m \in 1 .. n : f[m].section = q[i].type
    /\ \A m \in 1 .. n : f[m].section \in ErrType => \E i \in 1 .. Len(q) : q[i].type = f[m].section
    /\ \A i, j \in 1 .. Len(q) : q[i].type = q[j].type => i = j
    /\ \A i \in 1 .. Len(q) : q[i].probability = LastIn(f, n, q[i].type)

LEMMA SaysNothing == ASSUME NEW f PROVE Says(<<>>, f, 0)
<1>1. <<>> \in Seq(ErrConf) /\ Len(<<>>) = 0
  OBVIOUS
<1> QED
  BY <1>1 DEF Says

\* An entry whose section is known already is changed in its place.
LEMMA SaysChanged ==
    ASSUME NEW f, NEW n \in Nat, NEW q, Says(q, f, n), NEW new, NEW i \in 1 .. Len(q),
           Changed(new, q, i, q[i].type,
                   IF f[n + 1].key = "probability" THEN Unsigned(f[n + 1].num) ELSE q[i].probability),
           f[n + 1].section = q[i].type
    PROVE  Says(new, f, n + 1)
<1> DEFINE s == q[i].type
<1>1. /\ new \in Seq(ErrConf) /\ Len(new) = Len(q)
      /\ \A j \in 1 .. Len(q) : j # i => new[j] = q[j]
      /\ new[i].type = s
      /\ new[i].probability =
             IF f[n + 1].key = "probability" THEN Unsigned(f[n + 1].num) ELSE q[i].probability
  BY DEF Changed
<1>2. \A j \in 1 .. Len(q) : new[j].type = q[j].type
  BY <1>1
<1>3. \A j \in 1 .. Len(q) : \E m \in 1 .. n + 1 : f[m].section = q[j].type
  BY DEF Says
<1>4. \A m \in 1 .. n + 1 : f[m].section \in ErrType => \E j \in 1 .. Len(q) : q[j].type = f[m].section
  <2>1. \A m \in 1 .. n + 1 : m \in 1 .. n \/ m = n + 1
    OBVIOUS
  <2> QED
    BY <2>1 DEF Says
<1>5. ASSUME NEW j \in 1 .. Len(q)
      PROVE  new[j].probability = LastIn(f, n + 1, q[j].type)
  <2>1. q[j].probability = LastIn(f, n, q[j].type)
    BY DEF Says
  <2>2. CASE j = i
    BY <1>1, <2>1, <2>2, LastInNext
  <2>3. CASE j # i
    <3>1. q[j].type # f[n + 1].section
      BY <2>3 DEF Says
    <3>2. new[j] = q[j]
      BY <1>1, <2>3
    <3>3. LastIn(f, n + 1, q[j].type) = LastIn(f, n, q[j].type)
      BY <3>1, LastInNext
    <3> QED
      BY <2>1, <3>2, <3>3
  <2> QED
    BY <2>2, <2>3
<1>6. \A j, k \in 1 .. Len(q) : new[j].type = new[k].type => j = k
  BY <1>2 DEF Says
<1> QED
  BY <1>1, <1>2, <1>3, <1>4, <1>5, <1>6 DEF Says

\* The same for an entry that is appended.
LEMMA SaysAppended ==
    ASSUME NEW f, NEW n \in Nat, NEW q, Says(q, f, n), NEW l \in Line, l = f[n + 1],
           l.section \in ErrType, \A i \in 1 .. Len(q) : q[i].type # l.section
    PROVE  Says(SetKey(Append(q, NewEntry(l.section)), Len(q) + 1, l), f, n + 1)
<1> DEFINE a == Append(q, NewEntry(l.section))
           k == Len(q) + 1
           new == SetKey(a, k, l)
           p == IF l.key = "probability" THEN Unsigned(l.num) ELSE a[k].probability
<1>1. q \in Seq(ErrConf) /\ Len(q) \in Nat
  BY DEF Says
<1>2. /\ a \in Seq(ErrConf) /\ Len(a) = k /\ a[k] = NewEntry(l.section)
      /\ \A j \in 1 .. Len(q) : a[j] = q[j]
  BY <1>1, NewEntryFacts, AppendProperties
<1>3. a[k].type = l.section /\ a[k].probability = 0 /\ k \in 1 .. Len(a)
  BY <1>1, <1>2, NewEntryFacts
<1>4. Changed(new, a, k, a[k].type, p)
  <2> HIDE DEF a, k
  <2> QED
    BY <1>2, <1>3, SetKeyFacts
<1> HIDE DEF a, new
<1>5. /\ new \in Seq(ErrConf) /\ Len(new) = k
      /\ \A j \in 1 .. Len(q) : new[j] = q[j]
      /\ new[k].type = l.section /\ new[k].probability = p
  BY <1>1, <1>2, <1>3, <1>4 DEF Changed
<1>6. \A j \in 1 .. k : j \in 1 .. Len(q) \/ j = k
  BY <1>1
<1>7. \A m \in 1 .. n + 1 : m \in 1 .. n \/ m = n + 1
  OBVIOUS
<1>8. \A j \in 1 .. k : \E m \in 1 .. n + 1 : f[m].section = new[j].type
  <2>1. \A j \in 1 .. Len(q) : \E m \in 1 .. n : f[m].section = q[j].type
    BY DEF Says
  <2>2. n + 1 \in 1 .. n + 1 /\ f[n + 1].section = new[k].type
    BY <1>5
  <2> QED
    BY <1>5, <1>6, <2>1, <2>2
<1>9. \A m \in 1 .. n + 1 : f[m].section \in ErrType => \E j \in 1 .. k : new[j].type = f[m].section
  <2>1. \A m \in 1 .. n : f[m].section \in ErrType => \E j \in 1 .. Len(q) : q[j].type = f[m].section
    BY DEF Says
  <2>2. k \in 1 .. k /\ \A j \in 1 .. Len(q) : j \in 1 .. k
    BY <1>1
  <2> QED
    BY <1>5, <1>7, <2>1, <2>2
<1>10. \A i, j \in 1 .. k : new[i].type = new[j].type => i = j
  <2>1. \A i, j \in 1 .. Len(q) : q[i].type = q[j].type => i = j
    BY DEF Says
  <2> QED
    BY <1>5, <1>6, <2>1
<1>11. ASSUME NEW j \in 1 .. k PROVE new[j].probability = LastIn(f, n + 1, new[j].type)
  <2>1. CASE j \in 1 .. Len(q)
    <3>1. new[j] = q[j] /\ q[j].type # l.section
      BY <1>5, <2>1
    <3>2. LastIn(f, n + 1, q[j].type) = LastIn(f, n, q[j].type)
      BY <3>1, LastInNext
    <3> QED
      BY <2>1, <3>1, <3>2 DEF Says
  <2>2. CASE j = k
    <3>1. \A m \in 1 .. n : f[m].section # l.section
      BY DEF Says
    <3>2. LastIn(f, n, l.section) = 0
      BY <3>1, LastInNone
    <3>3. LastIn(f, n + 1, l.section) = IF l.key = "probability" THEN Unsigned(l.num) ELSE 0
      BY <3>2, LastInNext
    <3> QED
      BY <1>3, <1>5, <2>2, <3>3
  <2> QED
    BY <1>6, <2>1, <2>2
<1>12. Says(new, f, n + 1)
  BY <1>5, <1>8, <1>9, <1>10, <1>11 DEF Says
<1> QED
  BY <1>12 DEF new, a

\* One more line.
LEMMA SaysOneMore ==
    ASSUME NEW f, NEW n \in Nat, f[n + 1] \in Line, NEW q, Says(q, f, n)
    PROVE  Says(conf_option_handler(q, f[n + 1]), f, n + 1)
<1> DEFINE l == f[n + 1]
<1>0. q \in Seq(ErrConf) /\ l \in Line
  BY DEF Says
<1>1. CASE l.section \notin ErrType /\ conf_option_handler(q, l) = q
  <2>1. \A m \in 1 .. n + 1 : m \in 1 .. n \/ m = n + 1
    OBVIOUS
  <2>2. \A i \in 1 .. Len(q) : q[i].type \in ErrType
    <3>1. \A i \in 1 .. Len(q) : q[i] \in ErrConf
      BY <1>0
    <3> QED
      BY <3>1 DEF ErrConf
  <2>3. \A i \in 1 .. Len(q) : LastIn(f, n + 1, q[i].type) = LastIn(f, n, q[i].type)
    BY <1>1, <2>2, LastInNext
  <2>4. \A i \in 1 .. Len(q) : \E m \in 1 .. n + 1 : f[m].section = q[i].type
    <3>1. \A i \in 1 .. Len(q) : \E m \in 1 .. n : f[m].section = q[i].type
      BY DEF Says
    <3>2. \A m \in 1 .. n : m \in 1 .. n + 1
      OBVIOUS
    <3> QED
      BY <3>1, <3>2, Zenon
  <2>5. \A m \in 1 .. n + 1 : f[m].section \in ErrType => \E i \in 1 .. Len(q) : q[i].type = f[m].section
    BY <1>1, <2>1 DEF Says
  <2>6. Says(q, f, n + 1)
    BY <2>3, <2>4, <2>5 DEF Says
  <2> QED
    BY <1>1, <2>6
<1>2. ASSUME NEW i \in 1 .. Len(q), q[i].type = l.section, conf_option_handler(q, l) = SetKey(q, i, l)
      PROVE  Says(conf_option_handler(q, l), f, n + 1)
  <2>1. Changed(SetKey(q, i, l), q, i, q[i].type,
                IF l.key = "probability" THEN Unsigned(l.num) ELSE q[i].probability)
    BY <1>0, SetKeyFacts
  <2>2. PICK new : new = SetKey(q, i, l)
    OBVIOUS
  <2>3. Changed(new, q, i, q[i].type,
                IF f[n + 1].key = "probability" THEN Unsigned(f[n + 1].num) ELSE q[i].probability)
    BY <2>1, <2>2
  <2>4. Says(new, f, n + 1)
    BY <1>2, <2>3, SaysChanged
  <2> QED
    BY <1>2, <2>2, <2>4
<1>3. CASE /\ l.section \in ErrType
           /\ \A i \in 1 .. Len(q) : q[i].type # l.section
           /\ conf_option_handler(q, l) = SetKey(Append(q, NewEntry(l.section)), Len(q) + 1, l)
  BY <1>0, <1>3, SaysAppended
<1> QED
  BY <1>0, <1>1, <1>2, <1>3, HandlerFacts

\* The queue that ini_parse leaves is what the file says.
LEMMA ParseSays ==
    ASSUME NEW f \in ConfigFile
    PROVE  Says(ini_parse[f], f, Len(f))
<1>1. f \in Seq(Line) /\ Len(f) \in Nat
  BY ErrInjAssumption DEF ErrInjAssumption
<1>2. PICK r : Reads(r, f) /\ ini_parse[f] = r[Len(f)]
  BY ParseReads
<1> DEFINE T == {n \in 0 .. Len(f) : ~ Says(r[n], f, n)}
<1>3. SUFFICES ASSUME T # {} PROVE FALSE
  BY <1>1, <1>2
<1>4. PICK n \in T : \A m \in T : n <= m
  <2>1. T \subseteq Nat
    BY <1>1
  <2> QED
    BY <1>3, <2>1, LeastNumber
<1>5. n # 0
  BY <1>2, SaysNothing DEF Reads
<1>6. PICK m \in Nat : n = m + 1 /\ m \in 0 .. Len(f) /\ n \in 1 .. Len(f)
  <2>1. n - 1 \in Nat /\ n = (n - 1) + 1 /\ n - 1 \in 0 .. Len(f) /\ n \in 1 .. Len(f)
    BY <1>1, <1>4, <1>5
  <2> QED
    BY <2>1
<1>7. Says(r[m], f, m)
  BY <1>4, <1>6
<1>8. r[n] = conf_option_handler(r[m], f[m + 1]) /\ f[m + 1] \in Line
  <2>1. n - 1 = m
    BY <1>6
  <2> QED
    BY <1>1, <1>2, <1>6, <2>1 DEF Reads
<1>9. Says(r[n], f, n)
  BY <1>6, <1>7, <1>8, SaysOneMore
<1> QED
  BY <1>9
=============================================================================
