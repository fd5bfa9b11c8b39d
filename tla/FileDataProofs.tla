--------------------------- MODULE FileDataProofs ---------------------------
(* What the operators on file contents return, for every set of blocks.    *)
EXTENDS FileData, SequenceTheorems, FiniteSetTheorems, TLAPS

\* A function on 1 .. n with blocks as values is a file's contents.
LEMMA ContentIntro ==
    ASSUME NEW n \in Nat, NEW f \in [1 .. n -> Block]
    PROVE  f \in Content /\ Len(f) = n
BY DEF Content

\* pwrite at any offset yields contents: one block is written, a gap is zeros.
LEMMA PWriteType ==
    ASSUME NEW c \in Content, NEW off \in Nat, NEW b \in Block
    PROVE  PWrite(c, off, b) \in Content
<1> DEFINE n == IF off < Len(c) THEN Len(c) ELSE off + 1
<1>1. Len(c) \in Nat /\ \A i \in 1 .. Len(c) : c[i] \in Block
  BY LenProperties, ElementOfSeq DEF Content
<1>2. n \in Nat
  BY <1>1
<1>3. PWrite(c, off, b) \in [1 .. n -> Block]
  BY <1>1 DEF PWrite, Block
<1> HIDE DEF n
<1>4. QED
  BY <1>2, <1>3, ContentIntro

\* truncate to any length yields contents of that length.
LEMMA ResizeType ==
    ASSUME NEW c \in Content, NEW n \in Nat
    PROVE  Resize(c, n) \in Content /\ Len(Resize(c, n)) = n
<1>1. Len(c) \in Nat /\ \A i \in 1 .. Len(c) : c[i] \in Block
  BY LenProperties, ElementOfSeq DEF Content
<1>2. Resize(c, n) \in [1 .. n -> Block]
  BY <1>1 DEF Resize, Block
<1>3. QED
  BY <1>2, ContentIntro

\* What fputs writes of fetched contents is contents, no longer than them.
LEMMA CstrType ==
    ASSUME NEW c \in Content
    PROVE  Cstr(c) \in Content /\ Len(Cstr(c)) <= Len(c)
<1> DEFINE NulFree == {i \in 1 .. Len(c) : \A j \in 1 .. i : c[j] # NUL}
           n == Cardinality(NulFree)
<1>1. Len(c) \in Nat
  BY LenProperties DEF Content
<1>2. IsFiniteSet(1 .. Len(c)) /\ Cardinality(1 .. Len(c)) = Len(c)
  <2>1. ASSUME NEW b \in Nat
        PROVE  IsFiniteSet(1 .. b) /\ Cardinality(1 .. b) = IF 1 > b THEN 0 ELSE b - 1 + 1
    BY FS_Interval
  <2>2. QED
    BY <1>1, <2>1
<1>3. IsFiniteSet(NulFree) /\ n <= Len(c)
  BY <1>2, FS_Subset
<1>4. n \in Nat
  BY <1>3, FS_CardinalityType
<1>5. Cstr(c) = SubSeq(c, 1, n)
  BY DEF Cstr
<1> HIDE DEF n
<1>6. SubSeq(c, 1, n) \in Content /\ Len(SubSeq(c, 1, n)) = n
  BY <1>1, <1>3, <1>4 DEF Content
<1>7. QED
  BY <1>3, <1>4, <1>5, <1>6

\* f is c with block b at off, in the place of another or behind the last one.
Written(f, c, off, b) ==
    /\ f \in Seq(Byte)
    /\ Len(f) = IF off < Len(c) THEN Len(c) ELSE Len(c) + 1
    /\ \A i \in 1 .. Len(f) : f[i] = IF i = off + 1 THEN b ELSE c[i]

\* pwrite inside a file or at its end leaves no hole: it changes one block or
\* adds one.
LEMMA PWriteInside ==
    ASSUME NEW c \in Seq(Byte), NEW off \in 0 .. Len(c), NEW b \in Byte
    PROVE  Written(PWrite(c, off, b), c, off, b)
<1> DEFINE n == IF off < Len(c) THEN Len(c) ELSE off + 1
           f == PWrite(c, off, b)
<1>1. Len(c) \in Nat /\ \A i \in 1 .. Len(c) : c[i] \in Byte
  BY LenProperties, ElementOfSeq
<1>2. n \in Nat /\ n = IF off < Len(c) THEN Len(c) ELSE Len(c) + 1
  BY <1>1
<1>3. \A i \in 1 .. n : i = off + 1 \/ i <= Len(c)
  BY <1>1
<1>4. f = [i \in 1 .. n |-> IF i = off + 1 THEN b ELSE IF i <= Len(c) THEN c[i] ELSE NUL]
  BY DEF PWrite
<1>5. \A i \in 1 .. n : f[i] = IF i = off + 1 THEN b ELSE c[i]
  BY <1>3, <1>4
<1>6. f \in [1 .. n -> Byte]
  BY <1>1, <1>3, <1>4
<1> HIDE DEF n, f
<1>7. f \in Seq(Byte) /\ Len(f) = n
  BY <1>2, <1>6
<1>8. QED
  BY <1>2, <1>5, <1>7 DEF f, Written

\* fputs writes all of a file that holds no zero byte.
LEMMA CstrWhole ==
    ASSUME NEW c \in Seq(Byte)
    PROVE  Cstr(c) = c
<1> DEFINE NulFree == {i \in 1 .. Len(c) : \A j \in 1 .. i : c[j] # NUL}
<1>1. Len(c) \in Nat /\ \A i \in 1 .. Len(c) : c[i] # NUL
  BY LenProperties, ElementOfSeq, BlockAssumption
<1>2. NulFree = 1 .. Len(c)
  BY <1>1
<1>3. Cardinality(1 .. Len(c)) = Len(c)
  <2>1. ASSUME NEW b \in Nat
        PROVE  Cardinality(1 .. b) = IF 1 > b THEN 0 ELSE b - 1 + 1
    BY FS_Interval
  <2>2. QED
    BY <1>1, <2>1
<1>4. Cstr(c) = SubSeq(c, 1, Cardinality(NulFree))
  BY DEF Cstr
<1>5. SubSeq(c, 1, Len(c)) = c
  BY SubSeqFull
<1>6. QED
  BY <1>2, <1>3, <1>4, <1>5
=============================================================================
