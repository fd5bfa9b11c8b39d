------------------------------ MODULE FileData ------------------------------
(***************************************************************************)
(* What clients and server share: the paths, the sessions that call the    *)
(* server, and file contents.  A file is a sequence of blocks; a block     *)
(* stands for the bytes of one chunk of a transfer (at most CHUNK_SIZE of  *)
(* them).  The block NUL stands for a chunk in which there is a zero byte: *)
(* a hole left by a sparse write, or binary data.                          *)
(***************************************************************************)
EXTENDS Integers, Sequences, FiniteSets

CONSTANTS
    Byte,      \* the blocks an application writes
    NUL,       \* the block that holds a zero byte
    None,      \* no file, no entry, no answer
    Path,      \* the files of the exported directory
    Sess       \* sessions: application file handles at work on the clients

Block == Byte \cup {NUL}

Content == Seq(Block)

ASSUME BlockAssumption == NUL \notin Byte /\ None \notin Content

\* pwrite(fd, b, 1, off): a write past the end leaves a hole of zeros.
PWrite(c, off, b) ==
    [i \in 1 .. (IF off < Len(c) THEN Len(c) ELSE off + 1) |->
        IF i = off + 1 THEN b ELSE IF i <= Len(c) THEN c[i] ELSE NUL]

\* truncate(path, n): cuts the file, or extends it with zeros.
Resize(c, n) == [i \in 1 .. n |-> IF i <= Len(c) THEN c[i] ELSE NUL]

\* fputs(buf.c_str(), fp): a C string ends at its first zero byte.
Cstr(c) ==
    LET NulFree == {i \in 1 .. Len(c) : \A j \in 1 .. i : c[j] # NUL}
    IN  SubSeq(c, 1, Cardinality(NulFree))
=============================================================================
