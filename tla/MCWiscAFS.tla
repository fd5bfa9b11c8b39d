----------------------------- MODULE MCWiscAFS ------------------------------
(* Small instances of WiscAFS for TLC.                                     *)
EXTENDS WiscAFS, TLC

CONSTANTS k1, k2, s1, s2, i1, i2, i3

\* One session on each of two clients: no two handles on one client.
OnePerClient == s1 :> k1 @@ s2 :> k2

\* Both sessions on the same client.
SameClient == s1 :> k1 @@ s2 :> k1

\* An uninitialised clock below, and far above, every clock of the server.
Uninit == {0, 9}

\* An uninitialised clock that happens to make every copy stale.
Stale == {-1}

Inodes == Permutations({i1, i2, i3} \cap Inode)

\* With SameClient the sessions can be exchanged as well.
SessAndInodes == Permutations(Sess) \cup Inodes
=============================================================================
