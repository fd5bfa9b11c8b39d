---------------------------- MODULE MCNamespace -----------------------------
(* A directory d with a directory d/c and a file d/x in it, for TLC.       *)
EXTENDS Namespace, TLC

CONSTANTS d, c, x

Tree == d :> Root @@ c :> d @@ x :> d
=============================================================================
