------------------------------ MODULE MCErrInj ------------------------------
(* A small instance of ErrInj for TLC.                                     *)
EXTENDS ErrInj

Paths == {"conf", "f"}
Ops == {"write", "chmod"}

On(s, k, n, r) == [section |-> s, key |-> k, num |-> n, re |-> r]

\* The configurations: a certain no-op between harmless injections; a no-op for
\* one operation whose probability is given twice (and a section and a key that do
\* not exist); a no-op of probability 0; an error; a negative probability.
Certain == <<On("slowdown", "duration", 5, {}), On("noop", "probability", 2, {}),
             On("kill_caller", "probability", 1, {})>>
Twice   == <<On("noop", "probability", 2, {}), On("reorder", "probability", 2, {}),
             On("noop", "op_regexp", 0, {"chmod"}), On("kill_caller", "color", 0, {}),
             On("noop", "probability", 1, {})>>
Never   == <<On("noop", "probability", 0, {})>>
Errno   == <<On("errno", "path_regexp", 0, {"f"}), On("errno", "probability", 2, {})>>
Minus   == <<On("noop", "probability", -1, {}), On("noop", "op_regexp", 0, {"write"})>>

Files == {Certain, Twice, Never, Errno, Minus}

Table == [o \in Ops |-> <<5, 13>>]

\* Behind a table there is a zero, or another table.
Behind == {0, 77}
=============================================================================
