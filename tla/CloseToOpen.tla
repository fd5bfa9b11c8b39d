---------------------------- MODULE CloseToOpen -----------------------------
(***************************************************************************)
(* What the file system promises (README: "AFS semantics: Last             *)
(* writer/closer winds approach", "Update visibility; Cache staleness"):   *)
(* close-to-open consistency with whole files.  An open returns one whole  *)
(* version of the file: the last one published, or one whose close is      *)
(* still in progress.  Writes are private to the session until its close,  *)
(* which publishes the whole file at one moment; the last to publish wins. *)
(*                                                                         *)
(* There is no server, no cache, no clock and no temporary file here.      *)
(***************************************************************************)
EXTENDS Sequences

CONSTANTS Path, Sess, Content, None

VARIABLES
    store,   \* the published version of each file
    st,      \* idle -> opening -> sampled -> open -> closing -> done -> idle
    on,      \* the file a session works on
    view,    \* the version a session has in hand
    modified,\* the session wrote to its version
    empties  \* the open creates the file, and may empty it

vars == <<store, st, on, view, modified, empties>>

Init ==
    /\ store = [p \in Path |-> <<>>]
    /\ st = [s \in Sess |-> "idle"]
    /\ on = [s \in Sess |-> None]
    /\ view = [s \in Sess |-> <<>>]
    /\ modified = [s \in Sess |-> FALSE]
    /\ empties = [s \in Sess |-> FALSE]

Forget(s) ==
    /\ empties' = [empties EXCEPT ![s] = FALSE]
    /\ on' = [on EXCEPT ![s] = None]
    /\ view' = [view EXCEPT ![s] = <<>>]
    /\ modified' = [modified EXCEPT ![s] = FALSE]

BeginOpen(s, p) ==
    /\ st[s] = "idle"
    /\ st' = [st EXCEPT ![s] = "opening"]
    /\ on' = [on EXCEPT ![s] = p]
    /\ \E e \in BOOLEAN : empties' = [empties EXCEPT ![s] = e]
    /\ UNCHANGED <<store, view, modified>>

Versions(p) == {store[p]} \cup {view[t] : t \in {u \in Sess : st[u] = "closing" /\ on[u] = p}}

\* The moment of an open at which its version is chosen.
Sample(s) ==
    /\ st[s] = "opening"
    /\ st' = [st EXCEPT ![s] = "sampled"]
    /\ \E c \in Versions(on[s]) : view' = [view EXCEPT ![s] = c]
    /\ UNCHANGED <<store, on, modified, empties>>

\* The open returns; a creation may empty the file.
EndOpen(s) ==
    /\ st[s] = "sampled"
    /\ st' = [st EXCEPT ![s] = "open"]
    /\ \/ UNCHANGED view
       \/ empties[s] /\ view' = [view EXCEPT ![s] = <<>>]
    /\ empties' = [empties EXCEPT ![s] = FALSE]
    /\ UNCHANGED <<store, on, modified>>

Modify(s) ==
    /\ st[s] = "open"
    /\ view'[s] \in Content
    /\ view' = [view EXCEPT ![s] = view'[s]]
    /\ modified' = [modified EXCEPT ![s] = TRUE]
    /\ UNCHANGED <<store, st, on, empties>>

BeginClose(s) ==
    /\ st[s] = "open"
    /\ st' = [st EXCEPT ![s] = IF modified[s] THEN "closing" ELSE "done"]
    /\ view' = [view EXCEPT ![s] = IF modified[s] THEN view[s] ELSE <<>>]
    /\ UNCHANGED <<store, on, modified, empties>>

Publish(s) ==
    /\ st[s] = "closing"
    /\ st' = [st EXCEPT ![s] = "done"]
    /\ store' = [store EXCEPT ![on[s]] = view[s]]
    /\ view' = [view EXCEPT ![s] = <<>>]
    /\ modified' = [modified EXCEPT ![s] = FALSE]
    /\ UNCHANGED <<on, empties>>

EndClose(s) ==
    /\ st[s] = "done"
    /\ st' = [st EXCEPT ![s] = "idle"]
    /\ Forget(s)
    /\ UNCHANGED store

\* An open that fails, or the crash of a client that publishes nothing.
GiveUp(s) ==
    /\ st[s] \in {"opening", "sampled", "open", "done"}
    /\ st' = [st EXCEPT ![s] = "idle"]
    /\ Forget(s)
    /\ UNCHANGED store

Next ==
    \E s \in Sess :
        \/ \E p \in Path : BeginOpen(s, p)
        \/ Modify(s)
        \/ BeginClose(s)
        \/ Sample(s) \/ EndOpen(s) \/ Publish(s) \/ EndClose(s) \/ GiveUp(s)

Spec == Init /\ [][Next]_vars
=============================================================================
