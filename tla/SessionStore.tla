---------------------------- MODULE SessionStore ----------------------------
(***************************************************************************)
(* What the session files promise while the requests on a session do not   *)
(* get in each other's way: a session has one document, in one place, and  *)
(* each request changes it at once or not at all.  Once two requests have  *)
(* collided on a session, or a crash has hit a write of it, nothing is     *)
(* promised about it any more: it is VOID.                                 *)
(***************************************************************************)
EXTENDS Naturals

CONSTANTS
  Session,  \* session ids
  Body,     \* the messages of a document
  NONE,     \* no session, no metadata
  VOID      \* nothing is promised

VARIABLES
  store,    \* store[s]: [archived, doc], or NONE, or VOID
  era       \* 30-day periods that have passed

Meta == [label : BOOLEAN, cwd : BOOLEAN] \cup {NONE}

\* A document carries the id of its session.
Document == [own : {TRUE}, body : Body, meta : Meta, born : 0..era]

Stored(archived, d) == [archived |-> archived, doc |-> d]

Active(s) == store[s] \notin {NONE, VOID} /\ ~store[s].archived
Becomes(s, entry) == store' = [store EXCEPT ![s] = entry]

Init == store = [s \in Session |-> NONE] /\ era = 0

Create(s) ==
  /\ store[s] = NONE /\ Active(s)'
  /\ \E d \in Document : Becomes(s, Stored(FALSE, d))

\* Clients send no directory.
Replace(s) ==
  /\ Active(s)
  /\ \E d \in Document : (d.meta # NONE => ~d.meta.cwd) /\ Becomes(s, Stored(FALSE, d))

\* A generated label never replaces one that is there.
Label(s) ==
  /\ Active(s) /\ store[s].doc.meta # NONE /\ ~store[s].doc.meta.label
  /\ Becomes(s, Stored(FALSE, [store[s].doc EXCEPT !.meta.label = TRUE]))

SetCwd(s) ==
  /\ Active(s)
  /\ LET meta == store[s].doc.meta
     IN Becomes(s, Stored(FALSE, [store[s].doc EXCEPT
                                    !.meta = [label |-> meta # NONE /\ meta.label, cwd |-> TRUE]]))

Move(s) ==
  /\ store[s] \notin {NONE, VOID}
  /\ Becomes(s, Stored(~store[s].archived, store[s].doc))

\* Only an active session expires, and only when its time has come.
Expire(s) == Active(s) /\ store[s].doc.born < era /\ Becomes(s, NONE)

Change(s) == Label(s) \/ SetCwd(s) \/ Move(s) \/ Expire(s) \/ Create(s) \/ Replace(s)

\* A crash hits all the writes there are.
Void(lost) == store' = [s \in Session |-> IF s \in lost THEN VOID ELSE store[s]]

Next ==
  \/ era' = era + 1 /\ UNCHANGED store
  \/ UNCHANGED era /\ \E lost \in SUBSET Session : Void(lost)
  \/ UNCHANGED era /\ \E s \in Session : Change(s)

Spec == Init /\ [][Next]_<<store, era>>
=============================================================================
