-------------------------------- MODULE TableDb --------------------------------
(***************************************************************************)
(* What the store promises: tables of rows that change by one submitted    *)
(* batch at a time, as a whole, once, and only if it is valid for the rows *)
(* it changes.  Where an append can be interrupted, a prefix of such a     *)
(* batch may survive (packages/docs/ai-chat-notes.md: "may leave a         *)
(* complete prefix").                                                      *)
(***************************************************************************)
EXTENDS TableRows

CONSTANTS Tables, Interruptible

VARIABLES
    db,         \* table -> its rows
    pending     \* the batch submitted and not yet answered, if any

Requests == [table : Tables, changes : Batches, only : BOOLEAN]

Init ==
    /\ db = [t \in Tables |-> EmptyRows]
    /\ pending = {}

Submit(r) ==
    /\ pending = {}
    /\ pending' = {r}
    /\ UNCHANGED db

Commit(r) ==
    /\ ValidBatch(db[r.table], r.changes, r.only)
    /\ db' = [db EXCEPT ![r.table] = Replay(@, r.changes)]
    /\ pending' = {}

Interrupted(r, n) ==
    /\ Interruptible
    /\ ValidBatch(db[r.table], r.changes, r.only)
    /\ db' = [db EXCEPT ![r.table] = Replay(@, Prefix(r.changes, n))]
    /\ pending' = {}

Abandon ==
    /\ pending' = {}
    /\ UNCHANGED db

Next ==
    \/ \E r \in Requests : Submit(r)
    \/ \E r \in pending :
         \/ Commit(r)
         \/ \E n \in 1..(Len(r.changes) - 1) : Interrupted(r, n)
         \/ Abandon

Spec == Init /\ [][Next]_<<db, pending>>
===============================================================================
