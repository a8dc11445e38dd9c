--------------------------------- MODULE Bridge ---------------------------------
(***************************************************************************)
(* Clients of the bridge.  Every call of the TypeScript client (index.ts)  *)
(* spawns one child process `sixpack bridge` (bridge.rs): it reads and     *)
(* compiles the schema file, compares its hash with the one the client was *)
(* generated from, executes the operation and prints one response.  The    *)
(* schema file may be edited and the child killed at any moment; the       *)
(* client never retries, and dies itself of a broken pipe to a child that  *)
(* did not read its request.  The store's critical section is one step     *)
(* here: which prefixes of a batch an interrupted one leaves is            *)
(* SixpackStore's.                                                         *)
(***************************************************************************)
EXTENDS Plans, SchemaFiles

CONSTANTS
    CallIds,        \* the calls clients make
    Requests,       \* what they may ask for
    Versions,       \* versions of the schema file
    Declared,       \* version -> the schema it declares
    Alien,          \* a value of another type
    Huge            \* in an integer field, an integer beyond 64 bits

\* What the versions are to the compiler and to the runtime.  A hash, and a
\* preamble, is represented by a version that has it.
Accepted  == {v \in Versions : Compiles(Declared[v])}
Buildable == {v \in Versions : Builds(Declared[v])}
TablesOf  == [v \in Versions |-> NamesOf(Declared[v])]
HashOf    == [v \in Versions |-> CHOOSE u \in Versions : IrHash(Declared[u]) = IrHash(Declared[v])]
Shape     ==
    [v \in Buildable |-> [t \in TablesOf[v] |->
       CHOOSE u \in Buildable : /\ t \in TablesOf[u]
                                /\ PreambleOf(Declared[u], t) = PreambleOf(Declared[v], t)]]

ASSUME NoneIsNothing == None \notin Versions \cup {"ok"}

\* Usable versions have the fields and lookups that Plans has.
ASSUME UsableVersions ==
    \A v \in Accepted \cap Buildable : \A i \in DOMAIN Declared[v] :
        /\ NamesOf(Declared[v][i].fields) = Fields
        /\ NamesOf(Declared[v][i].lookups) \cup {"id"} = Lookups

VARIABLES
    rows,       \* table -> id -> row, as committed
    shape,      \* table -> the preamble of its chunks, None before the first
    file,       \* the version in the schema file
    commits,    \* history: the calls whose changes were committed, in order
    calls       \* call -> what its client and its child know of it, and
                \* whether the client is `gone` before it had an answer

vars == <<rows, shape, file, commits, calls>>

Unmade == [child |-> "none", request |-> None, hash |-> None, schema |-> None,
           response |-> None, effect |-> "none", answer |-> None, after |-> {},
           gone |-> FALSE]

Init ==
    /\ rows = [t \in Tables |-> [id \in Ids |-> NoRow]]
    /\ shape = [t \in Tables |-> None]
    /\ file \in Accepted \cap Buildable
    /\ commits = <<>>
    /\ calls = [c \in CallIds |-> Unmade]

(***************************************************************************)
(* Requests: init, one plan, or the plans of write_many.                   *)
(***************************************************************************)
One(p)      == [op |-> p.op, plans |-> <<p>>, target |-> p.table]
Many(ps)    == [op |-> "write_many", plans |-> ps, target |-> ps[1].table]
InitRequest == [op |-> "init", plans |-> <<>>, target |-> None]

\* What the typed table objects of createTable send.  A key remembers the
\* table that made it.
By(t, l, k)    == One(IF l \in UniqueLookups THEN GetOne(t, l, k) ELSE GetMany(t, l, k))
AllRows(t)     == One(GetPage(t, None, None))
CountOf(t)     == One(GetCount(t))
KeyOn(t, l, k) == <<t, l, k>>
EditAt(t, key, v) == [One(Edit(t, key[2], key[3], v)) EXCEPT !.target = key[1]]
RemoveAt(t, key)  == [One(Remove(t, key[2], key[3])) EXCEPT !.target = key[1]]

Writes == WriteOps \cup {"write_many"}

Values(p) == {p.key[l] : l \in DOMAIN p.key} \cup {p.value[f] : f \in DOMAIN p.value}

\* A request but init is one plan or some changes; a value is of the type of its
\* field unless it is Alien or Huge.
ASSUME RequestsAsk ==
    \A q \in Requests : q.op # "init" =>
        /\ q.plans \in Seq({q.plans[i] : i \in DOMAIN q.plans}) /\ q.plans # <<>>
        /\ IF q.op = "write_many" THEN \A i \in DOMAIN q.plans : q.plans[i].op \in WriteOps
           ELSE Len(q.plans) = 1 /\ q.plans[1].op = q.op
        /\ \A i \in DOMAIN q.plans :
             Typed(q.plans[i].value) \/ {Alien, Huge} \cap Values(q.plans[i]) # {}
ASSUME BatchBound == MaxBatch \in Nat

\* encodeObject and encodeScalar: the fields of the table, values of their
\* types, integers of 64 bits.
EncodePlan(p) ==
    IF ~(DOMAIN p.value \subseteq Fields) THEN "unknown_field"
    ELSE IF Alien \in Values(p) THEN "type_mismatch"
    ELSE IF Huge \in Values(p) THEN "integer_out_of_range"
    ELSE "ok"

\* The first code of the sequence s that is not "ok", or "ok".
FirstRefusal(s) ==
    LET refused == {i \in DOMAIN s : s[i] # "ok"}
    IN  IF refused = {} THEN "ok" ELSE s[Min(refused)]

\* What the typed API throws before anything is sent.
EncodeCode(q) ==
    IF q.plans # <<>> /\ q.target # q.plans[1].table THEN "invalid_target"
    ELSE FirstRefusal([i \in DOMAIN q.plans |-> EncodePlan(q.plans[i])])

\* decode_lookup and decode_fields; scans and counts decode nothing.
DecodeCode(v, p) ==
    IF p.op \in {"scan", "count"} THEN "ok"
    ELSE IF p.table \notin TablesOf[v] THEN "unknown_table"
    ELSE IF p.lookup # None /\ p.lookup \notin Fields THEN "unknown_lookup"
    ELSE IF p.lookup # None /\ p.key[p.lookup] \in {Alien, Huge} THEN "type_mismatch"
    ELSE IF ~(DOMAIN p.value \subseteq Fields) THEN "unknown_field"
    ELSE IF {Alien, Huge} \cap Values(p) # {} THEN "type_mismatch"
    ELSE "ok"

(***************************************************************************)
(* The child's database call under schema version v.                       *)
(***************************************************************************)
\* Mutant of FitsLayout: the preamble of an existing table is not compared.
FitsAny(v, t) == t \in TablesOf[v]

\* verify_header: the chunks there are were written with this shape.
FitsLayout(v, t) == shape[t] \in {None, Shape[v][t]}

\* A rebuild of the indexes refuses a table in which two rows share a key.
Usable(v, t) == FitsLayout(v, t) /\ UniqueKeys(KeysOf(rows[t]))

Refused(code, usable) == IF usable THEN {code} ELSE {"io_error"} \cup ({code} \ {"ok"})

\* The codes the operation may end with when no fault interferes.  The layout
\* is checked before, after or between the checks of the plan.
Outcomes(v, q) ==
    LET decoded == FirstRefusal([i \in DOMAIN q.plans |-> DecodeCode(v, q.plans[i])])
        p       == q.plans[1]
        t       == p.table
    IN  IF q.op = "init"
        THEN {IF \A u \in TablesOf[v] : Usable(v, u) THEN "ok" ELSE "io_error"}
        ELSE IF decoded # "ok" THEN {decoded}
        ELSE IF t \notin TablesOf[v] THEN {"invalid_plan"}
        ELSE Refused(IF q.op = "write_many" THEN ManyCode(rows, q.plans)
                                            ELSE PlanCode(rows[t], p), Usable(v, t))

Batch(q) == Resolution(rows[q.plans[1].table], q.plans)

\* The first n changes of the call's batch reach the table's chunks.
Commit(c, v, q, n) ==
    LET t == q.plans[1].table
    IN  /\ rows' = [rows EXCEPT ![t] = Changed(@, Prefix(Batch(q), n))]
        /\ commits' = IF n > 0 THEN Append(commits, c) ELSE commits
        /\ \/ shape' = [shape EXCEPT ![t] = Shape[v][t]]
           \/ n = 0 /\ UNCHANGED shape

Effect(q, n) == IF n = 0 THEN "none" ELSE IF n = Len(q.plans) THEN "all" ELSE "part"

(***************************************************************************)
(* Steps of the client.                                                    *)
(***************************************************************************)
Answered == {c \in CallIds : calls[c].answer # None}

\* A call of a client generated from version v; a typed one is encoded first
\* and may end there.
Issue(c, q, v, typed) ==
    LET code == IF typed THEN EncodeCode(q) ELSE "ok"
    IN  /\ calls' = [calls EXCEPT ![c] =
             [Unmade EXCEPT !.child = IF code = "ok" THEN "spawned" ELSE "none",
                            !.request = q, !.hash = HashOf[v], !.after = Answered,
                            !.answer = IF code = "ok" THEN None ELSE code]]
        /\ UNCHANGED <<rows, shape, file, commits>>

Waiting == {c \in CallIds : calls[c].child # "none" /\ calls[c].answer = None /\ ~calls[c].gone}

Tell(c, code) ==
    /\ c \in Waiting
    /\ calls' = [calls EXCEPT ![c].answer = code]
    /\ UNCHANGED <<rows, shape, file, commits>>

Failed(code) == IF code = None THEN "bridge_failed" ELSE code

\* Mutant of Answer: the client gives up on a child that is still running.
AnswerOnTimeout(c) == Tell(c, Failed(calls[c].response))

\* Mutant of Answer: the exit code of the child is not looked at.
AnswerIgnoringExit(c) ==
    /\ calls[c].child = "ended"
    /\ Tell(c, IF calls[c].response = None THEN "ok" ELSE calls[c].response)

\* Mutant of Answer: the client waits for a response instead of the end.
AnswerOnResponse(c) == calls[c].response # None /\ Tell(c, calls[c].response)

\* The child's pipes are closed: without a complete response, bridge_failed.  The
\* child prints one JSON document or fails, so invalid_response does not occur.
Answer(c) == calls[c].child = "ended" /\ Tell(c, Failed(calls[c].response))

(***************************************************************************)
(* Steps of the child process.                                             *)
(***************************************************************************)
End(c, response, effect) ==
    calls' = [calls EXCEPT ![c].child = "ended", ![c].response = response,
                           ![c].effect = effect]

\* execute: read, compile, compare the hash, build the schema.
ReadSchema(c) ==
    /\ calls[c].child = "spawned"
    /\ IF file \notin Accepted THEN End(c, None, "none")
       ELSE IF HashOf[file] # calls[c].hash THEN End(c, "schema_mismatch", "none")
       ELSE IF file \notin Buildable THEN End(c, None, "none")
       ELSE calls' = [calls EXCEPT ![c].child = "ready", ![c].schema = file]
    /\ UNCHANGED <<rows, shape, file, commits>>

Writing(c) == calls[c].request.op \in Writes

Execute(c) ==
    LET q == calls[c].request
        v == calls[c].schema
    IN  /\ calls[c].child = "ready"
        /\ \E code \in Outcomes(v, q) :
             IF code = "ok" /\ Writing(c)
             THEN End(c, "ok", "all") /\ Commit(c, v, q, Len(q.plans))
             ELSE End(c, code, "none") /\ UNCHANGED <<rows, shape, commits>>
        /\ UNCHANGED file

\* The write is interrupted after n changes: the child dies, or the store
\* reports an error (after all of them when only the metadata fails).
InterruptedWrite(c, n) ==
    LET q == calls[c].request
        v == calls[c].schema
    IN  /\ calls[c].child = "ready"
        /\ Writing(c)
        /\ "ok" \in Outcomes(v, q)
        /\ n <= Len(q.plans)
        /\ \E response \in {None, "io_error"} : End(c, response, Effect(q, n))
        /\ Commit(c, v, q, n)
        /\ UNCHANGED file

\* The child dies between or after its steps, or was never spawned; so it may
\* before it has read its request, when the client notices the exit first.
Kill(c) ==
    /\ calls[c].child \in {"spawned", "ready", "ended"}
    /\ calls[c].answer = None
    /\ End(c, None, calls[c].effect)
    /\ UNCHANGED <<rows, shape, file, commits>>

\* The child dies before it has read its request, part of which was still to be
\* written, and the client meets the broken pipe before it hears of the exit:
\* nobody handles the error of child.stdin, which ends the client's process with
\* all the calls it is waiting for.
BreakPipe(c) ==
    /\ calls[c].child = "spawned"
    /\ \E same \in SUBSET Waiting :
         /\ c \in same
         /\ calls' = [d \in CallIds |->
              [calls[d] EXCEPT !.child = IF d = c THEN "ended" ELSE @,
                               !.gone = @ \/ d \in same]]
    /\ UNCHANGED <<rows, shape, file, commits>>

EditSchema(v) ==
    /\ file # v
    /\ file' = v
    /\ UNCHANGED <<rows, shape, commits, calls>>

Next ==
    \/ \E c \in CallIds :
         \/ /\ calls[c] = Unmade
            /\ \E q \in Requests, v \in Accepted, typed \in BOOLEAN :
                 Issue(c, q, v, typed)
         \/ ReadSchema(c)
         \/ Execute(c)
         \/ \E n \in 0..MaxBatch : InterruptedWrite(c, n)
         \/ Kill(c)
         \/ BreakPipe(c)
         \/ Answer(c)
    \/ \E v \in Versions : EditSchema(v)

\* A spawned child runs, and node reports its end.
Spec == Init /\ [][Next]_vars
        /\ \A c \in CallIds : WF_vars(ReadSchema(c) \/ Execute(c)) /\ WF_vars(Answer(c))

(***************************************************************************)
(* Properties.                                                             *)
(***************************************************************************)
\* What a client may conclude from the answer to a write: ok means all of it
\* was committed, any other code but bridge_failed and io_error that none was.
AnswerTellsEffect ==
    \A c \in Answered :
        LET code == calls[c].answer
        IN  calls[c].request.op \in Writes =>
              /\ code = "ok" => calls[c].effect = "all"
              /\ code \notin {"ok", "bridge_failed", "io_error"} => calls[c].effect = "none"

\* Awaited calls take effect in the order they were made: a call whose answer
\* was there when another was made, failed or not, is committed before it.
EffectsInRealTime ==
    \A i, j \in DOMAIN commits :
        commits[i] \in calls[commits[j]].after => i < j

\* Whatever is done to the schema file between the steps of the children, a
\* table holds only rows of clients generated from the schema its chunks have.
RowsFitTheirTable ==
    \A i \in DOMAIN commits :
        LET c == calls[commits[i]]
            t == c.request.plans[1].table
        IN  HashOf[c.schema] = c.hash /\ shape[t] = Shape[c.schema][t]

\* The call asks to remove rows of table t.
Removes(call, t) ==
    /\ call.request.plans[1].table = t
    /\ \E n \in DOMAIN call.request.plans : call.request.plans[n].op = "remove"

\* An add can be repeated after an answer that tells nothing: the same id is
\* not added twice unless a remove of that table was committed in between.
RetriedAddOnce ==
    \A i, j \in DOMAIN commits :
        LET p == calls[commits[i]].request.plans[1]
            q == calls[commits[j]].request.plans[1]
        IN  i < j /\ p.op = "insert" /\ q.op = "insert" /\ p.table = q.table
              /\ p.value["id"] = q.value["id"] =>
              \E k \in i..j : Removes(calls[commits[k]], p.table)

\* A call is answered wherever its child dies and in whatever order its output
\* and its end arrive, unless its client dies of a broken pipe.
CallsEnd ==
    \A c \in CallIds : calls[c].child # "none" ~> calls[c].answer # None \/ calls[c].gone
===============================================================================
