------------------------------ MODULE Bridge_proofs ------------------------------
(***************************************************************************)
(* Proofs about Bridge, for any calls, requests, versions and schemas:     *)
(* what an answer tells of the effect, that effects come in the order of   *)
(* awaited calls, that a table keeps to the schema of its chunks, and that *)
(* an add can be repeated.  The facts about plans are those of             *)
(* Pages_proofs.                                                           *)
(***************************************************************************)
EXTENDS Bridge, WellFoundedInduction, TLAPS

-------------------------------------------------------------------------------
(* Numbers. *)

\* The least element of a set of numbers.
LEMMA MinIsMember == ASSUME NEW S \in SUBSET Nat, S # {} PROVE Min(S) \in S
<1> DEFINE R == OpToRel(<, Nat)
<1>1. PICK x \in S : \A y \in S : <<y, x>> \notin R
  BY NatLessThanWellFounded, WFMin
<1>2. \A y \in S : y < x => <<y, x>> \in R
  BY DEF OpToRel
<1> HIDE DEF R
<1>3. \A y \in S : ~(y < x)
  BY <1>1, <1>2
<1>4. \A y \in S : x <= y
  BY <1>3
<1> QED
  BY <1>4 DEF Min

-------------------------------------------------------------------------------
(* Plans that are not refused. *)

\* A batch the store does not refuse passes the checks of append_batch_inner.
LEMMA StoreAccepts ==
    ASSUME NEW r, NEW b, NEW only \in BOOLEAN, StoreCode(r, b, only) = "ok"
    PROVE  ValidBatch(KeysOf(r), KeyChanges(b), only)
  BY DEF StoreCode

\* A write plan that is not refused has passed the checks of the plan and of the store.
LEMMA PlanAccepts ==
    ASSUME NEW r, NEW p, p.op \in WriteOps, PlanCode(r, p) = "ok"
    PROVE  /\ Refusal(r, p) = "ok"
           /\ ValidBatch(KeysOf(r), KeyChanges(<<Resolved(r, p)>>), p.op = "insert")
<1>1. Refusal(r, p) = "ok"
  BY DEF PlanCode
<1>2. StoreCode(r, <<Resolved(r, p)>>, p.op = "insert") = "ok"
  BY <1>1 DEF PlanCode
<1> QED
  BY <1>1, <1>2, StoreAccepts

\* So has every change of a write_many, and all of them belong to one table.
LEMMA ManyAccepts ==
    ASSUME NEW all, NEW ps, DOMAIN ps \subseteq Nat, ManyCode(all, ps) = "ok"
    PROVE  LET t    == ps[1].table
               r    == all[t]
               only == \A i \in DOMAIN ps : ps[i].op = "insert"
           IN  /\ t \in Tables
               /\ only \/ \A i \in DOMAIN ps : ps[i].op # "insert"
               /\ \A i \in DOMAIN ps : IF only THEN Complete(ps[i].value)
                                        ELSE Refusal(r, ps[i]) = "ok"
               /\ ValidBatch(KeysOf(r), KeyChanges(Resolution(r, ps)), only)
<1> DEFINE t       == ps[1].table
           r       == all[t]
           only    == \A i \in DOMAIN ps : ps[i].op = "insert"
           Code(i) == IF only THEN InsertCode(ps[i]) ELSE ChangeCode(r, ps, i)
           refused == {i \in DOMAIN ps : Code(i) # "ok"}
<1>1. t \in Tables /\ (only \/ \A i \in DOMAIN ps : ps[i].op # "insert")
  BY DEF ManyCode
<1>2. refused = {}
  <2> SUFFICES ASSUME refused # {} PROVE FALSE
    OBVIOUS
  <2>1. Min(refused) \in refused
    BY MinIsMember
  <2>2. ManyCode(all, ps) # "ok"
    BY <2>1 DEF ManyCode
  <2> QED
    BY <2>2
<1>3. ASSUME NEW i \in DOMAIN ps
      PROVE  IF only THEN Complete(ps[i].value) ELSE Refusal(r, ps[i]) = "ok"
  <2>1. Code(i) = "ok"
    BY <1>2
  <2> QED
    BY <2>1 DEF InsertCode, ChangeCode
<1>4. StoreCode(r, Resolution(r, ps), only) = "ok"
  BY <1>1, <1>2 DEF ManyCode
<1>5. ValidBatch(KeysOf(r), KeyChanges(Resolution(r, ps)), only)
  BY <1>4, StoreAccepts
<1> QED
  BY <1>1, <1>3, <1>5

\* A typed plan that passed its checks resolves to a typed row, or, if it removes, to none.
LEMMA ResolvedTyped ==
    ASSUME NEW r \in [Ids -> Row \cup {NoRow}], NEW p, p.op \in WriteOps, Typed(p.value),
           p.op = "insert" \/ Refusal(r, p) = "ok",
           p.op = "insert" => Complete(p.value)
    PROVE  IF p.op = "remove" THEN Resolved(r, p).row = NoRow ELSE Resolved(r, p).row \in Row
<1>1. CASE p.op \in {"insert", "upsert"}
  <2>1. Complete(p.value)
    BY <1>1 DEF Refusal
  <2>2. p.value["key"] \in Keys /\ p.value["tag"] \in Tags
    BY <2>1 DEF Complete, Fields, Typed
  <2> QED
    BY <1>1, <2>2 DEF Resolved, Row
<1>2. CASE p.op = "remove"
  BY <1>2 DEF Resolved
<1>3. CASE p.op = "patch"
  <2>1. Found(r, p) # {} /\ Found(r, p) \subseteq Live(r)
    BY <1>3 DEF Refusal, Found
  <2>2. Named(r, p) \in Live(r)
    BY <2>1 DEF Named
  <2>3. r[Named(r, p)] \in Row
    BY <2>2 DEF Live
  <2> DEFINE After(f) == IF f \in DOMAIN p.value THEN p.value[f] ELSE r[Named(r, p)][f]
  <2>4. After("key") \in Keys /\ After("tag") \in Tags
    BY <2>3 DEF Typed, Row
  <2>5. Resolved(r, p).row = [key |-> After("key"), tag |-> After("tag")]
    BY <1>3 DEF Resolved
  <2> QED
    BY <1>3, <2>4, <2>5 DEF Row
<1> QED
  BY <1>1, <1>2, <1>3 DEF WriteOps

\* So do the changes of a write_many.
LEMMA ResolutionTyped ==
    ASSUME NEW r \in [Ids -> Row \cup {NoRow}], NEW ps,
           \A i \in DOMAIN ps : /\ ps[i].op \in WriteOps /\ Typed(ps[i].value)
                                /\ ps[i].op = "insert" \/ Refusal(r, ps[i]) = "ok"
                                /\ ps[i].op = "insert" => Complete(ps[i].value)
    PROVE  /\ DOMAIN Resolution(r, ps) = DOMAIN ps
           /\ \A i \in DOMAIN ps : IF ps[i].op = "remove" THEN Resolution(r, ps)[i].row = NoRow
                                   ELSE Resolution(r, ps)[i].row \in Row
<1>1. \A i \in DOMAIN ps : IF ps[i].op = "remove" THEN Resolved(r, ps[i]).row = NoRow
                           ELSE Resolved(r, ps[i]).row \in Row
  BY ResolvedTyped
<1> QED
  BY <1>1 DEF Resolution

-------------------------------------------------------------------------------
(* The rows after a batch. *)

\* The batch b is about different rows, a put batch only when they are not there.
LEMMA BatchDistinct ==
    ASSUME NEW r, NEW b, NEW only \in BOOLEAN, ValidBatch(KeysOf(r), KeyChanges(b), only)
    PROVE  /\ \A i, j \in DOMAIN b : i # j => b[i].id # b[j].id
           /\ only => \A i \in DOMAIN b : b[i].id \in Ids => KeyOf(r[b[i].id]) = NoRow
<1> DEFINE c == KeyChanges(b)
           k == KeysOf(r)
<1>1. DOMAIN c = DOMAIN b /\ \A i \in DOMAIN b : c[i].id = b[i].id
  BY DEF KeyChanges
<1>2. \A id \in Ids : k[id] = KeyOf(r[id])
  BY DEF KeysOf
<1> HIDE DEF c, k
<1>3. ValidBatch(k, c, only)
  BY DEF c, k
<1> QED
  BY <1>1, <1>2, <1>3 DEF ValidBatch

\* What a batch of changes to different rows makes of them.
LEMMA ChangedAt ==
    ASSUME NEW r, NEW b, \A i, j \in DOMAIN b : i # j => b[i].id # b[j].id
    PROVE  /\ \A i \in DOMAIN b : b[i].id \in Ids => Changed(r, b)[b[i].id] = b[i].row
           /\ \A id \in Ids : (\A i \in DOMAIN b : b[i].id # id) => Changed(r, b)[id] = r[id]
  BY DEF Changed

\* Changes of typed rows leave the rows typed.
LEMMA ChangedTyped ==
    ASSUME NEW r \in [Ids -> Row \cup {NoRow}], NEW b,
           \A i \in DOMAIN b : b[i].row \in Row \cup {NoRow}
    PROVE  Changed(r, b) \in [Ids -> Row \cup {NoRow}]
  BY DEF Changed

-------------------------------------------------------------------------------
(* The inductive invariant.  A call is described by its record; `commits`  *)
(* and the tables are related to the records of the calls that wrote.      *)

IsCall(r) ==
    /\ DOMAIN r = {"child", "request", "hash", "schema", "response", "effect", "answer", "after",
                "gone"}
    /\ r.child \in {"none", "spawned", "ready", "ended"}
    /\ r.child # "none" => r.request \in Requests
    /\ r.after \subseteq CallIds

TypeOK ==
    /\ rows \in [Tables -> [Ids -> Row \cup {NoRow}]]
    /\ shape \in [Tables -> Buildable \cup {None}]
    /\ file \in Versions
    /\ commits \in Seq(CallIds)
    /\ calls = [c \in CallIds |-> calls[c]]
    /\ \A c \in CallIds : IsCall(calls[c])

\* Nothing is in effect before the child has ended, and its response tells what
\* is; the answer is the response of a child that has ended, or the refusal of
\* the client.
AnswerInv ==
    \A c \in CallIds : LET r == calls[c] IN
        /\ r.child # "ended" => r.effect = "none" /\ r.response = None
        /\ r.child = "ended" /\ r.request.op \in Writes =>
             /\ r.response = "ok" => r.effect = "all"
             /\ r.response \notin {None, "ok", "io_error"} => r.effect = "none"
        /\ r.answer # None => \/ r.child = "ended" /\ r.answer = Failed(r.response)
                              \/ r.child = "none" /\ r.answer # "ok"

\* Only children that have ended have committed, and a call that was answered
\* when another was made never commits again.
OrderInv ==
    /\ \A i \in DOMAIN commits : calls[commits[i]].child = "ended"
    /\ \A c \in CallIds : calls[c].after \subseteq Answered

\* A child that is ready has the schema its client was generated from; the
\* tables of those that committed have the preamble of that schema.
SchemaInv ==
    /\ \A c \in CallIds : calls[c].child = "ready" =>
         /\ calls[c].schema \in Accepted \cap Buildable
         /\ HashOf[calls[c].schema] = calls[c].hash
    /\ \A i \in DOMAIN commits : LET r == calls[commits[i]] IN
         /\ r.schema \in Buildable
         /\ r.request.plans[1].table \in Tables \cap TablesOf[r.schema]

\* A row that was added is there until a remove is committed.
AddedInv ==
    \A i \in DOMAIN commits : LET p == calls[commits[i]].request.plans[1] IN
        p.op = "insert" =>
          /\ p.value["id"] \in Ids
          /\ \/ rows[p.table][p.value["id"]] # NoRow
             \/ \E k \in i..Len(commits) : Removes(calls[commits[k]], p.table)

BridgeInv ==
    /\ TypeOK /\ AnswerInv
    /\ OrderInv /\ EffectsInRealTime
    /\ SchemaInv /\ RowsFitTheirTable
    /\ AddedInv /\ RetriedAddOnce

-------------------------------------------------------------------------------
(* The steps.  Every step but a broken pipe and an edit of the schema file  *)
(* changes the record of one call; two of the actions commit as well.       *)

SchemaKnown(r) ==
    r.child = "ready" => r.schema \in Accepted \cap Buildable /\ HashOf[r.schema] = r.hash

AnswerTells(r) ==
    /\ r.child # "ended" => r.effect = "none" /\ r.response = None
    /\ r.child = "ended" /\ r.request.op \in Writes =>
         /\ r.response = "ok" => r.effect = "all"
         /\ r.response \notin {None, "ok", "io_error"} => r.effect = "none"
    /\ r.answer # None => \/ r.child = "ended" /\ r.answer = Failed(r.response)
                          \/ r.child = "none" /\ r.answer # "ok"

\* What every step keeps of a call: what it asked and under which schema, once
\* that was read, that its child has ended and that it was answered.
Keeps(old, new) ==
    /\ old.child \in {"ready", "ended"} =>
         /\ new.request = old.request /\ new.after = old.after
         /\ new.schema = old.schema /\ new.hash = old.hash
    /\ old.child = "ended" => new.child = "ended"
    /\ old.answer # None => new.answer # None

Records(c, r) ==
    /\ calls' = [calls EXCEPT ![c] = r]
    /\ IsCall(r) /\ AnswerTells(r) /\ SchemaKnown(r) /\ r.after \subseteq Answered
    /\ Keeps(calls[c], r)

Commits(c, n) ==
    /\ calls[c].child = "ready" /\ Writing(c)
    /\ "ok" \in Outcomes(calls[c].schema, calls[c].request)
    /\ n \in 0..Len(calls[c].request.plans)
    /\ Commit(c, calls[c].schema, calls[c].request, n)

Step(c) ==
    /\ file' = file
    /\ \E r : /\ Records(c, r)
             /\ \/ UNCHANGED <<rows, shape, commits>>
                \/ r.child = "ended" /\ \E n : Commits(c, n)

\* What the invariant says of one call.
LEMMA CallFacts ==
    ASSUME BridgeInv, NEW c \in CallIds
    PROVE  /\ IsCall(calls[c]) /\ AnswerTells(calls[c]) /\ SchemaKnown(calls[c])
           /\ calls[c].after \subseteq Answered
  BY DEF BridgeInv, TypeOK, AnswerInv, SchemaInv, OrderInv, AnswerTells, SchemaKnown

LEMMA IssueStep ==
    ASSUME BridgeInv, NEW c \in CallIds, NEW q \in Requests, NEW v \in Accepted,
           NEW typed \in BOOLEAN, calls[c] = Unmade, Issue(c, q, v, typed)
    PROVE  Step(c)
<1> DEFINE code == IF typed THEN EncodeCode(q) ELSE "ok"
           r == [Unmade EXCEPT !.child = IF code = "ok" THEN "spawned" ELSE "none",
                               !.request = q, !.hash = HashOf[v], !.after = Answered,
                               !.answer = IF code = "ok" THEN None ELSE code]
<1> HIDE DEF code
<1>1. /\ r.child = IF code = "ok" THEN "spawned" ELSE "none"
      /\ r.request = q /\ r.after = Answered /\ r.effect = "none" /\ r.response = None
      /\ r.answer = IF code = "ok" THEN None ELSE code
  BY DEF Unmade
<1>2. IsCall(r)
  <2>1. DOMAIN r = DOMAIN Unmade
    OBVIOUS
  <2> HIDE DEF r
  <2>2. r.child \in {"none", "spawned"} /\ r.after \subseteq CallIds
    BY <1>1 DEF Answered
  <2> QED
    BY <1>1, <2>1, <2>2 DEF IsCall, Unmade
<1>3. Unmade.child = "none" /\ Unmade.answer = None
  BY DEF Unmade
<1>4. calls' = [calls EXCEPT ![c] = r] /\ UNCHANGED <<rows, shape, file, commits>>
  BY DEF Issue, code
<1> HIDE DEF r
<1>5. Records(c, r)
  BY <1>1, <1>2, <1>3, <1>4 DEF Records, AnswerTells, SchemaKnown, Keeps
<1> QED
  BY <1>3, <1>4, <1>5 DEF Step

\* The client is told a code.
LEMMA AnswerStep ==
    ASSUME BridgeInv, NEW c \in CallIds, Answer(c)
    PROVE  Step(c)
<1> DEFINE r == [calls[c] EXCEPT !.answer = Failed(calls[c].response)]
<1>1. /\ calls[c].child = "ended" /\ calls[c].answer = None
      /\ calls' = [calls EXCEPT ![c] = r] /\ UNCHANGED <<rows, shape, file, commits>>
  BY DEF Answer, Tell, Waiting, BridgeInv, TypeOK
<1>2. IsCall(calls[c]) /\ AnswerTells(calls[c]) /\ calls[c].after \subseteq Answered
  BY CallFacts
<1>3. /\ r.answer = Failed(calls[c].response) /\ r.child = "ended"
      /\ r.request = calls[c].request /\ r.hash = calls[c].hash
      /\ r.schema = calls[c].schema /\ r.response = calls[c].response
      /\ r.effect = calls[c].effect /\ r.after = calls[c].after
  BY <1>1, <1>2 DEF IsCall
<1>4. IsCall(r)
  BY <1>1, <1>2 DEF IsCall
<1> HIDE DEF r
<1>5. Records(c, r)
  BY <1>1, <1>2, <1>3, <1>4 DEF Records, AnswerTells, SchemaKnown, Keeps
<1> QED
  BY <1>1, <1>5 DEF Step

\* The child ends: its response tells the effect, if the call writes.
LEMMA EndStep ==
    ASSUME BridgeInv, NEW c \in CallIds, NEW response, NEW effect,
           calls[c].child # "none", calls[c].answer = None,
           calls[c].request.op \in Writes =>
             /\ response = "ok" => effect = "all"
             /\ response \notin {None, "ok", "io_error"} => effect = "none",
           End(c, response, effect)
    PROVE  \E r : Records(c, r) /\ r.child = "ended"
<1> DEFINE r == [calls[c] EXCEPT !.child = "ended", !.response = response, !.effect = effect]
<1>1. calls' = [calls EXCEPT ![c] = r]
  BY DEF End, BridgeInv, TypeOK
<1>2. IsCall(calls[c]) /\ AnswerTells(calls[c]) /\ calls[c].after \subseteq Answered
  BY CallFacts
<1>3. /\ r.answer = None /\ r.child = "ended" /\ r.response = response /\ r.effect = effect
      /\ r.request = calls[c].request /\ r.hash = calls[c].hash
      /\ r.schema = calls[c].schema /\ r.after = calls[c].after
  BY <1>2 DEF IsCall
<1>4. IsCall(r)
  <2>1. DOMAIN r = DOMAIN calls[c]
    OBVIOUS
  <2> HIDE DEF r
  <2> QED
    BY <1>2, <1>3, <2>1 DEF IsCall
<1> HIDE DEF r
<1>5. Records(c, r)
  BY <1>1, <1>2, <1>3, <1>4 DEF Records, AnswerTells, SchemaKnown, Keeps
<1> QED
  BY <1>3, <1>5

LEMMA ReadSchemaStep ==
    ASSUME BridgeInv, NEW c \in CallIds, ReadSchema(c)
    PROVE  Step(c)
<1>1. /\ calls[c].child = "spawned" /\ UNCHANGED <<rows, shape, file, commits>>
      /\ file \in Versions
  BY DEF ReadSchema, BridgeInv, TypeOK
<1>2. /\ IsCall(calls[c]) /\ AnswerTells(calls[c]) /\ calls[c].after \subseteq Answered
      /\ calls[c].answer = None
  BY <1>1, CallFacts DEF AnswerTells
<1>3. CASE \E response \in {None, "schema_mismatch"} : End(c, response, "none")
  <2>1. \E r : Records(c, r) /\ r.child = "ended"
    BY <1>1, <1>2, <1>3, EndStep, NoneIsNothing
  <2> QED
    BY <1>1, <2>1 DEF Step
<1>4. CASE /\ file \in Accepted \cap Buildable /\ HashOf[file] = calls[c].hash
           /\ calls' = [calls EXCEPT ![c].child = "ready", ![c].schema = file]
  <2> DEFINE r == [calls[c] EXCEPT !.child = "ready", !.schema = file]
  <2>1. calls' = [calls EXCEPT ![c] = r]
    BY <1>4 DEF BridgeInv, TypeOK
  <2>2. /\ r.child = "ready" /\ r.schema = file /\ r.request = calls[c].request
        /\ r.hash = calls[c].hash /\ r.effect = calls[c].effect
        /\ r.response = calls[c].response
        /\ r.answer = calls[c].answer /\ r.after = calls[c].after
    BY <1>2 DEF IsCall
  <2>3. DOMAIN r = DOMAIN calls[c]
    OBVIOUS
  <2> HIDE DEF r
  <2>4. IsCall(r)
    BY <1>1, <1>2, <2>2, <2>3 DEF IsCall
  <2>5. AnswerTells(r) /\ Keeps(calls[c], r)
    BY <1>1, <1>2, <2>2 DEF AnswerTells, Keeps
  <2>6. Records(c, r)
    BY <1>2, <1>4, <2>1, <2>2, <2>4, <2>5 DEF Records, SchemaKnown
  <2> QED
    BY <1>1, <2>6 DEF Step
<1> QED
  BY <1>1, <1>3, <1>4 DEF ReadSchema, Accepted

LEMMA KillStep ==
    ASSUME BridgeInv, NEW c \in CallIds, Kill(c)
    PROVE  Step(c)
<1>1. /\ calls[c].child # "none" /\ calls[c].answer = None
      /\ End(c, None, calls[c].effect) /\ UNCHANGED <<rows, shape, file, commits>>
  BY DEF Kill
<1>2. \E r : Records(c, r) /\ r.child = "ended"
  BY <1>1, EndStep, NoneIsNothing
<1> QED
  BY <1>1, <1>2 DEF Step

\* What is known of the changes a request asks for.
LEMMA RequestPlans ==
    ASSUME NEW q \in Requests, q.op \in Writes
    PROVE  /\ q.op # "init"
           /\ Len(q.plans) \in Nat \ {0} /\ DOMAIN q.plans = 1..Len(q.plans)
           /\ q.op # "write_many" => Len(q.plans) = 1 /\ q.plans[1].op = q.op
           /\ \A i \in DOMAIN q.plans :
                /\ q.plans[i].op \in WriteOps
                /\ Typed(q.plans[i].value) \/ {Alien, Huge} \cap Values(q.plans[i]) # {}
<1>1. q.op # "init"
  BY DEF Writes, WriteOps
<1> DEFINE S == {q.plans[i] : i \in DOMAIN q.plans}
<1>2. q.plans \in Seq(S) /\ q.plans # <<>>
  BY <1>1, RequestsAsk
<1> HIDE DEF S
<1>3. Len(q.plans) \in Nat \ {0} /\ DOMAIN q.plans = 1..Len(q.plans)
  BY <1>2
<1>4. q.op # "write_many" => Len(q.plans) = 1 /\ q.plans[1].op = q.op
  BY <1>1, RequestsAsk
<1>5. ASSUME NEW i \in DOMAIN q.plans PROVE q.plans[i].op \in WriteOps
  <2>1. CASE q.op = "write_many"
    BY <1>1, <2>1, RequestsAsk
  <2>2. CASE q.op # "write_many"
    BY <1>3, <1>4, <2>2 DEF Writes
  <2> QED
    BY <2>1, <2>2
<1>6. \A i \in DOMAIN q.plans :
         Typed(q.plans[i].value) \/ {Alien, Huge} \cap Values(q.plans[i]) # {}
  BY <1>1, RequestsAsk
<1> QED
  BY <1>1, <1>3, <1>4, <1>5, <1>6

LEMMA ExecuteStep ==
    ASSUME BridgeInv, NEW c \in CallIds, Execute(c)
    PROVE  Step(c)
<1> DEFINE q == calls[c].request
           v == calls[c].schema
<1>1. calls[c].child = "ready" /\ file' = file
  BY DEF Execute
<1>2. calls[c].answer = None
  BY <1>1, CallFacts DEF AnswerTells
<1>3. PICK code \in Outcomes(v, q) :
        IF code = "ok" /\ Writing(c)
        THEN End(c, "ok", "all") /\ Commit(c, v, q, Len(q.plans))
        ELSE End(c, code, "none") /\ UNCHANGED <<rows, shape, commits>>
  BY DEF Execute
<1>4. CASE code = "ok" /\ Writing(c)
  <2>1. \E r : Records(c, r) /\ r.child = "ended"
    BY <1>1, <1>2, <1>3, <1>4, EndStep
  <2>2. q \in Requests /\ q.op \in Writes
    BY <1>1, <1>4, CallFacts DEF IsCall, Writing
  <2>3. Len(q.plans) \in 0..Len(q.plans)
    BY <2>2, RequestPlans
  <2>4. Commits(c, Len(q.plans))
    BY <1>1, <1>3, <1>4, <2>3 DEF Commits
  <2> QED
    BY <1>1, <2>1, <2>4 DEF Step
<1>5. CASE ~(code = "ok" /\ Writing(c))
  <2>1. \E r : Records(c, r) /\ r.child = "ended"
    BY <1>1, <1>2, <1>3, <1>5, EndStep DEF Writing
  <2> QED
    BY <1>1, <1>3, <1>5, <2>1 DEF Step
<1> QED
  BY <1>4, <1>5

LEMMA InterruptedWriteStep ==
    ASSUME BridgeInv, NEW c \in CallIds, NEW n \in 0..MaxBatch, InterruptedWrite(c, n)
    PROVE  Step(c)
<1> DEFINE q == calls[c].request
<1>1. /\ calls[c].child = "ready" /\ Writing(c) /\ file' = file
      /\ "ok" \in Outcomes(calls[c].schema, q) /\ n <= Len(q.plans)
      /\ Commit(c, calls[c].schema, q, n)
  BY DEF InterruptedWrite
<1>2. PICK response \in {None, "io_error"} : End(c, response, Effect(q, n))
  BY DEF InterruptedWrite
<1>3. calls[c].answer = None
  BY <1>1, CallFacts DEF AnswerTells
<1>4. \E r : Records(c, r) /\ r.child = "ended"
  BY <1>1, <1>2, <1>3, EndStep, NoneIsNothing
<1>5. q \in Requests /\ q.op \in Writes
  BY <1>1, CallFacts DEF IsCall, Writing
<1>6. n \in 0..Len(q.plans)
  BY <1>1, <1>5, RequestPlans, BatchBound
<1>7. Commits(c, n)
  BY <1>1, <1>6 DEF Commits
<1> QED
  BY <1>1, <1>4, <1>7 DEF Step

LEMMA NextSplit ==
    ASSUME BridgeInv, Next
    PROVE  \/ \E c \in CallIds : Step(c) \/ BreakPipe(c)
           \/ \E v \in Versions : EditSchema(v)
<1> QED
  BY IssueStep, ReadSchemaStep, ExecuteStep, InterruptedWriteStep, KillStep, AnswerStep
     DEF Next

-------------------------------------------------------------------------------
(* What a write that may end with ok knows of the table it writes to.      *)

LEMMA NoneRefused ==
    ASSUME NEW s, DOMAIN s \subseteq Nat, FirstRefusal(s) = "ok"
    PROVE  \A i \in DOMAIN s : s[i] = "ok"
<1> DEFINE refused == {i \in DOMAIN s : s[i] # "ok"}
<1>1. refused # {} => Min(refused) \in refused
  BY MinIsMember
<1> QED
  BY <1>1 DEF FirstRefusal

\* The request was decoded and its table fits; the checks of the plans passed.
LEMMA OutcomeOk ==
    ASSUME NEW v, NEW q \in Requests, q.op \in Writes, "ok" \in Outcomes(v, q)
    PROVE  LET p == q.plans[1] IN
           /\ \A i \in DOMAIN q.plans : Typed(q.plans[i].value)
           /\ p.table \in TablesOf[v] /\ FitsLayout(v, p.table)
           /\ IF q.op = "write_many" THEN ManyCode(rows, q.plans) = "ok"
              ELSE PlanCode(rows[p.table], p) = "ok"
<1> DEFINE codes == [i \in DOMAIN q.plans |-> DecodeCode(v, q.plans[i])]
           t     == q.plans[1].table
           code  == IF q.op = "write_many" THEN ManyCode(rows, q.plans)
                                           ELSE PlanCode(rows[t], q.plans[1])
<1>1. /\ q.op # "init" /\ DOMAIN q.plans \subseteq Nat
      /\ \A i \in DOMAIN q.plans :
           /\ q.plans[i].op \in WriteOps
           /\ Typed(q.plans[i].value) \/ {Alien, Huge} \cap Values(q.plans[i]) # {}
  BY RequestPlans
<1>2. FirstRefusal(codes) = "ok" /\ t \in TablesOf[v] /\ "ok" \in Refused(code, Usable(v, t))
  BY <1>1 DEF Outcomes
<1>3. code = "ok" /\ Usable(v, t)
  BY <1>2 DEF Refused
<1>4. ASSUME NEW i \in DOMAIN q.plans PROVE Typed(q.plans[i].value)
  <2>1. DecodeCode(v, q.plans[i]) = "ok"
    BY <1>1, <1>2, NoneRefused
  <2>2. q.plans[i].op \notin {"scan", "count"}
    BY <1>1 DEF WriteOps
  <2>3. {Alien, Huge} \cap Values(q.plans[i]) = {}
    BY <2>1, <2>2 DEF DecodeCode
  <2> QED
    BY <1>1, <2>3
<1> QED
  BY <1>2, <1>3, <1>4 DEF Usable

CommitFacts(c) ==
    LET q == calls[c].request
        v == calls[c].schema
        p == q.plans[1]
        t == p.table
        b == Batch(q)
    IN  /\ q.op \in Writes /\ Len(q.plans) \in Nat \ {0} /\ DOMAIN q.plans = 1..Len(q.plans)
        /\ v \in Buildable /\ HashOf[v] = calls[c].hash
        /\ t \in Tables \cap TablesOf[v] /\ shape[t] \in {None, Shape[v][t]}
        /\ DOMAIN b = 1..Len(q.plans)
        /\ \A i \in DOMAIN b : IF q.plans[i].op = "remove" THEN b[i].row = NoRow
                               ELSE b[i].row \in Row
        /\ \A i, j \in DOMAIN b : i # j => b[i].id # b[j].id
        /\ p.op = "insert" => /\ p.value["id"] \in Ids /\ b[1].id = p.value["id"]
                              /\ rows[t][b[1].id] = NoRow

LEMMA CommitKnows ==
    ASSUME BridgeInv, NEW c \in CallIds, calls[c].child = "ready", Writing(c),
           "ok" \in Outcomes(calls[c].schema, calls[c].request)
    PROVE  CommitFacts(c)
<1> DEFINE q  == calls[c].request
           v  == calls[c].schema
           ps == q.plans
           t  == ps[1].table
           r  == rows[t]
           b  == Resolution(r, ps)
<1>1. q \in Requests /\ q.op \in Writes
  BY CallFacts DEF IsCall, Writing
<1>2. /\ Len(ps) \in Nat \ {0} /\ DOMAIN ps = 1..Len(ps)
      /\ q.op # "write_many" => Len(ps) = 1 /\ ps[1].op = q.op
      /\ \A i \in DOMAIN ps : ps[i].op \in WriteOps
  BY <1>1, RequestPlans
<1>3. /\ \A i \in DOMAIN ps : Typed(ps[i].value)
      /\ t \in TablesOf[v] /\ FitsLayout(v, t)
      /\ IF q.op = "write_many" THEN ManyCode(rows, ps) = "ok" ELSE PlanCode(r, ps[1]) = "ok"
  BY <1>1, OutcomeOk
<1>4. v \in Buildable /\ HashOf[v] = calls[c].hash
  BY CallFacts DEF SchemaKnown
<1>5. PICK only \in BOOLEAN :
        /\ t \in Tables /\ (ps[1].op = "insert" => only)
        /\ \A i \in DOMAIN ps : /\ ps[i].op = "insert" \/ Refusal(r, ps[i]) = "ok"
                                /\ ps[i].op = "insert" => Complete(ps[i].value)
        /\ ValidBatch(KeysOf(r), KeyChanges(b), only)
  <2>1. CASE q.op = "write_many"
    <3> DEFINE only == \A i \in DOMAIN ps : ps[i].op = "insert"
    <3>1. DOMAIN ps \subseteq Nat /\ 1 \in DOMAIN ps
      BY <1>2
    <3>2. /\ t \in Tables
          /\ only \/ \A i \in DOMAIN ps : ps[i].op # "insert"
          /\ \A i \in DOMAIN ps : IF only THEN Complete(ps[i].value)
                                   ELSE Refusal(r, ps[i]) = "ok"
          /\ ValidBatch(KeysOf(r), KeyChanges(b), only)
      BY <1>3, <2>1, <3>1, ManyAccepts
    <3>3. ps[1].op = "insert" => only
      BY <3>1, <3>2
    <3> QED
      BY <3>2, <3>3
  <2>2. CASE q.op # "write_many"
    <3>1. /\ DOMAIN ps = {1} /\ ps[1].op \in WriteOps
      BY <1>2, <2>2
    <3>2. /\ Refusal(r, ps[1]) = "ok"
          /\ ValidBatch(KeysOf(r), KeyChanges(<<Resolved(r, ps[1])>>), ps[1].op = "insert")
      BY <1>3, <2>2, <3>1, PlanAccepts
    <3>3. b = <<Resolved(r, ps[1])>>
      BY <3>1 DEF Resolution
    <3>4. t \in Tables
      BY <3>2 DEF Refusal, ValidPlan
    <3>5. ps[1].op = "insert" => Complete(ps[1].value)
      BY <3>2 DEF Refusal
    <3> QED
      BY <3>1, <3>2, <3>3, <3>4, <3>5
  <2> QED
    BY <2>1, <2>2
<1>6. r \in [Ids -> Row \cup {NoRow}]
  BY <1>5 DEF BridgeInv, TypeOK
<1>7. /\ DOMAIN b = DOMAIN ps
      /\ \A i \in DOMAIN ps : IF ps[i].op = "remove" THEN b[i].row = NoRow
                               ELSE b[i].row \in Row
  BY <1>2, <1>3, <1>5, <1>6, ResolutionTyped
<1>8. /\ \A i, j \in DOMAIN b : i # j => b[i].id # b[j].id
      /\ only => \A i \in DOMAIN b : b[i].id \in Ids => KeyOf(r[b[i].id]) = NoRow
  BY <1>5, BatchDistinct
<1>9. ps[1].op = "insert" => /\ ps[1].value["id"] \in Ids /\ b[1].id = ps[1].value["id"]
                             /\ r[b[1].id] = NoRow
  <2> SUFFICES ASSUME ps[1].op = "insert" 
               PROVE  /\ ps[1].value["id"] \in Ids /\ b[1].id = ps[1].value["id"]
                      /\ r[b[1].id] = NoRow
    OBVIOUS
  <2>0. 1 \in DOMAIN ps
    BY <1>2
  <2>1. 1 \in DOMAIN ps /\ Complete(ps[1].value) /\ Typed(ps[1].value)
    BY <1>3, <1>5, <2>0
  <2>2. ps[1].value["id"] \in Ids
    BY <2>1 DEF Complete, Typed, Fields
  <2>3. b[1].id = ps[1].value["id"]
    BY <2>1 DEF Resolution, Resolved
  <2>4. KeyOf(r[b[1].id]) = NoRow
    BY <1>5, <1>7, <1>8, <2>1, <2>2, <2>3
  <2>5. r[b[1].id] \in Row \cup {NoRow}
    BY <1>6, <2>2, <2>3
  <2>6. r[b[1].id] = NoRow
    BY <2>4, <2>5, NoRowAssumption DEF KeyOf, Row
  <2> QED
    BY <2>2, <2>3, <2>6
<1> HIDE DEF b
<1>10. b = Batch(q)
  BY DEF b, Batch
<1> QED
  BY <1>1, <1>2, <1>3, <1>4, <1>5, <1>7, <1>8, <1>9, <1>10 DEF CommitFacts, FitsLayout

\* The shape of a table under a version is that of a version.
LEMMA ShapeTyped ==
    ASSUME NEW v \in Buildable, NEW t \in TablesOf[v]
    PROVE  Shape[v][t] \in Buildable
<1>1. Shape[v][t] = CHOOSE u \in Buildable :
                      /\ t \in TablesOf[u]
                      /\ PreambleOf(Declared[u], t) = PreambleOf(Declared[v], t)
  BY DEF Shape
<1> QED
  BY <1>1

\* What a commit of n changes does to the tables and to the history.
LEMMA CommitMakes ==
    ASSUME BridgeInv, NEW c \in CallIds, NEW n, Commits(c, n)
    PROVE  LET q == calls[c].request
               p == q.plans[1]
               t == p.table
           IN  /\ CommitFacts(c)
               /\ commits' = IF n > 0 THEN Append(commits, c) ELSE commits
               /\ shape' \in [Tables -> Buildable \cup {None}]
               /\ \A u \in Tables : shape[u] # None => shape'[u] = shape[u]
               /\ n > 0 => shape'[t] = Shape[calls[c].schema][t]
               /\ rows' \in [Tables -> [Ids -> Row \cup {NoRow}]]
               /\ \A u \in Tables, id \in Ids :
                    rows[u][id] # NoRow /\ rows'[u][id] = NoRow =>
                      n > 0 /\ Removes(calls[c], u)
               /\ n > 0 /\ p.op = "insert" => rows'[t][p.value["id"]] # NoRow
<1> DEFINE q == calls[c].request
           v == calls[c].schema
           p == q.plans[1]
           t == p.table
           b == Batch(q)
           d == Prefix(b, n)
           new == Changed(rows[t], d)
<1>1. /\ CommitFacts(c) /\ n \in 0..Len(q.plans) /\ Commit(c, v, q, n)
  BY CommitKnows DEF Commits
<1>2. /\ Len(q.plans) \in Nat \ {0} /\ DOMAIN q.plans = 1..Len(q.plans)
      /\ v \in Buildable /\ t \in Tables /\ t \in TablesOf[v]
      /\ shape[t] \in {None, Shape[v][t]}
  BY <1>1 DEF CommitFacts
<1>3. /\ DOMAIN b = 1..Len(q.plans)
      /\ \A i \in DOMAIN b : IF q.plans[i].op = "remove" THEN b[i].row = NoRow
                             ELSE b[i].row \in Row
      /\ \A i, j \in DOMAIN b : i # j => b[i].id # b[j].id
      /\ p.op = "insert" => p.value["id"] \in Ids /\ b[1].id = p.value["id"]
  BY <1>1 DEF CommitFacts
<1>4. /\ rows' = [rows EXCEPT ![t] = new]
      /\ commits' = IF n > 0 THEN Append(commits, c) ELSE commits
      /\ \/ shape' = [shape EXCEPT ![t] = Shape[v][t]]
         \/ n = 0 /\ shape' = shape
  BY <1>1 DEF Commit
<1>5. /\ rows \in [Tables -> [Ids -> Row \cup {NoRow}]]
      /\ shape \in [Tables -> Buildable \cup {None}]
  BY DEF BridgeInv, TypeOK
<1> HIDE DEF b
<1>6. DOMAIN d = 1..n /\ \A i \in 1..n : d[i] = b[i] /\ i \in DOMAIN b
  BY <1>1, <1>2, <1>3 DEF Prefix
<1> HIDE DEF d
<1>7. /\ \A i \in 1..n : d[i].row \in Row \cup {NoRow}
      /\ \A i \in 1..n : d[i].row = NoRow => q.plans[i].op = "remove"
      /\ \A i, j \in DOMAIN d : i # j => d[i].id # d[j].id
  BY <1>3, <1>6, NoRowIsNoRecord DEF Row
<1>8. new \in [Ids -> Row \cup {NoRow}]
  BY <1>2, <1>5, <1>6, <1>7, ChangedTyped
<1>9. /\ \A i \in 1..n : d[i].id \in Ids => new[d[i].id] = d[i].row
      /\ \A id \in Ids : (\A i \in 1..n : d[i].id # id) => new[id] = rows[t][id]
  <2>1. /\ \A i \in DOMAIN d : d[i].id \in Ids => new[d[i].id] = d[i].row
        /\ \A id \in Ids : (\A i \in DOMAIN d : d[i].id # id) => new[id] = rows[t][id]
    BY <1>7, ChangedAt
  <2> QED
    BY <1>6, <2>1
<1> HIDE DEF new
<1>10. rows' \in [Tables -> [Ids -> Row \cup {NoRow}]]
  BY <1>2, <1>4, <1>5, <1>8
<1>11. ASSUME NEW u \in Tables, NEW id \in Ids, rows[u][id] # NoRow, rows'[u][id] = NoRow
       PROVE  n > 0 /\ Removes(calls[c], u)
  <2>1. u = t /\ new[id] = NoRow
    BY <1>2, <1>4, <1>5, <1>11
  <2>2. PICK i \in 1..n : d[i].id = id
    BY <1>9, <1>11, <2>1
  <2>3. q.plans[i].op = "remove"
    BY <1>7, <1>9, <2>1, <2>2
  <2> QED
    BY <1>1, <1>2, <2>1, <2>2, <2>3 DEF Removes
<1>12. ASSUME n > 0, p.op = "insert" PROVE rows'[t][p.value["id"]] # NoRow
  <2>1. 1 \in 1..n /\ d[1] = b[1] /\ 1 \in DOMAIN b
    BY <1>1, <1>2, <1>6, <1>12
  <2>2. new[p.value["id"]] = b[1].row
    BY <1>3, <1>9, <1>12, <2>1
  <2>3. b[1].row # NoRow
    BY <1>3, <1>12, <2>1, NoRowIsNoRecord DEF Row
  <2> QED
    BY <1>2, <1>4, <1>5, <2>2, <2>3
<1>13. Shape[v][t] \in Buildable
  BY <1>2, ShapeTyped
<1>14. /\ shape' \in [Tables -> Buildable \cup {None}]
       /\ \A u \in Tables : shape[u] # None => shape'[u] = shape[u]
       /\ n > 0 => shape'[t] = Shape[v][t]
  <2> DEFINE now == Shape[v][t]
  <2>1. /\ now \in Buildable /\ shape[t] \in {None, now} /\ t \in Tables
        /\ \/ shape' = [shape EXCEPT ![t] = now]
           \/ n = 0 /\ shape' = shape
    BY <1>2, <1>4, <1>13
  <2> HIDE DEF t, now
  <2>2. CASE shape' = [shape EXCEPT ![t] = now]
    BY <1>5, <2>1, <2>2 DEF now
  <2>3. CASE n = 0 /\ shape' = shape
    BY <1>5, <2>3
  <2> QED
    BY <2>1, <2>2, <2>3
<1> QED
  BY <1>1, <1>4, <1>10, <1>11, <1>12, <1>14

-------------------------------------------------------------------------------
(* Every step keeps the invariant. *)

\* What a step makes of the records of all calls.
LEMMA RecordsKept ==
    ASSUME BridgeInv, NEW c \in CallIds, NEW r, Records(c, r)
    PROVE  /\ calls' = [d \in CallIds |-> calls'[d]] /\ calls'[c] = r
           /\ \A d \in CallIds : /\ IsCall(calls'[d]) /\ AnswerTells(calls'[d])
                                 /\ SchemaKnown(calls'[d]) /\ calls'[d].after \subseteq Answered'
                                 /\ Keeps(calls[d], calls'[d])
<1>1. calls = [d \in CallIds |-> calls[d]]
  BY DEF BridgeInv, TypeOK
<1>2. /\ calls' = [calls EXCEPT ![c] = r] /\ IsCall(r) /\ AnswerTells(r) /\ SchemaKnown(r)
      /\ r.after \subseteq Answered /\ Keeps(calls[c], r)
  BY DEF Records
<1>3. /\ calls' = [d \in CallIds |-> calls'[d]] /\ calls'[c] = r
      /\ \A d \in CallIds : d # c => calls'[d] = calls[d]
  BY <1>1, <1>2
<1>4. \A d \in CallIds : d # c => Keeps(calls[d], calls'[d])
  BY <1>3 DEF Keeps
<1>5. \A d \in CallIds : Keeps(calls[d], calls'[d])
  BY <1>2, <1>3, <1>4
<1>6. Answered \subseteq Answered'
  BY <1>5 DEF Answered, Keeps
<1>7. \A d \in CallIds : /\ IsCall(calls'[d]) /\ AnswerTells(calls'[d])
                        /\ SchemaKnown(calls'[d]) /\ calls'[d].after \subseteq Answered
  BY <1>2, <1>3, CallFacts
<1> QED
  BY <1>3, <1>5, <1>6, <1>7

\* The calls that had committed before a step have asked the same after it.
LEMMA PastKept ==
    ASSUME BridgeInv, NEW c \in CallIds, NEW r, Records(c, r), NEW i \in DOMAIN commits
    PROVE  /\ commits[i] \in CallIds
           /\ calls[commits[i]].child = "ended" /\ calls'[commits[i]].child = "ended"
           /\ calls'[commits[i]].request = calls[commits[i]].request
           /\ calls'[commits[i]].schema = calls[commits[i]].schema
           /\ calls'[commits[i]].hash = calls[commits[i]].hash
           /\ calls'[commits[i]].after = calls[commits[i]].after
<1>1. commits[i] \in CallIds
  BY DEF BridgeInv, TypeOK
<1>2. calls[commits[i]].child = "ended"
  BY DEF BridgeInv, OrderInv
<1> QED
  BY <1>1, <1>2, RecordsKept DEF Keeps

LEMMA StepInv ==
    ASSUME BridgeInv, NEW c \in CallIds, Step(c)
    PROVE  BridgeInv'
<1> DEFINE L    == Len(commits)
           C(i) == calls[commits[i]]
           D(i) == calls'[commits'[i]]
           q    == calls[c].request
           p    == q.plans[1]
<1>1. PICK r : /\ Records(c, r)
               /\ \/ UNCHANGED <<rows, shape, commits>>
                  \/ r.child = "ended" /\ \E n : Commits(c, n)
  BY DEF Step
<1>2. /\ calls' = [d \in CallIds |-> calls'[d]] /\ calls'[c] = r
      /\ \A d \in CallIds : /\ IsCall(calls'[d]) /\ AnswerTells(calls'[d])
                            /\ SchemaKnown(calls'[d]) /\ calls'[d].after \subseteq Answered'
                            /\ Keeps(calls[d], calls'[d])
  BY <1>1, RecordsKept
<1>3. /\ TypeOK /\ AnswerInv /\ OrderInv /\ EffectsInRealTime /\ SchemaInv
      /\ RowsFitTheirTable /\ AddedInv /\ RetriedAddOnce
  BY DEF BridgeInv
<1>4. /\ rows \in [Tables -> [Ids -> Row \cup {NoRow}]]
      /\ shape \in [Tables -> Buildable \cup {None}]
      /\ commits \in Seq(CallIds) /\ file \in Versions
  BY <1>3 DEF TypeOK
<1>4a. L \in Nat /\ Len(commits) = L /\ DOMAIN commits = 1..L
  BY <1>4
<1> HIDE DEF L
\* The changes of this step are in effect.
<1>5. /\ rows' \in [Tables -> [Ids -> Row \cup {NoRow}]]
      /\ shape' \in [Tables -> Buildable \cup {None}]
      /\ commits' \in {commits, Append(commits, c)}
      /\ \A u \in Tables : shape[u] # None => shape'[u] = shape[u]
      /\ \A u \in Tables, id \in Ids :
           rows[u][id] # NoRow /\ rows'[u][id] = NoRow =>
             commits' = Append(commits, c) /\ Removes(calls[c], u)
  BY <1>1, <1>4, CommitMakes
<1>6. commits' # commits =>
        /\ CommitFacts(c) /\ calls[c].child = "ready" /\ r.child = "ended"
        /\ shape'[p.table] = Shape[calls[c].schema][p.table]
        /\ p.op = "insert" => rows'[p.table][p.value["id"]] # NoRow
  <2>1. ASSUME NEW n, Commits(c, n), commits' # commits
        PROVE  /\ CommitFacts(c) /\ calls[c].child = "ready"
               /\ shape'[p.table] = Shape[calls[c].schema][p.table]
               /\ p.op = "insert" => rows'[p.table][p.value["id"]] # NoRow
    BY <2>1, CommitMakes DEF Commits
  <2> QED
    BY <1>1, <2>1
\* The history has grown by at most this call.
<1>7. /\ commits' \in Seq(CallIds) /\ DOMAIN commits' = 1..Len(commits')
      /\ Len(commits') \in {L, L + 1} /\ (commits' # commits => Len(commits') = L + 1)
      /\ (Len(commits') = L + 1 => commits' # commits /\ commits'[L + 1] = c)
      /\ \A i \in 1..L : commits'[i] = commits[i] /\ i \in DOMAIN commits'
  <2>1. CASE commits' = commits
    <3>1. Len(commits') = L /\ DOMAIN commits' = 1..L /\ commits' \in Seq(CallIds)
      BY <1>4, <1>4a, <2>1
    <3>2. L # L + 1
      BY <1>4a
    <3> QED
      BY <1>4a, <2>1, <3>1, <3>2
  <2>2. CASE commits' = Append(commits, c)
    <3> DEFINE z == Append(commits, c)
    <3>1. /\ z \in Seq(CallIds) /\ Len(z) = L + 1 /\ DOMAIN z = 1..(L + 1)
          /\ z[L + 1] = c /\ \A i \in 1..L : z[i] = commits[i]
      BY <1>4, <1>4a
    <3> HIDE DEF z
    <3>2. commits' = z
      BY <2>2 DEF z
    <3>3. z # commits
      BY <1>4, <1>4a, <3>1
    <3> QED
      BY <1>4a, <3>1, <3>2, <3>3
  <2> QED
    BY <1>5, <2>1, <2>2
<1>8. \A i \in 1..L : /\ commits[i] \in CallIds /\ C(i).child = "ended"
                     /\ D(i).child = "ended" /\ D(i).request = C(i).request
                     /\ D(i).schema = C(i).schema /\ D(i).hash = C(i).hash
                     /\ D(i).after = C(i).after
  <2> TAKE i \in 1..L
  <2>1. i \in DOMAIN commits /\ commits'[i] = commits[i]
    BY <1>4a, <1>7
  <2> QED
    BY <1>1, <2>1, PastKept
<1>9. Len(commits') = L + 1 =>
        /\ calls[c].child = "ready" /\ D(L + 1).child = "ended" /\ D(L + 1).request = q
        /\ D(L + 1).schema = calls[c].schema /\ D(L + 1).hash = calls[c].hash
        /\ D(L + 1).after = calls[c].after
  BY <1>2, <1>6, <1>7 DEF Keeps
<1> HIDE DEF C, D
<1>9a. \A i \in DOMAIN commits' : i \in 1..L \/ (i = L + 1 /\ Len(commits') = L + 1)
  <2>1. DOMAIN commits' = 1..Len(commits') /\ Len(commits') \in {L, L + 1}
    BY <1>7
  <2>2. CASE Len(commits') = L
    BY <2>1, <2>2
  <2>3. CASE Len(commits') = L + 1
    BY <1>4a, <2>1, <2>3
  <2> QED
    BY <2>1, <2>2, <2>3
<1>10. TypeOK'
  BY <1>2, <1>4, <1>5, <1>7 DEF TypeOK, Step
<1>11. AnswerInv'
  BY <1>2 DEF AnswerInv, AnswerTells
<1>12. OrderInv'
  <2>1. \A i \in DOMAIN commits' : D(i).child = "ended"
    BY <1>8, <1>9, <1>9a
  <2> QED
    BY <1>2, <2>1 DEF OrderInv, D
<1>13. EffectsInRealTime'
  <2> SUFFICES ASSUME NEW i \in DOMAIN commits', NEW j \in DOMAIN commits',
                      commits'[i] \in D(j).after
               PROVE  i < j
    BY DEF EffectsInRealTime, D
  <2>1. CASE i \in 1..L /\ j \in 1..L
    <3>1. commits[i] \in calls[commits[j]].after
      BY <1>7, <1>8, <2>1 DEF C
    <3> QED
      BY <1>3, <1>4a, <2>1, <3>1 DEF EffectsInRealTime
  <2>2. CASE i = L + 1
    <3>1. commits'[i] = c /\ calls[c].child = "ready"
      <4>1. i \notin 1..L
        BY <1>4a, <2>2
      <4>2. Len(commits') = L + 1
        BY <1>9a, <4>1
      <4> QED
        BY <1>7, <1>9, <2>2, <4>2
    <3>2. \E d \in CallIds : D(j).after = calls[d].after
      BY <1>8, <1>9, <1>9a DEF C
    <3>3. c \in Answered
      BY <1>3, <3>1, <3>2 DEF OrderInv
    <3> QED
      BY <1>3, <3>1, <3>3 DEF AnswerInv, Answered
  <2>3. CASE i \in 1..L /\ j = L + 1
    BY <1>4a, <2>3
  <2> QED
    BY <1>9a, <2>1, <2>2, <2>3
<1>14. SchemaInv'
  <2>1. \A i \in 1..L : /\ C(i).schema \in Buildable
                       /\ C(i).request.plans[1].table \in Tables \cap TablesOf[C(i).schema]
    BY <1>3, <1>4a DEF SchemaInv, C
  <2>2. Len(commits') = L + 1 => /\ calls[c].schema \in Buildable
                                 /\ p.table \in Tables \cap TablesOf[calls[c].schema]
    BY <1>6, <1>7 DEF CommitFacts
  <2>3. \A i \in DOMAIN commits' :
          /\ D(i).schema \in Buildable
          /\ D(i).request.plans[1].table \in Tables \cap TablesOf[D(i).schema]
    BY <1>8, <1>9, <1>9a, <2>1, <2>2
  <2> QED
    BY <1>2, <2>3 DEF SchemaInv, SchemaKnown, D
<1>15. RowsFitTheirTable'
  <2>1. ASSUME NEW i \in 1..L
        PROVE  /\ HashOf[D(i).schema] = D(i).hash
               /\ shape'[D(i).request.plans[1].table]
                    = Shape[D(i).schema][D(i).request.plans[1].table]
    <3> DEFINE t == C(i).request.plans[1].table
               v == C(i).schema
    <3>1. v \in Buildable /\ t \in Tables \cap TablesOf[v]
      BY <1>3, <1>4a DEF SchemaInv, C
    <3>2. HashOf[v] = C(i).hash /\ shape[t] = Shape[v][t]
      BY <1>3, <1>4a DEF RowsFitTheirTable, C
    <3>3. Shape[v][t] # None
      BY <3>1, ShapeTyped, NoneIsNothing DEF Buildable
    <3> HIDE DEF t, v
    <3>4. shape'[t] = Shape[v][t]
      BY <1>5, <3>1, <3>2, <3>3
    <3> QED
      BY <1>8, <3>2, <3>4 DEF t, v
  <2>2. Len(commits') = L + 1 =>
          /\ HashOf[calls[c].schema] = calls[c].hash
          /\ shape'[p.table] = Shape[calls[c].schema][p.table]
    BY <1>6, <1>7 DEF CommitFacts
  <2>3. \A i \in DOMAIN commits' :
          /\ HashOf[D(i).schema] = D(i).hash
          /\ shape'[D(i).request.plans[1].table]
               = Shape[D(i).schema][D(i).request.plans[1].table]
    BY <1>9, <1>9a, <2>1, <2>2
  <2> QED
    BY <2>3 DEF RowsFitTheirTable, D
<1>16. \A t \in Tables :
         /\ \A k \in 1..L : Removes(C(k), t) => Removes(D(k), t)
         /\ Len(commits') = L + 1 /\ Removes(calls[c], t) => Removes(D(L + 1), t)
  BY <1>8, <1>9 DEF Removes
<1>17. AddedInv'
  <2> DEFINE Added(r0)   == r0.request.plans[1].op = "insert"
             Id(r0)      == r0.request.plans[1].value["id"]
             Table(r0)   == r0.request.plans[1].table
  <2>1. ASSUME NEW i \in 1..L, Added(C(i))
        PROVE  /\ Id(C(i)) \in Ids /\ Table(C(i)) \in Tables
               /\ \/ rows[Table(C(i))][Id(C(i))] # NoRow
                  \/ \E k \in i..L : Removes(C(k), Table(C(i)))
    BY <1>3, <1>4a, <2>1 DEF AddedInv, SchemaInv, C, L
  <2>3. ASSUME NEW i \in 1..L, Added(C(i))
        PROVE  \/ rows'[Table(C(i))][Id(C(i))] # NoRow
               \/ \E k \in i..Len(commits') : Removes(D(k), Table(C(i)))
    <3>1. CASE \E k \in i..L : Removes(C(k), Table(C(i)))
      <4>1. PICK k \in i..L : Removes(C(k), Table(C(i)))
        BY <3>1
      <4>2. Len(commits') \in {L, L + 1}
        BY <1>7
      <4>3. k \in 1..L /\ k \in i..Len(commits')
        BY <1>4a, <4>2
      <4> QED
        BY <1>16, <2>1, <2>3, <4>1, <4>3
    <3>2. CASE /\ rows[Table(C(i))][Id(C(i))] # NoRow
               /\ rows'[Table(C(i))][Id(C(i))] = NoRow
      <4>1. commits' = Append(commits, c) /\ Removes(calls[c], Table(C(i)))
        BY <1>5, <2>1, <2>3, <3>2
      <4>2. Len(commits') = L + 1
        BY <1>4, <4>1 DEF L
      <4>3. L + 1 \in i..Len(commits')
        BY <1>4a, <4>2
      <4> QED
        BY <1>16, <2>1, <2>3, <4>1, <4>2, <4>3
    <3> QED
      BY <2>1, <2>3, <3>1, <3>2
  <2>4. ASSUME Len(commits') = L + 1, p.op = "insert"
        PROVE  p.value["id"] \in Ids /\ rows'[p.table][p.value["id"]] # NoRow
    BY <1>6, <1>7, <2>4 DEF CommitFacts
  <2>5. \A i \in DOMAIN commits' : Added(D(i)) =>
          /\ Id(D(i)) \in Ids
          /\ \/ rows'[Table(D(i))][Id(D(i))] # NoRow
             \/ \E k \in i..Len(commits') : Removes(D(k), Table(D(i)))
    BY <1>8, <1>9, <1>9a, <2>1, <2>3, <2>4
  <2> QED
    BY <2>5 DEF AddedInv, D
<1>18. RetriedAddOnce'
  <2> SUFFICES ASSUME NEW i \in DOMAIN commits', NEW j \in DOMAIN commits', i < j,
                      D(i).request.plans[1].op = "insert", D(j).request.plans[1].op = "insert",
                      D(i).request.plans[1].table = D(j).request.plans[1].table,
                      D(i).request.plans[1].value["id"] = D(j).request.plans[1].value["id"]
               PROVE  \E k \in i..j : Removes(D(k), D(i).request.plans[1].table)
    BY DEF RetriedAddOnce, D
  <2> DEFINE t == C(i).request.plans[1].table
  <2>1. i \in 1..L
    BY <1>4a, <1>9a
  <2>2. D(i).request = C(i).request /\ t \in Tables
    BY <1>3, <1>4a, <1>8, <2>1 DEF SchemaInv, C
  <2> HIDE DEF t
  <2>3. CASE j \in 1..L
    <3>1. i \in DOMAIN commits /\ j \in DOMAIN commits /\ D(j).request = C(j).request
      BY <1>4a, <1>8, <2>1, <2>3
    <3>2. PICK k \in i..j : Removes(C(k), t)
      BY <1>3, <2>2, <3>1 DEF RetriedAddOnce, C, t
    <3>3. k \in 1..L
      BY <1>4a, <2>1, <2>3
    <3> QED
      BY <1>16, <2>2, <3>2, <3>3 DEF t
  <2>4. CASE j = L + 1 /\ Len(commits') = L + 1
    <3>1. /\ p.op = "insert" /\ p.table = t
          /\ p.value["id"] = C(i).request.plans[1].value["id"]
      BY <1>9, <2>2, <2>4 DEF t
    <3>2. rows[p.table][p.value["id"]] = NoRow
      BY <1>6, <1>7, <2>4, <3>1 DEF CommitFacts
    <3>3. PICK k \in i..L : Removes(C(k), t)
      BY <1>3, <1>4a, <2>1, <2>2, <3>1, <3>2 DEF AddedInv, C, L, t
    <3>4. k \in 1..L /\ k \in i..j
      BY <1>4a, <2>1, <2>4
    <3> QED
      BY <1>16, <2>2, <3>3, <3>4 DEF t
  <2> QED
    BY <1>9a, <2>3, <2>4
<1> QED
  BY <1>10, <1>11, <1>12, <1>13, <1>14, <1>15, <1>17, <1>18 DEF BridgeInv

\* A broken pipe ends one child, which has done nothing yet, and some clients,
\* which have no answer yet.
LEMMA PipeInv ==
    ASSUME BridgeInv, NEW c \in CallIds, BreakPipe(c)
    PROVE  BridgeInv'
<1>1. /\ calls[c].child = "spawned"
      /\ rows' = rows /\ shape' = shape /\ file' = file /\ commits' = commits
  BY DEF BreakPipe
<1>2. PICK same \in SUBSET Waiting :
        calls' = [d \in CallIds |->
                    [calls[d] EXCEPT !.child = IF d = c THEN "ended" ELSE @,
                                     !.gone = @ \/ d \in same]]
  BY DEF BreakPipe
<1>3. \A d \in CallIds : /\ IsCall(calls[d]) /\ AnswerTells(calls[d]) /\ SchemaKnown(calls[d])
                        /\ calls[d].after \subseteq Answered
  BY CallFacts
<1>4. ASSUME NEW d \in CallIds
      PROVE  /\ DOMAIN calls'[d] = DOMAIN calls[d]
             /\ calls'[d].child = IF d = c THEN "ended" ELSE calls[d].child
             /\ calls'[d].request = calls[d].request /\ calls'[d].hash = calls[d].hash
             /\ calls'[d].schema = calls[d].schema /\ calls'[d].response = calls[d].response
             /\ calls'[d].effect = calls[d].effect /\ calls'[d].answer = calls[d].answer
             /\ calls'[d].after = calls[d].after
  <2>1. calls'[d] = [calls[d] EXCEPT !.child = IF d = c THEN "ended" ELSE @,
                                     !.gone = @ \/ d \in same]
    BY <1>2
  <2> QED
    BY <1>3, <2>1 DEF IsCall
<1>5. calls' = [d \in CallIds |-> calls'[d]]
  BY <1>2
<1>6. \A d \in CallIds : IsCall(calls'[d])
  BY <1>1, <1>3, <1>4 DEF IsCall
<1>7. \A d \in CallIds : AnswerTells(calls'[d]) /\ SchemaKnown(calls'[d])
  BY <1>1, <1>3, <1>4, NoneIsNothing DEF AnswerTells, SchemaKnown
<1>8. Answered' = Answered
  BY <1>4 DEF Answered
<1>9. \A i \in DOMAIN commits : commits[i] \in CallIds
  BY DEF BridgeInv, TypeOK
<1>9a. \A i \in DOMAIN commits :
          /\ calls'[commits[i]].request = calls[commits[i]].request
          /\ \A t : Removes(calls[commits[i]], t) => Removes(calls'[commits[i]], t)
  BY <1>4, <1>9 DEF Removes
<1>9b. DOMAIN commits = 1..Len(commits) /\ Len(commits) \in Nat
  BY DEF BridgeInv, TypeOK
<1>10. TypeOK' /\ AnswerInv'
  BY <1>1, <1>5, <1>6, <1>7 DEF BridgeInv, TypeOK, AnswerInv, AnswerTells
<1>11. OrderInv' /\ EffectsInRealTime'
  BY <1>1, <1>3, <1>4, <1>8, <1>9 DEF BridgeInv, OrderInv, EffectsInRealTime
<1>12. SchemaInv' /\ RowsFitTheirTable'
  BY <1>1, <1>4, <1>7, <1>9 DEF BridgeInv, SchemaInv, SchemaKnown, RowsFitTheirTable
<1>13. AddedInv'
  <2> SUFFICES ASSUME NEW i \in DOMAIN commits,
                      calls'[commits[i]].request.plans[1].op = "insert"
               PROVE  LET p == calls'[commits[i]].request.plans[1] IN
                        /\ p.value["id"] \in Ids
                        /\ \/ rows[p.table][p.value["id"]] # NoRow
                           \/ \E k \in i..Len(commits) : Removes(calls'[commits[k]], p.table)
    BY <1>1 DEF AddedInv
  <2> DEFINE p == calls[commits[i]].request.plans[1]
  <2>3. /\ p.value["id"] \in Ids
        /\ \/ rows[p.table][p.value["id"]] # NoRow
           \/ \E k \in i..Len(commits) : Removes(calls[commits[k]], p.table)
    BY <1>9a DEF BridgeInv, AddedInv
  <2>4. \A k \in i..Len(commits) : k \in DOMAIN commits
    BY <1>9b
  <2> QED
    BY <1>9a, <2>3, <2>4
<1>14. RetriedAddOnce'
  <2> SUFFICES ASSUME NEW i \in DOMAIN commits, NEW j \in DOMAIN commits, i < j,
                      calls'[commits[i]].request.plans[1].op = "insert",
                      calls'[commits[j]].request.plans[1].op = "insert",
                      calls'[commits[i]].request.plans[1].table
                        = calls'[commits[j]].request.plans[1].table,
                      calls'[commits[i]].request.plans[1].value["id"]
                        = calls'[commits[j]].request.plans[1].value["id"]
               PROVE  \E k \in i..j :
                        Removes(calls'[commits[k]], calls'[commits[i]].request.plans[1].table)
    BY <1>1 DEF RetriedAddOnce
  <2>1. PICK k \in i..j : Removes(calls[commits[k]], calls[commits[i]].request.plans[1].table)
    BY <1>9a DEF BridgeInv, RetriedAddOnce
  <2>2. k \in DOMAIN commits
    BY <1>9b
  <2> QED
    BY <1>9a, <2>1, <2>2
<1> QED
  BY <1>10, <1>11, <1>12, <1>13, <1>14 DEF BridgeInv

\* Steps that leave the calls and the tables alone.
LEMMA EditInv ==
    ASSUME BridgeInv, file' \in Versions, UNCHANGED <<rows, shape, commits, calls>>
    PROVE  BridgeInv'
<1>1. rows' = rows /\ shape' = shape /\ commits' = commits /\ calls' = calls
  OBVIOUS
<1>2. TypeOK' /\ AnswerInv' /\ OrderInv' /\ EffectsInRealTime'
  BY <1>1 DEF BridgeInv, TypeOK, AnswerInv, OrderInv, Answered, EffectsInRealTime
<1>3. SchemaInv' /\ RowsFitTheirTable'
  BY <1>1 DEF BridgeInv, SchemaInv, RowsFitTheirTable
<1>4. AddedInv'
  BY <1>1 DEF BridgeInv, AddedInv
<1>5. RetriedAddOnce'
  BY <1>1 DEF BridgeInv, RetriedAddOnce
<1> QED
  BY <1>2, <1>3, <1>4, <1>5 DEF BridgeInv

LEMMA InitInv == Init => BridgeInv
<1> SUFFICES ASSUME Init PROVE BridgeInv
  OBVIOUS
<1>1. /\ rows = [t \in Tables |-> [id \in Ids |-> NoRow]] /\ shape = [t \in Tables |-> None]
      /\ file \in Accepted \cap Buildable /\ commits = <<>>
      /\ calls = [c \in CallIds |-> Unmade]
  BY DEF Init
<1>2. \A c \in CallIds : calls[c] = Unmade
  BY <1>1
<1>3. IsCall(Unmade) /\ Unmade.child = "none" /\ Unmade.effect = "none"
      /\ Unmade.response = None /\ Unmade.answer = None /\ Unmade.after = {}
  BY DEF Unmade, IsCall
<1>4. DOMAIN commits = {} /\ commits \in Seq(CallIds)
  BY <1>1
<1>5. TypeOK
  BY <1>1, <1>2, <1>3, <1>4 DEF TypeOK, Accepted
<1>6. AnswerInv /\ OrderInv /\ SchemaInv
  BY <1>2, <1>3, <1>4 DEF AnswerInv, OrderInv, SchemaInv
<1>7. EffectsInRealTime /\ RowsFitTheirTable /\ AddedInv /\ RetriedAddOnce
  BY <1>4 DEF EffectsInRealTime, RowsFitTheirTable, AddedInv, RetriedAddOnce
<1> QED
  BY <1>5, <1>6, <1>7 DEF BridgeInv

LEMMA BridgeInvariant == Spec => []BridgeInv
<1>1. BridgeInv /\ [Next]_vars => BridgeInv'
  <2> SUFFICES ASSUME BridgeInv, [Next]_vars PROVE BridgeInv'
    OBVIOUS
  <2>1. ASSUME NEW v \in Versions, EditSchema(v) PROVE BridgeInv'
    BY <2>1, EditInv DEF EditSchema
  <2>2. CASE Next
    BY <2>1, <2>2, NextSplit, StepInv, PipeInv
  <2>3. CASE UNCHANGED vars
    <3>1. UNCHANGED <<rows, shape, commits, calls>> /\ file' = file
      BY <2>3 DEF vars
    <3>2. file \in Versions
      BY DEF BridgeInv, TypeOK
    <3> QED
      BY <3>1, <3>2, EditInv
  <2> QED
    BY <2>2, <2>3
<1> QED
  BY InitInv, <1>1, PTL DEF Spec

-------------------------------------------------------------------------------
(* The theorems. *)

\* Whatever dies, is interrupted or is edited in between, a client that was told
\* ok has written all it asked for, and one that was told anything else but
\* bridge_failed and io_error has written nothing.
THEOREM AnswersTellTheEffect == Spec => []AnswerTellsEffect
<1>1. BridgeInv => AnswerTellsEffect
  <2> SUFFICES ASSUME BridgeInv, NEW c \in Answered, calls[c].request.op \in Writes
               PROVE  /\ calls[c].answer = "ok" => calls[c].effect = "all"
                      /\ calls[c].answer \notin {"ok", "bridge_failed", "io_error"} =>
                           calls[c].effect = "none"
    BY DEF AnswerTellsEffect
  <2>1. c \in CallIds /\ calls[c].answer # None
    BY DEF Answered
  <2>2. AnswerTells(calls[c])
    BY <2>1, CallFacts
  <2> QED
    BY <2>1, <2>2 DEF AnswerTells, Failed
<1> QED
  BY BridgeInvariant, <1>1, PTL

\* A call made after the answer to another one takes effect after it: no child
\* commits once its client has been answered.
THEOREM EffectsComeInRealTime == Spec => []EffectsInRealTime
<1>1. BridgeInv => EffectsInRealTime
  BY DEF BridgeInv
<1> QED
  BY BridgeInvariant, <1>1, PTL

\* No child writes to a table whose chunks were written under another preamble
\* than that of the schema its client was generated from.
THEOREM RowsFitTables == Spec => []RowsFitTheirTable
<1>1. BridgeInv => RowsFitTheirTable
  BY DEF BridgeInv
<1> QED
  BY BridgeInvariant, <1>1, PTL

\* An id is added twice only if a remove was committed in between, however often
\* clients repeat an add that was not answered.
THEOREM AddsTakeEffectOnce == Spec => []RetriedAddOnce
<1>1. BridgeInv => RetriedAddOnce
  BY DEF BridgeInv
<1> QED
  BY BridgeInvariant, <1>1, PTL
===============================================================================
