----------------------------- MODULE CaseRecord -----------------------------
(***************************************************************************)
(* One exception case and everything that writes to it: the requests that  *)
(* decide it (services/decision.service.ts) and the background jobs that   *)
(* resolve its recommendation (ai/job.ts), each inside one PostgreSQL      *)
(* transaction (db/tx.ts) that ends with one entry of the case's audit     *)
(* chain (services/audit/writer.ts).                                       *)
(*                                                                         *)
(* A step is one SQL statement that can wait or can be observed; the       *)
(* statements between two such points are one step.  Isolation is READ     *)
(* COMMITTED: a statement sees what is committed when it runs.  What a     *)
(* transaction has written and not committed is in tx[p].                  *)
(***************************************************************************)
EXTENDS Naturals

CONSTANTS
    Requests,   \* decision requests that may arrive for the case
    Jobs,       \* generation jobs dispatched for the case
    Keys,       \* values of the Idempotency-Key header
    NoKey,      \* the header is absent
    Bodies,     \* decision bodies that clients send
    Fields,     \* entry fields
    Values,     \* field values, compared after trimming
    Proposals,  \* value maps the provider may propose
    Secrets,    \* values the audit writer refuses (SECRET_VALUE_RES)
    Nobody,     \* no decision, no process
    Faults      \* which faults of the environment may occur

Procs == Requests \cup Jobs

DecisionTypes == {"APPROVE", "EDIT_APPROVE", "REJECT"}

\* A set of named values: a function whose domain is a set of fields.
ValueMaps == UNION {[S -> Values] : S \in SUBSET Fields}
NoValues == [f \in {} |-> f]

\* What a decision request may say.  reason is "short" when it has fewer than ten
\* characters or is absent; ref is the recommendation_id; values is empty when
\* resolution_values is absent.
Body == [type : DecisionTypes, reason : {"short", "sound"},
         ref : {"absent", "current", "other"}, values : ValueMaps]

ASSUME ProcsAssumption ==
    /\ Requests \cap Jobs = {}
    /\ Nobody \notin Procs
    /\ NoKey \notin Keys

ASSUME DataAssumption ==
    /\ Bodies \subseteq Body
    /\ Proposals \subseteq ValueMaps
    /\ Secrets \subseteq Values
    /\ Faults \subseteq {"crash", "error", "lost_ack"}

VARIABLES
    exc,        \* the exceptions row: state and decision_id
    rec,        \* the recommendations row with its proposed values
    decisions,  \* the decisions rows of the case
    audit,      \* the audit_entries rows of the case
    holder,     \* processes that hold a row lock, by row
    keyShare,   \* transactions whose audit row references the exceptions row
    request,    \* what each request says: its key and its body
    answer,     \* what the provider answered each job: the row it will write
    pc,         \* next statement of each process
    tx,         \* the uncommitted work of each process
    reply       \* how each process ended

tables == <<exc, rec, decisions, audit>>
locks  == <<holder, keyShare>>
vars   == <<exc, rec, decisions, audit, holder, keyShare, request, answer,
            pc, tx, reply>>

-----------------------------------------------------------------------------
(* The rows. *)

Recommendation ==
    [status : {"PENDING", "AVAILABLE", "UNAVAILABLE"}, values : ValueMaps]
Pending     == [status |-> "PENDING", values |-> NoValues]
Unavailable == [status |-> "UNAVAILABLE", values |-> NoValues]

Resolution == [field : Fields, value : Values, origin : {"AI", "HUMAN"}]

\* basis is the recommendation the deciding transaction read: the column that
\* the code leaves implicit in the origins it stores.
Decision == [by : Requests, type : DecisionTypes, key : Keys \cup {NoKey},
             body : Bodies, values : SUBSET Resolution, basis : Recommendation]

\* Mutant: the case is put in a state named after the decision.
ResultingStateOfType(type) == type

ResultingState(type) == IF type = "REJECT" THEN "REJECTED" ELSE "RESOLVED"

DecisionAction(type) ==
    CASE type = "APPROVE"      -> "RECOMMENDATION_APPROVED"
      [] type = "EDIT_APPROVE" -> "RECOMMENDATION_EDITED_AND_APPROVED"
      [] type = "REJECT"       -> "RECOMMENDATION_REJECTED"

OutcomeAction(status) == IF status = "AVAILABLE"
                         THEN "RECOMMENDATION_GENERATED"
                         ELSE "RECOMMENDATION_UNAVAILABLE"

DecisionActions == {DecisionAction(t) : t \in DecisionTypes}
OutcomeActions  == {OutcomeAction(s) : s \in {"AVAILABLE", "UNAVAILABLE"}}
OpeningActions  == {"ENTRY_RECEIVED", "VALIDATION_COMPLETED", "EXCEPTION_OPENED"}

\* The hash of an entry covers its case, its sequence, its writer and what it
\* says; two entries never have the same, so the sequence and the writer stand
\* for it.
ZeroHash == [seq |-> 0, by |-> Nobody]
EntryHash(e) == [seq |-> e.seq, by |-> e.by]
Hash == [seq : Nat, by : Procs \cup {Nobody}]

AuditEntry == [seq : Nat, prev : Hash, by : Procs \cup {Nobody},
               action : OpeningActions \cup OutcomeActions \cup DecisionActions]

\* The three entries of the receipt that opened the case.
Opening ==
    {[seq |-> 1, prev |-> ZeroHash, by |-> Nobody, action |-> "ENTRY_RECEIVED"],
     [seq |-> 2, prev |-> [seq |-> 1, by |-> Nobody], by |-> Nobody,
      action |-> "VALIDATION_COMPLETED"],
     [seq |-> 3, prev |-> [seq |-> 2, by |-> Nobody], by |-> Nobody,
      action |-> "EXCEPTION_OPENED"]}

\* An open transaction: what it read, and the rows it has written.
Work == [basis : Recommendation, decision : SUBSET Decision,
         outcome : SUBSET Recommendation, tail : Hash, entry : SUBSET AuditEntry]
NoWork == [basis |-> Pending, decision |-> {}, outcome |-> {},
           tail |-> ZeroHash, entry |-> {}]

Codes == {"none", "created", "replayed", "already_decided", "key_reused",
          "mismatch", "not_available", "malformed", "incomplete",
          "settled", "skipped",
          "deadlock", "error", "forbidden", "conflict", "violation"}

-----------------------------------------------------------------------------
Init ==
    /\ exc = [state |-> "OPEN", decision |-> Nobody]
    /\ rec = Pending
    /\ decisions = {}
    /\ audit = Opening
    /\ holder = [row \in {"exception", "anchor", "recommendation"} |-> {}]
    /\ keyShare = {}
    /\ request \in [Requests -> [key : Keys \cup {NoKey}, body : Bodies]]
    /\ answer = [j \in Jobs |-> Pending]
    /\ pc = [p \in Procs |-> "idle"]
    /\ tx = [p \in Procs |-> NoWork]
    /\ reply = [p \in Procs |-> [code |-> "none", of |-> Nobody]]

-----------------------------------------------------------------------------
(* Locks and transactions. *)

\* Mutant: neither the case anchor nor the sequence index makes anyone wait.
WaitsForUnanchored(p) ==
    CASE pc[p] = "lock"   -> (holder["exception"] \cup keyShare) \ {p}
      [] pc[p] = "update" -> holder["recommendation"] \ {p}
      [] pc[p] = "insert" -> holder["exception"] \ {p}
      [] OTHER -> {}

\* The processes p waits for at its next statement.  FOR UPDATE waits for every
\* lock on the row; the foreign-key check of the audit insert takes FOR KEY
\* SHARE on the exceptions row and waits for FOR UPDATE only; a unique index
\* makes an insert wait for an uncommitted row with the same key.
WaitsFor(p) ==
    CASE pc[p] = "lock"   -> (holder["exception"] \cup keyShare) \ {p}
      [] pc[p] = "update" -> holder["recommendation"] \ {p}
      [] pc[p] \in {"write", "append"} -> holder["anchor"] \ {p}
      [] pc[p] = "insert" ->
           (holder["exception"] \ {p}) \cup
           {q \in Procs \ {p} : \E e \in tx[q].entry : e.seq = tx[p].tail.seq + 1}
      [] OTHER -> {}

Free(p) == WaitsFor(p) = {}

Acquire(p, row) == holder' = [holder EXCEPT ![row] = @ \cup {p}]

ReleaseLocks(p) ==
    /\ holder' = [row \in DOMAIN holder |-> holder[row] \ {p}]
    /\ keyShare' = keyShare \ {p}

Goto(p, label) == pc' = [pc EXCEPT ![p] = label]

\* The process ends: a request with its response, a job with its log line.
Finish(p, code, of) ==
    /\ pc' = [pc EXCEPT ![p] = "done"]
    /\ reply' = [reply EXCEPT ![p] = [code |-> code, of |-> of]]

\* Mutant: the client goes back to the pool with its transaction open.
RollbackKeepingLocks(p) ==
    /\ tx' = [tx EXCEPT ![p] = NoWork]
    /\ UNCHANGED <<tables, locks>>

\* ROLLBACK: nothing the transaction wrote remains and its locks are gone.
Rollback(p) ==
    /\ tx' = [tx EXCEPT ![p] = NoWork]
    /\ ReleaseLocks(p)
    /\ UNCHANGED tables

\* An error leaves withTransaction: roll back, rethrow, never retry.
Fail(p, code, of) == Rollback(p) /\ Finish(p, code, of)

-----------------------------------------------------------------------------
(* A decision request: POST /api/exceptions/:id/decision. *)

Submit(r) ==
    /\ pc[r] = "idle"
    /\ Goto(r, "precheck")
    /\ UNCHANGED <<tables, locks, request, answer, tx, reply>>

Sent(b) == {<<f, b.values[f]>> : f \in DOMAIN b.values}
Stored(d) == {<<x.field, x.value>> : x \in d.values}

\* decisionMatchesReplay: the type, the reason, and the values when the request
\* carries some; never the recommendation id.
SameDecision(d, b) ==
    /\ d.body.type = b.type
    /\ d.body.reason = b.reason
    /\ DOMAIN b.values # {} => Sent(b) = Stored(d)

\* Mutant: a replay is recognised by its key alone.
PrecheckByKey(r) ==
    /\ pc[r] = "precheck"
    /\ LET stored == {d \in decisions : request[r].key # NoKey /\ d.key = request[r].key}
       IN \/ stored = {} /\ Goto(r, "lock") /\ UNCHANGED reply
          \/ \E d \in stored : Finish(r, "replayed", d.by)
    /\ UNCHANGED <<tables, locks, request, answer, tx>>

\* Before BEGIN, on the pool: a committed decision with this key is replayed or
\* refused as reuse; nothing is locked and nothing is written.
Precheck(r) ==
    /\ pc[r] = "precheck"
    /\ LET stored == {d \in decisions : request[r].key # NoKey /\ d.key = request[r].key}
       IN \/ stored = {} /\ Goto(r, "lock") /\ UNCHANGED reply
          \/ \E d \in stored :
               IF SameDecision(d, request[r].body)
               THEN Finish(r, "replayed", d.by)
               ELSE Finish(r, "key_reused", d.by)
    /\ UNCHANGED <<tables, locks, request, answer, tx>>

\* Mutant: the exceptions row is read without FOR UPDATE.
ReadException(r) ==
    /\ pc[r] = "lock"
    /\ \/ exc.state = "OPEN" /\ Goto(r, "resolve") /\ UNCHANGED <<tables, locks, tx, reply>>
       \/ exc.state # "OPEN" /\ Fail(r, "already_decided", exc.decision)
    /\ UNCHANGED <<request, answer>>

\* BEGIN; SELECT ... FROM exceptions ... FOR UPDATE.
LockException(r) ==
    /\ pc[r] = "lock"
    /\ Free(r)
    /\ \/ /\ exc.state = "OPEN"
          /\ Acquire(r, "exception")
          /\ Goto(r, "resolve")
          /\ UNCHANGED <<tables, keyShare, tx, reply>>
       \/ /\ exc.state # "OPEN"
          /\ Fail(r, "already_decided", exc.decision)
    /\ UNCHANGED <<request, answer>>

\* REASON_REQUIRED and RESOLUTION_VALUES_NOT_ALLOWED.
Malformed(b) ==
    \/ b.type # "APPROVE" /\ b.reason = "short"
    \/ b.type # "EDIT_APPROVE" /\ DOMAIN b.values # {}

Incomplete(b, current) ==
    /\ b.type = "EDIT_APPROVE"
    /\ \/ DOMAIN b.values = {}
       \/ current.status = "AVAILABLE" /\ DOMAIN b.values # DOMAIN current.values

\* Mutant: APPROVE does not require an AVAILABLE recommendation.
VerdictAnyStatus(b, current) ==
    IF b.ref = "other" THEN "mismatch"
    ELSE IF Malformed(b) THEN "malformed"
    ELSE IF Incomplete(b, current) THEN "incomplete"
    ELSE "accepted"

\* The refusals of steps 4 and 5, in the order the code tests them.
Verdict(b, current) ==
    IF b.ref = "other" THEN "mismatch"
    ELSE IF b.type = "APPROVE" /\ current.status # "AVAILABLE" THEN "not_available"
    ELSE IF Malformed(b) THEN "malformed"
    ELSE IF Incomplete(b, current) THEN "incomplete"
    ELSE "accepted"

\* The recommendation is read without a lock; a refusal rolls back.
ReadRecommendation(r) ==
    /\ pc[r] = "resolve"
    /\ \/ /\ Verdict(request[r].body, rec) = "accepted"
          /\ tx' = [tx EXCEPT ![r].basis = rec]
          /\ Goto(r, "write")
          /\ UNCHANGED <<tables, locks, reply>>
       \/ /\ Verdict(request[r].body, rec) # "accepted"
          /\ Fail(r, Verdict(request[r].body, rec), Nobody)
    /\ UNCHANGED <<request, answer>>

\* Mutant: whatever a human submits is the human's.
OriginHuman(b, basis, f) == "HUMAN"

\* The origin of a submitted value (FR-11.8): AI only when it is the proposal's.
OriginOf(b, basis, f) ==
    IF basis.status = "AVAILABLE" /\ b.values[f] = basis.values[f] THEN "AI" ELSE "HUMAN"

AdoptedValues(b, basis) ==
    CASE b.type = "APPROVE" ->
           {[field |-> f, value |-> basis.values[f], origin |-> "AI"] :
              f \in DOMAIN basis.values}
      [] b.type = "EDIT_APPROVE" ->
           {[field |-> f, value |-> b.values[f], origin |-> OriginOf(b, basis, f)] :
              f \in DOMAIN b.values}
      [] b.type = "REJECT" -> {}

DecisionOf(r) ==
    [by |-> r, type |-> request[r].body.type, key |-> request[r].key,
     body |-> request[r].body, basis |-> tx[r].basis,
     values |-> AdoptedValues(request[r].body, tx[r].basis)]

\* Steps 6 to 9: the case anchor, the decision, its values, the closure.  The
\* unique index on exception_id refuses a second decision.
WriteDecision(r) ==
    /\ pc[r] = "write"
    /\ Free(r)
    /\ \/ /\ decisions = {}
          /\ Acquire(r, "anchor")
          /\ tx' = [tx EXCEPT ![r].decision = {DecisionOf(r)}]
          /\ Goto(r, "append")
          /\ UNCHANGED <<tables, keyShare, reply>>
       \/ /\ decisions # {}
          /\ Fail(r, "conflict", Nobody)
    /\ UNCHANGED <<request, answer>>

\* The 201 response, built from the transaction's own values.
Respond(r) ==
    /\ pc[r] = "respond"
    /\ Finish(r, "created", r)
    /\ UNCHANGED <<tables, locks, request, answer, tx>>

-----------------------------------------------------------------------------
(* A generation job: runGenerationJob. *)

\* The worker starts the job, which reads the recommendation on the AI pool and
\* exits when it is already resolved.
StartJob(j) ==
    /\ pc[j] = "idle"
    /\ \/ rec.status = "PENDING" /\ Goto(j, "generate") /\ UNCHANGED reply
       \/ rec.status # "PENDING" /\ Finish(j, "skipped", Nobody)
    /\ UNCHANGED <<tables, locks, request, answer, tx>>

\* The provider answers with a proposal, or with a failure.
Generate(j) ==
    /\ pc[j] = "generate"
    /\ \E a \in {[status |-> "AVAILABLE", values |-> v] : v \in Proposals} \cup {Unavailable} :
          answer' = [answer EXCEPT ![j] = a]
    /\ Goto(j, "update")
    /\ UNCHANGED <<tables, locks, request, tx, reply>>

\* BEGIN; UPDATE recommendations ... WHERE status = 'PENDING'.  No row matched:
\* the transaction commits nothing.
UpdateRecommendation(j) ==
    /\ pc[j] = "update"
    /\ Free(j)
    /\ \/ /\ rec.status = "PENDING"
          /\ Acquire(j, "recommendation")
          /\ tx' = [tx EXCEPT ![j].outcome = {answer[j]}]
          /\ Goto(j, "append")
          /\ UNCHANGED <<keyShare, reply>>
       \/ /\ rec.status # "PENDING"
          /\ Finish(j, "skipped", Nobody)
          /\ UNCHANGED <<tx, locks>>
    /\ UNCHANGED <<tables, request, answer>>

-----------------------------------------------------------------------------
(* The audit writer, inside the caller's transaction. *)

WrittenValues(p) ==
    {x.value : x \in UNION {d.values : d \in tx[p].decision}} \cup
    UNION {{o.values[f] : f \in DOMAIN o.values} : o \in tx[p].outcome}

HasSecret(p) == WrittenValues(p) \cap Secrets # {}

\* Mutant: after the refusal the job tries the same proposal again.
RefuseAndRepeat(p) ==
    /\ pc[p] = "append"
    /\ HasSecret(p)
    /\ \/ p \in Requests /\ Fail(p, "forbidden", Nobody)
       \/ p \in Jobs /\ Rollback(p) /\ Goto(p, "update") /\ UNCHANGED reply
    /\ UNCHANGED <<request, answer>>

\* validate() throws AUDIT_WRITE_FORBIDDEN_CONTENT before any SQL.  A request
\* ends with a 500; a job records UNAVAILABLE in a second transaction.
RefuseEntry(p) ==
    /\ pc[p] = "append"
    /\ HasSecret(p)
    /\ \/ /\ p \in Requests
          /\ Fail(p, "forbidden", Nobody)
          /\ UNCHANGED answer
       \/ /\ p \in Jobs
          /\ Rollback(p)
          /\ answer' = [answer EXCEPT ![p] = Unavailable]
          /\ Goto(p, "update")
          /\ UNCHANGED reply
    /\ UNCHANGED request

Last(trail) == CHOOSE e \in trail : \A f \in trail : f.seq <= e.seq

\* Mutant: append leaves the lock to its callers.
ReadTailUnlocked(p) ==
    /\ pc[p] = "append"
    /\ ~HasSecret(p)
    /\ tx' = [tx EXCEPT ![p].tail = EntryHash(Last(audit))]
    /\ Goto(p, "insert")
    /\ UNCHANGED <<tables, locks, request, answer, reply>>

\* SELECT ... FROM cargo_entries ... FOR UPDATE; then the last sequence and its
\* hash, under the lock.
ReadTail(p) ==
    /\ pc[p] = "append"
    /\ ~HasSecret(p)
    /\ Free(p)
    /\ Acquire(p, "anchor")
    /\ tx' = [tx EXCEPT ![p].tail = EntryHash(Last(audit))]
    /\ Goto(p, "insert")
    /\ UNCHANGED <<tables, keyShare, request, answer, reply>>

EntryOf(p) ==
    [seq |-> tx[p].tail.seq + 1, prev |-> tx[p].tail, by |-> p,
     action |-> IF p \in Requests THEN DecisionAction(request[p].body.type)
                ELSE OutcomeAction(answer[p].status)]

\* Mutant: the entry is inserted on the pool and not on the transaction.
InsertEntryOnPool(p) ==
    /\ pc[p] = "insert"
    /\ Free(p)
    /\ \A e \in audit : e.seq # tx[p].tail.seq + 1
    /\ tx' = [tx EXCEPT ![p].entry = {EntryOf(p)}]
    /\ audit' = audit \cup {EntryOf(p)}
    /\ keyShare' = keyShare \cup {p}
    /\ Goto(p, "commit")
    /\ UNCHANGED <<exc, rec, decisions, holder, request, answer, reply>>

\* INSERT INTO audit_entries: unique (case_id, case_sequence), and a foreign key
\* that locks the exceptions row until the transaction ends.
InsertEntry(p) ==
    /\ pc[p] = "insert"
    /\ Free(p)
    /\ \/ /\ \A e \in audit : e.seq # tx[p].tail.seq + 1
          /\ tx' = [tx EXCEPT ![p].entry = {EntryOf(p)}]
          /\ keyShare' = keyShare \cup {p}
          /\ Goto(p, "commit")
          /\ UNCHANGED <<tables, holder, reply>>
       \/ /\ \E e \in audit : e.seq = tx[p].tail.seq + 1
          /\ Fail(p, "conflict", Nobody)
    /\ UNCHANGED <<request, answer>>

-----------------------------------------------------------------------------
(* COMMIT, with the deferred constraint triggers of migration 0009. *)

ExactlyOne(S) == \E x \in S : S = {x}

Linked(e, trail) ==
    IF e.seq = 1 THEN e.prev = ZeroHash
    ELSE \E f \in trail : f.seq = e.seq - 1 /\ e.prev = EntryHash(f)

TriggersHold(p) ==
    LET trail == audit \cup tx[p].entry
    IN /\ \A e \in tx[p].entry : Linked(e, trail)
       /\ \A d \in tx[p].decision :
            ExactlyOne({e \in trail : e.by = d.by /\ e.action \in DecisionActions})
       /\ \A o \in tx[p].outcome :
            ExactlyOne({e \in trail : e.action = OutcomeAction(o.status)})

\* The writes of p become visible together and its locks are released.
Apply(p) ==
    /\ audit' = audit \cup tx[p].entry
    /\ decisions' = decisions \cup tx[p].decision
    /\ exc' = IF tx[p].decision = {} THEN exc
              ELSE [state |-> ResultingState(request[p].body.type), decision |-> p]
    /\ rec' = IF tx[p].outcome = {} THEN rec ELSE answer[p]
    /\ tx' = [tx EXCEPT ![p] = NoWork]
    /\ ReleaseLocks(p)

Commit(p) ==
    /\ pc[p] = "commit"
    /\ \/ /\ TriggersHold(p)
          /\ Apply(p)
          /\ \/ p \in Requests /\ Goto(p, "respond") /\ UNCHANGED reply
             \/ p \in Jobs /\ Finish(p, "settled", Nobody)
       \/ /\ ~TriggersHold(p)
          /\ Fail(p, "violation", Nobody)
    /\ UNCHANGED <<request, answer>>

-----------------------------------------------------------------------------
(* What the environment does. *)

Active(p) == pc[p] \notin {"idle", "done", "lost"}

\* deadlock_timeout: PostgreSQL aborts one statement of a cycle of waits.
DeadlockAbort(p) ==
    /\ \E q \in WaitsFor(p) : p \in WaitsFor(q)
    /\ Fail(p, "deadlock", Nobody)
    /\ UNCHANGED <<request, answer>>

\* A statement fails: statement_timeout, a lost connection, a provider that
\* throws.
EnvironmentError(p) ==
    /\ "error" \in Faults
    /\ Active(p) /\ pc[p] # "respond"
    /\ Fail(p, "error", Nobody)
    /\ UNCHANGED <<request, answer>>

\* The COMMIT takes effect and its acknowledgement is lost: withTransaction
\* rejects as for any other error.
LoseAck(p) ==
    /\ "lost_ack" \in Faults
    /\ pc[p] = "commit"
    /\ TriggersHold(p)
    /\ Apply(p)
    /\ Finish(p, "error", Nobody)
    /\ UNCHANGED <<request, answer>>

\* The server process stops: PostgreSQL rolls back what is open, and nobody
\* dispatches the jobs again.
Crash ==
    /\ "crash" \in Faults
    /\ \E p \in Procs : Active(p)
    /\ pc' = [p \in Procs |-> IF Active(p) \/ (p \in Jobs /\ pc[p] = "idle")
                              THEN "lost" ELSE pc[p]]
    /\ tx' = [p \in Procs |-> NoWork]
    /\ holder' = [row \in DOMAIN holder |-> {}]
    /\ keyShare' = {}
    /\ UNCHANGED <<tables, request, answer, reply>>

-----------------------------------------------------------------------------
RequestStep(r) == Precheck(r) \/ LockException(r) \/ ReadRecommendation(r)
                  \/ WriteDecision(r) \/ Respond(r)
JobStep(j) == StartJob(j) \/ UpdateRecommendation(j)
WriterStep(p) == RefuseEntry(p) \/ ReadTail(p) \/ InsertEntry(p) \/ Commit(p)

\* Every request has been answered or lost, and so has every job.
Quiescent == (\A p \in Procs : pc[p] \in {"done", "lost"}) /\ UNCHANGED vars

Next ==
    \/ \E r \in Requests : Submit(r) \/ RequestStep(r)
    \/ \E j \in Jobs : JobStep(j) \/ Generate(j)
    \/ \E p \in Procs : WriterStep(p) \/ DeadlockAbort(p) \/ EnvironmentError(p)
                        \/ LoseAck(p)
    \/ Crash
    \/ Quiescent

\* Statements run, and PostgreSQL detects deadlocks.  Nothing is assumed of
\* clients or of the provider, which may never answer.
Fairness ==
    /\ \A r \in Requests : WF_vars(RequestStep(r))
    /\ \A j \in Jobs : WF_vars(JobStep(j))
    /\ \A p \in Procs : WF_vars(WriterStep(p)) /\ WF_vars(DeadlockAbort(p))

Spec == Init /\ [][Next]_vars /\ Fairness

-----------------------------------------------------------------------------
(* Safety. *)

TypeOK ==
    /\ exc \in [state : {"OPEN", "RESOLVED", "REJECTED"}, decision : Requests \cup {Nobody}]
    /\ rec \in Recommendation
    /\ decisions \subseteq Decision
    /\ audit \subseteq AuditEntry
    /\ holder \in [{"exception", "anchor", "recommendation"} -> SUBSET Procs]
    /\ keyShare \subseteq Procs
    /\ request \in [Requests -> [key : Keys \cup {NoKey}, body : Bodies]]
    /\ answer \in [Jobs -> Recommendation]
    /\ pc \in [Procs -> {"idle", "precheck", "lock", "resolve", "write", "respond",
                         "generate", "update", "append", "insert", "commit",
                         "done", "lost"}]
    /\ tx \in [Procs -> Work]
    /\ reply \in [Procs -> [code : Codes, of : Requests \cup {Nobody}]]

Chained ==
    /\ \A e \in audit : Linked(e, audit)
    /\ \A e, f \in audit : e.seq = f.seq => e = f

\* The trail is a chain: sequences from 1 without a gap or a repetition, each
\* entry carrying the hash of the one before it; and what an append has read of
\* the trail's end is still its end when it inserts and when it commits, however
\* the statements of concurrent transactions interleave (writer.ts reads the
\* sequence and the hash under the case-anchor lock and uses them later).
ChainIntact ==
    /\ Chained
    /\ \A p \in Procs : pc[p] \in {"insert", "commit"} => tx[p].tail = EntryHash(Last(audit))

DecisionEntries == {e \in audit : e.action \in DecisionActions}
OutcomeEntries  == {e \in audit : e.action \in OutcomeActions}

\* Each change of the case has exactly one entry and each entry its change: a
\* closed case has one decision and one entry of its type, an open case has
\* neither; a resolved recommendation has one entry of its outcome, a pending
\* one has none.  No interleaving, rollback or crash separates them (FR-11.12).
AuditCoupled ==
    /\ exc.state = "OPEN" <=> decisions = {}
    /\ \A d \in decisions :
          /\ exc = [state |-> ResultingState(d.type), decision |-> d.by]
          /\ ExactlyOne(DecisionEntries)
          /\ \A e \in DecisionEntries : e.by = d.by /\ e.action = DecisionAction(d.type)
    /\ decisions = {} => DecisionEntries = {}
    /\ IF rec.status = "PENDING" THEN OutcomeEntries = {}
       ELSE /\ ExactlyOne(OutcomeEntries)
            /\ \A e \in OutcomeEntries : e.action = OutcomeAction(rec.status)

ProposedBefore(e) == \E f \in OutcomeEntries : f.seq < e.seq

\* A decision is taken on the recommendation that the trail shows before it: the
\* unlocked read of step 3 can't be overtaken by a job, although the decision
\* never locks the recommendation.
DecidedOnWhatTheTrailShows ==
    \A d \in decisions : \A e \in DecisionEntries :
        d.basis = IF ProposedBefore(e) THEN rec ELSE Pending

\* A decision value has origin AI exactly when the trail shows, before the
\* decision, a proposal with that value for that field (FR-11.8).
ProvenanceSound ==
    \A d \in decisions : \A e \in DecisionEntries : \A x \in d.values :
        x.origin = "AI" <=> /\ ProposedBefore(e)
                            /\ x.field \in DOMAIN rec.values
                            /\ rec.values[x.field] = x.value

\* What a client is told is what the tables hold: a 201 names a stored decision
\* with the request's own content, a conflict names the decision that won, and a
\* refused or failed request left no decision (a lost COMMIT acknowledgement
\* excepted).
RepliesTruthful ==
    \A r \in Requests :
        LET mine == {d \in decisions : d.by = r}
            told == {d \in decisions : d.by = reply[r].of}
        IN CASE reply[r].code = "created"  -> mine # {} /\ told = mine
             [] reply[r].code = "replayed" ->
                  \E d \in told : /\ d.key = request[r].key
                                 /\ d.type = request[r].body.type
                                 /\ Sent(request[r].body) \subseteq Stored(d)
             [] reply[r].code = "already_decided" -> told # {} /\ mine = {}
             [] reply[r].code \in {"none", "error"} -> TRUE
             [] OTHER -> mine = {}

\* The last lines of defence never speak: no interleaving makes the sequence or
\* the decision collide with its unique index, or a deferred trigger refuse a
\* commit.  Nobody retries AUDIT_SEQUENCE_CONFLICT, so one would lose the work.
GuardsNeverFire ==
    \A p \in Procs : reply[p].code \notin {"conflict", "violation"}

-----------------------------------------------------------------------------
(* Refinement. *)

Lifecycle == INSTANCE CaseLifecycle WITH
    state      <- exc.state,
    offer      <- rec,
    resolution <- UNION {d.values : d \in decisions},
    trail      <- {[seq |-> e.seq, action |-> e.action] : e \in audit}

\* Every step of every request, job, rollback and crash changes the committed
\* case by one step of its life cycle or not at all: FR-11.12 (together or not
\* at all), FR-9.1 (a proposal applies nothing), FR-11.3 to FR-11.8.
ImplementsLifecycle == Lifecycle!Spec

-----------------------------------------------------------------------------
(* Liveness. *)

Ended(p) == pc[p] \in {"done", "lost"}

\* A request that reached the server is answered, or lost with the server, even
\* when the provider never answers and whatever locks the jobs hold (FR-9.12).
EveryRequestAnswered == \A r \in Requests : pc[r] = "precheck" ~> Ended(r)

\* A job with an answer from the provider ends.
EveryAnswerHandled == \A j \in Jobs : pc[j] = "update" ~> Ended(j)
=============================================================================
