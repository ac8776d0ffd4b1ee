------------------------------ MODULE Receipt ------------------------------
(***************************************************************************)
(* Receiving entries: POST /api/entries (routes/entries.ts), the receipt   *)
(* transaction (services/receipt.service.ts) and the dispatch of           *)
(* recommendation generation after its commit.                             *)
(*                                                                         *)
(* A step is one statement that other requests can observe or that can     *)
(* wait or fail; a request's uncommitted rows are in draft[r].             *)
(***************************************************************************)
EXTENDS RequiredInformation, FiniteSets

CONSTANTS
    Requests,   \* receipt requests that may arrive
    Entries,    \* entries that clients submit
    Shapes,     \* what else is in them: "sound", "secret", "unreadable"
    Faults      \* which faults of the environment may occur

ASSUME RequestsAssumption ==
    /\ IsFiniteSet(Requests)
    /\ \A e \in Entries : IsEntry(e)
    /\ Shapes \subseteq {"sound", "secret", "unreadable"}
    /\ Faults \subseteq {"crash", "error", "lost_ack"}

VARIABLES
    cases,       \* the committed cases, each with all its rows
    caseSeq,     \* case_reference_seq: references handed out so far
    positionSeq, \* exception_receipt_position_seq: positions handed out so far
    dispatched,  \* references whose generation was dispatched to the worker
    request,     \* what each request submits
    earlier,     \* cases of which a client knew when it submitted
    pc,          \* next statement of each request
    draft,       \* the uncommitted case of each request
    reply        \* how each request ended

vars == <<cases, caseSeq, positionSeq, dispatched, request, earlier, pc, draft, reply>>
sequences == <<caseSeq, positionSeq>>

-----------------------------------------------------------------------------
(* The rows of a case. *)

\* The row that is inserted: a date that is none is stored as NULL.
Stored(e) == IF e.arrival = "malformed" THEN [e EXCEPT !.arrival = "absent"] ELSE e

Opens(c) == c.findings # <<>>

\* One audit entry, with the fields of its value rows.
Line(action, fields) == [action |-> action, fields |-> fields]

FindingFields(findings) == [k \in DOMAIN findings |-> findings[k].field]

\* audit_entry_values has the primary key (audit_entry_id, field_name).
DistinctFields(findings) ==
    \A k, l \in DOMAIN findings : findings[k].field = findings[l].field => k = l

\* A case as it is before its rows are written.
Blank == [ref |-> 0, by |-> {}, entry |-> {}, findings |-> <<>>, position |-> 0,
          recommendation |-> "none", trail |-> <<>>]

Provided(e) == {f \in EntryFields : Present(e, f)}

\* What may be submitted: a secret needs a field to be in.
Submissions == {q \in [entry : Entries, shape : Shapes] :
                  q.shape = "secret" => Provided(q.entry) # {}}

Codes == {"none", "received", "duplicate", "failed", "malformed"}

Init ==
    /\ cases = {}
    /\ caseSeq = 0
    /\ positionSeq = 0
    /\ dispatched = <<>>
    /\ request \in [Requests -> Submissions]
    /\ earlier = [r \in Requests |-> {}]
    /\ pc = [r \in Requests |-> "idle"]
    /\ draft = [r \in Requests |-> Blank]
    /\ reply = [r \in Requests |-> [code |-> "none", ref |-> 0]]

-----------------------------------------------------------------------------
Goto(r, label) == pc' = [pc EXCEPT ![r] = label]

Finish(r, code, ref) ==
    /\ pc' = [pc EXCEPT ![r] = "done"]
    /\ reply' = [reply EXCEPT ![r] = [code |-> code, ref |-> ref]]

\* Mutant: the position of a receipt that failed is handed out again.
RollbackReusing(r) ==
    /\ draft' = [draft EXCEPT ![r] = Blank]
    /\ positionSeq' = IF draft[r].position # 0 THEN positionSeq - 1 ELSE positionSeq
    /\ UNCHANGED <<cases, caseSeq>>

\* Mutant: the client goes back to the pool with the transaction open.
RollbackKeepingRows(r) ==
    /\ draft' = [draft EXCEPT ![r].ref = 0]
    /\ UNCHANGED <<cases, sequences>>

\* ROLLBACK: the rows are gone; the sequences keep what they handed out.
Rollback(r) ==
    /\ draft' = [draft EXCEPT ![r] = Blank]
    /\ UNCHANGED <<cases, sequences>>

\* 500 RECEIPT_FAILED, "nothing was saved".
Fail(r) == Rollback(r) /\ Finish(r, "failed", 0)

\* The route reads the body: 422 when its shape is wrong.
Submit(r) ==
    /\ pc[r] = "idle"
    /\ earlier' = [earlier EXCEPT ![r] =
                     {c \in cases : \E q \in Requests : reply[q] = [code |-> "received", ref |-> c.ref]}]
    /\ \/ request[r].shape # "unreadable" /\ Goto(r, "stamp") /\ UNCHANGED reply
       \/ request[r].shape = "unreadable" /\ Finish(r, "malformed", 0)
    /\ UNCHANGED <<cases, sequences, dispatched, request, draft>>

Judged == [e \in Entries |-> Evaluate(e)]

\* BEGIN; the next case reference; the rules are evaluated on what was submitted.
Stamp(r) ==
    /\ pc[r] = "stamp"
    /\ caseSeq' = caseSeq + 1
    /\ draft' = [draft EXCEPT ![r].ref = caseSeq + 1, ![r].by = {r},
                              ![r].findings = Judged[request[r].entry]]
    /\ Goto(r, "insert")
    /\ UNCHANGED <<cases, positionSeq, dispatched, request, earlier, reply>>

\* Transactions that have inserted an entry with this number and are still open.
Contenders(r) ==
    {q \in Requests \ {r} : /\ draft[q].entry # {}
                            /\ request[r].entry.number # "absent"
                            /\ request[q].entry.number = request[r].entry.number}

SameNumber(r) == {c \in cases : /\ request[r].entry.number # "absent"
                                /\ \E e \in c.entry : e.number = request[r].entry.number}

Storable(e) == e.arrival # "year_zero"

\* Mutant: an entry number that is being received counts as received.
InsertEntryAtOnce(r) ==
    /\ pc[r] = "insert"
    /\ \/ /\ Contenders(r) = {} /\ SameNumber(r) = {}
          /\ Storable(request[r].entry)
          /\ draft' = [draft EXCEPT ![r].entry = {Stored(request[r].entry)}]
          /\ Goto(r, "received")
          /\ UNCHANGED <<cases, sequences, reply>>
       \/ /\ Contenders(r) # {} \/ SameNumber(r) # {}
          /\ Storable(request[r].entry)
          /\ Rollback(r)
          /\ Goto(r, "lookup")
          /\ UNCHANGED reply
       \/ /\ ~Storable(request[r].entry)
          /\ Fail(r)
    /\ UNCHANGED <<dispatched, request, earlier>>

\* INSERT INTO cargo_entries.  The unique index on entry_number waits for an
\* uncommitted row with the number; a committed one is the duplicate signal, which
\* is handled after the rollback.  The casts are evaluated before the index.
InsertEntry(r) ==
    /\ pc[r] = "insert"
    /\ \/ /\ Storable(request[r].entry)
          /\ Contenders(r) = {} /\ SameNumber(r) = {}
          /\ draft' = [draft EXCEPT ![r].entry = {Stored(request[r].entry)}]
          /\ Goto(r, "received")
          /\ UNCHANGED <<cases, sequences, reply>>
       \/ /\ Storable(request[r].entry)
          /\ Contenders(r) = {} /\ SameNumber(r) # {}
          /\ Rollback(r)
          /\ Goto(r, "lookup")
          /\ UNCHANGED reply
       \/ /\ ~Storable(request[r].entry)
          /\ Fail(r)
    /\ UNCHANGED <<dispatched, request, earlier>>

\* On the pool, after the rollback: 409 naming the case that has the number.
LookUpDuplicate(r) ==
    /\ pc[r] = "lookup"
    /\ \/ \E c \in SameNumber(r) : Finish(r, "duplicate", c.ref)
       \/ SameNumber(r) = {} /\ Finish(r, "duplicate", 0)
    /\ UNCHANGED <<cases, sequences, dispatched, request, earlier, draft>>

\* Field origins and ENTRY_RECEIVED; the writer refuses a value that looks like a
\* credential.
AppendReceived(r) ==
    /\ pc[r] = "received"
    /\ \/ /\ request[r].shape = "sound"
          /\ draft' = [draft EXCEPT ![r].trail = <<Line("ENTRY_RECEIVED", Provided(request[r].entry))>>]
          /\ Goto(r, "validated")
          /\ UNCHANGED <<cases, sequences, reply>>
       \/ /\ request[r].shape = "secret"
          /\ Fail(r)
    /\ UNCHANGED <<dispatched, request, earlier>>

\* Mutant: the exception is left to a later transaction.
AppendValidatedOnly(r) ==
    /\ pc[r] = "validated"
    /\ draft' = [draft EXCEPT ![r].trail =
                    Append(@, Line("VALIDATION_COMPLETED", FieldsIn(draft[r].findings)))]
    /\ Goto(r, "commit")
    /\ UNCHANGED <<cases, sequences, dispatched, request, earlier, reply>>

\* The validation result with its findings, and VALIDATION_COMPLETED with one
\* value row per finding.
AppendValidated(r) ==
    /\ pc[r] = "validated"
    /\ \/ /\ DistinctFields(draft[r].findings)
          /\ draft' = [draft EXCEPT ![r].trail =
                         Append(@, Line("VALIDATION_COMPLETED", FieldsIn(draft[r].findings)))]
          /\ Goto(r, IF Opens(draft[r]) THEN "open" ELSE "commit")
          /\ UNCHANGED <<cases, sequences, reply>>
       \/ /\ ~DistinctFields(draft[r].findings)
          /\ Fail(r)
    /\ UNCHANGED <<dispatched, request, earlier>>

\* Mutant: the worker is told as soon as the exception has its row.
OpenExceptionDispatching(r) ==
    /\ pc[r] = "open"
    /\ positionSeq' = positionSeq + 1
    /\ draft' = [draft EXCEPT ![r].position = positionSeq + 1,
                              ![r].recommendation = "PENDING",
                              ![r].trail = Append(@, Line("EXCEPTION_OPENED", FieldsIn(draft[r].findings)))]
    /\ dispatched' = Append(dispatched, draft[r].ref)
    /\ Goto(r, "commit")
    /\ UNCHANGED <<cases, caseSeq, request, earlier, reply>>

\* Mutant: the exception is opened as if no generation were wanted.
OpenExceptionUnavailable(r) ==
    /\ pc[r] = "open"
    /\ positionSeq' = positionSeq + 1
    /\ draft' = [draft EXCEPT ![r].position = positionSeq + 1,
                              ![r].recommendation = "UNAVAILABLE",
                              ![r].trail = Append(@, Line("EXCEPTION_OPENED", FieldsIn(draft[r].findings)))]
    /\ Goto(r, "commit")
    /\ UNCHANGED <<cases, caseSeq, dispatched, request, earlier, reply>>

\* The exception with the next receipt position, its PENDING recommendation, and
\* EXCEPTION_OPENED.
OpenException(r) ==
    /\ pc[r] = "open"
    /\ positionSeq' = positionSeq + 1
    /\ draft' = [draft EXCEPT ![r].position = positionSeq + 1,
                              ![r].recommendation = "PENDING",
                              ![r].trail = Append(@, Line("EXCEPTION_OPENED", FieldsIn(draft[r].findings)))]
    /\ Goto(r, "commit")
    /\ UNCHANGED <<cases, caseSeq, dispatched, request, earlier, reply>>

-----------------------------------------------------------------------------
(* COMMIT and what follows it. *)

Publish(r) ==
    /\ cases' = cases \cup {draft[r]}
    /\ draft' = [draft EXCEPT ![r] = Blank]
    /\ UNCHANGED sequences

Commit(r) ==
    /\ pc[r] = "commit"
    /\ Publish(r)
    /\ Goto(r, "respond")
    /\ UNCHANGED <<dispatched, request, earlier, reply>>

Mine(r) == {c \in cases : c.by = {r}}

\* The worker is told of an exception, and the client gets its 201.
Respond(r) ==
    /\ pc[r] = "respond"
    /\ \E c \in Mine(r) :
          /\ dispatched' = IF Opens(c) THEN Append(dispatched, c.ref) ELSE dispatched
          /\ Finish(r, "received", c.ref)
    /\ UNCHANGED <<cases, sequences, request, earlier, draft>>

-----------------------------------------------------------------------------
(* What the environment does. *)

Active(r) == pc[r] \notin {"idle", "done", "lost"}

\* A statement fails or times out.
EnvironmentError(r) ==
    /\ "error" \in Faults
    /\ Active(r) /\ pc[r] # "respond"
    /\ Fail(r)
    /\ UNCHANGED <<dispatched, request, earlier>>

\* The COMMIT takes effect and its acknowledgement is lost: withTransaction
\* rejects, nothing is dispatched, and the client is told that nothing was saved.
LoseAck(r) ==
    /\ "lost_ack" \in Faults
    /\ pc[r] = "commit"
    /\ Publish(r)
    /\ Finish(r, "failed", 0)
    /\ UNCHANGED <<dispatched, request, earlier>>

\* The server process stops; PostgreSQL rolls back what is open.
Crash ==
    /\ "crash" \in Faults
    /\ \E r \in Requests : Active(r)
    /\ pc' = [r \in Requests |-> IF Active(r) THEN "lost" ELSE pc[r]]
    /\ draft' = [r \in Requests |-> Blank]
    /\ UNCHANGED <<cases, sequences, dispatched, request, earlier, reply>>

-----------------------------------------------------------------------------
Step(r) == Stamp(r) \/ InsertEntry(r) \/ LookUpDuplicate(r) \/ AppendReceived(r)
           \/ AppendValidated(r) \/ OpenException(r) \/ Commit(r) \/ Respond(r)

Quiescent == (\A r \in Requests : pc[r] \in {"done", "lost"}) /\ UNCHANGED vars

Next ==
    \/ \E r \in Requests : Submit(r) \/ Step(r) \/ EnvironmentError(r) \/ LoseAck(r)
    \/ Crash
    \/ Quiescent

\* A request that was read goes on: its statements are awaited one after another.
Fairness == \A r \in Requests : WF_vars(Step(r))

Spec == Init /\ [][Next]_vars /\ Fairness

-----------------------------------------------------------------------------
(* Safety. *)

Case == [ref : Nat, by : SUBSET Requests, entry : SUBSET {Stored(e) : e \in Entries},
         findings : {Judged[e] : e \in Entries}, position : Nat,
         recommendation : {"none", "PENDING"},
         trail : Seq([action : {"ENTRY_RECEIVED", "VALIDATION_COMPLETED", "EXCEPTION_OPENED"},
                      fields : SUBSET EntryFields])]

TypeOK ==
    /\ cases \subseteq Case
    /\ caseSeq \in Nat /\ positionSeq \in Nat
    /\ dispatched \in Seq(Nat)
    /\ request \in [Requests -> Submissions]
    /\ \A r \in Requests : earlier[r] \subseteq cases
    /\ pc \in [Requests -> {"idle", "stamp", "insert", "lookup", "received", "validated",
                            "open", "commit", "respond", "done", "lost"}]
    /\ \A r \in Requests : draft[r] = Blank \/ draft[r] \in Case
    /\ reply \in [Requests -> [code : Codes, ref : Nat]]

\* What a client is told is what the tables hold: a 201 names a case made from the
\* request, a 409 names a case that has the number, although it is looked up after
\* the transaction that met it is gone, and anything else left no case (a lost
\* COMMIT acknowledgement excepted: FR-3.3, FR-3.9).
RepliesTruthful ==
    \A r \in Requests :
        LET named == {c \in cases : c.ref = reply[r].ref}
        IN CASE reply[r].code = "received"  -> named # {} /\ named = Mine(r)
             [] reply[r].code = "duplicate" -> named \cap SameNumber(r) # {} /\ Mine(r) = {}
             [] reply[r].code = "malformed" -> Mine(r) = {}
             [] reply[r].code = "failed"    -> "lost_ack" \in Faults \/ Mine(r) = {}
             [] OTHER -> TRUE

\* The queue's order is the order of receipt: positions and references are never
\* shared, and a case received when another was already known comes after it,
\* whatever rolled back in between (FR-5.8, FR-3.13).
ReceiptOrder ==
    /\ \A c, d \in cases : c.ref = d.ref \/ (Opens(c) /\ c.position = d.position) => c = d
    /\ \A r \in Requests : \A d \in Mine(r) : \A c \in earlier[r] :
          c.ref < d.ref /\ (Opens(c) /\ Opens(d) => c.position < d.position)

\* Generation is dispatched for committed open cases only, once for each, and for
\* every case that a client was told of: only a lost server or a lost
\* acknowledgement leaves an open case without (FR-3.14, FR-9.6, FR-9.19).
DispatchedOnceAfterCommit ==
    /\ \A i \in DOMAIN dispatched : \E c \in cases : c.ref = dispatched[i] /\ Opens(c)
    /\ \A i, j \in DOMAIN dispatched : dispatched[i] = dispatched[j] => i = j
    /\ \A r \in Requests : reply[r].code = "received" =>
          \A c \in Mine(r) : Opens(c) => \E i \in DOMAIN dispatched : dispatched[i] = c.ref

\* Every entry is judged as RequiredInformation says it must be, for the entries
\* that a run enumerates (FR-4.3 to FR-4.6).
AbsenceReported ==
    \A r \in Requests : pc[r] = "insert" =>
        AbsenceReportedOnce(request[r].entry, draft[r].findings)

\* What is found at the first look is all that has to be corrected, save what depends on a
\* mode that was not recognised, which comes up in a second look at the latest.
CorrectionSuffices ==
    \A r \in Requests : pc[r] = "insert" =>
        /\ OneCorrectionSuffices(request[r].entry, draft[r].findings)
        /\ NoThirdCorrection(request[r].entry, draft[r].findings)

-----------------------------------------------------------------------------
(* Refinement. *)

Ledger == INSTANCE CaseLedger WITH
    References <- 1 .. Cardinality(Requests),
    ledger <- {[ref |-> c.ref,
                number |-> (CHOOSE e \in c.entry : TRUE).number,
                opened |-> Opens(c),
                trail |-> [k \in DOMAIN c.trail |-> c.trail[k].action]] : c \in cases}

\* Concurrent receipts, their failures and their crashes add whole cases to the
\* ledger, one at a time, and never change or remove one (FR-3.3, FR-3.6, FR-3.9,
\* FR-5.2).
ImplementsLedger == Ledger!Spec

-----------------------------------------------------------------------------
(* Liveness. *)

\* A request is answered, or lost with the server, whoever holds its number.
EveryRequestAnswered == \A r \in Requests : pc[r] = "stamp" ~> pc[r] \in {"done", "lost"}

-----------------------------------------------------------------------------
(* What the documents say of this program and the code does not do. *)

\* F3: an incomplete entry is receivable; no error is produced by a required-
\* information failure.
RequiredInformationNeverAnError ==
    \A r \in Requests :
        reply[r].code = "failed" => request[r].shape = "secret" \/ Faults # {}
=============================================================================
