# Cargo Execution Assistant: a TLA+ verification project

The program receives cargo entries, checks them against a fixed set of
required-information rules, opens an exception case for an entry that fails, lets an
AI provider propose values in the background, and lets one human decision close the
case. Everything that happens to a case is an entry of an append-only, hash-chained
audit trail. It is an Express server (`server/src`), a PostgreSQL schema with
constraints and triggers (`server/migrations`) and a React client (`web/src`).

This directory holds TLA+ modules for the parts where order, concurrency and failure
matter, TLC configurations that check them on small instances, and TLAPS proofs for
instances of any size.

## 1. Inventory

| Component | State it keeps | Operations | Hard behaviour | Properties that make it correct |
|---|---|---|---|---|
| Decision API (`services/decision.service.ts`, `routes/decision.ts`, `repositories/decisions.ts`) | `exceptions`, `decisions`, `decision_values` | `recordDecision`: replay look-up, lock, eligibility, resolution values, writes, audit append | two specialists at once; a retry while the first request runs; a proposal arriving in between; crash around COMMIT | one decision per case, with its entry; origins of values agree with the trail; replies tell the truth; replays are recognised |
| Recommendation job (`ai/job.ts`, `repositories/recommendations.ts`) | `recommendations`, `recommendation_values` | pre-check, provider call, conditional update, append, fallback on refused content | answer after the case closed; duplicate dispatch; audit writer refuses the proposal; lock order against decisions | the outcome is written once, with its entry; every answer is dealt with |
| Audit writer (`services/audit/writer.ts`) | `audit_entries`, `audit_entry_values` | `append`: lock the case, next sequence, previous hash, insert | read-then-write over several statements | a chain without gaps or forks; the unique index never fires |
| Transactions (`db/tx.ts`) | an open client | BEGIN, COMMIT, ROLLBACK, release | lost acknowledgement; a client released in a transaction | nothing survives a rollback, no lock is leaked |
| Receipt (`services/receipt.service.ts`, `routes/entries.ts`, `repositories/entries.ts`, `exceptions.ts`, `validation.ts`) | `cargo_entries`, `validation_results`, `exceptions`, both sequences | `receiveEntry`, `runReceipt`, duplicate look-up, dispatch | two receipts of one number; the winner fails; failure in any of a dozen statements | whole cases or nothing; unique numbers; positions follow receipt; dispatch once, after the commit |
| Rules (`services/validation/*`) | none | `evaluate`, 31 rules | gating between rules; two findings on a field | absence is reported once; correcting what is named suffices |
| Worker (`ai/worker.ts`) | FIFO queue and slot counter, in memory | `dispatch`, `pump` | jobs that end by any path; restart | slots are used, order is kept, nothing is lost |
| Provider adapter (`ai/adapter.http.ts`) | one call: attempt, timer, budget | `generate` | timeouts, one retry, slow bodies | the call is bounded |
| Provider contract, prompts, output schema, fake provider (`ai/*`) | none | pure functions | - | output conforms to the schema |
| Sign-in (`signIn` of `services/session.service.ts`, `POST` of `routes/session.ts`) | the window of failures, in memory; `sessions`; `specialists` | throttle check, look-up, verification, session, window cleared | the check is two awaits away from the record of the failure; failures recorded out of order; restart | at most so many guesses; Retry-After is long enough; no lock-out |
| Sessions and pages (`session.service.ts`, `http/session.middleware.ts`, `http/csrf.middleware.ts`, `http/requireApiAuth.ts`, `routes/session.ts`, web: `api/client.ts`, `session/SessionProvider.tsx`, `app/router.tsx`) | `sessions`; the cookie; the token and the specialist of each page | resolve, touch, expire, sign out, rotate and check the CSRF token; load, sign in, use, sign out | overlapping requests of pages that share a cookie; revocation beside a running request; lost answers | the first end of a session stands; an ended session is not revived; a page writes under the name it shows |
| Reads (`services/caseRead.service.ts`, `recommendationRead.service.ts`, `queue.service.ts` and their routes) | none | several SELECTs per response, outside a transaction | a commit between two SELECTs | a case served as closed is served whole |
| Trail read and chain verification (`services/auditRead.service.ts`, `0010_verify_chain_fn.sql`) | none | entries, value rows, verdict | the trail grows between them | whole lines, a true verdict |
| HTTP shell, configuration, bootstrap, CLI | none that outlives a request | routing, error mapping, wiring | shutdown with jobs in flight | - |
| Screen of a case (`web/src/screens/CaseDetail.tsx`, `components/DecisionPanel.tsx`, `components/AuditTrailRegion.tsx`) | the case that was fetched; the stage, form and idempotency key of the panel; the polling section; the trail | fetch, choose, edit, summary, record, back, retry; poll; read the trail | retries after an unknown outcome; a case that others change; parts of one screen read at different times | what is told is true; what was shown is recorded; nothing loads for ever |
| Other screens (`Queue`, `SignIn`, entry forms, shell) | drafts | forms, navigation | - | - |

How they interact: `POST /api/entries` runs a receipt transaction and, after its commit
and without waiting, calls `worker.dispatch`. A job reads the case on the AI pool, calls
the provider and writes the outcome in a transaction of the application pool.
`POST .../decision` runs a decision transaction on the same rows. Jobs and decisions
meet in PostgreSQL only, under READ COMMITTED: at the row locks of `exceptions`,
`recommendations` and `cargo_entries` (the case anchor of the audit writer), at the
foreign-key locks of `audit_entries`, and at the unique indexes. The process is one event
loop, so requests and jobs interleave at awaits. Nothing but PostgreSQL survives a
restart.

## 2. Plan

| Step | Modules | State |
|---|---|---|
| 1. The case and all that writes to it | `CaseRecord`, abstract `CaseLifecycle`, `CaseRecordProofs` | done |
| 2. Receiving entries | `RequiredInformation`, `RequiredInformationProofs`, `Receipt`, `ReceiptProofs`, abstract `CaseLedger` | done |
| 3. The worker and the provider call | `GenerationWorker`, `GenerationWorkerProofs` | done |
| 4. Sign-in, sessions and the pages that use them | `SignIn`, `SignInProofs`, `Session`, `SessionProofs` | done |
| 5. Reads beside writers, chain verification | `CaseReads`, `TrailRead` over `CaseLifecycle` | modelled and checked, without the queue; proved in `CaseScreenProofs` |
| 6. The screen of a case: the client's retries and its idempotency key, polling, the trail | `DecisionPanel`, `CaseScreen`, `CaseScreenProofs` | done |
| 7. Composition: receipts dispatch, the worker runs the jobs of several cases, a restart loses the queue | `CargoSystem`, with an abstract pipeline of cases | not begun |

The modules build on each other so: `CaseRecord` implements `CaseLifecycle`, `Receipt`
implements `CaseLedger` and uses `RequiredInformation`; `CaseReads` reads an instance of
`CaseLifecycle`, `TrailRead` and `DecisionPanel` extend `CaseReads`, and `CaseScreen`
extends both. `Induction` is induction on the naturals in a form the provers can use,
for the proofs about the loop of the engine and the pruning of the throttle. Reads and screens run against the abstract life cycle rather than against
`CaseRecord`; this is sound because a SELECT sees committed rows only and
`ImplementsLifecycle` shows that these change as the life cycle says.

Every safety property that a run checks is a theorem. What would be worth proving next is
about `CargoSystem`, once it is there: that the modules' guarantees compose.

## 3. Modules

### CaseRecord

One case and any number of decision requests and generation jobs. The unit of a step is
one SQL statement that can wait or that others can observe; statements between two such
points are one step.

- `exc`, `rec`, `decisions`, `audit` are the committed rows of the case. `tx[p]` holds
  what the transaction of `p` has written and not committed, and what it has read and
  will use. `holder` and `keyShare` are the row and foreign-key locks.
- A decision request goes through `Submit` (the route), `Precheck` (the idempotency
  look-up on the pool), `LockException` (steps 1 and 2 of `runDecision`),
  `ReadRecommendation` (3 to 5, with `Verdict` for the eligibility checks),
  `WriteDecision` (6 to 9) and `Respond`. A job goes through `StartJob`, `Generate`,
  `UpdateRecommendation` and, when the writer refuses the proposal, `RefuseEntry`.
  Both append with `ReadTail` and `InsertEntry` of the audit writer and end with `Commit`,
  where the deferred triggers are evaluated.
- `DeadlockAbort` is PostgreSQL's deadlock detection: a decision takes the `exceptions` row
  and then the case anchor, an append of a job takes the anchor and then, by its foreign
  key, the `exceptions` row. `EnvironmentError`, `LoseAck` and `Crash` are failures of a
  statement, of the acknowledgement of COMMIT, and of the process.
- A hash is a term: the sequence and the writer of an entry stand for it, so two entries
  have one hash only when they are the same. Field values are members of a small set,
  compared after the trim; one of them is a value that the writer refuses.

`CaseLifecycle` is what a reader of a case is promised: it is open until one human
decision closes it, the AI makes at most one offer, adopted values have the origin the
offer gives them, and each change is one line of the trail.

### RequiredInformation and Receipt

`RequiredInformation` holds the 31 rules as a table with their gates, their applicability
and their conditions, and `Evaluate`, the loop of the engine. A field has a class of
contents, the coarsest the rules tell apart; which strings are in a class is left to the
regular expressions and code lists. `NumbersAssumption` says of the entry numbers that
clients type that some is one RIV-011 accepts, without which nothing could be corrected. `SURFACE` stands for ocean, truck and rail, which no
rule tells apart.

`Receipt` is `POST /api/entries` from the body to the answer. `cases` are the committed
cases, each with all its rows; `draft[r]` is the uncommitted one of a request. `InsertEntry`
waits while another open transaction has inserted the same number, is the duplicate signal
when a committed one has, and fails on a date that PostgreSQL does not have.
`LookUpDuplicate` runs on the pool after the rollback. `AppendReceived`, `AppendValidated`
and `OpenException` are the three audit appends with the rows they belong to;
`AppendValidated` fails when two findings name one field, because of the primary key of
`audit_entry_values`. The sequences are not rolled back. `Respond` dispatches and answers.
`earlier[r]` is a history variable: the cases a client knew of when it submitted `r`.

`CaseLedger` is the abstraction: a case appears whole, in one step, under a reference and a
number nobody else has, and stays.

### GenerationWorker

The queue, the slot counter and the calls of the running jobs. `Pump` is the loop of
`pump()`, which runs inside `Dispatch` and inside `Settle` (the `finally` of a job). A call is
at `fetch` under its timer, at `body` without one, or at `sleep` before its only retry.
`Tick` is the passing of a unit of time; a timer that is due fires first. `arrived` and
`started` are history variables. What a job writes is in `CaseRecord`.

### SignIn

Sign-ins to one e-mail address, with its window of failures. A step is what runs between
two awaits: `Begin` is the route and the throttle, `LookUp`, `Verify`, `Mint` and `Stamp`
are the statements and the verification of the password. The failure of an attempt is
recorded by `Verify` under the time at which the attempt began, so the list need not be in
the order of time, and `Younger`, the filter of `pruneFailures`, looks at every member. Times
are ages, which makes the state finite without a bound on the
run: a failure older than the window is gone. `Restart` empties the window, `Deactivate`
is the operator.

### Session

One browser. `sess` are the rows of `sessions`, `cookie` is the session cookie, which all
pages share, `page` are the pages with the specialist and the CSRF token each of them
holds, and `req` are the requests, from `Send` over `Resolve` (`loadSessionByToken` and
what the middleware does of its outcome), `Expire` or `Touch`, `Gate` (`requireApiAuth`,
`csrfMiddleware`) and the statement of the route to the arrival of the answer. A session
token stands for its row. A CSRF token is random and only ever compared with the one hash
in its row, so it is the session whose newest token it is, or `Stale`; `Rotate` makes the
tokens that pages and requests hold stale in one step. `NetworkFails` loses a request or
an answer, `Load` abandons what its page has under way, which the server does not notice.

Ages stand for times here, too: of a row since it was created and since it was last seen,
up to what the limits tell apart. The unit is longer than `LAST_SEEN_THROTTLE_MS`, so that
within a unit a request may touch the row or not. A row whose specialist has been switched
off is a choice of `Resolve`, because that is in the operator's hands. `over` is history:
the sessions of which a request has recorded the end.

### CaseReads, TrailRead

The reads as their sequences of SELECTs, each one step, of the committed case of
`CaseLifecycle`: `LoadException`, then `LoadRecommendation` and `LoadDecision` in any order
(`Promise.all`), then the values. What never changes (entry, findings, references) is left
out; `is_closed` and `permitted_decisions` are operators of what was read. The poll of a
recommendation is `Polled`, one step, because both of its SELECTs are of rows that are
final once the status is not PENDING. `TrailRead` reads entries and value rows, and
`Verify` is `verify_audit_chain` of the chain as it is by then.

### DecisionPanel, CaseScreen

`DecisionPanel` is the screen of a case as far as decisions go: `screen` is the state of
`CaseDetail`, `panel` that of the panel (stage, chosen decision, form, key, alert),
`post` are the decision requests, which the server takes through `PrecheckPost` and
`DecidePost` with the replies of `recordDecision`. `Others` lets jobs and other
specialists do whatever `CaseLifecycle` allows. A request that has lost its page, or whose
connection breaks, goes on unawaited on the server; `told` and `seen` are history: what a
201 has told the screen, and what the summary has shown.

`CaseScreen` adds the recommendation section with its timer and its budget of polls and
the region of the trail. Both are mounted by the step that shows a case and unmounted by
the step that fetches it again (`Follow`), as React does.

## 4. Runs

Passing runs:

| Run | Instance | Shows |
|---|---|---|
| `case_record` | 2 requests, 2 jobs, one key or none, five bodies, every fault; symmetric; 1.2 million states | the chain, the coupling of changes and entries, decisions that rest on the trail, sound origins, truthful replies, and that the unique indexes and triggers have nothing to refuse |
| `case_progress` | 2 requests, 1 job, six bodies, crashes | refinement of `CaseLifecycle`; every request is answered and every provider answer is dealt with |
| `receipt` | 3 requests, 3 entries (two with one number, one of them failing; one without), failing statements; 160,000 states | truthful replies, order of receipt, dispatch once and after the commit, refinement of `CaseLedger`, every request answered |
| `receipt_rules` | 1 request over some 6,000 entries; secrets, unreadable bodies, crashes, lost acknowledgements | gating reports an absence once; one correction suffices for an entry with a recognised mode and its own document only, a second one, of what depends on the mode, for any other; whole cases under crashes |
| `worker` | 4 exceptions, 2 slots, timeout, delay and budget of one unit; 125,000 states | slots used, order of dispatch, bounded calls, every dispatch run to its end |
| `sign_in` | 2 overlapping attempts, a limit of 2 failures, a window of 3 units | guesses bounded although check and record are apart; waiting for Retry-After lets a client through, once and once more for each failure above the limit; no lock-out |
| `session` | 2 pages, 2 requests, 2 sessions, an absolute limit of 1 unit and an idle limit of 0, failing statements and lost answers; symmetric; 2.1 million states | the first end of a session stands and is final; a page writes under the name it shows, and its token works unless another load has replaced it |
| `panel` | 2 decision requests, 2 keys, one field with two values, lost requests and answers, jobs and others; 860,000 states | cases served whole, also a decision that is read beside an open case; confirmations and conflict alerts that are true; a record that is what the summary of a proposal showed |
| `screen` | 1 decision request, one key, two polls, the trail; 220,000 states | the trail served whole; it contains the decision beside it, and the proposal, unless that was polled after the trail was read; nothing loads for ever |

Runs in which TLC finds a disagreement between the code and what is written about it:

| Run | Disagreement |
|---|---|
| `receipt_repeated` | an entry with two findings on one field is answered 500 and cannot be received (F3, error states) |
| `worker_stall` | a slow response body holds its slot without a bound (header of `adapter.http.ts`) |
| `session_pages` | opening a second page replaces the CSRF token of the first, whose next request is refused with 403 instead of the answer F12, acceptance 7, promises |

Other disagreements met while modelling, for which no run is kept:

- A retry that overlaps its first request gets 409 instead of the replayed 201 (FR-11.11;
  the look-up at `decision.service.ts:168` is before the transaction).
- A job writes its outcome after the case is closed (F9, validation: it must refuse to
  run), and a job that PostgreSQL aborts in its deadlock with a decision leaves the
  recommendation PENDING (F9, error states: UNAVAILABLE with `INTERNAL_ERROR`).
- A COMMIT whose acknowledgement is lost is a failure to `withTransaction` (`tx.ts:58`), and
  the client is answered with an error; Y2 says of every failure inside a decision transaction that
  nothing was saved and the case remains OPEN. `LoseAck` is this step.
- An arrival date in the year 0000 is a calendar date to `isCalendarDate`
  (`normalise.ts:110`) and none to PostgreSQL: the receipt is answered 500 instead of storing
  NULL and reporting the finding (F3, error states). `Storable` is this condition.
- A replay compares what the new body carries (`decision.service.ts:542`), except for its
  `recommendation_id`, against the comment of `decisionMatchesReplay`: with the same key, an
  edit that leaves its values out is answered with the stored ones.
- The panel keeps the recommendation it was mounted with while the section beside it polls
  on. It then offers what the server refuses: a direct resolution of finding fields when
  the proposal has others by now is answered 422, as is an edit of a proposal without values,
  although `permitted_decisions` allows it.
- In a panel mounted while the proposal was PENDING the badges of the summary are computed
  from the values of the entry (`DecisionPanel.tsx:646`) and may differ from the origins that
  the server records. `PreviewIsTheRecord` is therefore about panels mounted with a proposal.
- The section shows a proposal that it has polled while the region below keeps the trail
  it has read before, without the line of that proposal (`CaseDetail.tsx:552`).
- When the answer to a decision is lost the alert asks to reload the case, while its
  announcement says that the decision could not be recorded (`DecisionPanel.tsx:325`). A
  specialist whose own decision was recorded so, and who sends another, gets the conflict
  alert. Neither wording is modelled.
- `retryAfterMs` takes the first failure of the list for the oldest
  (`session.service.ts:134`). Failures are appended when their verification ends, so it need
  not be, and Retry-After is then longer than necessary. After overlapping guesses it is
  shorter than necessary: more failures than the limit are on record, and each one above it
  takes another wait.
- A read that straddles a rejection is OPEN with a decision beside it, and the notice then
  says that the case is resolved (`CaseDetail.tsx:395`).

Why the bounds are enough. Decisions and jobs interact through one case, so two of each give
every pairwise race, including decision against decision with a third party holding the
anchor; a third adds waiting but no new pair. The key is one value or absent because only
equality matters. The bodies contain one decision of each type, edits that repeat, extend
and contradict the proposal, each kind of refusal, and a value the writer refuses. Three
receipts are needed for an order across a rollback: one fails, one was before it, one comes
after. The engine reads each field by itself except for the mode, the carrier and the two
documents, of which all combinations are enumerated; pairs of deviations cover gating
within a field against everything else. Four exceptions and two slots are the least with two
waiting exceptions, where order means something. The times of the worker are in the ratio
that makes both branches of the retry reachable: a first attempt that times out leaves no
budget, one that is refused at once does.

Two attempts and two failures let guesses pass the check together one below the limit;
the window of three units tells a failure that is recorded late from one that is not. Two
pages and two sessions give every combination of own, other and old cookie and token, and
two requests every pair of statements of one session; more of them add no new pair, and
the theorems about `Session` do not depend on their number. Both limits are passed and not passed by
rows of one run. Two keys let the specialist go back and reach a second summary while the
request of the first is still under way, and one field with two values distinguishes
repeating, changing and leaving out. In `screen`, two polls give one that fails or sees
PENDING and one after it.

Symmetry is used in `case_record`, `session` and `session_pages`, which have no liveness
property. Deadlock is checked in every run: a state without a successor other than the end
of all processes is an error.

## 5. Fairness

- Steps of a request or a job that the process owns are weakly fair: an `await` is resumed
  when its statement has ended. A step that waits for a lock is not enabled until the lock
  is free, so weak fairness promises nothing while another transaction holds it. This is
  enough because holders proceed.
- PostgreSQL breaks deadlocks, so `DeadlockAbort` is fair.
- `Submit`, faults and crashes are not fair. Neither is the provider: `Generate` has no
  fairness in `CaseRecord`, and `Respond` has none in `GenerationWorker`, where only the
  timer of the call is fair. `ReadBody` is fair when bodies do not stall; the code has
  nothing that ends one that does, which is what `worker_stall` shows.
- `Tick` of `GenerationWorker` and `SignIn` is fair: time passes. So are the steps of an
  attempt in `SignIn`.
- In `CaseScreen` reads are answered and delivered (by an error if not by data) and timers
  fire. Nothing is assumed of the specialist, of decision requests, of jobs and of others:
  a job may die and leave the recommendation PENDING for good, and what the screen shows
  still ends.
- `Session` and `DecisionPanel` state safety only and no fairness.

## 6. Proofs

### CaseRecord

`CaseRecordProofs` proves, for any sets of requests, jobs, keys, bodies, fields, values and
faults that satisfy the two assumptions of `CaseRecord` (requests and jobs are disjoint,
the placeholders are no members, and the data has its types):

- `TypeCorrect`: `TypeOK` always holds;
- `ChainAlwaysIntact`: the trail is a chain and what an append has read is still its end
  when it writes;
- `AuditAlwaysCoupled`: a change and its entry exist together or not at all;
- `AlwaysDecidedOnTheTrail` and `ProvenanceAlwaysSound`: a decision rests on the
  recommendation that the trail shows before it, and the origins it stores agree;
- `GuardsNeverNeeded`: no unique index and no trigger ever refuses.

The argument. None of these is inductive: that the chain survives an insert depends on
what the transaction read some statements ago. `SafeInv` adds what the locks guarantee.
`ExclusiveLocks`: a row lock has one holder, and a transaction at a given statement holds the
locks that statement relies on. `TablesInv`: the committed tables are coupled and chained.
`WriterInv`: a transaction that has read the end of the trail holds the anchor, so the
end has not moved. `RequestInv`: a decision that has read the recommendation
holds the `exceptions` row of a case that is still open, and what it read, without a lock,
is still the committed recommendation; no job can settle it before the decision ends,
because a job's append needs a key-share lock on the `exceptions` row. `JobInv`: a job that is about to append holds the recommendation it updated,
which was PENDING. `TypeInv` carries the types of the uncommitted work and the existence of a
last entry. The proof has one lemma per action (`SubmitSafe`, ..., `CommitSafe`), the commit
split by what it applies, and `NextSafe` puts them together.

- `AlwaysImplementsLifecycle`: `ImplementsLifecycle`, step by step. Only a COMMIT changes
  the committed rows (`OnlyCommits`); that of a decision is the `Decide` of the life cycle
  and that of a job its offer (`DecisionIsLifecycle`, `OutcomeIsLifecycle`), because what
  the transaction read under its locks is what the committed rows say at its end. This
  is what lets the reads and the screens be proved against the life cycle alone.
- `RepliesAlwaysTruthful`: `RepliesTruthful`. `ReplyInv` follows one request from the look-up of
  its key to its answer: while it waits for a statement it has no decision of its own, and the
  decision that a replay or a conflict names stays, because decisions are never taken
  back.

### RequiredInformation

`RequiredInformationProofs` proves of the rules, for every entry that the declared classes of
contents allow and any sets of numbers and secrets (`NumbersAssumption`):

- `AbsenceOnce`: gating reports a missing field once, and never together with what
  another rule says of the same field's content;
- `CorrectionIsEnough`: in an entry with a recognised mode and its own document only, when
  every field that a finding names is made acceptable, no rule has anything left to say,
  and when one of them is left out, some rule has;
- `SecondCorrectionEnds`: in any entry, when the mode is settled and the document of the
  other mode left out besides, only a mode that was not recognised can bring up more, about
  the carrier and the document, and correcting these ends it.

`Evaluate` is a loop over 31 rules. `EvaluateUnfolds` makes it a sequence of lists of
findings, one for each number of rules seen, and `InductionUpTo` carries a fact about the
list along it: `RightAbout` for the first theorem, `Covers` (every violated rule has its
field in the list) for the second. `RulesMean` reads each rule of the table as a statement about
the fields, `BadFieldsAre` turns the violated rules into the set of fields that
are not acceptable, and `RequiresSameField` says that a gate is about the field of the rule
it gates, so that gating hides no field.

### Receipt

`ReceiptProofs` proves, for any number of requests, any entries and any faults, the types
(`AlwaysTyped`) and

- `RepliesAlwaysTruthful`, `ReceiptsAlwaysOrdered` and `DispatchAlwaysOnce`:
  `RepliesTruthful`, `ReceiptOrder` and `DispatchedOnceAfterCommit`;
- `AbsenceAlwaysReported` and `CorrectionAlwaysSuffices`, which are the theorems about the
  rules, for the entries of receipts in progress;
- `AlwaysImplementsLedger`: `ImplementsLedger`, a case appears whole in one step.

The argument. `NoCollision` is about the rows of all transactions, committed or not: no two
share a request, a reference, a position or an entry number. It is what the unique indexes
and the sequences keep between them, and it is inductive only with the uncommitted rows,
since two transactions under way could otherwise both commit one number. `DraftInv`
says what a transaction has written at each of its statements, `Whole` what it has written
when it commits, `CaseInv` that every committed case is whole. `RowsOf` puts a reference
above those of all cases its client knew of, which the order of receipt rests on, with
sequences that do not roll back. `DispatchInv` couples the dispatches with the answers: a
case is dispatched when its client gets the 201, once. `ReferencesInv` bounds the sequence
by the number of requests, for the types. Each step touches one request; `OthersKept`,
`OneMoreRow` and `RowsLeft` keep the rest, so that each action shows only its own
part.

### SignIn

`SignInProofs` proves, for any finite set of attempts, any limit and any window
(`SignInAssumption`):

- `SignInTypeCorrect`: `TypeOK`;
- `GuessesAlwaysBounded`: `GuessesBounded`. The failures on record and the attempts that have
  passed the throttle together stay below the limit plus the number of attempts (`PlacesLeft`):
  whoever passes the check takes one of the places and gives it up for its failure;
- `WaitAlwaysSuffices`: `WaitSuffices`, of every refusal. The failures a refusal was
  computed from were all young, at least as many as the limit (`ToldTheWait`) and fewer than
  the limit plus the attempts (`PlacesLeft`). Each wait takes at least the first of those that
  are left (`YoungerFacts`), so the waits that are needed are one and one more for each
  failure above the limit (`TriesSuffice`).

`YoungerUnfolds` and `YoungerFacts` prove what the filter of `pruneFailures` returns for every
list, by induction on its length.

### Session

`SessionProofs` proves, for any sets of pages, requests and sessions, any two limits and
any faults (`SessionAssumption` says only that the sets are finite, the limits are naturals and the
placeholders are no members):

- `SessionTypeCorrect`: `TypeOK`;
- `WritesAlwaysUnderShownName` and `PageCanAlwaysWrite`;
- `FirstReasonAlwaysStands` and `EndedSessionsStayEnded`, which are about steps.

The argument. `IInv` adds three facts to the types. `PagesSound`: a page that shows a
specialist and holds a token that is not stale holds a token of that specialist's session.
`RequestsSound`: a write that carries the newest token of the cookie's session was sent by a
page that did not show somebody else, a write that passed the check keeps this, and each
stage of a request has the kind and the session it needs. `EndsRecorded`: what a
request has recorded as ended is revoked in its row. `AskSound` is where the two halves
meet: the page has one token and one name, the browser adds the cookie, and only a token
of the cookie's session is accepted. There is one lemma per action; `StepSound` puts them
together. That no request gets through after the end needs one more fact,
`OthersKeep`: what other requests do in between does not move a request on.

### DecisionPanel, CaseScreen and their reads

`CaseScreenProofs` proves first of the panel (`PanelSpec`), for any fields, values, requests, keys and faults
(`PanelAssumption`: finite sets, a placeholder that is no key, an entry with values), of a
case that changes in every way `CaseLifecycle` allows:

- `CaseServedWhole`: `ServedWhole`;
- `AnswersAreTruthful`: `AnswersTruthful`;
- `PreviewRecorded`: `PreviewIsTheRecord`;
- `PanelTypes`: every variable keeps its type.

The argument. What a case promises its readers is `Grows`: an offer that is no longer
PENDING is final, and so are the state, the decision and the resolution of a case that is no
longer OPEN (`CaseStep`, from `CaseLifecycle`). `ReadSound` says what each stage of a read
still knows of the case as it is now: `StateFresh` (closed is for good), `DecisionFresh` (a
decision that was seen, or must have been seen because the case was read as closed before),
`RecFresh`, `ProposalFresh` and `ResolutionFresh`. It is inductive because the exceptions
row is read first, and it is what the mutant with the other order breaks.

`TruthInv` carries this on to the screen and the requests: what is shown is fresh
(`ScreenTruth`), the decision this screen has stored is the decision of the case
(`StoredTruth`), whoever was told a decision reads a closed case from then on
(`ToldTruth`), and a request's code and its preview are true of the case (`RequestTruth`).
`TakeFact` is where the summary and the record meet: two computations of the origins, one
from the proposal the screen has read and one from the offer the transaction reads, agree
because that offer is final. There is one lemma per action, first for the types
(`PanelInv`) and then for `TruthInv`.

Of the whole screen (`Spec`) it proves, for any number of polls besides (`PollsAssumption`):

- `ScreenTypes`: `TypeOK`;
- `TrailAlwaysServedWhole`: `TrailServedWhole`;
- `TrailAlwaysShowsTheCase`: `TrailShowsTheCase`.

The argument. `CaseTrail` says of the committed trail that it is a `Chain`, numbered from 1
without a gap or a repetition, with the line of a proposal exactly when there is an offer.
A step of the case then adds a line after all others and leaves the values of every line
as they are (`TrailGrows`); for a rejection, this is because a proposal that comes later
has a later line. So what was the trail at some time stays the trail up to a
number (`Earlier`, `EarlierKept`), and a read that stops at any of its stages holds
something that is still true (`TrailReadSound`). `EarlierCount` turns this into the counts that
the verdict speaks of. `BesideTrail` is where the two reads of the screen meet: the lines
that have been read, or are shown, contain those of the case on the screen. It is inductive
because the region asks for its trail only after the case has been delivered, and a
screen asks for its case only while it shows none (`AskedWhileLoading`), so that the case
is never replaced beside a trail; the mutant that keeps the region across a fetch
breaks it. `SectionSound` says what the section may show beyond that: the proposal of the
fetched case, or, when that was PENDING, one that a poll has brought. That the values of a line are final is also why the three statements need no transaction.

### GenerationWorker

`GenerationWorkerProofs` proves, from `WorkerAssumption` (finitely many exceptions, at least
one slot, times that are natural numbers), for any number of either:

- `WorkerTypeCorrect`, `SlotsAlwaysUsed` and `AlwaysServedInOrder`: `TypeOK`, `SlotsUsed`
  and `ServedInOrder`, with or without stalls;
- `CallsBounded`: `CallBounded`, under `FaultFree`: no body stalls, and the delay before
  the retry is not longer than the budget (2 s and 45 s in `adapter.http.ts`). The run
  of `WorkerStall.cfg` shows a call that outlasts its budget through a stalled body alone.

`SlotsUsed` is not inductive: a pump starts exactly as many jobs as it takes off the queue
only if the queue holds each exception once and holds those whose job is `queued`. With
these two facts `QueueInv` is inductive; `CutFact` cuts the queue in two and counts its
front, `PumpFact` is the loop, and `Dispatch` and `Settle` need only show that what they
hand to it is sound. `CallInv` adds what a call has spent by the state it is in
(`CallTimed`): the second attempt begins within the budget, and can last one timeout.

### Induction

The library states induction with the property as an operator, which the provers cannot
instantiate. `Induction` states it with the property as a set of numbers, from the
well-foundedness of < on the naturals: `LeastNumber`, `InductionUpTo`, and
`RecursionUpTo`, by which a recursive function on 0 .. n exists and obeys its equations.

### Only model-checked

Liveness, which is out of the prover's reach: that requests are answered, that dispatches
run to their end, that nobody is locked out and that nothing on the screen waits for ever.

## 7. Not modelled

- The queue: one SELECT of open exceptions with findings that never change, cut at 500
  rows. Its order is `ReceiptOrder` of `Receipt`; there is nothing for it to be torn between.
- Requests for documents and their redirects (`htmlRouteGuard.ts`): they read the session
  and change nothing of it but the touch. `GET /api/entries/:id`, which is a read.
- The end of a session while a case is on the screen: `DecisionPanel` takes every request
  to be authenticated. A 401 loads a new document (`Redirected` in `Session`), which
  for the case is `Reload`.
- Formats, messages, prompts, the wire shapes of the provider and of the API: data that no
  property depends on. Wording, focus, announcements and layout of the pages.
- Privileges and immutability triggers: they refuse statements this program never issues.
- Times: `occurred_at` is the start of a transaction and need not grow with the
  sequence; nothing is ordered by it.
- The connection pools: a request holds one client at a time and asks for a second one
  only after it has released the first, so they add waiting and no deadlock.
- Configuration, bootstrap, the rule registry's self-check, the command line, the fake
  provider: they run once, or alone.
