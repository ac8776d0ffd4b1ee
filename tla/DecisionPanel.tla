--------------------------- MODULE DecisionPanel ---------------------------
(***************************************************************************)
(* The decision panel (web: DecisionPanel.tsx) in the screen of its case   *)
(* (CaseDetail.tsx), composed with the read that fills the screen          *)
(* (CaseReads), the decision requests it sends, and a case that jobs and   *)
(* other specialists change meanwhile (CaseLifecycle).                     *)
(*                                                                         *)
(* A step is what the specialist does, a statement of the server, or an    *)
(* answer that arrives, with all that React does about it before the next  *)
(* event.  Sessions are left to the module Session: every request is       *)
(* authenticated.                                                          *)
(***************************************************************************)
EXTENDS CaseReads

CONSTANTS
    Posts,    \* decision requests that can be under way at one time
    Keys,     \* Idempotency-Keys; bounds the summaries that are reached
    NoKey,    \* no key yet
    Entered   \* the values of the entry, for the fields of its findings

ASSUME PanelAssumption ==
    /\ IsFiniteSet(Posts) /\ IsFiniteSet(Keys) /\ NoKey \notin Keys
    /\ Entered \in Case!Maps \ {Case!NoMap}
    /\ Faults \subseteq {"statement", "network"}

VARIABLES
    screen,   \* CaseDetail: its state, with the case it shows
    panel,    \* DecisionPanel
    post,     \* the decision requests
    stored,   \* the key and the body of the stored decision, if this screen sent it
    minted,   \* history: the keys that have been used
    told      \* history: the decision that a 201 has told this screen

panelVars == <<record, caseRead, screen, panel, post, stored, minted, told>>

-----------------------------------------------------------------------------
(* The screen, its panel and the requests. *)

Screen == [status : {"loading", "not-found", "error", "loaded"}, id : Identifiers,
           data : Sections]

\* values: the edit form, or what it becomes when it is opened.
Panel == [stage : {"chooser", "edit", "reject", "summary"},
          chosen : DecisionTypes \cup {"none"}, values : Case!Maps,
          key : Keys \cup {NoKey}, busy : BOOLEAN,
          alert : {"none", "retry", "conflict"}]
NoPanel == [stage |-> "chooser", chosen |-> "none", values |-> Case!NoMap,
            key |-> NoKey, busy |-> FALSE, alert |-> "none"]

Body == [type : DecisionTypes, values : Case!Maps]
NoBody == [type |-> "REJECT", values |-> Case!NoMap]

\* awaited: the panel that sent it is still there.  seen: history, the values and origins
\* that the screen said would be recorded.
Post == [at : {"free", "precheck", "decide", "answer"}, key : Keys \cup {NoKey}, body : Body,
         awaited : BOOLEAN, seen : SUBSET Resolution,
         code : {"none", "created", "replayed", "already_decided", "key_reused",
                 "not_available", "incomplete"}]
NoPost == [at |-> "free", key |-> NoKey, body |-> NoBody, awaited |-> FALSE, seen |-> {},
           code |-> "none"]

NotOurs == [key |-> NoKey, body |-> NoBody]

-----------------------------------------------------------------------------
(* CaseDetail. *)

Loading(id) == [status |-> "loading", id |-> id, data |-> NoSections]

PanelInit ==
    /\ \E id \in Identifiers : screen = Loading(id) /\ InitReads(id)
    /\ panel = NoPanel
    /\ post = [p \in Posts |-> NoPost]
    /\ stored = NotOurs
    /\ minted = {}
    /\ told = NoDecision

\* fetchCase: what was shown goes.
Fetch(id) ==
    /\ screen' = Loading(id)
    /\ caseRead' = AskCase(id)
    /\ panel' = NoPanel

Unawaited(q) == IF q.at = "free" THEN q ELSE [q EXCEPT !.awaited = FALSE, !.seen = {}]

\* Nobody waits for the decision requests any more; the server does not notice.
Abandon == [p \in Posts |-> IF post[p].at = "answer" THEN NoPost
                            ELSE Unawaited(post[p])]

\* The Retry of the error state, and a reload of the document.
Reload ==
    /\ screen.status # "loading"
    /\ Fetch(screen.id)
    /\ post' = Abandon
    /\ UNCHANGED <<record, stored, minted, told>>

\* CaseLoaded is mounted.
Show(data) ==
    /\ screen' = [screen EXCEPT !.status = "loaded", !.data = data]
    /\ caseRead' = NoCaseRead
    /\ panel' = NoPanel

\* A uuid in the address is replaced by the case reference, which fetches again.
DeliverCase ==
    /\ caseRead.at = "answer"
    /\ CASE caseRead.code = "OK" /\ screen.id = "uuid" -> Fetch("reference")
         [] caseRead.code = "OK" /\ screen.id # "uuid" -> Show(caseRead.data)
         [] OTHER ->
              /\ screen' = [screen EXCEPT !.status = IF caseRead.code = "NOT_FOUND"
                                                    THEN "not-found" ELSE "error"]
              /\ caseRead' = NoCaseRead
              /\ UNCHANGED panel
    /\ UNCHANGED <<record, post, stored, minted, told>>

-----------------------------------------------------------------------------
(* DecisionPanel. *)

\* The panel is there, and not the read-only record, and its controls are.
Controls ==
    /\ screen.status = "loaded"
    /\ screen.data.state = "OPEN" /\ screen.data.decision.type = "none"
    /\ panel.alert # "conflict"

PanelStep == UNCHANGED <<record, caseRead, screen, stored, told>>

\* editFields: the proposal, or the values of the fields with findings.
Prefilled == IF screen.data.rec.status = "AVAILABLE" THEN screen.data.rec.values ELSE Entered

\* A summary is reached with a key of its own.
Summarise(type, values) ==
    /\ \E key \in Keys \ minted :
          /\ panel' = [panel EXCEPT !.stage = "summary", !.chosen = type, !.values = values,
                                    !.key = key]
          /\ minted' = minted \cup {key}
    /\ PanelStep /\ UNCHANGED post

ChooseApprove ==
    /\ Controls /\ panel.stage = "chooser"
    /\ "APPROVE" \in Permitted(screen.data)
    /\ Summarise("APPROVE", Case!NoMap)

Choose(stage, type, values) ==
    /\ Controls /\ panel.stage = "chooser"
    /\ panel' = [panel EXCEPT !.stage = stage, !.chosen = type, !.values = values]
    /\ PanelStep /\ UNCHANGED <<post, minted>>

ChooseEdit   == Choose("edit", "EDIT_APPROVE", Prefilled)
ChooseReject == Choose("reject", "REJECT", Case!NoMap)

\* Continue, with the values the specialist has typed and a reason that is long enough.
\* Blank values are left out: a body with one is refused as it is read.
Continue ==
    /\ Controls /\ panel.stage \in {"edit", "reject"}
    /\ \E typed \in [DOMAIN panel.values -> Values] : Summarise(panel.chosen, typed)

Cancel ==
    /\ Controls /\ panel.stage \in {"edit", "reject"}
    /\ panel' = [panel EXCEPT !.stage = "chooser", !.chosen = "none", !.values = Case!NoMap]
    /\ PanelStep /\ UNCHANGED <<post, minted>>

\* Back, which is not refused while a request is under way.
Back ==
    /\ Controls /\ panel.stage = "summary"
    /\ panel' = [panel EXCEPT !.alert = "none",
                   !.stage = CASE panel.chosen = "REJECT" -> "reject"
                               [] panel.chosen = "EDIT_APPROVE" -> "edit"
                               [] panel.chosen = "APPROVE" -> "chooser"]
    /\ PanelStep /\ UNCHANGED <<post, minted>>

\* Mutant: what has been typed is compared with the entry.
PreviewOnEntry(values, proposed) ==
    {[field |-> f, value |-> values[f],
      origin |-> IF f \in DOMAIN Entered /\ values[f] = Entered[f] THEN "HUMAN" ELSE "AI"] :
        f \in DOMAIN values}

\* The badges of the summary: isChangedFromProposal.
Preview(values, proposed) ==
    {[field |-> f, value |-> values[f],
      origin |-> IF values[f] = proposed[f] THEN "AI" ELSE "HUMAN"] : f \in DOMAIN values}

\* What the screen says will be recorded, where it decides on a proposal: with none, its
\* badges are not the record's.
Seen ==
    LET rec    == screen.data.rec
        values == IF panel.chosen = "APPROVE" THEN rec.values ELSE panel.values
    IN IF rec.status # "AVAILABLE" \/ panel.chosen = "REJECT" THEN {}
       ELSE Preview(values, rec.values)

\* recordDecision: one request at a time, with the key of the summary.
Record ==
    /\ Controls /\ panel.stage = "summary" /\ ~panel.busy
    /\ \E p \in Posts : post[p].at = "free"
    /\ LET p == CHOOSE q \in Posts : post[q].at = "free"
       IN post' = [post EXCEPT ![p] =
                     [at |-> "precheck", key |-> panel.key, awaited |-> TRUE, seen |-> Seen,
                      body |-> [type |-> panel.chosen, values |-> panel.values],
                      code |-> "none"]]
    /\ panel' = [panel EXCEPT !.busy = TRUE, !.alert = "none"]
    /\ PanelStep /\ UNCHANGED minted

\* What the catch of recordDecision makes of a refusal.
AlertFor(code) ==
    IF code \in {"already_decided", "not_available"} THEN "conflict" ELSE "retry"

\* A 201 is told to CaseDetail, which fetches the case again.
DeliverPost(p) ==
    /\ post[p].at = "answer"
    /\ post' = [post EXCEPT ![p] = NoPost]
    /\ IF post[p].code \in {"created", "replayed"}
       THEN /\ told' = [type |-> DecisionRow, values |-> resolution]
            /\ Fetch(screen.id)
       ELSE /\ panel' = [panel EXCEPT !.busy = FALSE, !.alert = AlertFor(post[p].code)]
            /\ UNCHANGED <<caseRead, screen, told>>
    /\ UNCHANGED <<record, stored, minted>>

\* What is left of a request when the connection is lost or a statement fails: nothing
\* has happened, or it goes on unawaited, or all has happened but the answer is lost.
Leftovers(q) ==
    CASE q.at \in {"precheck", "decide"} -> {NoPost, Unawaited(q)}
      [] q.at = "answer"                -> {NoPost}

\* A failure of unknown outcome: the panel says so and offers to try again.
LosePost(p) ==
    /\ Faults # {}
    /\ post[p].awaited
    /\ \E q \in Leftovers(post[p]) : post' = [post EXCEPT ![p] = q]
    /\ panel' = [panel EXCEPT !.busy = FALSE, !.alert = "retry"]
    /\ PanelStep /\ UNCHANGED minted

-----------------------------------------------------------------------------
(* POST /api/exceptions/:id/decision: recordDecision of decision.service.ts. *)

PostStep == UNCHANGED <<caseRead, screen, panel, minted, told>>

AnswerPost(p, code) ==
    post' = [post EXCEPT ![p] = IF @.awaited THEN [@ EXCEPT !.at = "answer", !.code = code]
                                ELSE NoPost]

\* Mutant: whatever closed the case is replayed.
PrecheckByCase(p) ==
    /\ post[p].at = "precheck"
    /\ IF state # "OPEN" THEN AnswerPost(p, "replayed")
       ELSE post' = [post EXCEPT ![p].at = "decide"]
    /\ PostStep /\ UNCHANGED <<record, stored>>

\* Before the transaction: a stored decision with this key is replayed, or refused as a
\* reuse of the key.
PrecheckPost(p) ==
    /\ post[p].at = "precheck"
    /\ IF post[p].key # stored.key
       THEN post' = [post EXCEPT ![p].at = "decide"]
       ELSE AnswerPost(p, IF stored.body = post[p].body THEN "replayed" ELSE "key_reused")
    /\ PostStep /\ UNCHANGED <<record, stored>>

Incomplete(body) ==
    /\ body.type = "EDIT_APPROVE"
    /\ \/ body.values = Case!NoMap
       \/ offer.status = "AVAILABLE" /\ DOMAIN body.values # DOMAIN offer.values

Refusal(body) ==
    CASE state # "OPEN" -> "already_decided"
      [] state = "OPEN" /\ body.type = "APPROVE" /\ offer.status # "AVAILABLE" -> "not_available"
      [] state = "OPEN" /\ Incomplete(body) -> "incomplete"
      [] OTHER -> "none"

\* The transaction, which CaseRecord shows to be one step of CaseLifecycle or none.
Take(body) ==
    CASE body.type = "APPROVE" -> Case!Approve
      [] body.type = "REJECT" -> Case!Reject
      [] body.type = "EDIT_APPROVE" ->
           /\ Case!EditAndApprove
           /\ {<<x.field, x.value>> : x \in resolution'}
                = {<<f, body.values[f]>> : f \in DOMAIN body.values}

DecidePost(p) ==
    /\ post[p].at = "decide"
    /\ LET body == post[p].body
       IN \/ /\ Refusal(body) # "none"
             /\ AnswerPost(p, Refusal(body))
             /\ UNCHANGED <<record, stored>>
          \/ /\ Refusal(body) = "none"
             /\ Take(body)
             /\ stored' = [key |-> post[p].key, body |-> body]
             /\ AnswerPost(p, "created")
    /\ PostStep

-----------------------------------------------------------------------------
\* Jobs and other specialists.
Others ==
    /\ Case!Next
    /\ UNCHANGED <<caseRead, screen, panel, post, stored, minted, told>>

ServeCase ==
    /\ CaseReadStep \/ CaseReadFails
    /\ UNCHANGED <<screen, panel, post, stored, minted, told>>

Specialist == Reload \/ ChooseApprove \/ ChooseEdit \/ ChooseReject \/ Continue \/ Cancel
              \/ Back \/ Record

PanelNext ==
    \/ Specialist
    \/ ServeCase \/ DeliverCase
    \/ \E p \in Posts : PrecheckPost(p) \/ DecidePost(p) \/ DeliverPost(p) \/ LosePost(p)
    \/ Others

PanelSpec == PanelInit /\ [][PanelNext]_panelVars

-----------------------------------------------------------------------------
PanelTypeOK ==
    /\ ReadsTypeOK
    /\ screen \in Screen
    /\ panel \in Panel
    /\ post \in [Posts -> Post]
    /\ stored \in [key : Keys \cup {NoKey}, body : Body]
    /\ minted \subseteq Keys
    /\ told \in Decision

\* However often the specialist retries, goes back, reloads or loses the connection, what
\* she is told is true: a confirmation is of the decision that the case has, which is what
\* this screen sent, and stays on the screen with no controls; the alert that ends the
\* panel is shown only when the case is closed (DecisionPanel.tsx:299-344, FR-12.10,
\* FR-12.11, FR-12.14).
AnswersTruthful ==
    /\ told.type # "none" =>
          /\ stored # NotOurs
          /\ told = [type |-> stored.body.type, values |-> resolution]
          /\ screen.status = "loaded" => screen.data.decision = told /\ ~Controls
    /\ panel.alert = "conflict" => state # "OPEN"

\* Where the screen decides on a proposal, the values and the badges that the summary has
\* shown are those that the server records, computed from another read of the proposal
\* (FR-12.6).
PreviewIsTheRecord ==
    \A p \in Posts : post[p].code = "created" /\ post[p].seen # {} => post[p].seen = resolution
=============================================================================
