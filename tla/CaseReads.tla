----------------------------- MODULE CaseReads -----------------------------
(***************************************************************************)
(* The reads of one case: the case with its sections                       *)
(* (caseRead.service.ts) and its recommendation alone                      *)
(* (recommendationRead.service.ts).  Each is several SELECTs outside a     *)
(* transaction, so that decisions and jobs commit between them.            *)
(*                                                                         *)
(* The case changes as CaseLifecycle says, which CaseRecord implements: a  *)
(* SELECT sees what is committed.  A step is one SELECT of something that  *)
(* can change; what is written once with the case (the entry, its          *)
(* findings, its reference) is left out.                                   *)
(***************************************************************************)
EXTENDS Naturals, FiniteSets

CONSTANTS
    Fields, Values,  \* entry fields and their values, compared after trimming
    Faults           \* "statement": a statement fails; "network": an answer is lost

VARIABLES
    state, offer, resolution, trail,  \* the committed case
    caseRead                          \* GET /api/exceptions/:idOrReference

Case == INSTANCE CaseLifecycle

record == <<state, offer, resolution, trail>>

-----------------------------------------------------------------------------
(* What is read. *)

\* The identifiers a client may send: of this case, of an entry that passed
\* validation, of nothing, and of no known form.
Identifiers == {"uuid", "reference", "clean", "unknown", "malformed"}

DecisionTypes == {"APPROVE", "EDIT_APPROVE", "REJECT"}

Recommendation == [status : {"PENDING", "AVAILABLE", "UNAVAILABLE"}, values : Case!Maps]
Pending == [status |-> "PENDING", values |-> Case!NoMap]

Resolution == [field : Fields, value : Values, origin : {"AI", "HUMAN"}]

Decision == [type : DecisionTypes \cup {"none"}, values : SUBSET Resolution]
NoDecision == [type |-> "none", values |-> {}]

\* The decisions row of the case: it and the audit entry of its type are committed
\* together.
DecisionRow ==
    LET took(action) == \E l \in trail : l.action = action
    IN CASE took("RECOMMENDATION_APPROVED") -> "APPROVE"
         [] took("RECOMMENDATION_EDITED_AND_APPROVED") -> "EDIT_APPROVE"
         [] took("RECOMMENDATION_REJECTED") -> "REJECT"
         [] OTHER -> "none"

States == {"OPEN", "RESOLVED", "REJECTED"}

-----------------------------------------------------------------------------
(* A read under way, and what it has read so far. *)

Codes == {"none", "OK", "NOT_FOUND", "INVALID_IDENTIFIER", "RECEIPT_FAILED"}

\* The sections of CaseDetailResponse that can change.  is_closed and
\* permitted_decisions are computed from them.
Sections == [state : States, rec : Recommendation, decision : Decision]
NoSections == [state |-> "OPEN", rec |-> Pending, decision |-> NoDecision]

CaseRead == [at : {"idle", "exception", "sections", "proposal", "resolution", "answer"},
             id : Identifiers, data : Sections, todo : SUBSET {"rec", "decision"},
             code : Codes]
NoCaseRead == [at |-> "idle", id |-> "uuid", data |-> NoSections, todo |-> {},
               code |-> "none"]

AskCase(id) == [NoCaseRead EXCEPT !.at = "exception", !.id = id]

InitReads(id) ==
    /\ Case!Init
    /\ caseRead = AskCase(id)

-----------------------------------------------------------------------------
(* GET /api/exceptions/:idOrReference: loadCase. *)

\* What the client is to get; the rest of the record is of no use any more.
AnswerCase(code) == caseRead' = [NoCaseRead EXCEPT !.at = "answer", !.code = code]

\* resolveCaseIdentifier, and the exceptions row of the case it finds.
LoadException ==
    /\ caseRead.at = "exception"
    /\ \/ /\ caseRead.id = "malformed"
          /\ AnswerCase("INVALID_IDENTIFIER")
       \/ /\ caseRead.id \in {"clean", "unknown"}
          /\ AnswerCase("NOT_FOUND")
       \/ /\ caseRead.id \in {"uuid", "reference"}
          /\ caseRead' = [caseRead EXCEPT !.at = "sections", !.data.state = state,
                                          !.todo = {"rec", "decision"}]
    /\ UNCHANGED record

\* The sections are read at the same time, in any order.
SectionRead(section, data) ==
    caseRead' = [caseRead EXCEPT !.data = data, !.todo = @ \ {section},
                   !.at = IF caseRead.todo = {section} THEN "proposal" ELSE @]

LoadRecommendation ==
    /\ "rec" \in caseRead.todo
    /\ SectionRead("rec", [caseRead.data EXCEPT !.rec.status = offer.status])
    /\ UNCHANGED record

LoadDecision ==
    /\ "decision" \in caseRead.todo
    /\ SectionRead("decision", [caseRead.data EXCEPT !.decision.type = DecisionRow])
    /\ UNCHANGED record

\* composeRecommendation: the values of an AVAILABLE one.
ComposeRecommendation ==
    /\ caseRead.at = "proposal"
    /\ caseRead' = [caseRead EXCEPT !.at = "resolution",
                       !.data.rec.values = IF caseRead.data.rec.status = "AVAILABLE"
                                           THEN offer.values ELSE Case!NoMap]
    /\ UNCHANGED record

\* Mutant: the state is read with the values, not before the sections.
ComposeDecisionAndState ==
    /\ caseRead.at = "resolution"
    /\ caseRead' = [caseRead EXCEPT !.at = "answer", !.code = "OK", !.data.state = state,
                       !.data.decision.values = IF caseRead.data.decision.type = "none"
                                                THEN {} ELSE resolution]
    /\ UNCHANGED record

\* composeDecision: the values of a decision.
ComposeDecision ==
    /\ caseRead.at = "resolution"
    /\ caseRead' = [caseRead EXCEPT !.at = "answer", !.code = "OK",
                       !.data.decision.values = IF caseRead.data.decision.type = "none"
                                                THEN {} ELSE resolution]
    /\ UNCHANGED record

\* permittedDecisions
Permitted(data) ==
    {type \in DecisionTypes : /\ data.state = "OPEN"
                              /\ type = "APPROVE" => data.rec.status = "AVAILABLE"}

-----------------------------------------------------------------------------
(* GET /api/exceptions/:id/recommendation: loadRecommendationDetail. *)

\* Its status, and the values of an AVAILABLE one.  Both are final once it is not PENDING,
\* so that the two SELECTs are one step.
Polled == offer

-----------------------------------------------------------------------------
(* Faults. *)

\* A statement fails and the answer is a 500, or the answer is lost.
CaseReadFails ==
    /\ Faults # {}
    /\ caseRead.at \notin {"idle", "answer"}
    /\ AnswerCase("RECEIPT_FAILED")
    /\ UNCHANGED record

CaseReadStep == LoadException \/ LoadRecommendation \/ LoadDecision
                \/ ComposeRecommendation \/ ComposeDecision

-----------------------------------------------------------------------------
ReadsTypeOK ==
    /\ state \in States
    /\ offer \in Recommendation
    /\ resolution \subseteq Resolution
    /\ caseRead \in CaseRead

\* A case that is served as closed is served whole, although nothing makes its SELECTs
\* agree: with the decision that closed it, with a proposal when it was approved, and with
\* nothing permitted.  One that is served as open permits APPROVE only with the complete
\* proposal, and may have been decided since: the decision beside it, if there is one, is
\* whole too.  It rests on the exceptions row being read first (caseRead.service.ts:62).
ServedWhole ==
    caseRead.code = "OK" =>
        LET data == caseRead.data
        IN /\ data.state # "OPEN" => /\ data.state = state
                                     /\ data.decision.type # "none"
                                     /\ Permitted(data) = {}
           /\ data.decision.type # "none" =>
                 data.decision = [type |-> DecisionRow, values |-> resolution]
           /\ data.decision.type = "APPROVE" /\ data.state # "OPEN" => data.rec.status = "AVAILABLE"
           /\ "APPROVE" \in Permitted(data) => data.rec = offer
           /\ data.rec.status # "PENDING" => data.rec = offer
=============================================================================
