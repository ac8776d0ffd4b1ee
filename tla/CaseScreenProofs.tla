---------------------------- MODULE CaseScreenProofs ---------------------------
(***************************************************************************)
(* Theorems about the screen of a case, for any fields, values, requests,  *)
(* keys and polls: first its decision panel with the reads of the case     *)
(* (PanelSpec), then the whole screen with its trail (Spec).  A read sees  *)
(* a case that changes between its SELECTs; the invariants say what each   *)
(* stage of a read still knows about the case as it is now.                *)
(***************************************************************************)
EXTENDS CaseScreen, FiniteSetTheorems, TLAPS

\* The committed case: closed exactly when it has a decision, approved only with an offer.
CaseSound ==
    /\ state \in States
    /\ offer \in Recommendation
    /\ resolution \subseteq Resolution
    /\ state = "OPEN" <=> DecisionRow = "none"
    /\ DecisionRow = "APPROVE" => offer.status = "AVAILABLE"
    /\ offer.status = "UNAVAILABLE" => offer.values = Case!NoMap

\* What was read is of the case as it is now, or of when it was still open or PENDING.
StateFresh(data) == data.state # "OPEN" => data.state = state
DecisionFresh(data) ==
    /\ data.decision.type # "none" \/ data.state # "OPEN" => data.decision.type = DecisionRow
RecFresh(data) ==
    /\ data.rec.status # "PENDING" => data.rec.status = offer.status
    /\ data.state # "OPEN" /\ DecisionRow = "APPROVE" => data.rec.status = "AVAILABLE"
ProposalFresh(data) == data.rec.status # "PENDING" => data.rec = offer
ResolutionFresh(data) == data.decision.type # "none" => data.decision.values = resolution

ReadSound ==
    /\ caseRead \in CaseRead
    /\ caseRead.todo # {} => caseRead.at = "sections"
    /\ caseRead.at # "answer" => caseRead.code = "none"
    /\ caseRead.at \in {"sections", "proposal", "resolution"} \/ caseRead.code = "OK" =>
          /\ StateFresh(caseRead.data)
          /\ "decision" \notin caseRead.todo => DecisionFresh(caseRead.data)
          /\ "rec" \notin caseRead.todo => RecFresh(caseRead.data)
    /\ caseRead.at = "resolution" \/ caseRead.code = "OK" => ProposalFresh(caseRead.data)
    /\ caseRead.code = "OK" => caseRead.todo = {} /\ ResolutionFresh(caseRead.data)

ReadsInv == CaseSound /\ ReadSound

-----------------------------------------------------------------------------
(* The case. *)

\* A map of values is a function on fields.
LEMMA MapFact ==
    ASSUME NEW m \in Case!Maps
    PROVE  DOMAIN m \subseteq Fields /\ \A f \in DOMAIN m : m[f] \in Values
  BY DEF Case!Maps

\* No value at all is a map.
LEMMA NoMapFact == Case!NoMap \in Case!Maps
  BY DEF Case!NoMap, Case!Maps

\* The decisions row is of a known type.
LEMMA DecisionRowFact == DecisionRow \in DecisionTypes \cup {"none"}
  BY DEF DecisionRow, DecisionTypes

\* A line that is no decision leaves the decision as it was.
LEMMA OtherLine ==
    ASSUME NEW action, trail' = trail \cup {[seq |-> Case!LastLine.seq + 1, action |-> action]},
           action \notin {"RECOMMENDATION_APPROVED", "RECOMMENDATION_EDITED_AND_APPROVED",
                          "RECOMMENDATION_REJECTED"}
    PROVE  DecisionRow' = DecisionRow
<1>1. ASSUME NEW d \in {"RECOMMENDATION_APPROVED", "RECOMMENDATION_EDITED_AND_APPROVED",
                        "RECOMMENDATION_REJECTED"}
      PROVE  (\E l \in trail' : l.action = d) <=> (\E l \in trail : l.action = d)
  OBVIOUS
<1> QED
  BY <1>1 DEF DecisionRow

\* The line of the first decision is the decision.
LEMMA DecisionLine ==
    ASSUME NEW type \in DecisionTypes, NEW action, DecisionRow = "none",
           \/ type = "APPROVE" /\ action = "RECOMMENDATION_APPROVED"
           \/ type = "EDIT_APPROVE" /\ action = "RECOMMENDATION_EDITED_AND_APPROVED"
           \/ type = "REJECT" /\ action = "RECOMMENDATION_REJECTED",
           trail' = trail \cup {[seq |-> Case!LastLine.seq + 1, action |-> action]}
    PROVE  DecisionRow' = type
<1> DEFINE line == [seq |-> Case!LastLine.seq + 1, action |-> action]
<1>1. trail' = trail \cup {line} /\ line.action = action
  OBVIOUS
<1> HIDE DEF line
<1>2. ASSUME NEW d \in {"RECOMMENDATION_APPROVED", "RECOMMENDATION_EDITED_AND_APPROVED",
                        "RECOMMENDATION_REJECTED"}
      PROVE  (\E l \in trail' : l.action = d) <=> d = action
  <2>1. ~ \E l \in trail : l.action = d
    BY DEF DecisionRow
  <2> QED
    BY <1>1, <2>1
<1> QED
  BY <1>2 DEF DecisionRow

\* What a step of the case means for its readers: what is final stays.
Grows ==
    /\ state # "OPEN" => /\ state' = state /\ DecisionRow' = DecisionRow
                         /\ resolution' = resolution
    /\ offer.status # "PENDING" => offer' = offer

\* Every step of the case keeps it sound and only adds to it.
LEMMA CaseStep ==
    ASSUME CaseSound, Case!Next
    PROVE  CaseSound' /\ Grows
<1>1. CASE Case!Propose
  <2>1. PICK values \in Case!Maps : offer' = [status |-> "AVAILABLE", values |-> values]
    BY <1>1 DEF Case!Propose
  <2>2. DecisionRow' = DecisionRow /\ UNCHANGED <<state, resolution>>
        /\ offer.status = "PENDING"
    BY <1>1, OtherLine DEF Case!Propose, Case!Record
  <2> QED
    BY <2>1, <2>2 DEF CaseSound, Grows, Recommendation
<1>2. CASE Case!GiveUp
  <2>1. DecisionRow' = DecisionRow /\ UNCHANGED <<state, resolution>>
        /\ offer.status = "PENDING"
        /\ offer' = [status |-> "UNAVAILABLE", values |-> Case!NoMap]
    BY <1>2, OtherLine DEF Case!GiveUp, Case!Record
  <2> QED
    BY <2>1, NoMapFact DEF CaseSound, Grows, Recommendation
<1>3. ASSUME NEW outcome \in States \ {"OPEN"}, NEW values \in SUBSET Resolution, NEW action,
             NEW type \in DecisionTypes, Case!Close(outcome, values, action),
             \/ type = "APPROVE" /\ action = "RECOMMENDATION_APPROVED"
                /\ offer.status = "AVAILABLE"
             \/ type = "EDIT_APPROVE" /\ action = "RECOMMENDATION_EDITED_AND_APPROVED"
             \/ type = "REJECT" /\ action = "RECOMMENDATION_REJECTED"
      PROVE  CaseSound' /\ Grows
  <2>1. /\ state = "OPEN" /\ state' = outcome /\ resolution' = values /\ offer' = offer
        /\ trail' = trail \cup {[seq |-> Case!LastLine.seq + 1, action |-> action]}
        /\ DecisionRow = "none"
    BY <1>3 DEF Case!Close, Case!Record, CaseSound
  <2>2. DecisionRow' = type
    BY <1>3, <2>1, DecisionLine
  <2> QED
    BY <1>3, <2>1, <2>2 DEF CaseSound, Grows, DecisionTypes
<1>4. CASE Case!Approve
  <2> DEFINE values == {[field |-> f, value |-> offer.values[f], origin |-> "AI"] :
                          f \in DOMAIN offer.values}
  <2>1. values \subseteq Resolution
    BY MapFact DEF CaseSound, Recommendation, Resolution
  <2>2. offer.status = "AVAILABLE"
        /\ Case!Close("RESOLVED", values, "RECOMMENDATION_APPROVED")
    BY <1>4 DEF Case!Approve
  <2> HIDE DEF values
  <2> QED
    BY <1>3, <2>1, <2>2 DEF States, DecisionTypes
<1>5. CASE Case!EditAndApprove
  <2>1. PICK m \in Case!Maps :
           Case!Close("RESOLVED",
                      {[field |-> f, value |-> m[f], origin |-> Case!Author(m, f)] :
                         f \in DOMAIN m},
                      "RECOMMENDATION_EDITED_AND_APPROVED")
    BY <1>5 DEF Case!EditAndApprove
  <2> DEFINE values == {[field |-> f, value |-> m[f], origin |-> Case!Author(m, f)] :
                          f \in DOMAIN m}
  <2>2. values \subseteq Resolution
    BY MapFact DEF Resolution, Case!Author
  <2> HIDE DEF values
  <2>3. Case!Close("RESOLVED", values, "RECOMMENDATION_EDITED_AND_APPROVED")
    BY <2>1 DEF values
  <2> QED
    BY <1>3, <2>2, <2>3 DEF States, DecisionTypes
<1>6. CASE Case!Reject
  BY <1>3, <1>6 DEF Case!Reject, States, DecisionTypes
<1> QED
  BY <1>1, <1>2, <1>4, <1>5, <1>6 DEF Case!Next

-----------------------------------------------------------------------------
(* The reads. *)

\* A read that is not under way, or has just been asked for, is sound.
LEMMA FreshReadSound ==
    ASSUME \/ caseRead' = NoCaseRead
           \/ \E id \in Identifiers : caseRead' = AskCase(id)
           \/ \E code \in Codes \ {"OK"} :
                 caseRead' = [NoCaseRead EXCEPT !.at = "answer", !.code = code]
    PROVE  ReadSound'
<1>1. NoCaseRead \in CaseRead
  BY NoMapFact DEF NoCaseRead, CaseRead, NoSections, Sections, States, Recommendation,
     Pending, Decision, NoDecision, Codes, Identifiers
<1>2. /\ caseRead' \in CaseRead /\ caseRead'.todo = {}
      /\ caseRead'.at \in {"idle", "exception", "answer"} /\ caseRead'.code # "OK"
      /\ caseRead'.at # "answer" => caseRead'.code = "none"
  <2> DEFINE none == NoCaseRead
  <2>1. none \in CaseRead /\ none.at = "idle" /\ none.todo = {} /\ none.code = "none"
    BY <1>1 DEF NoCaseRead
  <2>2. CASE caseRead' = NoCaseRead
    BY <2>1, <2>2
  <2>3. CASE \E id \in Identifiers : caseRead' = AskCase(id)
    <3>1. PICK id \in Identifiers : caseRead' = [none EXCEPT !.at = "exception", !.id = id]
      BY <2>3 DEF AskCase
    <3> HIDE DEF none
    <3> QED
      BY <2>1, <3>1 DEF CaseRead
  <2>4. CASE \E code \in Codes \ {"OK"} :
               caseRead' = [NoCaseRead EXCEPT !.at = "answer", !.code = code]
    <3>1. PICK code \in Codes \ {"OK"} :
             caseRead' = [none EXCEPT !.at = "answer", !.code = code]
      BY <2>4
    <3> HIDE DEF none
    <3> QED
      BY <2>1, <3>1 DEF CaseRead
  <2> QED
    BY <2>2, <2>3, <2>4
<1> QED
  BY <1>2 DEF ReadSound

\* A step of the case leaves what has been read true of it.
LEMMA ReadsKeep ==
    ASSUME ReadsInv, Grows, CaseSound', UNCHANGED caseRead
    PROVE  ReadSound'
  BY DEF ReadsInv, ReadSound, CaseSound, Grows, StateFresh, DecisionFresh, RecFresh,
     ProposalFresh, ResolutionFresh

\* A read that ends without a case, or is only asked for, keeps the invariant.
LEMMA FreshKeeps ==
    ASSUME CaseSound, UNCHANGED record,
           \/ caseRead' = NoCaseRead
           \/ \E id \in Identifiers : caseRead' = AskCase(id)
           \/ \E code \in Codes \ {"OK"} : AnswerCase(code)
    PROVE  ReadsInv'
<1>1. CaseSound'
  BY DEF CaseSound, record, DecisionRow
<1>2. ReadSound'
  BY FreshReadSound DEF AnswerCase
<1> QED
  BY <1>1, <1>2 DEF ReadsInv

\* What the SELECTs of a read see, when the case does not change.
Seeing == UNCHANGED record /\ DecisionRow' = DecisionRow /\ CaseSound'

LEMMA SeeingFact == ASSUME CaseSound, UNCHANGED record PROVE Seeing
  BY DEF CaseSound, record, DecisionRow, Seeing

\* The exceptions row is the case as it is.
LEMMA LoadExceptionKeeps == ASSUME ReadsInv, LoadException PROVE ReadsInv'
<1>1. CASE \E code \in Codes \ {"OK"} : AnswerCase(code)
  BY <1>1, FreshKeeps DEF LoadException, ReadsInv
<1>2. CASE caseRead' = [caseRead EXCEPT !.at = "sections", !.data.state = state,
                                        !.todo = {"rec", "decision"}]
  <2>1. Seeing
    BY SeeingFact DEF LoadException, ReadsInv
  <2>2. caseRead.at = "exception" /\ caseRead \in CaseRead /\ caseRead.code = "none"
    BY DEF LoadException, ReadsInv, ReadSound
  <2>3. /\ caseRead' \in CaseRead /\ caseRead'.at = "sections" /\ caseRead'.code = "none"
        /\ caseRead'.todo = {"rec", "decision"} /\ caseRead'.data.state = state
    <3>1. state \in States
      BY DEF ReadsInv, CaseSound
    <3> QED
      BY <1>2, <2>2, <3>1 DEF CaseRead, Sections
  <2>4. state' = state
    BY <2>1 DEF Seeing, record
  <2> QED
    BY <2>1, <2>3, <2>4 DEF ReadsInv, ReadSound, StateFresh, Seeing
<1> QED
  BY <1>1, <1>2 DEF LoadException, Codes

\* A section that has been read leaves the read among the sections, or ends them.
LEMMA SectionFact ==
    ASSUME NEW part \in {"rec", "decision"}, NEW data \in Sections,
           caseRead \in CaseRead, ReadSound, part \in caseRead.todo,
           SectionRead(part, data)
    PROVE  /\ caseRead.at = "sections" /\ caseRead.code = "none"
           /\ caseRead' \in CaseRead /\ caseRead'.data = data
           /\ caseRead'.code = "none" /\ caseRead'.at \in {"sections", "proposal"}
           /\ caseRead'.todo = caseRead.todo \ {part}
           /\ caseRead'.todo # {} => caseRead'.at = "sections"
<1>1. caseRead.at = "sections" /\ caseRead.code = "none"
  BY DEF ReadSound
<1>2. /\ caseRead'.data = data /\ caseRead'.todo = caseRead.todo \ {part}
      /\ caseRead'.at = IF caseRead.todo = {part} THEN "proposal" ELSE "sections"
      /\ caseRead'.code = caseRead.code /\ caseRead' \in CaseRead
  BY <1>1 DEF SectionRead, CaseRead
<1> QED
  BY <1>1, <1>2 DEF CaseRead

\* The status of the recommendation is final once it is not PENDING.
LEMMA LoadRecommendationKeeps == ASSUME ReadsInv, LoadRecommendation PROVE ReadsInv'
<1> DEFINE data == [caseRead.data EXCEPT !.rec.status = offer.status]
<1>1. Seeing /\ caseRead \in CaseRead /\ CaseSound /\ ReadSound
  BY SeeingFact DEF LoadRecommendation, ReadsInv, ReadSound
<1>2. /\ data \in Sections /\ data.state = caseRead.data.state
      /\ data.rec.status = offer.status /\ data.decision = caseRead.data.decision
  BY <1>1 DEF CaseRead, Sections, Recommendation, CaseSound
<1>3. "rec" \in caseRead.todo /\ SectionRead("rec", data)
  BY DEF LoadRecommendation
<1> HIDE DEF data
<1>4. /\ caseRead.at = "sections" /\ caseRead.code = "none"
      /\ caseRead' \in CaseRead /\ caseRead'.data = data
      /\ caseRead'.code = "none" /\ caseRead'.at \in {"sections", "proposal"}
      /\ caseRead'.todo = caseRead.todo \ {"rec"}
      /\ caseRead'.todo # {} => caseRead'.at = "sections"
  BY <1>1, <1>2, <1>3, SectionFact
<1>5. state' = state /\ offer' = offer /\ DecisionRow' = DecisionRow /\ CaseSound'
  BY <1>1 DEF Seeing, record
<1>6. /\ StateFresh(caseRead.data)
      /\ "decision" \notin caseRead.todo => DecisionFresh(caseRead.data)
  BY <1>1, <1>4 DEF ReadSound
<1>7. StateFresh(caseRead.data)'
  BY <1>2, <1>4, <1>5, <1>6 DEF StateFresh
<1>8. "decision" \notin caseRead'.todo => DecisionFresh(caseRead.data)'
  BY <1>2, <1>4, <1>5, <1>6 DEF DecisionFresh
<1>9. RecFresh(caseRead.data)'
  BY <1>1, <1>2, <1>4, <1>5 DEF RecFresh, CaseSound
<1> QED
  BY <1>4, <1>5, <1>7, <1>8, <1>9 DEF ReadsInv, ReadSound

\* A case that was read as closed has its decision.
LEMMA LoadDecisionKeeps == ASSUME ReadsInv, LoadDecision PROVE ReadsInv'
<1> DEFINE data == [caseRead.data EXCEPT !.decision.type = DecisionRow]
<1>1. Seeing /\ caseRead \in CaseRead /\ CaseSound /\ ReadSound
  BY SeeingFact DEF LoadDecision, ReadsInv, ReadSound
<1>2. /\ data \in Sections /\ data.state = caseRead.data.state
      /\ data.rec = caseRead.data.rec /\ data.decision.type = DecisionRow
  BY <1>1, DecisionRowFact DEF CaseRead, Sections, Decision
<1>3. "decision" \in caseRead.todo /\ SectionRead("decision", data)
  BY DEF LoadDecision
<1> HIDE DEF data
<1>4. /\ caseRead.at = "sections" /\ caseRead.code = "none"
      /\ caseRead' \in CaseRead /\ caseRead'.data = data
      /\ caseRead'.code = "none" /\ caseRead'.at \in {"sections", "proposal"}
      /\ caseRead'.todo = caseRead.todo \ {"decision"}
      /\ caseRead'.todo # {} => caseRead'.at = "sections"
  BY <1>1, <1>2, <1>3, SectionFact
<1>5. state' = state /\ offer' = offer /\ DecisionRow' = DecisionRow /\ CaseSound'
  BY <1>1 DEF Seeing, record
<1>6. /\ StateFresh(caseRead.data)
      /\ "rec" \notin caseRead.todo => RecFresh(caseRead.data)
  BY <1>1, <1>4 DEF ReadSound
<1>7. StateFresh(caseRead.data)'
  BY <1>2, <1>4, <1>5, <1>6 DEF StateFresh
<1>8. "rec" \notin caseRead'.todo => RecFresh(caseRead.data)'
  BY <1>2, <1>4, <1>5, <1>6 DEF RecFresh
<1>9. DecisionFresh(caseRead.data)'
  BY <1>2, <1>4, <1>5 DEF DecisionFresh
<1> QED
  BY <1>4, <1>5, <1>7, <1>8, <1>9 DEF ReadsInv, ReadSound

\* The values of the proposal are those of the offer.
LEMMA ComposeRecommendationKeeps == ASSUME ReadsInv, ComposeRecommendation PROVE ReadsInv'
<1>1. Seeing /\ caseRead \in CaseRead /\ CaseSound /\ ReadSound /\ caseRead.at = "proposal"
  BY SeeingFact DEF ComposeRecommendation, ReadsInv, ReadSound
<1>2. /\ StateFresh(caseRead.data) /\ DecisionFresh(caseRead.data) /\ RecFresh(caseRead.data)
      /\ caseRead.code = "none" /\ caseRead.todo = {}
  BY <1>1 DEF ReadSound
<1>3. offer \in [status : {"PENDING", "AVAILABLE", "UNAVAILABLE"}, values : Case!Maps]
  BY <1>1 DEF CaseSound, Recommendation
<1> DEFINE values == IF caseRead.data.rec.status = "AVAILABLE" THEN offer.values ELSE Case!NoMap
<1>4. values \in Case!Maps
  BY <1>3, NoMapFact
<1>5. caseRead' = [caseRead EXCEPT !.at = "resolution", !.data.rec.values = values]
  BY DEF ComposeRecommendation
<1>6. /\ caseRead'.at = "resolution" /\ caseRead'.code = "none" /\ caseRead'.todo = {}
      /\ caseRead'.data.state = caseRead.data.state
      /\ caseRead'.data.decision = caseRead.data.decision
      /\ caseRead'.data.rec = [status |-> caseRead.data.rec.status, values |-> values]
      /\ caseRead' \in CaseRead
  <2> HIDE DEF values
  <2> QED
    BY <1>1, <1>2, <1>4, <1>5 DEF CaseRead, Sections, Recommendation
<1>7. UNCHANGED <<state, offer>> /\ DecisionRow' = DecisionRow /\ CaseSound'
  BY <1>1 DEF Seeing, record
<1>8. ProposalFresh(caseRead.data)'
  BY <1>1, <1>2, <1>3, <1>6, <1>7 DEF ProposalFresh, RecFresh, CaseSound
<1>9. StateFresh(caseRead.data)' /\ DecisionFresh(caseRead.data)' /\ RecFresh(caseRead.data)'
  BY <1>2, <1>6, <1>7 DEF StateFresh, DecisionFresh, RecFresh
<1> QED
  BY <1>6, <1>7, <1>8, <1>9 DEF ReadsInv, ReadSound

\* The values of the decision are those of the resolution.
LEMMA ComposeDecisionKeeps == ASSUME ReadsInv, ComposeDecision PROVE ReadsInv'
<1>1. Seeing /\ caseRead \in CaseRead /\ CaseSound /\ ReadSound /\ caseRead.at = "resolution"
  BY SeeingFact DEF ComposeDecision, ReadsInv, ReadSound
<1>2. /\ StateFresh(caseRead.data) /\ DecisionFresh(caseRead.data) /\ RecFresh(caseRead.data)
      /\ ProposalFresh(caseRead.data) /\ caseRead.todo = {}
  BY <1>1 DEF ReadSound
<1> DEFINE values == IF caseRead.data.decision.type = "none" THEN {} ELSE resolution
<1>3. values \subseteq Resolution
  BY <1>1 DEF CaseSound
<1>4. caseRead' = [caseRead EXCEPT !.at = "answer", !.code = "OK", !.data.decision.values = values]
  BY DEF ComposeDecision
<1>5. /\ caseRead'.at = "answer" /\ caseRead'.code = "OK" /\ caseRead'.todo = {}
      /\ caseRead'.data.state = caseRead.data.state
      /\ caseRead'.data.rec = caseRead.data.rec
      /\ caseRead'.data.decision = [type |-> caseRead.data.decision.type, values |-> values]
      /\ caseRead' \in CaseRead
  <2> HIDE DEF values
  <2> QED
    BY <1>1, <1>2, <1>3, <1>4 DEF CaseRead, Sections, Decision, Codes
<1>6. UNCHANGED <<state, offer, resolution>> /\ DecisionRow' = DecisionRow /\ CaseSound'
  BY <1>1 DEF Seeing, record
<1>7. ResolutionFresh(caseRead.data)'
  BY <1>5, <1>6 DEF ResolutionFresh
<1>8. /\ StateFresh(caseRead.data)' /\ DecisionFresh(caseRead.data)' /\ RecFresh(caseRead.data)'
      /\ ProposalFresh(caseRead.data)'
  BY <1>2, <1>5, <1>6 DEF StateFresh, DecisionFresh, RecFresh, ProposalFresh
<1> QED
  BY <1>5, <1>6, <1>7, <1>8 DEF ReadsInv, ReadSound

-----------------------------------------------------------------------------
(* The panel. *)

LEMMA InitReadsInv == ASSUME PanelInit PROVE ReadsInv
<1>1. PICK id \in Identifiers : Case!Init /\ caseRead = AskCase(id)
  BY DEF PanelInit, InitReads
<1>2. DecisionRow = "none"
  BY <1>1 DEF Case!Init, DecisionRow
<1>3. CaseSound
  BY <1>1, <1>2, NoMapFact DEF Case!Init, CaseSound, States, Recommendation
<1>4. NoCaseRead \in CaseRead /\ NoCaseRead.todo = {} /\ NoCaseRead.code = "none"
  BY NoMapFact DEF NoCaseRead, CaseRead, NoSections, Sections, States, Recommendation,
     Pending, Decision, NoDecision, Codes, Identifiers
<1> DEFINE none == NoCaseRead
<1>5. caseRead = [none EXCEPT !.at = "exception", !.id = id]
  BY <1>1 DEF AskCase
<1>6. ReadSound
  <2> HIDE DEF none
  <2>1. none \in CaseRead /\ none.todo = {} /\ none.code = "none"
    BY <1>4 DEF none
  <2>2. /\ caseRead \in CaseRead /\ caseRead.todo = {} /\ caseRead.code = "none"
        /\ caseRead.at = "exception"
    BY <1>5, <2>1 DEF CaseRead
  <2> QED
    BY <2>2 DEF ReadSound
<1> QED
  BY <1>3, <1>6 DEF ReadsInv

\* A request that nobody has made is awaited by nobody.
Request == {q \in Post : q.at = "free" => ~q.awaited}

\* The screen, the panel and its requests hold what they may; past its first stage the panel
\* knows which decision it is about, so that every request carries one.
PanelTyped ==
    /\ screen \in Screen
    /\ panel \in Panel
    /\ post \in [Posts -> Request]
    /\ stored \in [key : Keys \cup {NoKey}, body : Body]
    /\ minted \subseteq Keys
    /\ told \in Decision
    /\ panel.stage # "chooser" => panel.chosen \in DecisionTypes

PanelInv == ReadsInv /\ PanelTyped

\* The case as it is read is of the types of the panel.
LEMMA CaseTypes ==
    ASSUME ReadsInv
    PROVE  /\ caseRead.data \in Sections /\ offer \in Recommendation
           /\ resolution \subseteq Resolution
           /\ [type |-> DecisionRow, values |-> resolution] \in Decision
  BY DecisionRowFact DEF ReadsInv, ReadSound, CaseSound, CaseRead, Decision

LEMMA EmptyPieces ==
    /\ NoPanel \in Panel /\ NoPanel.stage = "chooser"
    /\ NoPost \in Request /\ NoBody \in Body /\ NotOurs \in [key : Keys \cup {NoKey}, body : Body]
    /\ NoDecision \in Decision /\ NoSections \in Sections
  BY NoMapFact DEF NoPanel, Panel, NoPost, Request, Post, NoBody, Body, NotOurs, NoDecision, Decision,
     NoSections, Sections, States, Pending, Recommendation, DecisionTypes

LEMMA UnawaitedTyped == ASSUME NEW q \in Request PROVE Unawaited(q) \in Request
  BY DEF Unawaited, Post, Request

LEMMA AbandonTyped == ASSUME PanelTyped PROVE Abandon \in [Posts -> Request]
  BY UnawaitedTyped, EmptyPieces DEF PanelTyped, Abandon

\* A screen that fetches its case is empty.
LEMMA FetchTyped ==
    ASSUME NEW id \in Identifiers, Fetch(id)
    PROVE  /\ screen' \in Screen /\ panel' \in Panel /\ panel'.stage = "chooser"
           /\ \E i \in Identifiers : caseRead' = AskCase(i)
  BY EmptyPieces DEF Fetch, Loading, Screen

\* An answered request is a request.
LEMMA AnswerTyped ==
    ASSUME PanelTyped, NEW p \in Posts,
           NEW code \in {"created", "replayed", "already_decided", "key_reused",
                         "not_available", "incomplete"}, AnswerPost(p, code)
    PROVE  post' \in [Posts -> Request]
<1> DEFINE q == IF post[p].awaited THEN [post[p] EXCEPT !.at = "answer", !.code = code]
                ELSE NoPost
<1>1. post \in [Posts -> Request] /\ post' = [post EXCEPT ![p] = q]
  BY DEF PanelTyped, AnswerPost
<1>2. q \in Request
  <2>1. CASE post[p].awaited
    BY <1>1, <2>1 DEF Request, Post
  <2>2. CASE ~post[p].awaited
    BY <2>2, EmptyPieces
  <2> QED
    BY <2>1, <2>2
<1> HIDE DEF q
<1> QED
  BY <1>1, <1>2

\* What a screen says will be recorded is a set of values with their origins.
LEMMA PreviewTyped ==
    ASSUME NEW values \in Case!Maps, NEW proposed
    PROVE  Preview(values, proposed) \subseteq Resolution
  BY MapFact DEF Preview, Resolution

LEMMA SeenTyped ==
    ASSUME PanelTyped
    PROVE  Seen \subseteq Resolution
<1>1. panel.values \in Case!Maps /\ screen.data.rec.values \in Case!Maps
  BY DEF PanelTyped, Panel, Screen, Sections, Recommendation
<1>2. /\ Preview(screen.data.rec.values, screen.data.rec.values) \subseteq Resolution
      /\ Preview(panel.values, screen.data.rec.values) \subseteq Resolution
  BY <1>1, PreviewTyped
<1> QED
  BY <1>2 DEF Seen

\* A step that reads and writes nothing of the case, or asks for it anew.
Asks ==
    /\ UNCHANGED record
    /\ \/ UNCHANGED caseRead
       \/ caseRead' = NoCaseRead
       \/ \E id \in Identifiers : caseRead' = AskCase(id)

LEMMA AsksKeep == ASSUME ReadsInv, Asks PROVE ReadsInv'
<1>1. CASE UNCHANGED caseRead
  BY <1>1 DEF Asks, ReadsInv, record, CaseSound, ReadSound, DecisionRow, StateFresh,
     DecisionFresh, RecFresh, ProposalFresh, ResolutionFresh
<1> QED
  BY <1>1, FreshKeeps DEF Asks, ReadsInv

\* What the specialist does.
LEMMA SpecialistKeeps == ASSUME PanelInv, Specialist PROVE PanelTyped' /\ Asks
<1> USE DEF PanelInv
<1>1. CASE Reload
  <2>1. screen.id \in Identifiers
    BY DEF PanelTyped, Screen
  <2>2. Fetch(screen.id) /\ post' = Abandon /\ UNCHANGED <<record, stored, minted, told>>
    BY <1>1 DEF Reload
  <2> QED
    BY <2>1, <2>2, FetchTyped, AbandonTyped DEF PanelTyped, Asks
<1>2. ASSUME NEW type \in DecisionTypes, NEW values \in Case!Maps, Summarise(type, values)
      PROVE  PanelTyped' /\ Asks
  BY <1>2 DEF Summarise, PanelStep, PanelTyped, Panel, Asks
<1>3. CASE ChooseApprove
  BY <1>2, <1>3, NoMapFact DEF ChooseApprove, DecisionTypes
<1>4. ASSUME NEW stage \in {"edit", "reject"}, NEW type \in DecisionTypes,
             NEW values \in Case!Maps, Choose(stage, type, values)
      PROVE  PanelTyped' /\ Asks
  BY <1>4 DEF Choose, PanelStep, PanelTyped, Panel, Asks
<1>5. CASE ChooseEdit
  <2>1. Prefilled \in Case!Maps
    BY PanelAssumption DEF Prefilled, PanelTyped, Screen, Sections, Recommendation
  <2> QED
    BY <1>4, <1>5, <2>1 DEF ChooseEdit, DecisionTypes
<1>6. CASE ChooseReject
  BY <1>4, <1>6, NoMapFact DEF ChooseReject, DecisionTypes
<1>7. CASE Continue
  <2>1. PICK typed \in [DOMAIN panel.values -> Values] : Summarise(panel.chosen, typed)
    BY <1>7 DEF Continue
  <2>2. panel.chosen \in DecisionTypes
    BY <1>7 DEF Continue, PanelTyped
  <2>3. typed \in Case!Maps
    BY MapFact DEF PanelTyped, Panel, Case!Maps
  <2> QED
    BY <1>2, <2>1, <2>2, <2>3
<1>8. CASE Cancel
  BY <1>8, NoMapFact DEF Cancel, PanelStep, PanelTyped, Panel, Asks
<1>9. CASE Back
  <2>1. panel.chosen \in DecisionTypes
    BY <1>9 DEF Back, PanelTyped
  <2>2. PICK stage \in {"chooser", "edit", "reject"} :
           panel' = [panel EXCEPT !.alert = "none", !.stage = stage]
    BY <1>9, <2>1 DEF Back, DecisionTypes
  <2> QED
    BY <1>9, <2>1, <2>2 DEF Back, PanelStep, PanelTyped, Panel, Asks
<1>10. CASE Record
  <2>1. PICK p \in Posts :
           post' = [post EXCEPT ![p] =
                      [at |-> "precheck", key |-> panel.key, awaited |-> TRUE, seen |-> Seen,
                       body |-> [type |-> panel.chosen, values |-> panel.values],
                       code |-> "none"]]
    BY <1>10 DEF Record
  <2>2. panel.chosen \in DecisionTypes
    BY <1>10 DEF Record, PanelTyped
  <2>3. post' \in [Posts -> Request]
    BY <2>1, <2>2, SeenTyped DEF PanelTyped, Panel, Request, Post, Body
  <2> QED
    BY <1>10, <2>2, <2>3 DEF Record, PanelStep, PanelTyped, Panel, Asks
<1> QED
  BY <1>1, <1>3, <1>5, <1>6, <1>7, <1>8, <1>9, <1>10 DEF Specialist

\* An answer to the read of the case.
LEMMA DeliverCaseKeeps == ASSUME PanelInv, DeliverCase PROVE PanelTyped' /\ Asks
<1>1. /\ PanelTyped /\ UNCHANGED <<record, post, stored, minted, told>>
      /\ caseRead.data \in Sections
  BY CaseTypes DEF PanelInv, DeliverCase
<1>2. CASE Fetch("reference")
  BY <1>1, <1>2, FetchTyped DEF PanelTyped, Asks, Identifiers
<1>3. CASE Show(caseRead.data)
  BY <1>1, <1>3, EmptyPieces DEF Show, PanelTyped, Screen, Asks
<1>4. CASE /\ \E status \in {"not-found", "error"} : screen' = [screen EXCEPT !.status = status]
           /\ caseRead' = NoCaseRead
           /\ UNCHANGED panel
  BY <1>1, <1>4 DEF PanelTyped, Screen, Asks
<1> QED
  BY <1>2, <1>3, <1>4 DEF DeliverCase

\* An answer to a decision request, or its loss.
LEMMA DeliverPostKeeps ==
    ASSUME PanelInv, NEW p \in Posts, DeliverPost(p)
    PROVE  PanelTyped' /\ Asks
<1>1. /\ PanelTyped /\ UNCHANGED <<record, stored, minted>> /\ screen.id \in Identifiers
      /\ post' = [post EXCEPT ![p] = NoPost] /\ post' \in [Posts -> Request]
      /\ [type |-> DecisionRow, values |-> resolution] \in Decision
  BY CaseTypes, EmptyPieces DEF PanelInv, DeliverPost, PanelTyped, Screen
<1>2. CASE told' = [type |-> DecisionRow, values |-> resolution] /\ Fetch(screen.id)
  BY <1>1, <1>2, FetchTyped DEF PanelTyped, Asks
<1>3. CASE \E alert \in {"conflict", "retry"} :
              /\ panel' = [panel EXCEPT !.busy = FALSE, !.alert = alert]
              /\ UNCHANGED <<caseRead, screen, told>>
  BY <1>1, <1>3 DEF PanelTyped, Panel, Asks
<1> QED
  BY <1>2, <1>3 DEF DeliverPost, AlertFor

LEMMA LosePostKeeps == ASSUME PanelInv, NEW p \in Posts, LosePost(p) PROVE PanelTyped' /\ Asks
<1>1. /\ PanelTyped /\ UNCHANGED <<record, caseRead, screen, stored, told, minted>>
      /\ panel' = [panel EXCEPT !.busy = FALSE, !.alert = "retry"]
  BY DEF PanelInv, LosePost, PanelStep
<1>2. post[p] \in Request /\ post[p].at \in {"precheck", "decide", "answer"}
  BY <1>1 DEF LosePost, PanelTyped, Request, Post
<1>3. PICK q \in Leftovers(post[p]) : post' = [post EXCEPT ![p] = q]
  BY DEF LosePost
<1>4. q \in Request
  BY <1>2, <1>3, UnawaitedTyped, EmptyPieces DEF Leftovers
<1>5. post' \in [Posts -> Request]
  BY <1>1, <1>3, <1>4 DEF PanelTyped
<1> QED
  BY <1>1, <1>5 DEF PanelTyped, Panel, Asks

\* A statement of a decision request.
LEMMA PrecheckKeeps ==
    ASSUME PanelInv, NEW p \in Posts, PrecheckPost(p)
    PROVE  PanelTyped' /\ Asks
<1>1. PanelTyped /\ UNCHANGED <<record, stored, caseRead, screen, panel, minted, told>>
  BY DEF PanelInv, PrecheckPost, PostStep
<1>2. CASE post' = [post EXCEPT ![p].at = "decide"]
  BY <1>1, <1>2 DEF PanelTyped, Request, Post, Asks
<1>3. CASE \E code \in {"replayed", "key_reused"} : AnswerPost(p, code)
  <2>1. post' \in [Posts -> Request]
    BY <1>1, <1>3, AnswerTyped
  <2> QED
    BY <1>1, <2>1 DEF PanelTyped, Asks
<1> QED
  BY <1>2, <1>3 DEF PrecheckPost

\* The transaction of a decision is a step of the case.
LEMMA DecideKeeps ==
    ASSUME PanelInv, NEW p \in Posts, DecidePost(p)
    PROVE  PanelTyped' /\ (Asks \/ (Case!Next /\ UNCHANGED caseRead))
<1>1. PanelTyped /\ UNCHANGED <<caseRead, screen, panel, minted, told>>
  BY DEF PanelInv, DecidePost, PostStep
<1> DEFINE body == post[p].body
<1>2. body \in Body /\ post[p].key \in Keys \cup {NoKey}
  BY <1>1 DEF PanelTyped, Request, Post
<1>3. CASE Refusal(body) # "none" /\ AnswerPost(p, Refusal(body)) /\ UNCHANGED <<record, stored>>
  <2>1. Refusal(body) \in {"already_decided", "not_available", "incomplete", "none"}
    BY DEF Refusal
  <2>2. post' \in [Posts -> Request]
    BY <1>1, <1>3, <2>1, AnswerTyped
  <2> QED
    BY <1>1, <1>3, <2>2 DEF PanelTyped, Asks
<1>4. CASE Take(body) /\ stored' = [key |-> post[p].key, body |-> body]
           /\ AnswerPost(p, "created")
  <2>1. body.type \in DecisionTypes
    BY <1>2 DEF Body
  <2>2. Case!Next
    BY <1>4, <2>1 DEF Take, DecisionTypes, Case!Next
  <2>3. post' \in [Posts -> Request]
    BY <1>1, <1>4, AnswerTyped
  <2>4. stored' \in [key : Keys \cup {NoKey}, body : Body]
    BY <1>2, <1>4
  <2> HIDE DEF body
  <2> QED
    BY <1>1, <2>2, <2>3, <2>4 DEF PanelTyped
<1> QED
  BY <1>3, <1>4 DEF DecidePost

\* A statement of the read.
LEMMA ServeKeeps == ASSUME PanelInv, ServeCase PROVE PanelInv'
<1>1. PanelTyped'
  BY DEF PanelInv, ServeCase, PanelTyped
<1>2. CASE CaseReadFails
  BY <1>1, <1>2, FreshKeeps DEF CaseReadFails, PanelInv, ReadsInv, Codes
<1>3. CASE CaseReadStep
  BY <1>1, <1>3, LoadExceptionKeeps, LoadRecommendationKeeps, LoadDecisionKeeps,
     ComposeRecommendationKeeps, ComposeDecisionKeeps DEF CaseReadStep, PanelInv
<1> QED
  BY <1>1, <1>2, <1>3 DEF ServeCase, PanelInv

\* Every step keeps the invariant.
LEMMA StepPanelInv == ASSUME PanelInv, [PanelNext]_panelVars PROVE PanelInv'
<1>1. CASE UNCHANGED panelVars
  <2>1. PanelTyped' /\ Asks
    BY <1>1 DEF panelVars, PanelInv, PanelTyped, Asks
  <2> QED
    BY <2>1, AsksKeep DEF PanelInv
<1>2. ASSUME Case!Next, UNCHANGED caseRead
      PROVE  ReadsInv'
  BY <1>2, CaseStep, ReadsKeep DEF PanelInv, ReadsInv
<1>3. CASE Specialist
  BY <1>3, SpecialistKeeps, AsksKeep DEF PanelInv
<1>4. CASE ServeCase
  BY <1>4, ServeKeeps
<1>5. CASE DeliverCase
  BY <1>5, DeliverCaseKeeps, AsksKeep DEF PanelInv
<1>6. ASSUME NEW p \in Posts,
             PrecheckPost(p) \/ DecidePost(p) \/ DeliverPost(p) \/ LosePost(p)
      PROVE  PanelInv'
  BY <1>2, <1>6, PrecheckKeeps, DecideKeeps, DeliverPostKeeps, LosePostKeeps, AsksKeep
     DEF PanelInv
<1>7. CASE Others
  <2>1. PanelTyped'
    BY <1>7 DEF Others, PanelInv, PanelTyped
  <2> QED
    BY <1>2, <1>7, <2>1 DEF Others, PanelInv
<1> QED
  BY <1>1, <1>3, <1>4, <1>5, <1>6, <1>7 DEF PanelNext

LEMMA InitPanelInv == ASSUME PanelInit PROVE PanelInv
<1>1. ReadsInv
  BY InitReadsInv
<1>2. PICK id \in Identifiers : screen = Loading(id)
  BY DEF PanelInit
<1>3. PanelTyped
  BY <1>2, EmptyPieces DEF PanelInit, PanelTyped, Loading, Screen
<1> QED
  BY <1>1, <1>3 DEF PanelInv

-----------------------------------------------------------------------------
(* Theorems. *)

LEMMA PanelInvHolds == PanelSpec => []PanelInv
<1>1. PanelInit => PanelInv
  BY InitPanelInv
<1>2. PanelInv /\ [PanelNext]_panelVars => PanelInv'
  BY StepPanelInv
<1> QED
  BY <1>1, <1>2, PTL DEF PanelSpec

\* Nothing is permitted on a closed case, and APPROVE only on an AVAILABLE proposal.
LEMMA PermittedFact ==
    ASSUME NEW data
    PROVE  /\ data.state # "OPEN" => Permitted(data) = {}
           /\ "APPROVE" \in Permitted(data) => data.rec.status = "AVAILABLE"
  BY DEF Permitted, DecisionTypes

\* Every variable of the panel, the reads and the requests keeps its type.
THEOREM PanelTypes == PanelSpec => []PanelTypeOK
<1>1. PanelInv => PanelTypeOK
  BY DEF Request, PanelInv, PanelTyped, ReadsInv, CaseSound, ReadSound, PanelTypeOK, ReadsTypeOK
<1> QED
  BY <1>1, PanelInvHolds, PTL

\* A case that is served as closed is served with its decision, its values and its proposal,
\* and one that is served as open permits APPROVE only with the complete proposal, whatever
\* commits between the SELECTs of the read.
THEOREM CaseServedWhole == PanelSpec => []ServedWhole
<1>1. PanelInv => ServedWhole
  <2> SUFFICES ASSUME PanelInv, caseRead.code = "OK" PROVE ServedWhole
    BY DEF ServedWhole
  <2> DEFINE data == caseRead.data
  <2>1. /\ StateFresh(data) /\ DecisionFresh(data) /\ RecFresh(data)
        /\ ProposalFresh(data) /\ ResolutionFresh(data) /\ CaseSound
        /\ data \in Sections
    BY CaseTypes DEF PanelInv, ReadsInv, ReadSound
  <2>2. data.decision = [type |-> data.decision.type, values |-> data.decision.values]
        /\ data.rec.status \in {"PENDING", "AVAILABLE", "UNAVAILABLE"}
    BY <2>1 DEF Sections, Decision, Recommendation
  <2> HIDE DEF data
  <2>3. data.state # "OPEN" => /\ data.state = state
                               /\ data.decision.type # "none"
                               /\ Permitted(data) = {}
    <3> SUFFICES ASSUME data.state # "OPEN"
                 PROVE  /\ data.state = state
                        /\ data.decision.type # "none"
                        /\ Permitted(data) = {}
      OBVIOUS
    <3>1. data.state = state /\ data.decision.type = DecisionRow
      BY <2>1 DEF StateFresh, DecisionFresh
    <3>2. DecisionRow # "none"
      BY <2>1, <3>1 DEF CaseSound
    <3>3. Permitted(data) = {}
      BY PermittedFact
    <3> QED
      BY <3>1, <3>2, <3>3
  <2>4. data.decision.type # "none" =>
           data.decision = [type |-> DecisionRow, values |-> resolution]
    BY <2>1, <2>2 DEF DecisionFresh, ResolutionFresh
  <2>7. data.decision.type = "APPROVE" /\ data.state # "OPEN" => data.rec.status = "AVAILABLE"
    BY <2>1, <2>4 DEF RecFresh
  <2>5. "APPROVE" \in Permitted(data) => data.rec.status = "AVAILABLE"
    BY PermittedFact
  <2>6. data.rec.status # "PENDING" => data.rec = offer
    BY <2>1 DEF ProposalFresh
  <2> QED
    BY <2>3, <2>4, <2>5, <2>6, <2>7 DEF ServedWhole, data
<1> QED
  BY <1>1, PanelInvHolds, PTL

-----------------------------------------------------------------------------
(* What the specialist is told is true. *)

\* What the screen shows is of the case; its panel can be about APPROVE only with an offer,
\* and has a key once it can send.
ScreenTruth ==
    /\ screen.status = "loaded" =>
          /\ StateFresh(screen.data) /\ DecisionFresh(screen.data)
          /\ ProposalFresh(screen.data) /\ ResolutionFresh(screen.data)
    /\ panel.chosen = "APPROVE" => offer.status = "AVAILABLE"
    /\ panel.stage = "summary" => panel.key # NoKey
    /\ panel.alert = "conflict" => state # "OPEN"

\* The decision that this screen sent and the server stored is the decision of the case.
StoredTruth == stored # NotOurs => stored.key # NoKey /\ DecisionRow = stored.body.type

\* Whoever was told a decision sees a closed case from then on.
ToldTruth ==
    told.type # "none" =>
       /\ stored # NotOurs /\ told = [type |-> stored.body.type, values |-> resolution]
       /\ caseRead.at \in {"sections", "proposal", "resolution"} \/ caseRead.code = "OK" =>
             caseRead.data.state # "OPEN"
       /\ screen.status = "loaded" => screen.data.state # "OPEN"

\* The values that a body adopts.
Adopted(body) == IF body.type = "APPROVE" THEN offer.values ELSE body.values

RequestTruth(p) ==
    /\ post[p].at # "free" => post[p].key # NoKey
    /\ post[p].body.type = "APPROVE" => offer.status = "AVAILABLE"
    /\ post[p].code \in {"created", "replayed"} => stored # NotOurs
    /\ post[p].code = "already_decided" => state # "OPEN"
    /\ post[p].code # "not_available"
    /\ post[p].seen # {} =>
          /\ offer.status = "AVAILABLE" /\ post[p].body.type # "REJECT"
          /\ post[p].seen = Preview(Adopted(post[p].body), offer.values)
          /\ post[p].code = "created" => post[p].seen = resolution

TruthInv == PanelInv /\ ScreenTruth /\ StoredTruth /\ ToldTruth /\ \A p \in Posts : RequestTruth(p)

\* The decision of this screen has closed the case.
LEMMA StoredCloses == ASSUME TruthInv, stored # NotOurs PROVE state # "OPEN"
  BY DEF TruthInv, StoredTruth, PanelInv, PanelTyped, Body, DecisionTypes, ReadsInv, CaseSound

\* A step that leaves the case alone adds nothing to it.
LEMMA StillGrows == ASSUME UNCHANGED record PROVE Grows /\ DecisionRow' = DecisionRow
  BY DEF Grows, record, DecisionRow

\* A request that goes on, or is forgotten, stays true.
LEMMA RequestKeeps ==
    ASSUME TruthInv, NEW p \in Posts, Grows,
           stored' = stored \/ stored' # NotOurs,
           \/ post'[p] = post[p]
           \/ post'[p] = NoPost
           \/ post'[p] = Unawaited(post[p])
           \/ post'[p] = [post[p] EXCEPT !.at = "decide"] /\ post[p].at # "free"
    PROVE  RequestTruth(p)'
<1>1. /\ RequestTruth(p) /\ post[p] \in Request /\ offer \in Recommendation
      /\ stored # NotOurs => state # "OPEN"
  BY StoredCloses, CaseTypes DEF TruthInv, PanelInv, PanelTyped
<1>2. CASE post'[p] = NoPost
  BY <1>2 DEF NoPost, NoBody, RequestTruth
<1>3. ASSUME post'[p] # NoPost
      PROVE  /\ post'[p].key = post[p].key /\ post'[p].body = post[p].body
             /\ post'[p].code = post[p].code
             /\ post'[p].at # "free" => post[p].at # "free"
             /\ post'[p].seen \in {{}, post[p].seen}
  BY <1>1, <1>3 DEF Unawaited, Request, Post
<1>4. state # "OPEN" => state' # "OPEN" /\ resolution' = resolution
  BY DEF Grows
<1>5. offer.status = "AVAILABLE" => offer' = offer
  BY DEF Grows
<1>6. CASE post'[p] # NoPost
  <2>1. /\ post'[p].at # "free" => post'[p].key # NoKey
        /\ post'[p].body.type = "APPROVE" => offer'.status = "AVAILABLE"
        /\ post'[p].code \in {"created", "replayed"} => stored' # NotOurs
        /\ post'[p].code = "already_decided" => state' # "OPEN"
        /\ post'[p].code # "not_available"
    BY <1>1, <1>3, <1>4, <1>5, <1>6 DEF RequestTruth
  <2>2. ASSUME post'[p].seen # {}
        PROVE  /\ offer'.status = "AVAILABLE" /\ post'[p].body.type # "REJECT"
               /\ post'[p].seen = Preview(Adopted(post[p].body), offer.values)'
               /\ post'[p].code = "created" => post'[p].seen = resolution'
    <3>1. post'[p].seen = post[p].seen /\ post[p].seen # {}
      BY <1>3, <1>6, <2>2
    <3>2. offer' = offer /\ offer.status = "AVAILABLE" /\ post[p].body.type # "REJECT"
          /\ post[p].seen = Preview(Adopted(post[p].body), offer.values)
      BY <1>1, <1>5, <3>1 DEF RequestTruth
    <3>3. Preview(Adopted(post[p].body), offer.values)'
             = Preview(Adopted(post[p].body), offer.values)
      BY <1>3, <1>6, <3>2 DEF Preview, Adopted
    <3>4. post'[p].code = "created" => post'[p].seen = resolution'
      BY <1>1, <1>3, <1>4, <1>6, <3>1 DEF RequestTruth
    <3> QED
      BY <1>3, <1>6, <3>1, <3>2, <3>3, <3>4
  <2> QED
    BY <2>1, <2>2 DEF RequestTruth
<1> QED
  BY <1>2, <1>6

\* What the screen shows stays true of a case that only grows.
LEMMA ScreenKeeps ==
    ASSUME TruthInv, Grows, CaseSound', UNCHANGED <<screen, panel>>
    PROVE  ScreenTruth'
  BY DEF TruthInv, ScreenTruth, PanelInv, ReadsInv, CaseSound, Grows, StateFresh, DecisionFresh,
     ProposalFresh, ResolutionFresh

\* So does what was stored and what was told.
LEMMA StoredKeeps ==
    ASSUME TruthInv, Grows, UNCHANGED stored
    PROVE  StoredTruth'
<1>1. stored # NotOurs => state # "OPEN"
  BY StoredCloses
<1> QED
  BY <1>1 DEF TruthInv, StoredTruth, Grows

LEMMA ToldKeeps ==
    ASSUME TruthInv, Grows, UNCHANGED <<stored, told>>,
           \/ caseRead' = caseRead
           \/ caseRead'.at \in {"idle", "exception", "answer"} /\ caseRead'.code # "OK"
           \/ caseRead'.data.state = caseRead.data.state
              /\ caseRead.at \in {"sections", "proposal", "resolution"}
           \/ caseRead'.data.state = state,
           \/ screen' = screen
           \/ screen'.status # "loaded"
           \/ screen'.data = caseRead.data /\ caseRead.code = "OK"
    PROVE  ToldTruth'
<1>1. stored # NotOurs => state # "OPEN" /\ resolution' = resolution
  BY StoredCloses DEF Grows
<1> QED
  BY <1>1 DEF TruthInv, ToldTruth

\* What the step of a screen that asks anew leaves of it.
LEMMA FetchTruth ==
    ASSUME NEW id, Fetch(id)
    PROVE  /\ ScreenTruth' /\ screen'.status # "loaded"
           /\ caseRead'.at = "exception" /\ caseRead'.code # "OK"
  BY DEF Fetch, Loading, NoPanel, ScreenTruth, AskCase, NoCaseRead

\* The decision that is taken is the one that was sent; on an offer, its values and origins
\* are what a screen that shows the offer has previewed.
LEMMA TakeFact ==
    ASSUME CaseSound, NEW body \in Body, Take(body)
    PROVE  /\ state = "OPEN" /\ offer' = offer /\ DecisionRow' = body.type
           /\ body.type = "APPROVE" => offer.status = "AVAILABLE"
           /\ offer.status = "AVAILABLE" /\ body.type # "REJECT" =>
                 resolution' = Preview(Adopted(body), offer.values)
<1>1. ASSUME NEW outcome, NEW values, NEW action, Case!Close(outcome, values, action),
             \/ body.type = "APPROVE" /\ action = "RECOMMENDATION_APPROVED"
             \/ body.type = "EDIT_APPROVE" /\ action = "RECOMMENDATION_EDITED_AND_APPROVED"
             \/ body.type = "REJECT" /\ action = "RECOMMENDATION_REJECTED"
      PROVE  state = "OPEN" /\ offer' = offer /\ DecisionRow' = body.type /\ resolution' = values
  <2>1. /\ state = "OPEN" /\ offer' = offer /\ resolution' = values /\ DecisionRow = "none"
        /\ trail' = trail \cup {[seq |-> Case!LastLine.seq + 1, action |-> action]}
    BY <1>1 DEF Case!Close, Case!Record, CaseSound
  <2>2. body.type \in DecisionTypes
    BY DEF Body
  <2>3. DecisionRow' = body.type
    BY <1>1, <2>1, <2>2, DecisionLine
  <2> QED
    BY <2>1, <2>3
<1>2. CASE body.type = "APPROVE"
  <2>1. Case!Approve
    BY <1>2 DEF Take
  <2>2. /\ state = "OPEN" /\ offer' = offer /\ DecisionRow' = body.type
        /\ resolution' = {[field |-> f, value |-> offer.values[f], origin |-> "AI"] :
                            f \in DOMAIN offer.values}
    BY <1>1, <1>2, <2>1 DEF Case!Approve
  <2>3. offer.status = "AVAILABLE"
    BY <2>1 DEF Case!Approve
  <2> QED
    BY <1>2, <2>2, <2>3 DEF Preview, Adopted
<1>3. CASE body.type = "REJECT"
  <2>1. Case!Reject
    BY <1>3 DEF Take
  <2> QED
    BY <1>1, <1>3, <2>1 DEF Case!Reject
<1>4. CASE body.type = "EDIT_APPROVE"
  <2>1. /\ Case!EditAndApprove
        /\ {<<x.field, x.value>> : x \in resolution'}
             = {<<f, body.values[f]>> : f \in DOMAIN body.values}
    BY <1>4 DEF Take
  <2>2. PICK m \in Case!Maps :
           Case!Close("RESOLVED",
                      {[field |-> f, value |-> m[f], origin |-> Case!Author(m, f)] :
                         f \in DOMAIN m},
                      "RECOMMENDATION_EDITED_AND_APPROVED")
    BY <2>1 DEF Case!EditAndApprove
  <2>3. /\ state = "OPEN" /\ offer' = offer /\ DecisionRow' = body.type
        /\ resolution' = {[field |-> f, value |-> m[f], origin |-> Case!Author(m, f)] :
                            f \in DOMAIN m}
    BY <1>1, <1>4, <2>2
  <2>4. m = body.values
    <3> DEFINE v == body.values
    <3>1. v \in Case!Maps
      BY DEF Body
    <3>2. m = [f \in DOMAIN m |-> m[f]] /\ v = [f \in DOMAIN v |-> v[f]]
      BY <3>1 DEF Case!Maps
    <3>3. ASSUME NEW f \in DOMAIN m PROVE f \in DOMAIN v /\ v[f] = m[f]
      <4> DEFINE x == [field |-> f, value |-> m[f], origin |-> Case!Author(m, f)]
      <4>1. x \in resolution' /\ x.field = f /\ x.value = m[f]
        BY <2>3
      <4> HIDE DEF x
      <4>2. PICK g \in DOMAIN v : <<f, m[f]>> = <<g, v[g]>>
        BY <2>1, <4>1
      <4> QED
        BY <4>2
    <3>4. ASSUME NEW f \in DOMAIN v PROVE f \in DOMAIN m
      <4>1. <<f, v[f]>> \in {<<x.field, x.value>> : x \in resolution'}
        BY <2>1
      <4>2. PICK x \in resolution' : <<f, v[f]>> = <<x.field, x.value>>
        BY <4>1
      <4>3. PICK g \in DOMAIN m : x.field = g
        BY <2>3, <4>2
      <4> QED
        BY <4>2, <4>3
    <3>5. DOMAIN m = DOMAIN v
      BY <3>3, <3>4
    <3> HIDE DEF v
    <3>6. m = v
      BY <3>2, <3>3, <3>5
    <3> QED
      BY <3>6 DEF v
  <2>5. offer.status = "AVAILABLE" => resolution' = Preview(m, offer.values)
    BY <2>3 DEF Preview, Case!Author
  <2> QED
    BY <1>4, <2>3, <2>4, <2>5 DEF Adopted
<1> QED
  BY <1>2, <1>3, <1>4 DEF Body, DecisionTypes

\* A step that changes no request keeps all of them true.
LEMMA RequestsKeep ==
    ASSUME TruthInv, Grows, stored' = stored, UNCHANGED post
    PROVE  \A p \in Posts : RequestTruth(p)'
<1> TAKE p \in Posts
<1> QED
  BY RequestKeeps

\* What the specialist does.
LEMMA SpecialistTruth == ASSUME TruthInv, Specialist PROVE TruthInv'
<1>1. PanelTyped' /\ Asks /\ PanelInv'
  BY SpecialistKeeps, AsksKeep DEF TruthInv, PanelInv
<1>2. Grows /\ UNCHANGED record /\ CaseSound'
  BY <1>1, StillGrows DEF Asks, PanelInv, ReadsInv
<1>3. CASE Reload
  <2>1. Fetch(screen.id) /\ post' = Abandon /\ UNCHANGED <<stored, told>>
    BY <1>3 DEF Reload
  <2>2. ScreenTruth' /\ StoredTruth' /\ ToldTruth'
    BY <1>2, <2>1, FetchTruth, StoredKeeps, ToldKeeps
  <2>3. ASSUME NEW p \in Posts PROVE RequestTruth(p)'
    <3>1. post'[p] \in {NoPost, Unawaited(post[p])}
      BY <2>1 DEF Abandon
    <3> QED
      BY <1>2, <2>1, <3>1, RequestKeeps
  <2> QED
    BY <1>1, <2>2, <2>3 DEF TruthInv
<1>4. ASSUME UNCHANGED <<caseRead, screen, stored, told, post>>,
             panel'.chosen = "APPROVE" => offer.status = "AVAILABLE",
             panel'.stage = "summary" => panel'.key # NoKey,
             panel'.alert \in {panel.alert, "none"}
      PROVE  TruthInv'
  <2>1. ScreenTruth'
    BY <1>2, <1>4 DEF TruthInv, ScreenTruth, record, StateFresh, DecisionFresh, DecisionRow,
       ProposalFresh, ResolutionFresh
  <2>2. StoredTruth' /\ ToldTruth'
    BY <1>2, <1>4, StoredKeeps, ToldKeeps
  <2>3. \A p \in Posts : RequestTruth(p)'
    BY <1>2, <1>4, RequestsKeep
  <2> QED
    BY <1>1, <2>1, <2>2, <2>3 DEF TruthInv
<1>5. /\ panel \in Panel /\ NoKey \notin Keys /\ ScreenTruth
      /\ panel.chosen = "APPROVE" => offer.status = "AVAILABLE"
  BY PanelAssumption DEF TruthInv, PanelInv, PanelTyped, ScreenTruth
<1>6. ASSUME NEW type, NEW values, Summarise(type, values),
             type = "APPROVE" => offer.status = "AVAILABLE"
      PROVE  TruthInv'
  <2>1. PICK key \in Keys : panel' = [panel EXCEPT !.stage = "summary", !.chosen = type,
                                                   !.values = values, !.key = key]
    BY <1>6 DEF Summarise
  <2>2. /\ panel'.stage = "summary" /\ panel'.chosen = type /\ panel'.key = key
        /\ panel'.alert = panel.alert
    BY <1>5, <2>1 DEF Panel
  <2> QED
    BY <1>4, <1>5, <1>6, <2>2 DEF Summarise, PanelStep
<1>7. CASE ChooseApprove
  <2>1. screen.status = "loaded" /\ screen.data.rec.status = "AVAILABLE"
    BY <1>7, PermittedFact DEF ChooseApprove, Controls
  <2>2. offer.status = "AVAILABLE"
    BY <1>5, <2>1 DEF ScreenTruth, ProposalFresh
  <2> QED
    BY <1>6, <1>7, <2>2 DEF ChooseApprove
<1>8. ASSUME NEW stage \in {"edit", "reject"}, NEW type \in {"EDIT_APPROVE", "REJECT"},
             NEW values, Choose(stage, type, values)
      PROVE  TruthInv'
  <2>1. panel'.stage = stage /\ panel'.chosen = type /\ panel'.alert = panel.alert
    BY <1>5, <1>8 DEF Choose, Panel
  <2> QED
    BY <1>4, <1>8, <2>1 DEF Choose, PanelStep
<1>9. CASE ChooseEdit \/ ChooseReject
  BY <1>8, <1>9 DEF ChooseEdit, ChooseReject
<1>10. CASE Continue
  BY <1>5, <1>6, <1>10 DEF Continue
<1>11. CASE Cancel
  <2>1. panel'.stage = "chooser" /\ panel'.chosen = "none" /\ panel'.alert = panel.alert
    BY <1>5, <1>11 DEF Cancel, Panel
  <2> QED
    BY <1>4, <1>11, <2>1 DEF Cancel, PanelStep
<1>12. CASE Back
  <2>1. panel.chosen \in DecisionTypes
    BY <1>12 DEF Back, TruthInv, PanelInv, PanelTyped
  <2>2. PICK stage \in {"chooser", "edit", "reject"} :
           panel' = [panel EXCEPT !.alert = "none", !.stage = stage]
    BY <1>12, <2>1 DEF Back, DecisionTypes
  <2>3. panel'.stage = stage /\ panel'.chosen = panel.chosen /\ panel'.alert = "none"
    BY <1>5, <2>2 DEF Panel
  <2> QED
    BY <1>4, <1>5, <1>12, <2>3 DEF Back, PanelStep
<1>13. CASE Record
  <2>1. PICK p \in Posts :
           post' = [post EXCEPT ![p] =
                      [at |-> "precheck", key |-> panel.key, awaited |-> TRUE, seen |-> Seen,
                       body |-> [type |-> panel.chosen, values |-> panel.values],
                       code |-> "none"]]
    BY <1>13 DEF Record
  <2>2. /\ UNCHANGED <<caseRead, screen, stored, told>> /\ screen.status = "loaded"
        /\ panel.stage = "summary" /\ panel.chosen \in DecisionTypes
        /\ panel' = [panel EXCEPT !.busy = TRUE, !.alert = "none"]
        /\ post \in [Posts -> Request]
    BY <1>13 DEF Record, PanelStep, Controls, TruthInv, PanelInv, PanelTyped
  <2>3. panel'.stage = panel.stage /\ panel'.chosen = panel.chosen /\ panel'.key = panel.key
        /\ panel'.alert = "none"
    BY <1>5, <2>2 DEF Panel
  <2>4. ScreenTruth'
    BY <1>2, <1>5, <2>2, <2>3 DEF ScreenTruth, record, StateFresh, DecisionFresh, DecisionRow,
       ProposalFresh, ResolutionFresh
  <2>5. StoredTruth' /\ ToldTruth'
    BY <1>2, <2>2, StoredKeeps, ToldKeeps
  <2>6. ASSUME NEW q \in Posts, q # p PROVE RequestTruth(q)'
    <3>1. post'[q] = post[q]
      BY <2>1, <2>2, <2>6
    <3> QED
      BY <1>2, <2>2, <3>1, RequestKeeps
  <2>7. /\ post'[p].at = "precheck" /\ post'[p].key = panel.key /\ post'[p].seen = Seen
        /\ post'[p].body = [type |-> panel.chosen, values |-> panel.values]
        /\ post'[p].code = "none"
    BY <2>1, <2>2
  <2>8. Seen # {} => /\ offer.status = "AVAILABLE" /\ panel.chosen # "REJECT"
                     /\ Seen = Preview(Adopted([type |-> panel.chosen, values |-> panel.values]),
                                       offer.values)
    BY <1>5, <2>2 DEF Seen, ScreenTruth, ProposalFresh, Adopted
  <2>9. UNCHANGED offer
    BY <1>2 DEF record
  <2>10. Preview(Adopted(post[p].body), offer.values)'
            = Preview(Adopted([type |-> panel.chosen, values |-> panel.values]), offer.values)
    BY <2>7, <2>9 DEF Preview, Adopted
  <2>11. RequestTruth(p)'
    BY <1>5, <2>2, <2>7, <2>8, <2>9, <2>10 DEF RequestTruth, ScreenTruth
  <2> QED
    BY <1>1, <2>4, <2>5, <2>6, <2>11 DEF TruthInv
<1> QED
  BY <1>3, <1>7, <1>9, <1>10, <1>11, <1>12, <1>13 DEF Specialist

\* A statement of the read: a case that was closed is read as closed.
LEMMA ServeTruth == ASSUME TruthInv, ServeCase PROVE TruthInv'
<1>1. PanelInv' /\ UNCHANGED <<screen, panel, post, stored, told>> /\ PanelInv
  BY ServeKeeps DEF ServeCase, TruthInv
<1>2. UNCHANGED record
  BY DEF ServeCase, CaseReadStep, LoadException, LoadRecommendation, LoadDecision,
     ComposeRecommendation, ComposeDecision, CaseReadFails
<1>3. Grows /\ CaseSound'
  BY <1>1, <1>2, StillGrows DEF PanelInv, ReadsInv
<1>4. caseRead \in CaseRead /\ ReadSound
  BY <1>1 DEF PanelInv, ReadsInv, ReadSound
<1>5. ASSUME NEW code \in Codes \ {"OK"}, AnswerCase(code)
      PROVE  caseRead'.at \in {"idle", "exception", "answer"} /\ caseRead'.code # "OK"
  BY <1>5 DEF AnswerCase, NoCaseRead
<1>6. ASSUME LoadException PROVE ToldTruth'
  <2>1. CASE \E code \in Codes \ {"OK"} : AnswerCase(code)
    BY <1>1, <1>3, <1>5, <2>1, ToldKeeps
  <2>2. CASE caseRead' = [caseRead EXCEPT !.at = "sections", !.data.state = state,
                                          !.todo = {"rec", "decision"}]
    <3>1. caseRead'.data.state = state
      BY <1>4, <2>2 DEF CaseRead, Sections
    <3> QED
      BY <1>1, <1>3, <3>1, ToldKeeps
  <2> QED
    BY <1>6, <2>1, <2>2 DEF LoadException, Codes
<1>7. ASSUME NEW part \in {"rec", "decision"}, NEW data, SectionRead(part, data),
             part \in caseRead.todo, data.state = caseRead.data.state
      PROVE  ToldTruth'
  <2>1. caseRead.at = "sections" /\ caseRead'.data.state = caseRead.data.state
    BY <1>4, <1>7 DEF SectionRead, CaseRead, ReadSound
  <2> QED
    BY <1>1, <1>3, <2>1, ToldKeeps
<1>8. ASSUME LoadRecommendation PROVE ToldTruth'
  <2>1. [caseRead.data EXCEPT !.rec.status = offer.status].state = caseRead.data.state
    BY <1>4 DEF CaseRead, Sections
  <2> QED
    BY <1>7, <1>8, <2>1 DEF LoadRecommendation
<1>9. ASSUME LoadDecision PROVE ToldTruth'
  <2>1. [caseRead.data EXCEPT !.decision.type = DecisionRow].state = caseRead.data.state
    BY <1>4 DEF CaseRead, Sections
  <2> QED
    BY <1>7, <1>9, <2>1 DEF LoadDecision
<1>10. ASSUME ComposeRecommendation PROVE ToldTruth'
  <2>1. caseRead.at = "proposal" /\ caseRead'.data.state = caseRead.data.state
    BY <1>4, <1>10 DEF ComposeRecommendation, CaseRead, Sections
  <2> QED
    BY <1>1, <1>3, <2>1, ToldKeeps
<1>11. ASSUME ComposeDecision PROVE ToldTruth'
  <2>1. caseRead.at = "resolution" /\ caseRead'.data.state = caseRead.data.state
    BY <1>4, <1>11 DEF ComposeDecision, CaseRead, Sections
  <2> QED
    BY <1>1, <1>3, <2>1, ToldKeeps
<1>12. ASSUME CaseReadFails PROVE ToldTruth'
  <2>1. AnswerCase("RECEIPT_FAILED")
    BY <1>12 DEF CaseReadFails
  <2> QED
    BY <1>1, <1>3, <1>5, <2>1, ToldKeeps DEF Codes
<1>13. ToldTruth'
  BY <1>6, <1>8, <1>9, <1>10, <1>11, <1>12 DEF ServeCase, CaseReadStep
<1>14. ScreenTruth' /\ StoredTruth'
  BY <1>1, <1>3, ScreenKeeps, StoredKeeps
<1>15. \A p \in Posts : RequestTruth(p)'
  BY <1>1, <1>3, RequestsKeep
<1> QED
  BY <1>1, <1>13, <1>14, <1>15 DEF TruthInv

\* What is shown of an answer is what was read.
LEMMA DeliverCaseTruth == ASSUME TruthInv, DeliverCase PROVE TruthInv'
<1>1. PanelTyped' /\ Asks /\ PanelInv' /\ PanelInv
  BY DeliverCaseKeeps, AsksKeep DEF TruthInv, PanelInv
<1>2. /\ Grows /\ UNCHANGED record /\ UNCHANGED <<post, stored, told>>
      /\ state' = state /\ offer' = offer /\ resolution' = resolution
      /\ DecisionRow' = DecisionRow /\ screen \in Screen
  BY <1>1, StillGrows DEF DeliverCase, record, PanelInv, PanelTyped
<1>3. StoredTruth' /\ \A p \in Posts : RequestTruth(p)'
  BY <1>2, StoredKeeps, RequestsKeep
<1>4. CASE Fetch("reference")
  BY <1>1, <1>2, <1>3, <1>4, FetchTruth, ToldKeeps DEF TruthInv
<1>5. CASE caseRead.code = "OK" /\ Show(caseRead.data)
  <2>1. /\ screen'.data = caseRead.data /\ panel' = NoPanel /\ caseRead' = NoCaseRead
    BY <1>2, <1>5 DEF Show, Screen
  <2>2. ToldTruth'
    BY <1>2, <1>5, <2>1, ToldKeeps DEF NoCaseRead
  <2>3. /\ StateFresh(caseRead.data) /\ DecisionFresh(caseRead.data)
        /\ ProposalFresh(caseRead.data) /\ ResolutionFresh(caseRead.data)
    BY <1>1, <1>5 DEF PanelInv, ReadsInv, ReadSound
  <2>4. ScreenTruth'
    BY <1>2, <2>1, <2>3 DEF ScreenTruth, NoPanel, StateFresh, DecisionFresh, ProposalFresh,
       ResolutionFresh
  <2> QED
    BY <1>1, <1>3, <2>2, <2>4 DEF TruthInv
<1>6. CASE /\ \E status \in {"not-found", "error"} : screen' = [screen EXCEPT !.status = status]
           /\ caseRead' = NoCaseRead
           /\ UNCHANGED panel
  <2>1. screen'.status # "loaded"
    BY <1>2, <1>6 DEF Screen
  <2>2. ToldTruth'
    BY <1>2, <1>6, <2>1, ToldKeeps DEF NoCaseRead
  <2>3. ScreenTruth'
    BY <1>2, <1>6, <2>1 DEF TruthInv, ScreenTruth
  <2> QED
    BY <1>1, <1>3, <2>2, <2>3 DEF TruthInv
<1> QED
  BY <1>4, <1>5, <1>6 DEF DeliverCase

\* What the panel is told by an answer to its request.
LEMMA DeliverPostTruth ==
    ASSUME TruthInv, NEW p \in Posts, DeliverPost(p)
    PROVE  TruthInv'
<1>1. PanelTyped' /\ Asks /\ PanelInv' /\ PanelInv
  BY DeliverPostKeeps, AsksKeep DEF TruthInv, PanelInv
<1>2. /\ Grows /\ UNCHANGED record /\ stored' = stored
      /\ state' = state /\ offer' = offer /\ resolution' = resolution
      /\ DecisionRow' = DecisionRow /\ panel \in Panel /\ post \in [Posts -> Request]
      /\ RequestTruth(p) /\ post' = [post EXCEPT ![p] = NoPost]
  BY <1>1, StillGrows DEF DeliverPost, record, PanelInv, PanelTyped, TruthInv
<1>3. ASSUME NEW q \in Posts PROVE RequestTruth(q)'
  <2>1. post'[q] = post[q] \/ post'[q] = NoPost
    BY <1>2
  <2> QED
    BY <1>2, <2>1, RequestKeeps
<1>4. StoredTruth'
  BY <1>2, StoredKeeps
<1>5. CASE /\ post[p].code \in {"created", "replayed"}
           /\ told' = [type |-> DecisionRow, values |-> resolution] /\ Fetch(screen.id)
  <2>1. stored # NotOurs /\ DecisionRow = stored.body.type
    BY <1>2, <1>5 DEF RequestTruth, TruthInv, StoredTruth
  <2>2. ToldTruth'
    BY <1>2, <1>5, <2>1, FetchTruth DEF ToldTruth, Fetch, AskCase, NoCaseRead, Loading
  <2> QED
    BY <1>1, <1>3, <1>4, <1>5, <2>2, FetchTruth DEF TruthInv
<1>6. CASE /\ panel' = [panel EXCEPT !.busy = FALSE, !.alert = AlertFor(post[p].code)]
           /\ UNCHANGED <<caseRead, screen, told>>
  <2>1. /\ panel'.chosen = panel.chosen /\ panel'.stage = panel.stage /\ panel'.key = panel.key
        /\ panel'.alert = AlertFor(post[p].code)
    BY <1>2, <1>6 DEF Panel
  <2>2. panel'.alert = "conflict" => state # "OPEN"
    BY <1>2, <2>1 DEF AlertFor, RequestTruth
  <2>3. ScreenTruth'
    BY <1>2, <1>6, <2>1, <2>2 DEF TruthInv, ScreenTruth, StateFresh, DecisionFresh,
       ProposalFresh, ResolutionFresh
  <2>4. ToldTruth'
    BY <1>2, <1>6, ToldKeeps
  <2> QED
    BY <1>1, <1>3, <1>4, <2>3, <2>4 DEF TruthInv
<1> QED
  BY <1>5, <1>6 DEF DeliverPost

\* A lost answer: the panel offers to try again, and the request may go on.
LEMMA LosePostTruth == ASSUME TruthInv, NEW p \in Posts, LosePost(p) PROVE TruthInv'
<1>1. PanelTyped' /\ Asks /\ PanelInv' /\ PanelInv
  BY LosePostKeeps, AsksKeep DEF TruthInv, PanelInv
<1>2. /\ Grows /\ UNCHANGED record /\ UNCHANGED <<caseRead, screen, stored, told>>
      /\ state' = state /\ offer' = offer /\ resolution' = resolution
      /\ DecisionRow' = DecisionRow /\ panel \in Panel /\ post \in [Posts -> Request]
      /\ panel' = [panel EXCEPT !.busy = FALSE, !.alert = "retry"]
  BY <1>1, StillGrows DEF LosePost, PanelStep, record, PanelInv, PanelTyped
<1>3. /\ panel'.chosen = panel.chosen /\ panel'.stage = panel.stage /\ panel'.key = panel.key
      /\ panel'.alert = "retry"
  BY <1>2 DEF Panel
<1>4. ScreenTruth'
  BY <1>2, <1>3 DEF TruthInv, ScreenTruth, StateFresh, DecisionFresh, ProposalFresh,
     ResolutionFresh
<1>5. StoredTruth' /\ ToldTruth'
  BY <1>2, StoredKeeps, ToldKeeps
<1>6. post[p].at \in {"precheck", "decide", "answer"}
  BY <1>2 DEF LosePost, Request, Post
<1>7. PICK q \in {NoPost, Unawaited(post[p])} : post' = [post EXCEPT ![p] = q]
  BY <1>6 DEF LosePost, Leftovers
<1>8. ASSUME NEW r \in Posts PROVE RequestTruth(r)'
  <2>1. post'[r] \in {post[r], NoPost, Unawaited(post[r])}
    BY <1>2, <1>7
  <2> QED
    BY <1>2, <2>1, RequestKeeps
<1> QED
  BY <1>1, <1>4, <1>5, <1>8 DEF TruthInv

\* An answer is true when its code is.
LEMMA AnswerTruth ==
    ASSUME TruthInv, NEW p \in Posts, Grows, stored' = stored \/ stored' # NotOurs,
           post[p].at # "free",
           NEW code, AnswerPost(p, code),
           code \in {"created", "replayed"} => stored' # NotOurs,
           code = "already_decided" => state' # "OPEN",
           code # "not_available",
           code = "created" /\ post[p].seen # {} => resolution' = post[p].seen
    PROVE  \A r \in Posts : RequestTruth(r)'
<1>1. post \in [Posts -> Request] /\ RequestTruth(p) /\ post[p] \in Post
  BY DEF TruthInv, PanelInv, PanelTyped, Request
<1>2. ASSUME NEW r \in Posts, r # p \/ ~post[p].awaited PROVE RequestTruth(r)'
  <2>1. post'[r] = post[r] \/ post'[r] = NoPost
    BY <1>1, <1>2 DEF AnswerPost
  <2> QED
    BY <2>1, RequestKeeps
<1>3. CASE post[p].awaited
  <2>1. post'[p] = [post[p] EXCEPT !.at = "answer", !.code = code]
    BY <1>1, <1>3 DEF AnswerPost
  <2>2. /\ post'[p].key = post[p].key /\ post'[p].body = post[p].body
        /\ post'[p].code = code /\ post'[p].seen = post[p].seen
    BY <1>1, <2>1 DEF Post
  <2>3. offer.status = "AVAILABLE" => offer' = offer
    BY DEF Grows
  <2>4. /\ post'[p].at # "free" => post'[p].key # NoKey
        /\ post'[p].body.type = "APPROVE" => offer'.status = "AVAILABLE"
        /\ post'[p].code \in {"created", "replayed"} => stored' # NotOurs
        /\ post'[p].code = "already_decided" => state' # "OPEN"
        /\ post'[p].code # "not_available"
    BY <1>1, <2>2, <2>3 DEF RequestTruth
  <2>5. ASSUME post'[p].seen # {}
        PROVE  /\ offer'.status = "AVAILABLE" /\ post'[p].body.type # "REJECT"
               /\ post'[p].seen = Preview(Adopted(post[p].body), offer.values)'
               /\ post'[p].code = "created" => post'[p].seen = resolution'
    <3>1. offer' = offer /\ offer.status = "AVAILABLE" /\ post[p].body.type # "REJECT"
          /\ post[p].seen = Preview(Adopted(post[p].body), offer.values)
      BY <1>1, <2>2, <2>3, <2>5 DEF RequestTruth
    <3>2. Preview(Adopted(post[p].body), offer.values)'
             = Preview(Adopted(post[p].body), offer.values)
      BY <2>2, <3>1 DEF Preview, Adopted
    <3> QED
      BY <2>2, <2>5, <3>1, <3>2
  <2>6. RequestTruth(p)'
    BY <2>4, <2>5 DEF RequestTruth
  <2> QED
    BY <1>2, <2>6
<1> QED
  BY <1>2, <1>3

\* Before the transaction: only the decision of this screen is replayed.
LEMMA PrecheckTruth == ASSUME TruthInv, NEW p \in Posts, PrecheckPost(p) PROVE TruthInv'
<1>1. PanelTyped' /\ Asks /\ PanelInv' /\ PanelInv
  BY PrecheckKeeps, AsksKeep DEF TruthInv, PanelInv
<1>2. /\ Grows /\ CaseSound' /\ UNCHANGED <<caseRead, screen, panel, stored, told>>
      /\ post \in [Posts -> Request] /\ RequestTruth(p) /\ post[p].at = "precheck"
  BY <1>1, StillGrows DEF PrecheckPost, PostStep, PanelInv, PanelTyped, TruthInv, ReadsInv
<1>3. ScreenTruth' /\ StoredTruth' /\ ToldTruth'
  BY <1>2, ScreenKeeps, StoredKeeps, ToldKeeps
<1>4. CASE post' = [post EXCEPT ![p].at = "decide"]
  <2>1. ASSUME NEW r \in Posts PROVE RequestTruth(r)'
    <3> DEFINE q == [post[p] EXCEPT !.at = "decide"]
    <3>0. post' = [post EXCEPT ![p] = q]
      BY <1>4
    <3> HIDE DEF q
    <3>1. CASE r = p
      <4>1. post'[r] = q
        BY <1>2, <3>0, <3>1
      <4>2. post'[r] = [post[r] EXCEPT !.at = "decide"] /\ post[r].at # "free"
        BY <1>2, <3>1, <4>1 DEF q
      <4> QED
        BY <1>2, <4>2, RequestKeeps
    <3>2. CASE r # p
      <4>1. post'[r] = post[r]
        BY <1>2, <3>0, <3>2
      <4> QED
        BY <1>2, <4>1, RequestKeeps
    <3> QED
      BY <3>1, <3>2
  <2> QED
    BY <1>1, <1>3, <2>1 DEF TruthInv
<1>5. CASE post[p].key = stored.key /\ \E code \in {"replayed", "key_reused"} : AnswerPost(p, code)
  <2>1. stored # NotOurs
    BY <1>2, <1>5 DEF RequestTruth, NotOurs
  <2>2. \A r \in Posts : RequestTruth(r)'
    BY <1>2, <1>5, <2>1, AnswerTruth
  <2> QED
    BY <1>1, <1>3, <2>2 DEF TruthInv
<1> QED
  BY <1>4, <1>5 DEF PrecheckPost

\* A step of the case by others leaves what was said true.
LEMMA OthersTruth == ASSUME TruthInv, Others PROVE TruthInv'
<1>1. PanelInv' /\ CaseSound' /\ Grows
  BY StepPanelInv, CaseStep DEF PanelNext, Others, TruthInv, PanelInv, ReadsInv
<1>2. UNCHANGED <<caseRead, screen, panel, post, stored, told>>
  BY DEF Others
<1>3. ScreenTruth' /\ StoredTruth' /\ ToldTruth' /\ \A p \in Posts : RequestTruth(p)'
  BY <1>1, <1>2, ScreenKeeps, StoredKeeps, ToldKeeps, RequestsKeep
<1> QED
  BY <1>1, <1>3 DEF TruthInv

\* The transaction: the decision that is stored is the first, and is the request's.
LEMMA DecideTruth == ASSUME TruthInv, NEW p \in Posts, DecidePost(p) PROVE TruthInv'
<1>1. PanelInv /\ PanelInv' /\ CaseSound /\ CaseSound'
  BY StepPanelInv DEF PanelNext, TruthInv, PanelInv, ReadsInv
<1>2. /\ UNCHANGED <<caseRead, screen, panel, told>> /\ post[p].at = "decide"
      /\ post \in [Posts -> Request] /\ post[p] \in Post /\ RequestTruth(p)
  BY <1>1 DEF DecidePost, PostStep, PanelInv, PanelTyped, TruthInv, Request
<1>3. post[p].body \in Body /\ NoKey # post[p].key
  BY <1>2 DEF Post, RequestTruth
<1>4. CASE /\ Refusal(post[p].body) # "none"
           /\ AnswerPost(p, Refusal(post[p].body))
           /\ UNCHANGED <<record, stored>>
  <2>1. /\ Refusal(post[p].body) \in {"already_decided", "incomplete"}
        /\ Refusal(post[p].body) = "already_decided" => state # "OPEN"
    <3>1. post[p].body.type = "APPROVE" => offer.status = "AVAILABLE"
      BY <1>2 DEF RequestTruth
    <3> QED
      BY <1>4, <3>1 DEF Refusal
  <2>2. Grows /\ state' = state /\ stored' = stored
    BY <1>4, StillGrows DEF record
  <2>3. \A r \in Posts : RequestTruth(r)'
    BY <1>2, <1>4, <2>1, <2>2, AnswerTruth
  <2>4. ScreenTruth' /\ StoredTruth' /\ ToldTruth'
    BY <1>1, <1>2, <2>2, ScreenKeeps, StoredKeeps, ToldKeeps
  <2> QED
    BY <1>1, <2>3, <2>4 DEF TruthInv
<1>5. CASE /\ Take(post[p].body)
           /\ stored' = [key |-> post[p].key, body |-> post[p].body]
           /\ AnswerPost(p, "created")
  <2>1. Case!Next
    BY <1>3, <1>5 DEF Take, Case!Next, Body, DecisionTypes
  <2>2. Grows
    BY <1>1, <2>1, CaseStep
  <2>3. /\ state = "OPEN" /\ offer' = offer /\ DecisionRow' = post[p].body.type
        /\ offer.status = "AVAILABLE" /\ post[p].body.type # "REJECT" =>
              resolution' = Preview(Adopted(post[p].body), offer.values)
    BY <1>1, <1>3, <1>5, TakeFact
  <2>4. stored = NotOurs /\ stored' # NotOurs
    BY <1>3, <1>5, <2>3, StoredCloses DEF NotOurs
  <2>5. told.type = "none"
    BY <2>4 DEF TruthInv, ToldTruth
  <2>6. post[p].seen # {} => resolution' = post[p].seen
    BY <1>2, <2>3 DEF RequestTruth
  <2>7. \A r \in Posts : RequestTruth(r)'
    BY <1>2, <1>5, <2>2, <2>4, <2>6, AnswerTruth
  <2>8. ScreenTruth'
    BY <1>1, <1>2, <2>2, ScreenKeeps
  <2>9. StoredTruth'
    BY <1>3, <1>5, <2>3 DEF StoredTruth
  <2>10. ToldTruth'
    BY <1>2, <2>5 DEF ToldTruth
  <2> QED
    BY <1>1, <2>7, <2>8, <2>9, <2>10 DEF TruthInv
<1> QED
  BY <1>4, <1>5 DEF DecidePost

\* Every step keeps what was said true.
LEMMA StepTruth == ASSUME TruthInv, [PanelNext]_panelVars PROVE TruthInv'
<1>1. CASE UNCHANGED panelVars
  <2>1. Grows /\ UNCHANGED <<caseRead, screen, panel, post, stored, told>>
    BY <1>1, StillGrows DEF panelVars
  <2>2. PanelInv' /\ CaseSound'
    BY <1>1, StepPanelInv DEF TruthInv, PanelInv, ReadsInv
  <2>3. ScreenTruth' /\ StoredTruth' /\ ToldTruth' /\ \A p \in Posts : RequestTruth(p)'
    BY <2>1, <2>2, ScreenKeeps, StoredKeeps, ToldKeeps, RequestsKeep
  <2> QED
    BY <2>2, <2>3 DEF TruthInv
<1>2. CASE PanelNext
  BY <1>2, SpecialistTruth, ServeTruth, DeliverCaseTruth, PrecheckTruth, DecideTruth,
     DeliverPostTruth, LosePostTruth, OthersTruth DEF PanelNext
<1> QED
  BY <1>1, <1>2

LEMMA InitTruth == ASSUME PanelInit PROVE TruthInv
<1>1. PanelInv
  BY InitPanelInv
<1>2. /\ screen.status = "loading" /\ panel = NoPanel /\ stored = NotOurs /\ told = NoDecision
      /\ \A p \in Posts : post[p] = NoPost
  BY DEF PanelInit, Loading
<1>3. ScreenTruth /\ StoredTruth /\ ToldTruth
  BY <1>2 DEF ScreenTruth, NoPanel, StoredTruth, ToldTruth, NoDecision
<1>4. \A p \in Posts : RequestTruth(p)
  BY <1>2 DEF RequestTruth, NoPost, NoBody
<1> QED
  BY <1>1, <1>3, <1>4 DEF TruthInv

LEMMA TruthHolds == PanelSpec => []TruthInv
<1>1. PanelInit => TruthInv
  BY InitTruth
<1>2. TruthInv /\ [PanelNext]_panelVars => TruthInv'
  BY StepTruth
<1> QED
  BY <1>1, <1>2, PTL DEF PanelSpec

\* A confirmation is of the decision that the case has, and the alert that ends the panel is
\* shown only when the case is closed, whatever is retried, reloaded or lost and whatever
\* others decide meanwhile.
THEOREM AnswersAreTruthful == PanelSpec => []AnswersTruthful
<1>1. TruthInv => AnswersTruthful
  <2> SUFFICES ASSUME TruthInv PROVE AnswersTruthful
    OBVIOUS
  <2>1. panel.alert = "conflict" => state # "OPEN"
    BY DEF TruthInv, ScreenTruth
  <2>2. ASSUME told.type # "none"
        PROVE  stored # NotOurs /\ told = [type |-> stored.body.type, values |-> resolution]
    BY <2>2 DEF TruthInv, ToldTruth
  <2>3. ASSUME told.type # "none", screen.status = "loaded"
        PROVE  screen.data.decision = told /\ ~Controls
    <3>1. screen.data.state # "OPEN" /\ DecisionRow = stored.body.type
      BY <2>2, <2>3 DEF TruthInv, ToldTruth, StoredTruth
    <3>2. screen.data.decision.type = DecisionRow /\ DecisionRow # "none"
      BY <2>2, <2>3, <3>1, StoredCloses
         DEF TruthInv, ScreenTruth, DecisionFresh, PanelInv, ReadsInv, CaseSound
    <3>3. screen.data.decision.values = resolution
      BY <2>3, <3>2 DEF TruthInv, ScreenTruth, ResolutionFresh
    <3>4. screen.data.decision \in Decision
      BY DEF TruthInv, PanelInv, PanelTyped, Screen, Sections
    <3>5. screen.data.decision = told
      BY <2>2, <2>3, <3>1, <3>2, <3>3, <3>4 DEF Decision
    <3> QED
      BY <3>1, <3>5 DEF Controls
  <2> QED
    BY <2>1, <2>2, <2>3 DEF AnswersTruthful
<1> QED
  BY <1>1, TruthHolds, PTL

\* What the summary has previewed of a decision on a proposal is what the server records.
THEOREM PreviewRecorded == PanelSpec => []PreviewIsTheRecord
<1>1. TruthInv => PreviewIsTheRecord
  BY DEF TruthInv, RequestTruth, PreviewIsTheRecord
<1> QED
  BY <1>1, TruthHolds, PTL

-----------------------------------------------------------------------------
(* The trail, and the screen around the panel: the invariant. *)

\* Lines numbered from 1 to n, each number once.
Chain(lines, n) ==
    /\ lines \subseteq Line
    /\ {l.seq : l \in lines} = 1 .. n
    /\ \A l, m \in lines : l.seq = m.seq => l = m

\* The trail of the case: numbered without a gap, with the line of a proposal exactly when
\* there is an offer.
CaseTrail ==
    /\ \E n \in Nat \ {0} : Chain(trail, n)
    /\ offer.status = "AVAILABLE" <=> \E l \in trail : l.action = "RECOMMENDATION_GENERATED"

\* The trail as it was at some time.
Earlier(lines) == \E k \in Nat : Chain(lines, k) /\ lines = {l \in trail : l.seq <= k}

ValuesOf(lines) == {[seq |-> l.seq, rows |-> LineValues(l)] : l \in lines}

\* What each stage of a read of the trail holds is still true of the trail as it is now.
TrailReadSound ==
    /\ trailRead \in ReadOfTrail
    /\ trailRead.at # "answer" => trailRead.code = "none"
    /\ trailRead.at \in {"values", "verify"} \/ trailRead.code = "OK" =>
          Earlier(trailRead.data.lines)
    /\ trailRead.at = "verify" \/ trailRead.code = "OK" =>
          trailRead.data.values = ValuesOf(trailRead.data.lines)
    /\ trailRead.code = "OK" =>
          /\ trailRead.data.verified
          /\ Cardinality(trailRead.data.lines) <= trailRead.data.count
          /\ trailRead.data.count <= Cardinality(trail)

RegionSound ==
    /\ region \in Region
    /\ region.status = "loaded" => /\ Earlier(region.lines)
                                   /\ region.values = ValuesOf(region.lines)

ActionOf(type) ==
    CASE type = "APPROVE" -> "RECOMMENDATION_APPROVED"
      [] type = "EDIT_APPROVE" -> "RECOMMENDATION_EDITED_AND_APPROVED"
      [] type = "REJECT" -> "RECOMMENDATION_REJECTED"

\* These lines are of no earlier a time than the case on the screen.
Shows(lines) ==
    /\ screen.data.decision.type # "none" =>
          \E l \in lines : l.action = ActionOf(screen.data.decision.type)
    /\ screen.data.rec.status = "AVAILABLE" =>
          \E l \in lines : l.action = "RECOMMENDATION_GENERATED"

\* The trail was read after the case it stands beside.
BesideTrail ==
    screen.status = "loaded" =>
        /\ trailRead.at \in {"values", "verify"} \/ trailRead.code = "OK" =>
              Shows(trailRead.data.lines)
        /\ region.status = "loaded" => Shows(region.lines)

\* A recommendation that was final when the case was fetched is the one in the section,
\* which does not poll.
SectionSound ==
    /\ section \in Section
    /\ screen.status = "loaded" /\ screen.data.rec.status # "PENDING" =>
          section.timer = "off" /\ section.rec = screen.data.rec

\* A case is asked for by a screen that is loading.
AskedWhileLoading == screen.status # "loading" => caseRead.at = "idle"

ScreenInv ==
    /\ TruthInv /\ AskedWhileLoading
    /\ CaseTrail /\ TrailReadSound /\ RegionSound /\ BesideTrail
    /\ SectionSound

-----------------------------------------------------------------------------
(* The trail. *)

LEMMA ChainCount ==
    ASSUME NEW lines, NEW n \in Nat, Chain(lines, n)
    PROVE  IsFiniteSet(lines) /\ Cardinality(lines) = n
<1> DEFINE line == [i \in 1 .. n |-> CHOOSE l \in lines : l.seq = i]
<1>1. ASSUME NEW i \in 1 .. n
      PROVE  line[i] \in lines /\ line[i].seq = i
  <2>1. \E l \in lines : l.seq = i
    BY DEF Chain
  <2> QED
    BY <2>1
<1>2. \A l \in lines : l.seq \in 1 .. n
  BY DEF Chain
<1>3. line \in [1 .. n -> lines]
  BY <1>1
<1>4. \A i, j \in 1 .. n : line[i] = line[j] => i = j
  <2> HIDE DEF line
  <2> QED
    BY <1>1
<1>5. \A l \in lines : \E i \in 1 .. n : line[i] = l
  <2> HIDE DEF line
  <2> SUFFICES ASSUME NEW l \in lines PROVE line[l.seq] = l /\ l.seq \in 1 .. n
    OBVIOUS
  <2>1. l.seq \in 1 .. n
    BY <1>2
  <2>2. line[l.seq] \in lines /\ line[l.seq].seq = l.seq
    BY <1>1, <2>1
  <2> QED
    BY <2>1, <2>2 DEF Chain
<1>6. line \in Bijection(1 .. n, lines)
  <2> HIDE DEF line
  <2> QED
    BY <1>3, <1>4, <1>5 DEF Bijection, Injection, Surjection, IsInjective
<1>7. ExistsBijection(1 .. n, lines)
  BY <1>6 DEF ExistsBijection
<1> QED
  BY <1>7, FS_CountingElements, FS_NatBijection

\* The last line bears the number of the lines.
LEMMA LastLineNumber ==
    ASSUME NEW n \in Nat \ {0}, Chain(trail, n)
    PROVE  Case!LastLine \in trail /\ Case!LastLine.seq = n
<1>1. n \in 1 .. n
  OBVIOUS
<1>2. PICK last \in trail : last.seq = n
  BY <1>1 DEF Chain
<1>3. \A l \in trail : l.seq \in 1 .. n
  BY DEF Chain
<1>4. \A l \in trail : l.seq <= last.seq
  BY <1>2, <1>3
<1>5. Case!LastLine \in trail /\ \A m \in trail : m.seq <= Case!LastLine.seq
  BY <1>2, <1>4 DEF Case!LastLine
<1>6. n <= Case!LastLine.seq /\ Case!LastLine.seq \in 1 .. n
  BY <1>2, <1>3, <1>5
<1> QED
  BY <1>5, <1>6

\* What a step of the case means for the readers of its trail.
TrailGrows ==
    /\ trail \subseteq trail'
    /\ \A l \in trail' \ trail, m \in trail : m.seq < l.seq
    /\ \A l \in trail : LineValues(l)' = LineValues(l)

LEMMA RecordFact ==
    ASSUME CaseTrail, NEW action \in Actions, Case!Record(action)
    PROVE  /\ \E n \in Nat \ {0} : Chain(trail, n)'
           /\ trail \subseteq trail'
           /\ \A l \in trail' \ trail : l.action = action /\ \A m \in trail : m.seq < l.seq
           /\ \E l \in trail' : l.action = action
<1>1. PICK n \in Nat \ {0} : Chain(trail, n)
  BY DEF CaseTrail
<1> DEFINE line == [seq |-> n + 1, action |-> action]
<1>2. trail' = trail \cup {line}
  BY <1>1, LastLineNumber DEF Case!Record
<1>3. line.seq = n + 1 /\ line.action = action /\ line \in Line
  BY DEF Line
<1> HIDE DEF line
<1>4. \A m \in trail : m.seq \in 1 .. n
  BY <1>1 DEF Chain
<1>5. \A m \in trail : m.seq < line.seq
  BY <1>3, <1>4
<1>6. Chain(trail', n + 1)
  <2>1. {l.seq : l \in trail'} = {l.seq : l \in trail} \cup {n + 1}
    BY <1>2, <1>3
  <2>2. {l.seq : l \in trail} \cup {n + 1} = 1 .. n + 1
    BY <1>1 DEF Chain
  <2>3. \A l, m \in trail' : l.seq = m.seq => l = m
    BY <1>1, <1>2, <1>3, <1>4 DEF Chain
  <2> QED
    BY <1>1, <1>2, <1>3, <2>1, <2>2, <2>3 DEF Chain
<1>7. n + 1 \in Nat \ {0}
  OBVIOUS
<1> QED
  BY <1>2, <1>3, <1>5, <1>6, <1>7 DEF Chain

\* The values of a line are final.
LEMMA LineValuesKept ==
    ASSUME CaseSound, CaseTrail, Grows, NEW l \in trail,
           trail \subseteq trail', \A k \in trail' \ trail : k.seq \in Nat /\ l.seq < k.seq
    PROVE  LineValues(l)' = LineValues(l)
<1> DEFINE Proposed(k, line) == k.action = "RECOMMENDATION_GENERATED" /\ k.seq < line.seq
<1>1. (\E k \in trail : k.action = "RECOMMENDATION_GENERATED") => Proposal' = Proposal
  BY DEF CaseTrail, Grows, Proposal
<1>2. (\E k \in trail' : Proposed(k, l)) <=> \E k \in trail : Proposed(k, l)
  <2>1. \A m \in trail : m.seq \in Nat
    BY DEF CaseTrail, Chain, Line
  <2>2. \A k \in trail' \ trail : ~ (k.seq < l.seq)
    BY <2>1
  <2> QED
    BY <2>1, <2>2
<1>3. l.action \in {"RECOMMENDATION_APPROVED", "RECOMMENDATION_EDITED_AND_APPROVED"} =>
         resolution' = resolution
  BY DEF CaseSound, DecisionRow, Grows
<1> QED
  BY <1>1, <1>2, <1>3 DEF LineValues

LEMMA TrailStep ==
    ASSUME CaseSound, CaseTrail, Case!Next
    PROVE  CaseTrail' /\ TrailGrows
<1>1. PICK action \in Actions :
         /\ Case!Record(action)
         /\ offer'.status = "AVAILABLE" <=>
               offer.status = "AVAILABLE" \/ action = "RECOMMENDATION_GENERATED"
  BY DEF Case!Next, Case!Propose, Case!GiveUp, Case!Approve, Case!EditAndApprove,
     Case!Reject, Case!Close, Actions
<1>2. /\ \E n \in Nat \ {0} : Chain(trail, n)'
      /\ trail \subseteq trail'
      /\ \A l \in trail' \ trail : l.action = action /\ \A m \in trail : m.seq < l.seq
      /\ \E l \in trail' : l.action = action
  BY <1>1, RecordFact
<1>3. CaseTrail'
  BY <1>1, <1>2 DEF CaseTrail
<1>4. Grows
  BY CaseStep
<1>5. \A l \in trail' : l.seq \in Nat
  BY <1>2 DEF Chain, Line
<1>6. \A l \in trail : LineValues(l)' = LineValues(l)
  BY <1>2, <1>4, <1>5, LineValuesKept
<1> QED
  BY <1>2, <1>3, <1>6 DEF TrailGrows

\* A trail as it was once stays that.
LEMMA EarlierKept ==
    ASSUME CaseTrail', TrailGrows, NEW lines, Earlier(lines)
    PROVE  Earlier(lines)' /\ lines \subseteq trail
<1>1. PICK k \in Nat : Chain(lines, k) /\ lines = {l \in trail : l.seq <= k}
  BY DEF Earlier
<1>2. \A l \in trail' : l.seq \in Nat \ {0}
  BY DEF CaseTrail, Chain, Line
<1>3. ASSUME NEW l \in trail', l \notin trail
      PROVE  ~ (l.seq <= k)
  <2> SUFFICES ASSUME l.seq <= k PROVE FALSE
    OBVIOUS
  <2>1. l.seq \in 1 .. k
    BY <1>2
  <2>2. PICK m \in lines : m.seq = l.seq
    BY <1>1, <2>1 DEF Chain
  <2> QED
    BY <1>1, <1>2, <1>3, <2>2 DEF TrailGrows
<1>4. lines = {l \in trail' : l.seq <= k}
  BY <1>1, <1>3 DEF TrailGrows
<1> QED
  BY <1>1, <1>4 DEF Earlier, Chain

LEMMA ValuesKept ==
    ASSUME TrailGrows, NEW lines \in SUBSET trail
    PROVE  ValuesOf(lines)' = ValuesOf(lines)
  BY DEF ValuesOf, TrailGrows

\* As far as it was read, it is the trail up to a number.
LEMMA EarlierCount ==
    ASSUME CaseTrail, NEW lines, Earlier(lines)
    PROVE  /\ lines = {l \in trail : l.seq <= Cardinality(lines)}
           /\ Cardinality(lines) \in Nat /\ Cardinality(trail) \in Nat
           /\ Cardinality(lines) <= Cardinality(trail)
           /\ {l.seq : l \in trail} = 1 .. Cardinality(trail)
<1>1. PICK k \in Nat : Chain(lines, k) /\ lines = {l \in trail : l.seq <= k}
  BY DEF Earlier
<1>2. PICK n \in Nat \ {0} : Chain(trail, n)
  BY DEF CaseTrail
<1>3. Cardinality(lines) = k /\ Cardinality(trail) = n
  BY <1>1, <1>2, ChainCount
<1>4. k <= n
  <2> SUFFICES ASSUME k > 0 PROVE k <= n
    BY <1>1, <1>2
  <2>1. k \in 1 .. k
    OBVIOUS
  <2>2. PICK l \in lines : l.seq = k
    BY <1>1, <2>1 DEF Chain
  <2>3. l.seq \in 1 .. n
    BY <1>1, <1>2 DEF Chain
  <2> QED
    BY <2>2, <2>3
<1> QED
  BY <1>1, <1>2, <1>3, <1>4 DEF Chain

\* The trail is as it is now.
LEMMA NowIsEarlier ==
    ASSUME CaseTrail
    PROVE  Earlier(trail)
<1>1. PICK n \in Nat \ {0} : Chain(trail, n)
  BY DEF CaseTrail
<1>2. \A l \in trail : l.seq \in 1 .. n
  BY <1>1 DEF Chain
<1>3. trail = {l \in trail : l.seq <= n}
  BY <1>2
<1> QED
  BY <1>1, <1>3 DEF Earlier

LEMMA ValuesTyped ==
    ASSUME CaseSound, CaseTrail, NEW lines \in SUBSET trail
    PROVE  ValuesOf(lines) \subseteq [seq : Nat, rows : SUBSET Resolution]
<1>1. Proposal \subseteq Resolution
  <2>1. offer.values \in Case!Maps
    BY DEF CaseSound, Recommendation
  <2> QED
    BY <2>1, MapFact DEF Proposal, Resolution
<1>2. ASSUME NEW l \in lines
      PROVE  LineValues(l) \subseteq Resolution /\ l.seq \in Nat
  <2>1. l.seq \in Nat
    BY DEF CaseTrail, Chain, Line
  <2>2. resolution \subseteq Resolution
    BY DEF CaseSound
  <2> QED
    BY <1>1, <2>1, <2>2 DEF LineValues
<1> QED
  BY <1>2 DEF ValuesOf

-----------------------------------------------------------------------------
(* The screen around the panel. *)

LEMMA TrailStill ==
    ASSUME CaseTrail, UNCHANGED record
    PROVE  CaseTrail' /\ TrailGrows
<1>1. UNCHANGED <<offer, resolution, trail>>
  BY DEF record
<1>2. CaseTrail'
  BY <1>1 DEF CaseTrail, Chain
<1>3. \A l : LineValues(l)' = LineValues(l)
  BY <1>1 DEF LineValues, Proposal
<1> QED
  BY <1>1, <1>2, <1>3 DEF TrailGrows

\* A step of the panel is one of the case or leaves it alone, and what the screen shows of
\* the case comes from a fetch.
LEMMA PanelMoves ==
    ASSUME PanelInv, AskedWhileLoading, PanelNext
    PROVE  /\ UNCHANGED record \/ Case!Next
           /\ AskedWhileLoading'
           /\ screen' = screen \/ screen'.status # "loaded" \/ screen.status = "loading"
<1>1. ASSUME NEW id, Fetch(id)
      PROVE  screen'.status = "loading"
  BY <1>1 DEF Fetch, Loading
<1>2. CASE Specialist
  <2>1. CASE Reload
    BY <1>1, <2>1 DEF Reload, AskedWhileLoading
  <2>2. CASE PanelStep
    BY <2>2 DEF PanelStep, AskedWhileLoading
  <2> QED
    BY <1>2, <2>1, <2>2 DEF Specialist, ChooseApprove, ChooseEdit, ChooseReject, Choose,
       Continue, Cancel, Back, Record, Summarise
<1>3. CASE ServeCase
  <2>1. caseRead.at # "idle"
    BY <1>3 DEF ServeCase, CaseReadStep, CaseReadFails, LoadException, LoadRecommendation,
       LoadDecision, ComposeRecommendation, ComposeDecision, PanelInv, ReadsInv, ReadSound
  <2>2. UNCHANGED record /\ screen' = screen
    BY <1>3 DEF ServeCase, CaseReadStep, CaseReadFails, LoadException, LoadRecommendation,
       LoadDecision, ComposeRecommendation, ComposeDecision
  <2> QED
    BY <2>1, <2>2 DEF AskedWhileLoading
<1>4. CASE DeliverCase
  <2>1. screen.status = "loading" /\ UNCHANGED record
    BY <1>4 DEF DeliverCase, AskedWhileLoading
  <2>2. CASE Fetch("reference")
    BY <1>1, <2>1, <2>2 DEF AskedWhileLoading
  <2>3. CASE caseRead' = NoCaseRead
    BY <2>1, <2>3 DEF AskedWhileLoading, NoCaseRead
  <2> QED
    BY <1>4, <2>2, <2>3 DEF DeliverCase, Show
<1>5. ASSUME NEW p \in Posts, PrecheckPost(p)
      PROVE  UNCHANGED <<record, caseRead, screen>>
  BY <1>5 DEF PrecheckPost, PostStep
<1>6. ASSUME NEW p \in Posts, DecidePost(p)
      PROVE  UNCHANGED <<caseRead, screen>> /\ (UNCHANGED record \/ Case!Next)
  BY <1>6, DecideKeeps DEF DecidePost, PostStep, Asks
<1>7. ASSUME NEW p \in Posts, LosePost(p)
      PROVE  UNCHANGED <<record, caseRead, screen>>
  BY <1>7 DEF LosePost, PanelStep
<1>8. ASSUME NEW p \in Posts, DeliverPost(p)
      PROVE  UNCHANGED record /\ (UNCHANGED <<caseRead, screen>> \/ Fetch(screen.id))
  BY <1>8 DEF DeliverPost
<1>9. CASE Others
  BY <1>9 DEF Others, AskedWhileLoading
<1> QED
  BY <1>1, <1>2, <1>3, <1>4, <1>5, <1>6, <1>7, <1>8, <1>9 DEF PanelNext, AskedWhileLoading

\* The trail as it is now has the lines of what the screen shows.
LEMMA TrailShows ==
    ASSUME ScreenInv, screen.status = "loaded"
    PROVE  Shows(trail)
<1>1. DecisionFresh(screen.data) /\ ProposalFresh(screen.data)
  BY DEF ScreenInv, TruthInv, ScreenTruth
<1>2. DecisionRow # "none" => \E l \in trail : l.action = ActionOf(DecisionRow)
  BY DEF DecisionRow, ActionOf
<1>3. screen.data.rec.status = "AVAILABLE" => offer.status = "AVAILABLE"
  BY <1>1 DEF ProposalFresh
<1> QED
  BY <1>1, <1>2, <1>3 DEF Shows, DecisionFresh, ScreenInv, CaseTrail

LEMMA EmptyTrailRead ==
    /\ NoTrailRead \in ReadOfTrail /\ NoTrailRead.at = "idle" /\ NoTrailRead.code = "none"
    /\ AskTrail \in ReadOfTrail /\ AskTrail.at = "entries" /\ AskTrail.code = "none"
    /\ NoRegion \in Region /\ NoRegion.status = "loading"
<1>1. NoTrail \in Trail
  BY DEF NoTrail, Trail
<1>2. NoTrailRead \in ReadOfTrail /\ NoTrailRead.at = "idle" /\ NoTrailRead.code = "none"
  BY <1>1 DEF NoTrailRead, ReadOfTrail, Codes
<1>3. AskTrail \in ReadOfTrail /\ AskTrail.at = "entries" /\ AskTrail.code = "none"
  <2> DEFINE none == NoTrailRead
  <2>1. AskTrail = [none EXCEPT !.at = "entries"]
    BY DEF AskTrail
  <2>2. none \in ReadOfTrail /\ none.code = "none"
    BY <1>2
  <2> HIDE DEF none
  <2> QED
    BY <2>1, <2>2 DEF ReadOfTrail
<1>4. NoRegion \in Region /\ NoRegion.status = "loading"
  BY DEF NoRegion, Region
<1> QED
  BY <1>2, <1>3, <1>4

\* A read and a region that know nothing know nothing wrong.
LEMMA EmptySound ==
    ASSUME trailRead' \in {NoTrailRead, AskTrail}, region' = NoRegion
    PROVE  TrailReadSound' /\ RegionSound' /\ BesideTrail'
  BY EmptyTrailRead DEF TrailReadSound, RegionSound, BesideTrail

\* What has been read of the trail stays true while the case goes on.
LEMMA TrailReadKept ==
    ASSUME CaseTrail, CaseTrail', TrailGrows, TrailReadSound, UNCHANGED trailRead
    PROVE  TrailReadSound'
<1> DEFINE lines == trailRead.data.lines
<1>1. Earlier(lines) => Earlier(lines)' /\ ValuesOf(lines)' = ValuesOf(lines)
  BY EarlierKept, ValuesKept
<1>2. Cardinality(trail) <= Cardinality(trail')
  <2>1. PICK n \in Nat \ {0} : Chain(trail, n)
    BY DEF CaseTrail
  <2>2. PICK m \in Nat \ {0} : Chain(trail', m)
    BY DEF CaseTrail, Chain
  <2>3. PICK last \in trail : last.seq = n
    <3>1. n \in 1 .. n
      OBVIOUS
    <3> QED
      BY <2>1, <3>1 DEF Chain
  <2>4. last.seq \in 1 .. m
    BY <2>2, <2>3 DEF Chain, TrailGrows
  <2> QED
    BY <2>1, <2>2, <2>3, <2>4, ChainCount
<1>3. trailRead' = trailRead
  OBVIOUS
<1>4. trailRead.at \in {"values", "verify"} \/ trailRead.code = "OK" =>
         Earlier(lines) /\ Earlier(lines)'
  BY <1>1 DEF TrailReadSound
<1>5. trailRead.at = "verify" \/ trailRead.code = "OK" =>
         trailRead.data.values = ValuesOf(lines)'
  BY <1>1, <1>4 DEF TrailReadSound
<1>6. trailRead.code = "OK" =>
         /\ trailRead.data.verified /\ Cardinality(lines) <= trailRead.data.count
         /\ trailRead.data.count <= Cardinality(trail')
  <2> SUFFICES ASSUME trailRead.code = "OK"
               PROVE  /\ trailRead.data.verified
                      /\ Cardinality(lines) <= trailRead.data.count
                      /\ trailRead.data.count <= Cardinality(trail')
    OBVIOUS
  <2>1. Cardinality(trail) \in Nat /\ Cardinality(trail') \in Nat
    BY ChainCount DEF CaseTrail, Chain
  <2>2. trailRead.data.count \in Nat
    BY DEF TrailReadSound, ReadOfTrail, Trail
  <2> QED
    BY <1>2, <2>1, <2>2 DEF TrailReadSound
<1> QED
  BY <1>3, <1>4, <1>5, <1>6 DEF TrailReadSound

LEMMA RegionKept ==
    ASSUME CaseTrail', TrailGrows, RegionSound, UNCHANGED region
    PROVE  RegionSound'
<1> DEFINE lines == region.lines
<1>1. Earlier(lines) => Earlier(lines)' /\ ValuesOf(lines)' = ValuesOf(lines)
  BY EarlierKept, ValuesKept
<1> QED
  BY <1>1 DEF RegionSound

\* A step of the panel, with what it means for the section and the region.
LEMMA FollowKeeps == ASSUME ScreenInv, PanelNext, Follow PROVE ScreenInv'
<1>1. TruthInv' /\ PanelInv /\ PanelInv' /\ CaseSound
  BY StepTruth DEF ScreenInv, TruthInv, PanelInv, ReadsInv
<1>2. /\ UNCHANGED record \/ Case!Next
      /\ AskedWhileLoading'
      /\ screen' = screen \/ screen'.status # "loaded" \/ screen.status = "loading"
  BY <1>1, PanelMoves DEF ScreenInv
<1>3. CaseTrail' /\ TrailGrows /\ CaseTrail
  BY <1>1, <1>2, TrailStep, TrailStill DEF ScreenInv
<1>4. CASE screen'.status = "loading" /\ Unmount
  <2>1. TrailReadSound' /\ RegionSound' /\ BesideTrail'
    BY <1>4, EmptySound DEF Unmount
  <2>2. SectionSound'
    <3>1. Pending \in Recommendation
      BY NoMapFact DEF Pending, Recommendation
    <3>2. section' \in Section
      BY <1>4, <3>1, PollsAssumption DEF Unmount, NoSection, Section
    <3> QED
      BY <1>4, <3>2 DEF SectionSound
  <2> QED
    BY <1>1, <1>2, <1>3, <2>1, <2>2 DEF ScreenInv
<1>5. CASE Mount
  <2>1. TrailReadSound' /\ RegionSound' /\ BesideTrail'
    BY <1>5, EmptySound DEF Mount
  <2>2. SectionSound'
    <3>1. Pending \in Recommendation
      BY NoMapFact DEF Pending, Recommendation
    <3>2. screen'.data.rec \in Recommendation
      BY <1>1 DEF PanelInv, PanelTyped, Screen, Sections
    <3>3. PICK left \in 0 .. Polls :
             section' = IF screen'.data.rec.status = "PENDING"
                        THEN [NoSection EXCEPT !.timer = "set", !.left = left]
                        ELSE [NoSection EXCEPT !.rec = screen'.data.rec]
      BY <1>5 DEF Mount
    <3>4. 0 \in 0 .. Polls
      BY PollsAssumption
    <3>5. section' \in Section
      BY <3>1, <3>2, <3>3, <3>4 DEF NoSection, Section
    <3>6. screen'.data.rec.status # "PENDING" =>
             section'.timer = "off" /\ section'.rec = screen'.data.rec
      BY <3>3 DEF NoSection
    <3> QED
      BY <3>5, <3>6 DEF SectionSound
  <2> QED
    BY <1>1, <1>2, <1>3, <2>1, <2>2 DEF ScreenInv
<1>6. CASE /\ UNCHANGED <<trailRead, section, region>>
           /\ screen'.status # "loading"
           /\ ~ (screen.status = "loading" /\ screen'.status = "loaded")
  <2>1. TrailReadSound' /\ RegionSound'
    BY <1>3, <1>6, TrailReadKept, RegionKept DEF ScreenInv
  <2>2. BesideTrail' /\ SectionSound'
    <3>1. screen'.status = "loaded" => screen' = screen
      BY <1>2, <1>6
    <3> QED
      BY <1>6, <3>1 DEF ScreenInv, BesideTrail, Shows, SectionSound
  <2> QED
    BY <1>1, <1>2, <1>3, <1>6, <2>1, <2>2 DEF ScreenInv
<1> QED
  BY <1>4, <1>5, <1>6 DEF Follow

\* A step of the section, of the read of the trail or of the region.
Beside == UNCHANGED panelVars

LEMMA BesideStill ==
    ASSUME ScreenInv, Beside
    PROVE  /\ TruthInv' /\ AskedWhileLoading' /\ CaseTrail' /\ TrailGrows
           /\ UNCHANGED record /\ screen' = screen
<1>1. UNCHANGED record /\ UNCHANGED <<caseRead, screen>>
  BY DEF Beside, panelVars
<1>2. TruthInv'
  BY StepTruth DEF Beside, ScreenInv
<1>3. CaseTrail' /\ TrailGrows
  BY <1>1, TrailStill DEF ScreenInv
<1> QED
  BY <1>1, <1>2, <1>3 DEF ScreenInv, AskedWhileLoading

LEMMA TickKeeps == ASSUME ScreenInv, Tick PROVE ScreenInv'
<1>1. /\ TruthInv' /\ AskedWhileLoading' /\ CaseTrail' /\ TrailGrows
      /\ UNCHANGED record /\ screen' = screen
  BY BesideStill DEF Tick, Beside
<1>2. UNCHANGED <<trailRead, region>>
  BY DEF Tick
<1>3. TrailReadSound' /\ RegionSound' /\ BesideTrail'
  BY <1>1, <1>2, TrailReadKept, RegionKept DEF ScreenInv, BesideTrail, Shows
<1>4. section' \in Section
  <2>1. section \in Section /\ Polled \in Recommendation /\ Polls \in Nat
    BY PollsAssumption DEF ScreenInv, SectionSound, TruthInv, PanelInv, ReadsInv, CaseSound,
       Polled
  <2>2. CASE section' = [section EXCEPT !.stale = TRUE, !.timer = "off"]
    BY <2>1, <2>2 DEF Section
  <2>3. CASE section' = [section EXCEPT !.rec = Polled, !.timer = "off"]
    BY <2>1, <2>3 DEF Section
  <2>4. CASE \E left \in 0 .. section.left - 1 : section' = [section EXCEPT !.left = left]
    <3>1. PICK left \in 0 .. section.left - 1 : section' = [section EXCEPT !.left = left]
      BY <2>4
    <3>2. section.left \in 0 .. Polls
      BY <2>1 DEF Section
    <3>3. left \in 0 .. Polls
      BY <2>1, <3>2
    <3> QED
      BY <2>1, <3>1, <3>3 DEF Section
  <2> QED
    BY <2>2, <2>3, <2>4 DEF Tick
<1>5. SectionSound'
  BY <1>1, <1>4 DEF ScreenInv, SectionSound, Tick
<1> QED
  BY <1>1, <1>3, <1>5 DEF ScreenInv

\* A step of the read of the trail, or its delivery.
LEMMA TrailReadKeeps ==
    ASSUME ScreenInv, Beside, section' = section,
           TrailReadSound', RegionSound', BesideTrail'
    PROVE  ScreenInv'
  BY BesideStill DEF ScreenInv, SectionSound

LEMMA TrailNow ==
    ASSUME ScreenInv, Beside, NEW lines
    PROVE  /\ Earlier(lines)' <=> Earlier(lines)
           /\ ValuesOf(lines)' = ValuesOf(lines)
           /\ Shows(lines)' <=> Shows(lines)
           /\ trail' = trail
<1>1. UNCHANGED <<state, offer, resolution, trail, screen>>
  BY DEF Beside, panelVars, record
<1> QED
  BY <1>1 DEF Earlier, Chain, ValuesOf, LineValues, Proposal, Shows

\* The typed read of the trail, field by field.
LEMMA TrailReadFields ==
    ASSUME ScreenInv
    PROVE  /\ trailRead \in ReadOfTrail /\ trailRead.data \in Trail
           /\ trailRead.at \in {"idle", "entries", "values", "verify", "answer"}
           /\ trailRead.code \in Codes
           /\ CaseSound /\ CaseTrail /\ TrailReadSound
  BY DEF ScreenInv, TrailReadSound, ReadOfTrail, TruthInv, PanelInv, ReadsInv

LEMMA LoadEntriesKeeps ==
    ASSUME ScreenInv, LoadEntries, Beside, UNCHANGED <<section, region>>
    PROVE  ScreenInv'
<1>1. /\ trailRead.at = "entries" /\ trailRead.code = "none"
      /\ trailRead' = [trailRead EXCEPT !.at = "values", !.data.lines = trail]
  BY DEF LoadEntries, ScreenInv, TrailReadSound
<1>2. trail \subseteq Line /\ Earlier(trail)
  BY NowIsEarlier DEF ScreenInv, CaseTrail, Chain
<1>3. /\ trailRead' \in ReadOfTrail /\ trailRead'.at = "values" /\ trailRead'.code = "none"
      /\ trailRead'.data.lines = trail
  BY <1>1, <1>2, TrailReadFields DEF ReadOfTrail, Trail
<1>4. Earlier(trailRead.data.lines)'
  BY <1>2, <1>3, TrailNow
<1>5. TrailReadSound'
  BY <1>3, <1>4 DEF TrailReadSound
<1>6. RegionSound'
  BY BesideStill, RegionKept DEF ScreenInv
<1>7. BesideTrail'
  <2>1. screen' = screen /\ (screen.status = "loaded" => Shows(trail))
    BY TrailShows, BesideStill
  <2> QED
    BY <1>3, <2>1 DEF ScreenInv, BesideTrail, Shows
<1> QED
  BY <1>5, <1>6, <1>7, TrailReadKeeps

LEMMA LoadValuesKeeps ==
    ASSUME ScreenInv, LoadValues, Beside, UNCHANGED <<section, region>>
    PROVE  ScreenInv'
<1> DEFINE lines == trailRead.data.lines
           values == ValuesOf(lines)
<1>1. /\ trailRead.at = "values" /\ trailRead.code = "none" /\ Earlier(lines)
      /\ trailRead' = [trailRead EXCEPT !.at = "verify", !.data.values = values]
  BY DEF LoadValues, ScreenInv, TrailReadSound, ValuesOf
<1>2. lines \subseteq trail /\ values \subseteq [seq : Nat, rows : SUBSET Resolution]
  <2>1. lines \subseteq trail
    BY <1>1 DEF Earlier
  <2> QED
    BY <2>1, TrailReadFields, ValuesTyped
<1>3. /\ trailRead' \in ReadOfTrail /\ trailRead'.at = "verify" /\ trailRead'.code = "none"
      /\ trailRead'.data.lines = lines /\ trailRead'.data.values = values
  <2>1. trailRead \in ReadOfTrail
    BY TrailReadFields
  <2> HIDE DEF values
  <2> QED
    BY <1>1, <1>2, <2>1 DEF ReadOfTrail, Trail
<1>4. Earlier(trailRead.data.lines)' /\ trailRead'.data.values = ValuesOf(trailRead.data.lines)'
  BY <1>1, <1>3, TrailNow
<1>5. TrailReadSound'
  BY <1>3, <1>4 DEF TrailReadSound
<1>6. RegionSound'
  BY BesideStill, RegionKept DEF ScreenInv
<1>7. BesideTrail'
  <2>1. screen' = screen
    BY BesideStill
  <2> QED
    BY <1>1, <1>3, <2>1 DEF ScreenInv, BesideTrail, Shows
<1> QED
  BY <1>5, <1>6, <1>7, TrailReadKeeps

LEMMA VerifyKeeps ==
    ASSUME ScreenInv, Verify, Beside, UNCHANGED <<section, region>>
    PROVE  ScreenInv'
<1> DEFINE lines == trailRead.data.lines
           count == Cardinality(trail)
<1>1. /\ trailRead.at = "verify" /\ Earlier(lines) /\ trailRead.data.values = ValuesOf(lines)
      /\ trailRead' = [trailRead EXCEPT !.at = "answer", !.code = "OK", !.data.count = count,
                          !.data.verified = {l.seq : l \in trail} = 1 .. count]
  BY DEF Verify, ScreenInv, TrailReadSound
<1>2. /\ count \in Nat /\ Cardinality(lines) <= count
      /\ ({l.seq : l \in trail} = 1 .. count) = TRUE
  BY <1>1, TrailReadFields, EarlierCount
<1>3. /\ trailRead' \in ReadOfTrail /\ trailRead'.at = "answer" /\ trailRead'.code = "OK"
      /\ trailRead'.data.lines = lines /\ trailRead'.data.values = trailRead.data.values
      /\ trailRead'.data.count = count /\ trailRead'.data.verified
  <2>1. trailRead \in ReadOfTrail
    BY TrailReadFields
  <2>2. trailRead' = [trailRead EXCEPT !.at = "answer", !.code = "OK", !.data.count = count,
                          !.data.verified = TRUE]
    BY <1>1, <1>2
  <2> HIDE DEF count
  <2> QED
    BY <1>2, <2>1, <2>2 DEF ReadOfTrail, Trail, Codes
<1>4. Earlier(trailRead.data.lines)' /\ trailRead'.data.values = ValuesOf(trailRead.data.lines)'
  BY <1>1, <1>3, TrailNow
<1>5. trailRead'.data.count <= Cardinality(trail') /\ Cardinality(trailRead'.data.lines) <= count
  BY <1>2, <1>3, TrailNow
<1>6. TrailReadSound'
  BY <1>3, <1>4, <1>5 DEF TrailReadSound
<1>7. RegionSound'
  BY BesideStill, RegionKept DEF ScreenInv
<1>8. BesideTrail'
  <2>1. screen' = screen
    BY BesideStill
  <2> QED
    BY <1>1, <1>3, <2>1 DEF ScreenInv, BesideTrail, Shows
<1> QED
  BY <1>6, <1>7, <1>8, TrailReadKeeps

LEMMA TrailReadFailsKeeps ==
    ASSUME ScreenInv, TrailReadFails, Beside, UNCHANGED <<section, region>>
    PROVE  ScreenInv'
<1> DEFINE none == NoTrailRead
<1>1. trailRead' = [none EXCEPT !.at = "answer", !.code = "RECEIPT_FAILED"]
  BY DEF TrailReadFails
<1>2. none \in ReadOfTrail
  BY EmptyTrailRead
<1>3. /\ trailRead' \in ReadOfTrail /\ trailRead'.at = "answer"
      /\ trailRead'.code = "RECEIPT_FAILED"
  <2> HIDE DEF none
  <2> QED
    BY <1>1, <1>2 DEF ReadOfTrail, Codes
<1>4. TrailReadSound'
  BY <1>3 DEF TrailReadSound
<1>5. RegionSound'
  BY BesideStill, RegionKept DEF ScreenInv
<1>6. BesideTrail'
  <2>1. screen' = screen
    BY BesideStill
  <2> QED
    BY <1>3, <2>1 DEF ScreenInv, BesideTrail, Shows
<1> QED
  BY <1>4, <1>5, <1>6, TrailReadKeeps

LEMMA DeliverTrailKeeps ==
    ASSUME ScreenInv, DeliverTrail
    PROVE  ScreenInv'
<1> DEFINE lines == trailRead.data.lines
<1>1. Beside /\ section' = section /\ trailRead' = NoTrailRead
  BY DEF DeliverTrail, Beside
<1>2. TrailReadSound'
  BY <1>1, EmptyTrailRead DEF TrailReadSound
<1>3. screen' = screen
  BY <1>1, BesideStill
<1>4. CASE /\ trailRead.code = "OK"
           /\ region' = [status |-> "loaded", lines |-> lines,
                         values |-> trailRead.data.values]
  <2>1. Earlier(lines) /\ trailRead.data.values = ValuesOf(lines)
    BY <1>4 DEF ScreenInv, TrailReadSound
  <2>2. region' \in Region
    BY <1>4, TrailReadFields DEF Trail, Region
  <2>3. RegionSound'
    <3>1. /\ region'.lines = lines /\ region'.values = ValuesOf(lines)
      BY <1>4, <2>1
    <3>2. Earlier(region.lines)' /\ ValuesOf(region.lines)' = ValuesOf(lines)
      BY <1>1, <2>1, <3>1, TrailNow
    <3> QED
      BY <2>2, <3>1, <3>2 DEF RegionSound
  <2>4. BesideTrail'
    <3>1. screen.status = "loaded" => Shows(lines)
      BY <1>4 DEF ScreenInv, BesideTrail
    <3> QED
      BY <1>1, <1>3, <1>4, <3>1, EmptyTrailRead DEF BesideTrail, Shows
  <2> QED
    BY <1>1, <1>2, <2>3, <2>4, TrailReadKeeps
<1>5. CASE region' = [NoRegion EXCEPT !.status = "error"]
  <2> DEFINE none == NoRegion
  <2>1. region' \in Region /\ region'.status = "error"
    <3>1. none \in Region /\ region' = [none EXCEPT !.status = "error"]
      BY <1>5, EmptyTrailRead
    <3> HIDE DEF none
    <3> QED
      BY <3>1 DEF Region
  <2>2. RegionSound' /\ BesideTrail'
    BY <1>1, <2>1, EmptyTrailRead DEF RegionSound, BesideTrail
  <2> QED
    BY <1>1, <1>2, <2>2, TrailReadKeeps
<1> QED
  BY <1>4, <1>5 DEF DeliverTrail

LEMMA ScreenInit == Init => ScreenInv
<1> SUFFICES ASSUME Init PROVE ScreenInv
  OBVIOUS
<1>1. TruthInv /\ AskedWhileLoading
  BY InitTruth DEF Init, PanelInit, Loading, AskedWhileLoading
<1>2. trail = {[seq |-> 1, action |-> "ENTRY_RECEIVED"],
               [seq |-> 2, action |-> "VALIDATION_COMPLETED"],
               [seq |-> 3, action |-> "EXCEPTION_OPENED"]} /\ offer.status = "PENDING"
  BY DEF Init, PanelInit, InitReads, Case!Init
<1>3. CaseTrail
  <2>1. trail \subseteq Line
    BY <1>2 DEF Line, Actions
  <2>2. {l.seq : l \in trail} = {1, 2, 3}
    BY <1>2
  <2>3. {1, 2, 3} = 1 .. 3
    OBVIOUS
  <2>4. \A l, m \in trail : l.seq = m.seq => l = m
    BY <1>2
  <2>5. Chain(trail, 3)
    BY <2>1, <2>2, <2>3, <2>4 DEF Chain
  <2> QED
    BY <1>2, <2>5 DEF CaseTrail
<1>4. TrailReadSound /\ RegionSound /\ BesideTrail
  BY EmptyTrailRead DEF Init, TrailReadSound, RegionSound, BesideTrail
<1>5. SectionSound
  <2>1. Pending \in Recommendation
    BY NoMapFact DEF Pending, Recommendation
  <2>2. section \in Section
    BY <2>1, PollsAssumption DEF Init, NoSection, Section
  <2> QED
    BY <2>2 DEF Init, PanelInit, Loading, SectionSound
<1> QED
  BY <1>1, <1>3, <1>4, <1>5 DEF ScreenInv

LEMMA ScreenNext == ScreenInv /\ [Next]_vars => ScreenInv'
<1> SUFFICES ASSUME ScreenInv, [Next]_vars PROVE ScreenInv'
  OBVIOUS
<1>1. CASE PanelNext /\ Follow
  BY <1>1, FollowKeeps
<1>2. CASE ServeTrail
  <2>1. Beside /\ UNCHANGED <<section, region>>
    BY <1>2 DEF ServeTrail, Beside
  <2> QED
    BY <1>2, <2>1, LoadEntriesKeeps, LoadValuesKeeps, VerifyKeeps, TrailReadFailsKeeps
       DEF ServeTrail, TrailReadStep
<1>3. CASE DeliverTrail
  BY <1>3, DeliverTrailKeeps
<1>4. CASE Tick
  BY <1>4, TickKeeps
<1>5. CASE UNCHANGED vars
  <2>1. Beside /\ UNCHANGED <<trailRead, section, region>>
    BY <1>5 DEF vars, Beside
  <2>2. TrailReadSound' /\ RegionSound'
    BY <2>1, BesideStill, TrailReadKept, RegionKept DEF ScreenInv
  <2>3. BesideTrail'
    BY <2>1, BesideStill DEF ScreenInv, BesideTrail, Shows
  <2> QED
    BY <2>1, <2>2, <2>3, TrailReadKeeps
<1> QED
  BY <1>1, <1>2, <1>3, <1>4, <1>5 DEF Next

LEMMA AlwaysScreenInv == Spec => []ScreenInv
  BY ScreenInit, ScreenNext, PTL DEF Spec

\* Every variable of the screen, its panel and its reads keeps its type.
THEOREM ScreenTypes == Spec => []TypeOK
<1>1. ScreenInv => TypeOK
  <2> SUFFICES ASSUME ScreenInv PROVE TypeOK
    OBVIOUS
  <2>1. PanelTypeOK
    BY DEF ScreenInv, TruthInv, Request, PanelInv, PanelTyped, ReadsInv, CaseSound, ReadSound,
       PanelTypeOK, ReadsTypeOK
  <2>2. trail \subseteq Line /\ trailRead \in ReadOfTrail
    BY DEF ScreenInv, CaseTrail, Chain, TrailReadSound
  <2> QED
    BY <2>1, <2>2 DEF ScreenInv, SectionSound, RegionSound, TypeOK
<1> QED
  BY <1>1, AlwaysScreenInv, PTL

\* Whatever is appended between the three statements of its read, a trail is served as it
\* was when its lines were read, with the values of these lines and with a verdict that is
\* true of no less than what is shown.
THEOREM TrailAlwaysServedWhole == Spec => []TrailServedWhole
<1>1. ScreenInv => TrailServedWhole
  <2> SUFFICES ASSUME ScreenInv, trailRead.code = "OK" PROVE TrailServedWhole
    BY DEF TrailServedWhole
  <2>1. /\ Earlier(trailRead.data.lines) /\ CaseTrail
        /\ trailRead.data.values = ValuesOf(trailRead.data.lines)
        /\ trailRead.data.verified
        /\ Cardinality(trailRead.data.lines) <= trailRead.data.count
        /\ trailRead.data.count <= Cardinality(trail)
    BY DEF ScreenInv, TrailReadSound
  <2>2. trailRead.data.lines = {l \in trail : l.seq <= Cardinality(trailRead.data.lines)}
    BY <2>1, EarlierCount
  <2> QED
    BY <2>1, <2>2 DEF TrailServedWhole, ValuesOf
<1> QED
  BY <1>1, AlwaysScreenInv, PTL

\* The trail beside a case has the line of the decision that the case is shown with and the
\* values of that decision, although they are read apart; and the line of the proposal,
\* unless this was polled after the fetch of the case.
THEOREM TrailAlwaysShowsTheCase == Spec => []TrailShowsTheCase
<1>1. ScreenInv => TrailShowsTheCase
  <2> SUFFICES ASSUME ScreenInv, screen.status = "loaded", region.status = "loaded"
               PROVE  TrailShowsTheCase
    BY DEF TrailShowsTheCase
  <2> DEFINE decision == screen.data.decision
  <2>1. /\ Shows(region.lines) /\ region.values = ValuesOf(region.lines)
        /\ Earlier(region.lines)
    BY DEF ScreenInv, BesideTrail, RegionSound
  <2>2. DecisionFresh(screen.data) /\ ResolutionFresh(screen.data)
    BY DEF ScreenInv, TruthInv, ScreenTruth
  <2>3. ASSUME decision.type # "none"
        PROVE  \E v \in region.values :
                  /\ decision.type # "REJECT" => v.rows = decision.values
                  /\ \E l \in region.lines : l.seq = v.seq /\ l.action \in
                        {"RECOMMENDATION_APPROVED", "RECOMMENDATION_EDITED_AND_APPROVED",
                         "RECOMMENDATION_REJECTED"}
    <3>1. PICK l \in region.lines : l.action = ActionOf(decision.type)
      BY <2>1, <2>3 DEF Shows
    <3>2. decision.type \in DecisionTypes
      BY <2>2, <2>3, DecisionRowFact DEF DecisionFresh
    <3>3. l.action \in {"RECOMMENDATION_APPROVED", "RECOMMENDATION_EDITED_AND_APPROVED",
                        "RECOMMENDATION_REJECTED"}
      BY <3>1, <3>2 DEF ActionOf, DecisionTypes
    <3>4. decision.type # "REJECT" => LineValues(l) = decision.values
      <4> SUFFICES ASSUME decision.type # "REJECT" PROVE LineValues(l) = resolution
        BY <2>2, <2>3 DEF ResolutionFresh
      <4>1. l.action \in {"RECOMMENDATION_APPROVED", "RECOMMENDATION_EDITED_AND_APPROVED"}
        BY <3>1, <3>2 DEF ActionOf, DecisionTypes
      <4> QED
        BY <4>1 DEF LineValues
    <3> DEFINE v == [seq |-> l.seq, rows |-> LineValues(l)]
    <3>5. v \in region.values /\ v.seq = l.seq /\ v.rows = LineValues(l)
      BY <2>1 DEF ValuesOf
    <3> HIDE DEF v
    <3> QED
      BY <3>3, <3>4, <3>5
  <2>4. /\ section.rec.status = "AVAILABLE"
        /\ {l \in region.lines : l.action = "RECOMMENDATION_GENERATED"} = {}
        => screen.data.rec.status = "PENDING"
    BY <2>1 DEF Shows, ScreenInv, SectionSound
  <2> QED
    BY <2>3, <2>4 DEF TrailShowsTheCase
<1> QED
  BY <1>1, AlwaysScreenInv, PTL
=============================================================================
