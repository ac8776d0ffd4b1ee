--------------------------- MODULE CaseLifecycle ---------------------------
(***************************************************************************)
(* What a case promises to the people who read it: it is open until one    *)
(* human decision closes it, the AI may make one offer and only a human    *)
(* adopts it, and every one of these changes is one step with one line in  *)
(* the case's trail.  CaseRecord shows that requests, jobs, transactions   *)
(* and crashes amount to no more than this.                                *)
(***************************************************************************)
EXTENDS Naturals

CONSTANTS Fields, Values

VARIABLES
    state,       \* OPEN, RESOLVED or REJECTED
    offer,       \* the recommendation: its status and its proposed values
    resolution,  \* the values the decision adopted, each with its origin
    trail        \* the audit trail: numbered lines

vars == <<state, offer, resolution, trail>>

\* Value maps, as in the tables: functions on a set of fields.
Maps == UNION {[S -> Values] : S \in SUBSET Fields}
NoMap == [f \in {} |-> f]

Init ==
    /\ state = "OPEN"
    /\ offer = [status |-> "PENDING", values |-> NoMap]
    /\ resolution = {}
    /\ trail = {[seq |-> 1, action |-> "ENTRY_RECEIVED"],
                [seq |-> 2, action |-> "VALIDATION_COMPLETED"],
                [seq |-> 3, action |-> "EXCEPTION_OPENED"]}

LastLine == CHOOSE l \in trail : \A m \in trail : m.seq <= l.seq

Record(action) == trail' = trail \cup {[seq |-> LastLine.seq + 1, action |-> action]}

-----------------------------------------------------------------------------
\* The AI offers values, once.
Propose ==
    /\ offer.status = "PENDING"
    /\ \E values \in Maps : offer' = [status |-> "AVAILABLE", values |-> values]
    /\ Record("RECOMMENDATION_GENERATED")
    /\ UNCHANGED <<state, resolution>>

\* The AI has nothing to offer, for good.
GiveUp ==
    /\ offer.status = "PENDING"
    /\ offer' = [status |-> "UNAVAILABLE", values |-> NoMap]
    /\ Record("RECOMMENDATION_UNAVAILABLE")
    /\ UNCHANGED <<state, resolution>>

Close(outcome, values, action) ==
    /\ state = "OPEN"
    /\ state' = outcome
    /\ resolution' = values
    /\ Record(action)
    /\ UNCHANGED offer

\* A human adopts the offer as it stands.
Approve ==
    /\ offer.status = "AVAILABLE"
    /\ Close("RESOLVED",
             {[field |-> f, value |-> offer.values[f], origin |-> "AI"] :
                f \in DOMAIN offer.values},
             "RECOMMENDATION_APPROVED")

\* A value is the AI's when the offer has it, and a human's otherwise.
Author(values, f) ==
    IF offer.status = "AVAILABLE" /\ values[f] = offer.values[f] THEN "AI" ELSE "HUMAN"

\* A human decides the values: all those of the offer, or, with no offer, any.
EditAndApprove ==
    \E values \in Maps \ {NoMap} :
        /\ offer.status = "AVAILABLE" => DOMAIN values = DOMAIN offer.values
        /\ Close("RESOLVED",
                 {[field |-> f, value |-> values[f], origin |-> Author(values, f)] :
                    f \in DOMAIN values},
                 "RECOMMENDATION_EDITED_AND_APPROVED")

Reject == Close("REJECTED", {}, "RECOMMENDATION_REJECTED")

Next == Propose \/ GiveUp \/ Approve \/ EditAndApprove \/ Reject

Spec == Init /\ [][Next]_vars
=============================================================================
