----------------------------- MODULE TrailRead -----------------------------
(***************************************************************************)
(* The read of a case's audit trail (auditRead.service.ts) with the        *)
(* verification of its chain (0010_verify_chain_fn.sql): three statements  *)
(* outside a transaction, beside decisions and jobs that append.           *)
(***************************************************************************)
EXTENDS CaseReads

VARIABLE trailRead  \* GET /api/exceptions/:id/audit

Proposal == {[field |-> f, value |-> offer.values[f], origin |-> "AI"] :
               f \in DOMAIN offer.values}

\* The audit_entry_values of a line: the values it proposes or adopts, or those it declines,
\* if a proposal was there to be declined.
LineValues(l) ==
    LET proposed == \E k \in trail : k.action = "RECOMMENDATION_GENERATED" /\ k.seq < l.seq
    IN CASE l.action = "RECOMMENDATION_GENERATED" -> Proposal
         [] l.action \in {"RECOMMENDATION_APPROVED", "RECOMMENDATION_EDITED_AND_APPROVED"} ->
              resolution
         [] l.action = "RECOMMENDATION_REJECTED" /\ proposed -> Proposal
         [] OTHER -> {}

Actions == {"ENTRY_RECEIVED", "VALIDATION_COMPLETED", "EXCEPTION_OPENED",
            "RECOMMENDATION_GENERATED", "RECOMMENDATION_UNAVAILABLE",
            "RECOMMENDATION_APPROVED", "RECOMMENDATION_EDITED_AND_APPROVED",
            "RECOMMENDATION_REJECTED"}
Line == [seq : Nat, action : Actions]

\* count and verified: what verify_audit_chain returns.
Trail == [lines : SUBSET Line, values : SUBSET [seq : Nat, rows : SUBSET Resolution],
          count : Nat, verified : BOOLEAN]
NoTrail == [lines |-> {}, values |-> {}, count |-> 0, verified |-> FALSE]

ReadOfTrail == [at : {"idle", "entries", "values", "verify", "answer"}, data : Trail,
                code : Codes]
NoTrailRead == [at |-> "idle", data |-> NoTrail, code |-> "none"]

AskTrail == [NoTrailRead EXCEPT !.at = "entries"]

-----------------------------------------------------------------------------
(* GET /api/exceptions/:id/audit: readCaseTrail. *)

LoadEntries ==
    /\ trailRead.at = "entries"
    /\ trailRead' = [trailRead EXCEPT !.at = "values", !.data.lines = trail]
    /\ UNCHANGED record

\* The value rows of the entries that have been read.
LoadValues ==
    /\ trailRead.at = "values"
    /\ trailRead' = [trailRead EXCEPT !.at = "verify",
                        !.data.values = {[seq |-> l.seq, rows |-> LineValues(l)] :
                                           l \in trailRead.data.lines}]
    /\ UNCHANGED record

\* Mutant: the chain is sound only if it is as long as what has been listed.
VerifyAgainstListed ==
    /\ trailRead.at = "verify"
    /\ LET count == Cardinality(trail)
       IN trailRead' = [trailRead EXCEPT !.at = "answer", !.code = "OK", !.data.count = count,
                          !.data.verified = count = Cardinality(trailRead.data.lines)]
    /\ UNCHANGED record

\* verify_audit_chain walks the chain as it is now.
Verify ==
    /\ trailRead.at = "verify"
    /\ LET count == Cardinality(trail)
       IN trailRead' = [trailRead EXCEPT !.at = "answer", !.code = "OK", !.data.count = count,
                          !.data.verified = {l.seq : l \in trail} = 1 .. count]
    /\ UNCHANGED record

TrailReadFails ==
    /\ Faults # {}
    /\ trailRead.at \notin {"idle", "answer"}
    /\ trailRead' = [NoTrailRead EXCEPT !.at = "answer", !.code = "RECEIPT_FAILED"]
    /\ UNCHANGED record

TrailReadStep == LoadEntries \/ LoadValues \/ Verify

-----------------------------------------------------------------------------
\* A trail is served as far as it had come, whole lines in sequence, and what is said of
\* its integrity is true and is not of less than what is shown, although entries, values
\* and verdict are read apart and the trail grows between them (auditRead.service.ts).
TrailServedWhole ==
    trailRead.code = "OK" =>
        LET data == trailRead.data
        IN /\ data.verified
           /\ data.lines = {l \in trail : l.seq <= Cardinality(data.lines)}
           /\ data.values = {[seq |-> l.seq, rows |-> LineValues(l)] : l \in data.lines}
           /\ Cardinality(data.lines) <= data.count /\ data.count <= Cardinality(trail)
=============================================================================
