----------------------------- MODULE MCReceipt -----------------------------
(* Small instances of Receipt for TLC. *)
EXTENDS Receipt, TLC

MCNumbers == {"n1", "n2", "bad"}
MCBadNumbers == {"bad"}

\* Entries that pass, by air and by surface, and the blank form.
Surface == [number |-> "n1", importer |-> "good", port |-> "good", mode |-> "SURFACE",
            carrier |-> "scac", conveyance |-> "good", bill |-> "good",
            waybill |-> "absent", country |-> "good", goods |-> "good",
            quantity |-> "good", uom |-> "good", value |-> "good", arrival |-> "good"]
Air == [Surface EXCEPT !.mode = "AIR", !.carrier = "iata", !.bill = "absent",
                       !.waybill = "good"]
BlankForm == [f \in EntryFields |-> "absent"]

\* An entry that fails with the number of the one that passes, and one without a
\* number.
RaceEntries == {Surface, [Surface EXCEPT !.port = "unknown"], [Surface EXCEPT !.number = "absent"]}

\* Every entry that differs from one of the three in at most two fields, and every
\* combination of the fields that depend on each other.
TwoOff(e) == UNION {{[e EXCEPT ![f] = v, ![g] = w] : v \in Contents[f], w \in Contents[g]} :
                      f, g \in EntryFields}
Transport == {[Surface EXCEPT !.mode = m, !.carrier = c, !.bill = b, !.waybill = w] :
                m \in Contents.mode, c \in Contents.carrier, b \in Contents.bill,
                w \in Contents.waybill}
AllEntries == TwoOff(Surface) \cup TwoOff(Air) \cup TwoOff(BlankForm) \cup Transport

\* Ordinary entries whose findings name one field twice.
RepeatedEntries == {Surface, [Surface EXCEPT !.goods = "terse"],
                    [Surface EXCEPT !.waybill = "malformed"]}

Symmetry == Permutations(Requests)
=============================================================================
