----------------------------- MODULE CaseLedger -----------------------------
(***************************************************************************)
(* What receiving entries promises: each entry becomes one complete case,  *)
(* in one step, for good, under a reference and an entry number that no    *)
(* other case has.                                                         *)
(***************************************************************************)
EXTENDS Naturals

CONSTANTS
    References,   \* case references
    Numbers       \* entry numbers

VARIABLE ledger   \* the cases: [ref, number, opened, trail]

\* A case whose entry failed validation is opened as an exception, and the trail
\* of every case says what happened to it.
Trail(opened) == IF opened
                 THEN <<"ENTRY_RECEIVED", "VALIDATION_COMPLETED", "EXCEPTION_OPENED">>
                 ELSE <<"ENTRY_RECEIVED", "VALIDATION_COMPLETED">>

Init == ledger = {}

\* An entry without a number can always be received.
Receive ==
    \E ref \in References, number \in Numbers \cup {"absent"}, opened \in BOOLEAN :
        /\ \A c \in ledger : c.ref # ref
        /\ number # "absent" => \A c \in ledger : c.number # number
        /\ ledger' = ledger \cup {[ref |-> ref, number |-> number, opened |-> opened,
                                   trail |-> Trail(opened)]}

Spec == Init /\ [][Receive]_ledger
=============================================================================
