------------------------ MODULE RequiredInformation ------------------------
(***************************************************************************)
(* The required-information rules RIV-2026.09 and the engine that applies  *)
(* them to an entry (services/validation/rules.ts and engine.ts).          *)
(*                                                                         *)
(* An entry gives each field a class of contents, the coarsest the rules   *)
(* tell apart: "absent" (null after the trim), "malformed" (the format     *)
(* rule refuses it), "unknown" (well formed and not in the code list), or  *)
(* a class of acceptable contents.                                         *)
(***************************************************************************)
EXTENDS Naturals, Sequences

CONSTANTS
    Numbers,     \* entry numbers that clients type
    BadNumbers   \* those of them that RIV-011 refuses

ASSUME NumbersAssumption ==
    /\ BadNumbers \subseteq Numbers
    /\ "absent" \notin Numbers
    /\ Numbers \ BadNumbers # {}

\* The contents each field can have when it reaches the engine.  Quantities and
\* values that are not decimals were refused by the route with a 422.
\*   mode     SURFACE stands for OCEAN, TRUCK and RAIL.
\*   carrier  "iata" has a digit and fits an airline only, "scac" has four letters
\*            and fits the others only, "short" has two or three letters.
\*   goods    "brief" is too short, "generic" too general, "terse" both.
\*   arrival  "outside" is outside the window; "year_zero" is outside too, and a
\*            date that isCalendarDate accepts and PostgreSQL does not have.
Contents == [
    number     |-> {"absent"} \cup Numbers,
    importer   |-> {"absent", "malformed", "good"},
    port       |-> {"absent", "malformed", "unknown", "good"},
    mode       |-> {"absent", "unknown", "AIR", "SURFACE"},
    carrier    |-> {"absent", "malformed", "iata", "scac", "short"},
    conveyance |-> {"absent", "good"},
    bill       |-> {"absent", "malformed", "good"},
    waybill    |-> {"absent", "malformed", "good"},
    country    |-> {"absent", "malformed", "unknown", "good"},
    goods      |-> {"absent", "brief", "generic", "terse", "good"},
    quantity   |-> {"absent", "not_positive", "good"},
    uom        |-> {"absent", "unknown", "good"},
    value      |-> {"absent", "not_positive", "good"},
    arrival    |-> {"absent", "malformed", "year_zero", "outside", "good"}]

EntryFields == DOMAIN Contents

IsEntry(e) == DOMAIN e = EntryFields /\ \A f \in EntryFields : e[f] \in Contents[f]

-----------------------------------------------------------------------------
(* The registry: each rule's number, its field, and the rules it requires.  *)

Rule(id, field, requires) == [id |-> id, field |-> field, requires |-> requires]

\* "transport" is the pair of documents of RIV-070.
Rules == <<
    Rule(10, "number", {}),     Rule(11, "number", {10}),
    Rule(20, "importer", {}),   Rule(21, "importer", {20}),
    Rule(30, "port", {}),       Rule(31, "port", {30}),     Rule(32, "port", {30, 31}),
    Rule(40, "mode", {}),       Rule(41, "mode", {40}),
    Rule(50, "carrier", {}),    Rule(51, "carrier", {50}),
    Rule(60, "conveyance", {}),
    Rule(70, "transport", {}),  Rule(71, "waybill", {}),
    Rule(72, "bill", {}),       Rule(73, "waybill", {}),
    Rule(80, "country", {}),    Rule(81, "country", {80}),  Rule(82, "country", {80, 81}),
    Rule(90, "goods", {}),      Rule(91, "goods", {90}),    Rule(92, "goods", {90}),
    Rule(100, "quantity", {}),  Rule(101, "quantity", {100}),
    Rule(110, "uom", {}),       Rule(111, "uom", {110}),
    Rule(120, "value", {}),     Rule(121, "value", {120}),
    Rule(130, "arrival", {}),   Rule(131, "arrival", {130}),
    Rule(132, "arrival", {130, 131})>>

\* Mutant: RIV-070 always names the bill of lading.
PrimaryFieldBill(r, e) == IF r.field = "transport" THEN "bill" ELSE r.field

\* A finding names one field.
PrimaryField(r, e) ==
    IF r.field # "transport" THEN r.field
    ELSE IF e.mode = "AIR" THEN "waybill" ELSE "bill"

Present(e, f) == e[f] # "absent"

Applicable(r, e) ==
    CASE r.id = 71 -> Present(e, "waybill")
      [] r.id = 72 -> Present(e, "bill")
      [] r.id = 73 -> Present(e, "bill") /\ Present(e, "waybill")
      [] OTHER -> TRUE

\* The contents that satisfy the format rule of a field, and its domain rule.
WellFormed(e, f) == e[f] \notin {"absent", "malformed"}
Known(e, f)      == WellFormed(e, f) /\ e[f] # "unknown"

Satisfied(r, e) ==
    CASE r.id = 11 -> e.number \in Numbers \ BadNumbers
      [] r.id = 51 -> e.carrier \in IF e.mode = "AIR" THEN {"iata", "short"}
                                                      ELSE {"scac", "short"}
      [] r.id = 70 -> CASE e.mode = "AIR"     -> Present(e, "waybill")
                        [] e.mode = "SURFACE" -> Present(e, "bill")
                        [] OTHER -> Present(e, "waybill") \/ Present(e, "bill")
      [] r.id = 73 -> ~(Present(e, "bill") /\ Present(e, "waybill"))
      [] r.id = 91 -> e.goods \notin {"absent", "brief", "terse"}
      [] r.id = 92 -> e.goods \notin {"generic", "terse"}
      [] r.id \in {101, 121} -> e[r.field] = "good"
      [] r.id = 132 -> e.arrival = "good"
      [] r.id \in {21, 31, 71, 72, 81, 131} -> WellFormed(e, r.field)
      [] r.id \in {32, 41, 82, 111} -> Known(e, r.field)
      [] OTHER -> Present(e, r.field)

-----------------------------------------------------------------------------
(* The engine. *)

\* Mutant: a rule is gated when everything it requires has failed.
GatedByAll(r, failed) == r.requires # {} /\ r.requires \subseteq failed

\* A rule is skipped when a rule it requires has produced a finding.
Gated(r, failed) == r.requires \cap failed # {}

\* The findings, in the order of the registry.
Evaluate(e) ==
    LET Fails(r, failed) == ~Gated(r, failed) /\ Applicable(r, e) /\ ~Satisfied(r, e)
        Finding(r) == [rule |-> r.id, field |-> PrimaryField(r, e)]
        found[i \in 0..Len(Rules)] ==
            IF i = 0 THEN <<>>
            ELSE LET before == found[i - 1]
                     failed == {before[k].rule : k \in DOMAIN before}
                 IN IF Fails(Rules[i], failed) THEN Append(before, Finding(Rules[i]))
                    ELSE before
    IN found[Len(Rules)]

RulesIn(findings)  == {findings[k].rule : k \in DOMAIN findings}
FieldsIn(findings) == {findings[k].field : k \in DOMAIN findings}

-----------------------------------------------------------------------------
(* What the findings of an entry must amount to. *)

\* RIV-nn0 is the presence rule of every field but the two documents.
PresenceRule(f) ==
    LET r == CHOOSE i \in DOMAIN Rules : Rules[i].field = f /\ Rules[i].requires = {}
    IN Rules[r].id

\* An absent field is reproached once, for being absent, and a present one is not
\* reproached for that (FR-4.5): the gates of a domain rule cover the rules before
\* its format rule, although the engine follows declared gates only.
AbsenceReportedOnce(e, findings) ==
    \A f \in EntryFields \ {"bill", "waybill"} :
        LET about == {k \in DOMAIN findings : findings[k].field = f}
        IN IF Present(e, f) THEN PresenceRule(f) \notin RulesIn(findings)
           ELSE \E k \in about : about = {k} /\ findings[k].rule = PresenceRule(f)

\* What a specialist types when told to correct a field.
Correction(f) ==
    CASE f = "number"  -> CHOOSE n \in Numbers : n \notin BadNumbers
      [] f = "carrier" -> "short"
      [] OTHER -> "good"

\* The entry with some fields corrected, by a specialist who means this mode.
Correct(e, S, mode) ==
    [f \in EntryFields |-> IF f = "mode" THEN mode
                           ELSE IF f \in S THEN Correction(f) ELSE e[f]]

Recognised == {"AIR", "SURFACE"}
Document(mode)      == IF mode = "AIR" THEN "waybill" ELSE "bill"
OtherDocument(mode) == IF mode = "AIR" THEN "bill" ELSE "waybill"

\* The mode is recognised, and the document of the other mode is absent.
Plain(e) ==
    \/ e.mode = "AIR" /\ e.bill = "absent"
    \/ e.mode = "SURFACE" /\ e.waybill = "absent"

\* Correcting the fields that the findings name is enough to pass, and each of
\* them is needed: the specialist sees every problem in one pass and no problem
\* that is not one (FR-4.3, engine.ts).  It is said of entries with a recognised mode and
\* only its own document: a new mode changes what the other fields need.
OneCorrectionSuffices(e, findings) ==
    Plain(e) => \A S \in {FieldsIn(findings)} \cup {FieldsIn(findings) \ {f} : f \in FieldsIn(findings)} :
                    Evaluate(Correct(e, S, e.mode)) = <<>> <=> S = FieldsIn(findings)

\* For any entry: when the specialist who corrects the fields that the findings name also
\* settles the mode, if it was not recognised, and leaves out the document of the other
\* mode, as RIV-073 asks of one that is given beside the right one, then nothing is left.
\* Only a mode that was not recognised can bring up more, and only about what depends on
\* it, the carrier and the document; correcting these ends it.
NoThirdCorrection(e, findings) ==
    \A mode \in IF e.mode \in Recognised THEN {e.mode} ELSE Recognised :
        LET corrected == [Correct(e, FieldsIn(findings), mode) EXCEPT
                             ![OtherDocument(mode)] = "absent"]
            left == FieldsIn(Evaluate(corrected))
        IN /\ left \subseteq IF e.mode \in Recognised THEN {} ELSE {"carrier", Document(mode)}
           /\ Evaluate(Correct(corrected, left, mode)) = <<>>
=============================================================================
