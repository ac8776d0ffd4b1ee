---------------------------- MODULE MCCaseRecord ----------------------------
(* Small instances of CaseRecord for TLC. *)
EXTENDS CaseRecord, TLC

\* Two fields, of which the provider proposes the first; two ordinary values and
\* one that the audit writer refuses.
MCFields == {"f1", "f2"}
MCValues == {"v1", "v2", "secret"}
MCSecrets == {"secret"}
MCProposals == {"f1" :> "v1", "f1" :> "secret"}

Say(type, reason, ref, values) ==
    [type |-> type, reason |-> reason, ref |-> ref, values |-> values]

Approve == Say("APPROVE", "sound", "absent", NoValues)
Reject  == Say("REJECT", "sound", "current", NoValues)
Adopt   == Say("EDIT_APPROVE", "sound", "absent", "f1" :> "v1")
Edit    == Say("EDIT_APPROVE", "sound", "absent", "f1" :> "v2")
Wider   == Say("EDIT_APPROVE", "sound", "absent", "f1" :> "v1" @@ "f2" :> "v2")
Leak    == Say("EDIT_APPROVE", "sound", "absent", "f1" :> "secret")
Stale   == Say("APPROVE", "sound", "other", NoValues)
Curt    == Say("REJECT", "short", "absent", NoValues)

\* The decisions and the edits that a case can end with.
MCBodies == {Approve, Reject, Adopt, Wider, Leak}
\* One decision of each kind, an edit that differs, and the other refusals.
WideBodies == {Approve, Reject, Adopt, Edit, Stale, Curt}
Symmetry == Permutations(Requests) \cup Permutations(Jobs)
=============================================================================
