---------------------------- MODULE ReceiptProofs ----------------------------
(***************************************************************************)
(* Theorems about Receipt, for any number of concurrent requests, any      *)
(* entries and any faults: its invariants, and that it implements          *)
(* CaseLedger.                                                             *)
(***************************************************************************)
EXTENDS Receipt, RequiredInformationProofs

-----------------------------------------------------------------------------
(* The inductive invariant. *)

\* A transaction is open, and its case has a reference.
Working == {"insert", "received", "validated", "open", "commit"}

Actions(c) == [k \in DOMAIN c.trail |-> c.trail[k].action]

\* Two rows that cannot both be there: they are of one request, or share a reference,
\* a position or an entry number.
Collide(c, d) ==
    \/ c.by = d.by
    \/ c.ref = d.ref
    \/ c.position = d.position /\ c.position # 0
    \/ \E e \in c.entry, f \in d.entry : e.number = f.number /\ e.number # "absent"

Distinct(rows) == \A c, d \in rows : Collide(c, d) => c = d

\* The rows that any transaction has written, committed or not.
OpenDrafts == {draft[r] : r \in {q \in Requests : pc[q] \in Working}}

NoCollision == Distinct(cases \cup OpenDrafts)

Types ==
    /\ cases \subseteq Case
    /\ caseSeq \in Nat /\ positionSeq \in Nat
    /\ dispatched \in Seq(Nat)
    /\ request \in [Requests -> Submissions]
    /\ earlier \in [Requests -> SUBSET cases]
    /\ pc \in [Requests -> {"idle", "stamp", "insert", "lookup", "received", "validated",
                            "open", "commit", "respond", "done", "lost"}]
    /\ draft \in [Requests -> Case \cup {Blank}]
    /\ reply \in [Requests -> [code : Codes, ref : Nat]]

\* The rows of r, whether committed or not: made from its entry, under a reference
\* and a position that the sequences have handed out.
RowsOf(r, c) ==
    /\ c.by = {r}
    /\ c.ref \in 1 .. caseSeq /\ c.position \in 0 .. positionSeq
    /\ c.findings = Judged[request[r].entry]
    /\ \A d \in earlier[r] : d.ref < c.ref

\* All that a receipt writes, with its place in the queue.
Whole(r, c) ==
    /\ c.entry = {Stored(request[r].entry)}
    /\ Actions(c) = Ledger!Trail(Opens(c))
    /\ c.position # 0 <=> Opens(c)
    /\ \A d \in earlier[r] : Opens(c) /\ Opens(d) => d.position < c.position

DraftInv(r) ==
    /\ pc[r] \notin Working => draft[r] = Blank
    /\ pc[r] \in Working => RowsOf(r, draft[r]) /\ draft[r] \in Case
    /\ pc[r] \in Working \ {"commit"} => draft[r].position = 0
    /\ pc[r] = "insert" => draft[r].entry = {}
    /\ pc[r] \in Working \ {"insert"} => draft[r].entry = {Stored(request[r].entry)}
    /\ pc[r] = "validated" => Actions(draft[r]) = <<"ENTRY_RECEIVED">>
    /\ pc[r] = "open" => Actions(draft[r]) = Ledger!Trail(FALSE) /\ Opens(draft[r])
    /\ pc[r] = "commit" => Whole(r, draft[r])

CaseInv(c) == \E r \in Requests : RowsOf(r, c) /\ Whole(r, c)

\* A case of r is there only when its COMMIT was.
MineInv(r) ==
    /\ pc[r] \in {"idle", "stamp", "lookup"} \cup Working => Mine(r) = {}
    /\ pc[r] = "respond" => Mine(r) # {}
    /\ pc[r] = "lookup" => SameNumber(r) # {}

ReplyInv(r) ==
    /\ pc[r] # "done" => reply[r].code = "none"
    /\ reply[r].code = "received"  => \E c \in Mine(r) : c.ref = reply[r].ref
    /\ reply[r].code = "duplicate" => /\ \E c \in SameNumber(r) : c.ref = reply[r].ref
                                      /\ Mine(r) = {}
    /\ reply[r].code = "malformed" => Mine(r) = {}
    /\ reply[r].code = "failed"    => "lost_ack" \in Faults \/ Mine(r) = {}

\* Dispatched for a case whose client has its 201, and once.
DispatchInv ==
    /\ \A i \in DOMAIN dispatched :
          \E c \in cases, r \in Requests :
             /\ c.ref = dispatched[i] /\ Opens(c)
             /\ c.by = {r} /\ reply[r].code = "received"
    /\ \A i, j \in DOMAIN dispatched : dispatched[i] = dispatched[j] => i = j
    /\ \A r \in Requests : reply[r].code = "received" =>
          \A c \in Mine(r) : Opens(c) => \E i \in DOMAIN dispatched : dispatched[i] = c.ref

\* No more references than requests.
Unstamped == {r \in Requests : pc[r] \in {"idle", "stamp"}}
ReferencesInv == caseSeq + Cardinality(Unstamped) <= Cardinality(Requests)

Inv ==
    /\ Types
    /\ NoCollision
    /\ \A r \in Requests : DraftInv(r) /\ MineInv(r) /\ ReplyInv(r)
    /\ \A c \in cases : CaseInv(c)
    /\ DispatchInv
    /\ ReferencesInv

Rows == cases \cup OpenDrafts

-----------------------------------------------------------------------------
(* The rows of a case. *)

Lines == [action : {"ENTRY_RECEIVED", "VALIDATION_COMPLETED", "EXCEPTION_OPENED"},
          fields : SUBSET EntryFields]

StoredEntries == {Stored(e) : e \in Entries}
Judgements == {Judged[e] : e \in Entries}

LEMMA CaseType ==
  Case = [ref : Nat, by : SUBSET Requests, entry : SUBSET StoredEntries,
          findings : Judgements, position : Nat, recommendation : {"none", "PENDING"},
          trail : Seq(Lines)]
BY DEF Case, StoredEntries, Judgements, Lines

LEMMA CaseFields ==
  ASSUME NEW c \in Case
  PROVE  /\ c.ref \in Nat /\ c.by \in SUBSET Requests /\ c.entry \in SUBSET StoredEntries
         /\ c.findings \in Judgements /\ c.position \in Nat /\ c.trail \in Seq(Lines)
         /\ c.recommendation \in {"none", "PENDING"}
BY CaseType

\* The draft of a request whose transaction begins.
Begun(r, ref, findings) == [Blank EXCEPT !.ref = ref, !.by = {r}, !.findings = findings]

LEMMA BegunIs ==
  ASSUME NEW r \in Requests, NEW ref \in Nat, NEW findings \in Judgements
  PROVE  LET d == Begun(r, ref, findings)
         IN /\ d \in Case
            /\ d.ref = ref /\ d.by = {r} /\ d.findings = findings
            /\ d.entry = {} /\ d.position = 0 /\ d.trail = <<>>
<1>1. <<>> \in Seq(Lines) /\ {} \in SUBSET StoredEntries /\ {r} \in SUBSET Requests
  OBVIOUS
<1>2. Begun(r, ref, findings) \in Case
  BY <1>1, CaseType DEF Begun, Blank
<1>3. LET d == Begun(r, ref, findings)
      IN /\ d.ref = ref /\ d.by = {r} /\ d.findings = findings
         /\ d.entry = {} /\ d.position = 0 /\ d.trail = <<>>
  BY DEF Begun, Blank
<1>. QED
  BY <1>2, <1>3

LEMMA WithEntry ==
  ASSUME NEW c \in Case, NEW e \in Entries
  PROVE  LET d == [c EXCEPT !.entry = {Stored(e)}]
         IN /\ d \in Case
            /\ d.ref = c.ref /\ d.by = c.by /\ d.findings = c.findings
            /\ d.entry = {Stored(e)} /\ d.position = c.position /\ d.trail = c.trail
<1>1. {Stored(e)} \in SUBSET StoredEntries
  BY DEF StoredEntries
<1>. QED
  BY <1>1, CaseType

LEMMA WithTrail ==
  ASSUME NEW c \in Case, NEW trail \in Seq(Lines)
  PROVE  LET d == [c EXCEPT !.trail = trail]
         IN /\ d \in Case
            /\ d.ref = c.ref /\ d.by = c.by /\ d.findings = c.findings
            /\ d.entry = c.entry /\ d.position = c.position /\ d.trail = trail
BY CaseType

LEMMA WithException ==
  ASSUME NEW c \in Case, NEW trail \in Seq(Lines), NEW position \in Nat
  PROVE  LET d == [c EXCEPT !.position = position, !.recommendation = "PENDING",
                            !.trail = trail]
         IN /\ d \in Case
            /\ d.ref = c.ref /\ d.by = c.by /\ d.findings = c.findings
            /\ d.entry = c.entry /\ d.position = position /\ d.trail = trail
BY CaseType

LEMMA JudgedType ==
  ASSUME NEW e \in Entries
  PROVE  /\ Judged[e] = Evaluate(e) /\ Judged[e] \in Judgements
         /\ Judged[e] \in Seq(Findings) /\ FieldsIn(Judged[e]) \subseteq EntryFields
BY EvaluateType DEF Judged, Judgements

\* The actions of a trail grow by the action of the line that is added.
LEMMA ActionsGrow ==
  ASSUME NEW c, NEW d, c.trail \in Seq(Lines),
         NEW action \in {"ENTRY_RECEIVED", "VALIDATION_COMPLETED", "EXCEPTION_OPENED"},
         NEW fields \in SUBSET EntryFields,
         d.trail = Append(c.trail, Line(action, fields))
  PROVE  /\ d.trail \in Seq(Lines)
         /\ Len(c.trail) \in Nat
         /\ DOMAIN Actions(d) = 1 .. (Len(c.trail) + 1)
         /\ \A k \in 1 .. Len(c.trail) : Actions(d)[k] = c.trail[k].action
         /\ Actions(d)[Len(c.trail) + 1] = action
         /\ DOMAIN Actions(c) = 1 .. Len(c.trail)
         /\ \A k \in 1 .. Len(c.trail) : Actions(c)[k] = c.trail[k].action
<1>1. Line(action, fields) \in Lines /\ Line(action, fields).action = action
  BY DEF Line, Lines
<1>2. /\ Len(c.trail) \in Nat /\ DOMAIN c.trail = 1 .. Len(c.trail)
      /\ d.trail \in Seq(Lines) /\ Len(d.trail) = Len(c.trail) + 1
      /\ DOMAIN d.trail = 1 .. (Len(c.trail) + 1)
      /\ \A k \in 1 .. Len(c.trail) : d.trail[k] = c.trail[k]
      /\ d.trail[Len(c.trail) + 1] = Line(action, fields)
  BY <1>1
<1>. QED
  BY <1>1, <1>2 DEF Actions

-----------------------------------------------------------------------------
(* What a step of one request leaves as it was. *)

\* A step of r touches nothing of another request, and adds to the cases its own
\* draft at most.
Frame(r) ==
    /\ request' = request
    /\ caseSeq <= caseSeq' /\ positionSeq <= positionSeq'
    /\ cases \subseteq cases'
    /\ \A c \in cases' : c \in cases \/ (c = draft[r] /\ pc[r] = "commit")
    /\ \A q \in Requests \ {r} : /\ pc'[q] = pc[q] /\ draft'[q] = draft[q]
                                 /\ earlier'[q] = earlier[q] /\ reply'[q] = reply[q]
    /\ earlier'[r] = earlier[r] \/ pc[r] = "idle"

LEMMA RowsOfKept ==
  ASSUME Types, Types', NEW q \in Requests, NEW c,
         request' = request, caseSeq <= caseSeq', positionSeq <= positionSeq',
         earlier'[q] = earlier[q]
  PROVE  /\ RowsOf(q, c) => RowsOf(q, c)'
         /\ Whole(q, c) => Whole(q, c)'
<1>1. caseSeq \in Nat /\ caseSeq' \in Nat /\ positionSeq \in Nat /\ positionSeq' \in Nat
  BY DEF Types
<1>2. /\ c.ref \in 1 .. caseSeq => c.ref \in 1 .. caseSeq'
      /\ c.position \in 0 .. positionSeq => c.position \in 0 .. positionSeq'
  BY <1>1
<1>3. RowsOf(q, c) => RowsOf(q, c)'
  BY <1>2 DEF RowsOf
<1>4. Whole(q, c) => Whole(q, c)'
  BY DEF Whole
<1>. QED
  BY <1>3, <1>4

LEMMA DraftKept ==
  ASSUME Types, Types', NEW q \in Requests, DraftInv(q),
         request' = request, caseSeq <= caseSeq', positionSeq <= positionSeq',
         earlier'[q] = earlier[q], pc'[q] = pc[q], draft'[q] = draft[q]
  PROVE  DraftInv(q)'
<1>. DEFINE d == draft[q]
<1>1. /\ RowsOf(q, d) => RowsOf(q, draft[q])'
      /\ Whole(q, d) => Whole(q, draft[q])'
  <2>1. \A c : c = draft'[q] => /\ RowsOf(q, c) => RowsOf(q, c)'
                                /\ Whole(q, c) => Whole(q, c)'
    BY RowsOfKept
  <2>. QED
    BY <2>1 DEF RowsOf, Whole
<1>. QED
  BY <1>1 DEF DraftInv

\* No case of q is new.
LEMMA MineKept ==
  ASSUME NEW q \in Requests, cases \subseteq cases',
         \A c \in cases' : c \in cases \/ c.by # {q}
  PROVE  Mine(q)' = Mine(q)
BY DEF Mine

LEMMA SameNumberGrows ==
  ASSUME NEW q \in Requests, cases \subseteq cases', request' = request
  PROVE  SameNumber(q) \subseteq SameNumber(q)'
BY DEF SameNumber

LEMMA MineInvKept ==
  ASSUME NEW q \in Requests, MineInv(q), cases \subseteq cases', request' = request,
         \A c \in cases' : c \in cases \/ c.by # {q},
         pc'[q] = pc[q]
  PROVE  MineInv(q)'
<1>1. Mine(q)' = Mine(q) /\ SameNumber(q) \subseteq SameNumber(q)'
  BY MineKept, SameNumberGrows
<1>. QED
  BY <1>1 DEF MineInv

LEMMA ReplyInvKept ==
  ASSUME NEW q \in Requests, ReplyInv(q), cases \subseteq cases', request' = request,
         \A c \in cases' : c \in cases \/ c.by # {q},
         pc'[q] = pc[q] \/ pc[q] # "done", pc'[q] # "done" \/ pc[q] = "done",
         reply'[q] = reply[q]
  PROVE  ReplyInv(q)'
<1>1. Mine(q)' = Mine(q) /\ SameNumber(q) \subseteq SameNumber(q)'
  BY MineKept, SameNumberGrows
<1>. QED
  BY <1>1 DEF ReplyInv

\* A step of r keeps what the invariant says of the others and of the cases.
LEMMA OthersKept ==
  ASSUME Inv, Types', NEW r \in Requests, Frame(r)
  PROVE  /\ \A q \in Requests \ {r} : DraftInv(q)' /\ MineInv(q)' /\ ReplyInv(q)'
         /\ \A c \in cases : CaseInv(c)'
<1>1. Types /\ DraftInv(r) /\ MineInv(r)
  BY DEF Inv
<1>2. pc[r] = "commit" => draft[r].by = {r}
  BY <1>1 DEF DraftInv, RowsOf, Working
<1>3. ASSUME NEW q \in Requests \ {r}
      PROVE  DraftInv(q)' /\ MineInv(q)' /\ ReplyInv(q)'
  <2>1. DraftInv(q) /\ MineInv(q) /\ ReplyInv(q)
    BY DEF Inv
  <2>2. /\ pc'[q] = pc[q] /\ draft'[q] = draft[q] /\ earlier'[q] = earlier[q]
        /\ reply'[q] = reply[q]
    BY DEF Frame
  <2>3. \A c \in cases' : c \in cases \/ c.by # {q}
    BY <1>2 DEF Frame
  <2>4. request' = request /\ caseSeq <= caseSeq' /\ positionSeq <= positionSeq'
        /\ cases \subseteq cases'
    BY DEF Frame
  <2>5. DraftInv(q)'
    BY <1>1, <2>1, <2>2, <2>4, DraftKept
  <2>6. MineInv(q)'
    BY <2>1, <2>2, <2>3, <2>4, MineInvKept
  <2>7. ReplyInv(q)'
    BY <2>1, <2>2, <2>3, <2>4, ReplyInvKept
  <2>. QED
    BY <2>5, <2>6, <2>7
<1>4. ASSUME NEW c \in cases
      PROVE  CaseInv(c)'
  <2>1. PICK q \in Requests : RowsOf(q, c) /\ Whole(q, c)
    BY DEF Inv, CaseInv
  <2>2. c \in Mine(q)
    BY <2>1 DEF RowsOf, Mine
  <2>3. earlier'[q] = earlier[q]
    BY <1>1, <2>2 DEF Frame, MineInv
  <2>4. RowsOf(q, c)' /\ Whole(q, c)'
    BY <1>1, <2>1, <2>3, RowsOfKept DEF Frame
  <2>. QED
    BY <2>4 DEF CaseInv
<1>. QED
  BY <1>3, <1>4

-----------------------------------------------------------------------------
(* Rows that do not collide. *)

LEMMA FewerRows ==
  ASSUME NEW S, NEW T, T \subseteq S, Distinct(S)
  PROVE  Distinct(T)
BY DEF Distinct

LEMMA CollideSymmetric ==
  ASSUME NEW c, NEW d, Collide(c, d)
  PROVE  Collide(d, c)
BY DEF Collide

LEMMA OneMoreRow ==
  ASSUME NEW S, NEW new, NEW T, T \subseteq S \cup {new}, Distinct(S),
         \A c \in S : ~ Collide(c, new)
  PROVE  Distinct(T)
<1>. SUFFICES ASSUME NEW c \in T, NEW d \in T, Collide(c, d)
              PROVE  c = d
  BY DEF Distinct
<1>1. CASE c \in S /\ d \in S
  BY <1>1 DEF Distinct
<1>2. CASE c \in S /\ d = new
  BY <1>2
<1>3. CASE c = new /\ d \in S
  BY <1>3, CollideSymmetric
<1>. QED
  BY <1>1, <1>2, <1>3

\* The rows of the other requests and of the cases.
Beside(r) == cases \cup {draft[q] : q \in {p \in Requests \ {r} : pc[p] \in Working}}

LEMMA BesideRows ==
  ASSUME NEW r \in Requests
  PROVE  Beside(r) \subseteq Rows
BY DEF Beside, Rows, OpenDrafts

\* A transaction that goes on puts its new draft in the place of the old one.
LEMMA Redrafted ==
  ASSUME Inv, NEW r \in Requests, Frame(r), cases' = cases,
         \A c \in Beside(r) : ~ Collide(c, draft'[r])
  PROVE  NoCollision'
<1>1. Distinct(Beside(r))
  BY BesideRows, FewerRows DEF Inv, NoCollision, Rows
<1>2. Rows' \subseteq Beside(r) \cup {draft'[r]}
  BY DEF Rows, OpenDrafts, Beside, Frame
<1>3. Distinct(Rows')
  BY <1>1, <1>2, OneMoreRow
<1>. QED
  BY <1>3 DEF NoCollision, Rows

\* One that ends or fails adds no row.
LEMMA RowsLeft ==
  ASSUME Inv, Rows' \subseteq Rows
  PROVE  NoCollision'
<1>1. Distinct(Rows) /\ (Distinct(Rows') <=> NoCollision')
  BY DEF Inv, NoCollision, Rows
<1>. QED
  BY <1>1, FewerRows

-----------------------------------------------------------------------------
(* The rest of the invariant under a step of one request. *)

\* Nothing is dispatched and nobody is told of a receipt.
LEMMA DispatchKept ==
  ASSUME Inv, NEW r \in Requests, Frame(r), dispatched' = dispatched,
         pc[r] # "done", reply'[r].code # "received"
  PROVE  DispatchInv'
<1>1. reply[r].code # "received" /\ DispatchInv
  BY DEF Inv, ReplyInv
<1>2. \A q \in Requests \ {r} : reply'[q] = reply[q] /\ Mine(q)' = Mine(q)
  <2>. SUFFICES ASSUME NEW q \in Requests \ {r}
                PROVE  reply'[q] = reply[q] /\ Mine(q)' = Mine(q)
    OBVIOUS
  <2>1. pc[r] = "commit" => draft[r].by = {r}
    BY DEF Inv, DraftInv, RowsOf, Working
  <2>2. \A c \in cases' : c \in cases \/ c.by # {q}
    BY <2>1 DEF Frame
  <2>. QED
    BY <2>2, MineKept DEF Frame
<1>3. \A i \in DOMAIN dispatched' :
        \E c \in cases', q \in Requests :
           /\ c.ref = dispatched'[i] /\ Opens(c)
           /\ c.by = {q} /\ reply'[q].code = "received"
  <2>. SUFFICES ASSUME NEW i \in DOMAIN dispatched
                PROVE  \E c \in cases', q \in Requests :
                         /\ c.ref = dispatched[i] /\ Opens(c)
                         /\ c.by = {q} /\ reply'[q].code = "received"
    OBVIOUS
  <2>1. PICK c \in cases, q \in Requests : /\ c.ref = dispatched[i] /\ Opens(c)
                                           /\ c.by = {q} /\ reply[q].code = "received"
    BY <1>1 DEF DispatchInv
  <2>2. q # r /\ c \in cases'
    BY <1>1, <2>1 DEF Frame
  <2>. QED
    BY <1>2, <2>1, <2>2
<1>4. \A q \in Requests : reply'[q].code = "received" =>
        \A c \in Mine(q)' : Opens(c) => \E i \in DOMAIN dispatched' : dispatched'[i] = c.ref
  <2>. SUFFICES ASSUME NEW q \in Requests, reply'[q].code = "received",
                       NEW c \in Mine(q)', Opens(c)
                PROVE  \E i \in DOMAIN dispatched : dispatched[i] = c.ref
    OBVIOUS
  <2>1. q # r
    OBVIOUS
  <2>2. reply[q].code = "received" /\ c \in Mine(q)
    BY <1>2, <2>1
  <2>. QED
    BY <1>1, <2>2 DEF DispatchInv
<1>5. \A i, j \in DOMAIN dispatched' : dispatched'[i] = dispatched'[j] => i = j
  BY <1>1 DEF DispatchInv
<1>. QED
  BY <1>3, <1>4, <1>5 DEF DispatchInv

LEMMA UnstampedFinite == Unstamped \subseteq Requests /\ IsFiniteSet(Unstamped)
                          /\ Cardinality(Unstamped) \in Nat /\ Cardinality(Requests) \in Nat
<1>1. Unstamped \subseteq Requests
  BY DEF Unstamped
<1>. QED
  BY <1>1, RequestsAssumption, FS_Subset, FS_CardinalityType

LEMMA ReferencesKept ==
  ASSUME ReferencesInv, Types, caseSeq' = caseSeq, Unstamped' \subseteq Unstamped
  PROVE  ReferencesInv'
<1>1. Cardinality(Unstamped') <= Cardinality(Unstamped)
  BY UnstampedFinite, FS_Subset
<1>2. Cardinality(Unstamped') \in Nat /\ Cardinality(Unstamped) \in Nat
  BY UnstampedFinite, FS_Subset, FS_CardinalityType
<1>3. /\ caseSeq \in Nat /\ Cardinality(Requests) \in Nat
      /\ caseSeq + Cardinality(Unstamped) <= Cardinality(Requests)
  BY UnstampedFinite DEF Types, ReferencesInv
<1>4. caseSeq + Cardinality(Unstamped') <= Cardinality(Requests)
  BY <1>1, <1>2, <1>3
<1>. QED
  BY <1>4 DEF ReferencesInv

\* What a step of r must show: its own part, and what all share.
LEMMA StepKeeps ==
  ASSUME Inv, Types', NEW r \in Requests, Frame(r),
         DraftInv(r)', MineInv(r)', ReplyInv(r)',
         NoCollision', DispatchInv', ReferencesInv',
         \A c \in cases' : c \in cases \/ CaseInv(c)'
  PROVE  Inv'
<1>1. /\ \A q \in Requests \ {r} : DraftInv(q)' /\ MineInv(q)' /\ ReplyInv(q)'
      /\ \A c \in cases : CaseInv(c)'
  BY OthersKept
<1>2. \A q \in Requests : DraftInv(q)' /\ MineInv(q)' /\ ReplyInv(q)'
  BY <1>1
<1>3. \A c \in cases' : CaseInv(c)'
  BY <1>1
<1>. QED
  BY <1>2, <1>3 DEF Inv

\* Nobody else's row, and no case, is of a request that has not committed.
LEMMA BesideOthers ==
  ASSUME Inv, NEW r \in Requests, Mine(r) = {}, NEW c \in Beside(r)
  PROVE  c.by # {r}
<1>1. CASE c \in cases
  BY <1>1 DEF Mine
<1>2. CASE c \notin cases
  <2>1. PICK q \in Requests \ {r} : pc[q] \in Working /\ c = draft[q]
    BY <1>2 DEF Beside
  <2>2. c.by = {q}
    BY <2>1 DEF Inv, DraftInv, RowsOf
  <2>. QED
    BY <2>1, <2>2
<1>. QED
  BY <1>1, <1>2

LEMMA DraftCollidesWithNone ==
  ASSUME Inv, NEW r \in Requests, pc[r] \in Working, NEW c \in Beside(r)
  PROVE  ~ Collide(c, draft[r])
<1>1. draft[r] \in Rows /\ c \in Rows /\ Distinct(Rows)
  BY BesideRows DEF Rows, OpenDrafts, Inv, NoCollision
<1>2. Mine(r) = {} /\ draft[r].by = {r}
  BY DEF Inv, MineInv, DraftInv, RowsOf
<1>3. c # draft[r]
  BY <1>2, BesideOthers
<1>. QED
  BY <1>1, <1>3 DEF Distinct

\* An open transaction writes: its draft is replaced by another that collides with no
\* row beside it.
LEMMA Writes ==
  ASSUME Inv, Types', NEW r \in Requests, Frame(r),
         cases' = cases, caseSeq' = caseSeq, dispatched' = dispatched, reply' = reply,
         pc[r] \in Working, pc'[r] \in Working, DraftInv(r)',
         \A c \in Beside(r) : ~ Collide(c, draft'[r])
  PROVE  Inv'
<1>1. Types /\ MineInv(r) /\ ReplyInv(r) /\ ReferencesInv
  BY DEF Inv
<1>2. Mine(r)' = Mine(r) /\ Mine(r) = {} /\ reply'[r].code = "none" /\ pc'[r] # "done"
  BY <1>1 DEF Mine, MineInv, ReplyInv, Working
<1>3. MineInv(r)'
  BY <1>2 DEF MineInv, Working
<1>4. ReplyInv(r)'
  BY <1>2 DEF ReplyInv
<1>5. NoCollision'
  BY Redrafted
<1>6. DispatchInv'
  BY <1>2, DispatchKept DEF Working
<1>7. Unstamped' \subseteq Unstamped
  BY DEF Unstamped, Frame, Working
<1>8. ReferencesInv'
  BY <1>1, <1>7, ReferencesKept
<1>. QED
  BY <1>3, <1>4, <1>5, <1>6, <1>8, StepKeeps

\* A request without a case gives up its transaction, if it has one, and ends or goes
\* on without.
LEMMA GivesUp ==
  ASSUME Inv, Types', NEW r \in Requests, Frame(r),
         cases' = cases, caseSeq' = caseSeq, dispatched' = dispatched,
         pc[r] # "done", Mine(r) = {},
         draft'[r] = Blank, pc'[r] \notin Working \cup {"respond", "idle"},
         pc'[r] = "stamp" => pc[r] = "idle",
         pc'[r] = "lookup" => SameNumber(r) # {},
         \/ reply'[r] = reply[r] /\ pc'[r] # "done"
         \/ reply'[r].code \in {"failed", "malformed"} /\ pc'[r] = "done"
         \/ /\ reply'[r].code = "duplicate" /\ pc'[r] = "done"
            /\ \E c \in SameNumber(r) : c.ref = reply'[r].ref
  PROVE  Inv'
<1>1. Types /\ ReplyInv(r) /\ ReferencesInv
  BY DEF Inv
<1>2. reply[r].code = "none" /\ request' = request
  BY <1>1 DEF ReplyInv, Frame
<1>3. Mine(r)' = {} /\ SameNumber(r)' = SameNumber(r)
  BY <1>2 DEF Mine, SameNumber
<1>4. DraftInv(r)'
  BY DEF DraftInv, Working
<1>5. MineInv(r)'
  BY <1>3 DEF MineInv
<1>6. ReplyInv(r)'
  BY <1>2, <1>3 DEF ReplyInv
<1>7. Rows' \subseteq Rows
  BY DEF Rows, OpenDrafts, Frame
<1>8. NoCollision'
  BY <1>7, RowsLeft
<1>9. reply'[r].code # "received"
  BY <1>2
<1>10. DispatchInv'
  BY <1>9, DispatchKept
<1>11. Unstamped' \subseteq Unstamped
  BY DEF Unstamped, Frame
<1>12. ReferencesInv'
  BY <1>1, <1>11, ReferencesKept
<1>. QED
  BY <1>4, <1>5, <1>6, <1>8, <1>10, <1>12, StepKeeps

-----------------------------------------------------------------------------
(* The actions, one by one. *)

LEMMA InvInit == Init => Inv
<1>. SUFFICES ASSUME Init PROVE Inv
  OBVIOUS
<1>1. Types
  <2>1. <<>> \in Seq(Nat) /\ {} \in SUBSET cases
    OBVIOUS
  <2>2. earlier \in [Requests -> SUBSET cases]
    BY DEF Init
  <2>. QED
    BY <2>1, <2>2 DEF Init, Types, Codes
<1>2. NoCollision
  <2>1. OpenDrafts = {} /\ cases = {}
    BY DEF Init, OpenDrafts, Working
  <2>. QED
    BY <2>1 DEF NoCollision, Distinct
<1>3. ASSUME NEW r \in Requests
      PROVE  DraftInv(r) /\ MineInv(r) /\ ReplyInv(r)
  <2>1. pc[r] = "idle" /\ draft[r] = Blank /\ reply[r].code = "none" /\ cases = {}
    BY DEF Init
  <2>. QED
    BY <2>1 DEF DraftInv, MineInv, ReplyInv, Mine, Working
<1>4. \A c \in cases : CaseInv(c)
  BY DEF Init
<1>5. DispatchInv
  BY DEF Init, DispatchInv
<1>6. ReferencesInv
  <2>1. Unstamped = Requests /\ caseSeq = 0
    BY DEF Init, Unstamped
  <2>. QED
    BY <2>1, UnstampedFinite DEF ReferencesInv
<1>. QED
  BY <1>1, <1>2, <1>3, <1>4, <1>5, <1>6 DEF Inv

\* What the invariant says of a request whose transaction is open.
LEMMA OpenDraft ==
  ASSUME Inv, NEW r \in Requests, pc[r] \in Working
  PROVE  /\ draft[r] \in Case /\ RowsOf(r, draft[r]) /\ Mine(r) = {}
         /\ request[r].entry \in Entries
         /\ draft[r].findings = Judged[request[r].entry]
         /\ draft[r].findings \in Seq(Findings)
         /\ FieldsIn(draft[r].findings) \subseteq EntryFields
<1>1. /\ draft[r] \in Case /\ RowsOf(r, draft[r]) /\ Mine(r) = {}
      /\ request[r].entry \in Entries
  BY DEF Inv, DraftInv, MineInv, Types, Submissions
<1>. QED
  BY <1>1, JudgedType DEF RowsOf

LEMMA SubmitKeeps ==
  ASSUME Inv, NEW r \in Requests, Submit(r)
  PROVE  Inv'
<1>1. Types /\ DraftInv(r) /\ MineInv(r) /\ pc[r] = "idle"
  BY DEF Inv, Submit
<1>2. /\ cases' = cases /\ caseSeq' = caseSeq /\ positionSeq' = positionSeq
      /\ dispatched' = dispatched /\ request' = request /\ draft' = draft
      /\ earlier' = [earlier EXCEPT ![r] =
                       {c \in cases : \E q \in Requests : reply[q] = [code |-> "received", ref |-> c.ref]}]
  BY DEF Submit, sequences
<1>3. \/ pc' = [pc EXCEPT ![r] = "stamp"] /\ reply' = reply
      \/ /\ pc' = [pc EXCEPT ![r] = "done"]
         /\ reply' = [reply EXCEPT ![r] = [code |-> "malformed", ref |-> 0]]
  BY DEF Submit, Goto, Finish
<1>4. earlier' \in [Requests -> SUBSET cases]
  BY <1>1, <1>2 DEF Types
<1>5. Types'
  <2>1. /\ pc' \in [Requests -> {"idle", "stamp", "insert", "lookup", "received", "validated",
                                 "open", "commit", "respond", "done", "lost"}]
        /\ reply' \in [Requests -> [code : Codes, ref : Nat]]
    <3>1. [code |-> "malformed", ref |-> 0] \in [code : Codes, ref : Nat]
      BY DEF Codes
    <3>2. reply' \in [Requests -> [code : Codes, ref : Nat]]
      <4>1. reply \in [Requests -> [code : Codes, ref : Nat]]
        BY <1>1 DEF Types
      <4>. QED
        BY <1>3, <3>1, <4>1
    <3>3. pc' = [pc EXCEPT ![r] = "stamp"] \/ pc' = [pc EXCEPT ![r] = "done"]
      BY <1>3
    <3>. QED
      BY <1>1, <3>2, <3>3 DEF Types
  <2>. QED
    BY <1>1, <1>2, <1>4, <2>1 DEF Types
<1>6. caseSeq \in Nat /\ positionSeq \in Nat
  BY <1>1 DEF Types
<1>7. Frame(r)
  BY <1>1, <1>2, <1>3, <1>6 DEF Frame, Types
<1>8. draft'[r] = Blank /\ Mine(r) = {}
  BY <1>1, <1>2 DEF DraftInv, MineInv, Working
<1>9. CASE pc' = [pc EXCEPT ![r] = "stamp"] /\ reply' = reply
  <2>1. pc'[r] = "stamp"
    BY <1>1, <1>9 DEF Types
  <2>. QED
    BY <1>1, <1>2, <1>5, <1>7, <1>8, <1>9, <2>1, GivesUp DEF Working
<1>10. CASE /\ pc' = [pc EXCEPT ![r] = "done"]
            /\ reply' = [reply EXCEPT ![r] = [code |-> "malformed", ref |-> 0]]
  <2>1. pc'[r] = "done" /\ reply'[r].code = "malformed"
    BY <1>1, <1>10 DEF Types
  <2>. QED
    BY <1>1, <1>2, <1>5, <1>7, <1>8, <2>1, GivesUp DEF Working
<1>. QED
  BY <1>3, <1>9, <1>10

\* A statement fails, or the writer refuses a value.
LEMMA FailKeeps ==
  ASSUME Inv, NEW r \in Requests, Active(r), pc[r] # "respond", Fail(r),
         UNCHANGED <<dispatched, request, earlier>>
  PROVE  Inv'
<1>1. Types /\ MineInv(r) /\ pc[r] \in {"stamp", "lookup"} \cup Working
  BY DEF Inv, Active, Types, Working
<1>2. /\ cases' = cases /\ caseSeq' = caseSeq /\ positionSeq' = positionSeq
      /\ dispatched' = dispatched /\ request' = request /\ earlier' = earlier
      /\ draft' = [draft EXCEPT ![r] = Blank]
      /\ pc' = [pc EXCEPT ![r] = "done"]
      /\ reply' = [reply EXCEPT ![r] = [code |-> "failed", ref |-> 0]]
  BY DEF Fail, Rollback, Finish, sequences
<1>3. Types'
  BY <1>1, <1>2 DEF Types, Codes
<1>4. caseSeq \in Nat /\ positionSeq \in Nat
  BY <1>1 DEF Types
<1>5. Frame(r)
  BY <1>1, <1>2, <1>4 DEF Frame, Types
<1>6. /\ draft'[r] = Blank /\ pc'[r] = "done" /\ reply'[r].code = "failed"
      /\ Mine(r) = {} /\ pc[r] # "done"
  BY <1>1, <1>2 DEF Types, MineInv, Working
<1>. QED
  BY <1>2, <1>3, <1>5, <1>6, GivesUp DEF Working

LEMMA StampKeeps ==
  ASSUME Inv, NEW r \in Requests, Stamp(r)
  PROVE  Inv'
<1>. DEFINE d == Begun(r, caseSeq + 1, Judged[request[r].entry])
<1>1. /\ Types /\ DraftInv(r) /\ MineInv(r) /\ ReplyInv(r) /\ ReferencesInv
      /\ pc[r] = "stamp" /\ request[r].entry \in Entries
  BY DEF Inv, Stamp, Types, Submissions
<1>2. caseSeq \in Nat /\ caseSeq + 1 \in Nat /\ positionSeq \in Nat /\ draft[r] = Blank
  BY <1>1 DEF Types, DraftInv, Working
<1>3. /\ cases' = cases /\ caseSeq' = caseSeq + 1 /\ positionSeq' = positionSeq
      /\ dispatched' = dispatched /\ request' = request /\ earlier' = earlier
      /\ reply' = reply /\ pc' = [pc EXCEPT ![r] = "insert"]
  BY DEF Stamp, Goto
<1>4. draft' = [draft EXCEPT ![r] = d]
  BY <1>1, <1>2 DEF Stamp, Begun, Types
<1>5. /\ d \in Case /\ d.ref = caseSeq + 1 /\ d.by = {r}
      /\ d.findings = Judged[request[r].entry]
      /\ d.entry = {} /\ d.position = 0 /\ d.trail = <<>>
  BY <1>1, <1>2, BegunIs, JudgedType
<1>. HIDE DEF d
<1>6. draft'[r] = d /\ pc'[r] = "insert" /\ reply'[r].code = "none"
  BY <1>1, <1>3, <1>4 DEF Types, ReplyInv
<1>7. Types'
  BY <1>1, <1>2, <1>3, <1>4, <1>5 DEF Types
<1>8. Frame(r)
  BY <1>1, <1>2, <1>3, <1>4 DEF Frame, Types
<1>9. Mine(r) = {} /\ Mine(r)' = {}
  BY <1>1, <1>3 DEF MineInv, Mine
<1>10. \A c \in cases : c.ref \in 1 .. caseSeq
  BY DEF Inv, CaseInv, RowsOf
<1>11. DraftInv(r)'
  <2>1. \A c \in earlier[r] : c.ref < d.ref
    BY <1>1, <1>2, <1>5, <1>10 DEF Types
  <2>2. d.ref \in 1 .. (caseSeq + 1) /\ d.position \in 0 .. positionSeq
    BY <1>2, <1>5
  <2>4. RowsOf(r, draft[r])'
    BY <1>3, <1>5, <1>6, <2>1, <2>2 DEF RowsOf
  <2>. QED
    BY <1>5, <1>6, <2>4 DEF DraftInv, Working
<1>12. MineInv(r)' /\ ReplyInv(r)'
  BY <1>6, <1>9 DEF MineInv, ReplyInv
<1>13. ASSUME NEW c \in Beside(r)
       PROVE  ~ Collide(c, d)
  <2>1. c.by # {r}
    BY <1>9, BesideOthers
  <2>2. c.ref \in 1 .. caseSeq
    <3>1. CASE c \in cases
      BY <1>10, <3>1
    <3>2. CASE c \notin cases
      BY <3>2 DEF Beside, Inv, DraftInv, RowsOf
    <3>. QED
      BY <3>1, <3>2
  <2>3. c.ref # d.ref
    BY <1>2, <1>5, <2>2
  <2>. QED
    BY <1>5, <2>1, <2>3 DEF Collide
<1>14. NoCollision'
  BY <1>3, <1>6, <1>8, <1>13, Redrafted
<1>15. DispatchInv'
  BY <1>1, <1>3, <1>6, <1>8, DispatchKept
<1>16. ReferencesInv'
  <2>1. Unstamped' = Unstamped \ {r} /\ r \in Unstamped
    BY <1>1, <1>3 DEF Unstamped, Types
  <2>2. Cardinality(Unstamped') = Cardinality(Unstamped) - 1
    BY <2>1, UnstampedFinite, FS_RemoveElement
  <2>3. caseSeq + Cardinality(Unstamped) <= Cardinality(Requests)
    BY <1>1 DEF ReferencesInv
  <2>4. caseSeq' + Cardinality(Unstamped') <= Cardinality(Requests)
    BY <1>2, <1>3, <2>2, <2>3, UnstampedFinite
  <2>. QED
    BY <2>4 DEF ReferencesInv
<1>. QED
  BY <1>3, <1>7, <1>8, <1>11, <1>12, <1>14, <1>15, <1>16, StepKeeps

LEMMA StoredNumber ==
  ASSUME NEW e \in Entries
  PROVE  Stored(e).number = e.number /\ e.number \in Numbers \cup {"absent"}
<1>1. IsEntry(e) /\ "number" \in EntryFields
  BY RequestsAssumption, EntryFieldsList
<1>2. e.number \in Contents["number"] /\ DOMAIN e = EntryFields
  BY <1>1 DEF IsEntry
<1>3. Contents["number"] = {"absent"} \cup Numbers
  BY DEF Contents
<1>4. CASE e.arrival = "malformed"
  <2>1. [e EXCEPT !.arrival = "absent"].number = e.number
    BY <1>1, <1>2
  <2>. QED
    BY <1>2, <1>3, <1>4, <2>1 DEF Stored
<1>5. CASE e.arrival # "malformed"
  BY <1>2, <1>3, <1>5 DEF Stored
<1>. QED
  BY <1>4, <1>5

\* A row with the same keys collides with the same rows.
LEMMA SameKeys ==
  ASSUME NEW c, NEW d, NEW x,
         c.by = d.by, c.ref = d.ref, c.position = d.position, c.entry = d.entry,
         ~ Collide(x, c)
  PROVE  ~ Collide(x, d)
BY DEF Collide

\* The duplicate of an entry number: after the rollback the request looks it up.
LEMMA InsertEntryKeeps ==
  ASSUME Inv, NEW r \in Requests, InsertEntry(r)
  PROVE  Inv'
<1>1. /\ Types /\ DraftInv(r) /\ MineInv(r) /\ pc[r] = "insert" /\ pc[r] \in Working
      /\ caseSeq \in Nat /\ positionSeq \in Nat
  BY DEF Inv, InsertEntry, Types, Working
<1>2. dispatched' = dispatched /\ request' = request /\ earlier' = earlier
  BY DEF InsertEntry
<1>3. CASE /\ Contenders(r) = {} /\ SameNumber(r) = {}
           /\ draft' = [draft EXCEPT ![r].entry = {Stored(request[r].entry)}]
           /\ Goto(r, "received")
           /\ UNCHANGED <<cases, sequences, reply>>
  <2>. DEFINE d == [draft[r] EXCEPT !.entry = {Stored(request[r].entry)}]
  <2>1. /\ draft[r] \in Case /\ RowsOf(r, draft[r]) /\ Mine(r) = {}
        /\ request[r].entry \in Entries
    BY <1>1, OpenDraft
  <2>2. draft' = [draft EXCEPT ![r] = d]
    BY <1>3
  <2>3. /\ d \in Case
        /\ d.ref = draft[r].ref /\ d.by = draft[r].by /\ d.findings = draft[r].findings
        /\ d.entry = {Stored(request[r].entry)} /\ d.position = draft[r].position
    BY <2>1, WithEntry
  <2>4. /\ cases' = cases /\ caseSeq' = caseSeq /\ positionSeq' = positionSeq
        /\ reply' = reply /\ pc' = [pc EXCEPT ![r] = "received"]
    BY <1>3 DEF Goto, sequences
  <2>. HIDE DEF d
  <2>5. draft'[r] = d /\ pc'[r] = "received"
    BY <1>1, <2>2, <2>4 DEF Types
  <2>6. Types'
    BY <1>1, <1>2, <2>2, <2>3, <2>4 DEF Types
  <2>7. Frame(r)
    BY <1>1, <1>2, <2>2, <2>4 DEF Frame, Types
  <2>8. RowsOf(r, draft[r])'
    BY <1>2, <2>1, <2>3, <2>4, <2>5 DEF RowsOf
  <2>9. DraftInv(r)'
    BY <1>1, <1>2, <2>3, <2>5, <2>8 DEF DraftInv, Working
  <2>10. ASSUME NEW c \in Beside(r)
         PROVE  ~ Collide(c, d)
    <3>1. ~ Collide(c, draft[r])
      BY <1>1, DraftCollidesWithNone
    <3>2. ASSUME NEW e \in c.entry, e.number = request[r].entry.number, e.number # "absent"
          PROVE  FALSE
      <4>1. CASE c \in cases
        BY <1>3, <3>2, <4>1 DEF SameNumber
      <4>2. CASE c \notin cases
        <5>1. PICK q \in Requests \ {r} : pc[q] \in Working /\ c = draft[q]
          BY <4>2 DEF Beside
        <5>2. DraftInv(q) /\ request[q].entry \in Entries
          BY <5>1, OpenDraft DEF Inv
        <5>3. draft[q].entry = {Stored(request[q].entry)}
          BY <3>2, <5>1, <5>2 DEF DraftInv
        <5>4. request[q].entry.number = e.number
          BY <5>1, <5>2, <5>3, StoredNumber
        <5>5. q \in Contenders(r)
          BY <3>2, <5>1, <5>3, <5>4 DEF Contenders
        <5>. QED
          BY <1>3, <5>5
      <4>. QED
        BY <4>1, <4>2
    <3>3. \A e \in c.entry, f \in d.entry : ~ (e.number = f.number /\ e.number # "absent")
      BY <2>1, <2>3, <3>2, StoredNumber
    <3>. QED
      BY <2>3, <3>1, <3>3 DEF Collide
  <2>. QED
    BY <1>1, <1>2, <2>4, <2>5, <2>6, <2>7, <2>9, <2>10, Writes DEF Working
<1>4. CASE /\ Contenders(r) = {} /\ SameNumber(r) # {}
           /\ Rollback(r)
           /\ Goto(r, "lookup")
           /\ UNCHANGED reply
  <2>1. /\ cases' = cases /\ caseSeq' = caseSeq /\ positionSeq' = positionSeq
        /\ reply' = reply /\ pc' = [pc EXCEPT ![r] = "lookup"]
        /\ draft' = [draft EXCEPT ![r] = Blank]
    BY <1>4 DEF Goto, Rollback, sequences
  <2>2. Types'
    BY <1>1, <1>2, <2>1 DEF Types
  <2>3. Frame(r)
    BY <1>1, <1>2, <2>1 DEF Frame, Types
  <2>4. draft'[r] = Blank /\ pc'[r] = "lookup" /\ Mine(r) = {}
    BY <1>1, <2>1 DEF Types, MineInv, Working
  <2>. QED
    BY <1>1, <1>2, <1>4, <2>1, <2>2, <2>3, <2>4, GivesUp DEF Working
<1>5. CASE Fail(r)
  BY <1>1, <1>2, <1>5, FailKeeps DEF Active
<1>. QED
  BY <1>3, <1>4, <1>5 DEF InsertEntry

LEMMA LookUpKeeps ==
  ASSUME Inv, NEW r \in Requests, LookUpDuplicate(r)
  PROVE  Inv'
<1>1. /\ Types /\ DraftInv(r) /\ MineInv(r) /\ pc[r] = "lookup"
      /\ caseSeq \in Nat /\ positionSeq \in Nat
  BY DEF Inv, LookUpDuplicate, Types
<1>2. /\ dispatched' = dispatched /\ request' = request /\ earlier' = earlier
      /\ cases' = cases /\ caseSeq' = caseSeq /\ positionSeq' = positionSeq
      /\ draft' = draft
  BY DEF LookUpDuplicate, sequences
<1>3. PICK c \in SameNumber(r) : Finish(r, "duplicate", c.ref)
  BY <1>1 DEF LookUpDuplicate, MineInv
<1>4. /\ pc' = [pc EXCEPT ![r] = "done"]
      /\ reply' = [reply EXCEPT ![r] = [code |-> "duplicate", ref |-> c.ref]]
  BY <1>3 DEF Finish
<1>5. c.ref \in Nat
  BY <1>1, CaseFields DEF SameNumber, Types
<1>6. Types'
  <2>1. [code |-> "duplicate", ref |-> c.ref] \in [code : Codes, ref : Nat]
    BY <1>5 DEF Codes
  <2>. QED
    BY <1>1, <1>2, <1>4, <2>1 DEF Types
<1>7. Frame(r)
  BY <1>1, <1>2, <1>4 DEF Frame, Types
<1>8. /\ draft'[r] = Blank /\ Mine(r) = {} /\ pc'[r] = "done"
      /\ reply'[r].code = "duplicate" /\ reply'[r].ref = c.ref
  BY <1>1, <1>2, <1>4 DEF DraftInv, MineInv, Working, Types
<1>. QED
  BY <1>1, <1>2, <1>6, <1>7, <1>8, GivesUp DEF Working

LEMMA LedgerTrails ==
  /\ Ledger!Trail(FALSE) = <<"ENTRY_RECEIVED", "VALIDATION_COMPLETED">>
  /\ Ledger!Trail(TRUE) = <<"ENTRY_RECEIVED", "VALIDATION_COMPLETED", "EXCEPTION_OPENED">>
BY DEF Ledger!Trail

\* An open transaction adds to its trail.
LEMMA LineAdded ==
  ASSUME Inv, NEW r \in Requests, pc[r] \in Working,
         NEW label \in Working \ {"insert"}, NEW trail \in Seq(Lines),
         pc[r] # "insert" /\ label \in {"validated", "open", "commit"},
         draft' = [draft EXCEPT ![r].trail = trail], pc' = [pc EXCEPT ![r] = label],
         UNCHANGED <<cases, sequences, dispatched, request, earlier, reply>>,
         pc[r] # "commit",
         label = "validated" => Actions([draft[r] EXCEPT !.trail = trail]) = <<"ENTRY_RECEIVED">>,
         label \in {"open", "commit"} =>
            /\ Actions([draft[r] EXCEPT !.trail = trail]) = Ledger!Trail(FALSE)
            /\ Opens(draft[r]) <=> label = "open"
  PROVE  Inv'
<1>. DEFINE d == [draft[r] EXCEPT !.trail = trail]
<1>1. /\ Types /\ DraftInv(r) /\ caseSeq \in Nat /\ positionSeq \in Nat
      /\ draft[r] \in Case /\ RowsOf(r, draft[r])
  BY OpenDraft DEF Inv, Types
<1>2. /\ d \in Case
      /\ d.ref = draft[r].ref /\ d.by = draft[r].by /\ d.findings = draft[r].findings
      /\ d.entry = draft[r].entry /\ d.position = draft[r].position
  BY <1>1, WithTrail
<1>3. draft' = [draft EXCEPT ![r] = d]
  OBVIOUS
<1>4. /\ cases' = cases /\ caseSeq' = caseSeq /\ positionSeq' = positionSeq
      /\ dispatched' = dispatched /\ request' = request /\ earlier' = earlier
      /\ reply' = reply
  BY DEF sequences
<1>5. /\ label = "validated" => Actions(d) = <<"ENTRY_RECEIVED">>
      /\ label \in {"open", "commit"} => /\ Actions(d) = Ledger!Trail(FALSE)
                                         /\ Opens(draft[r]) <=> label = "open"
  OBVIOUS
<1>. HIDE DEF d
<1>6. draft'[r] = d /\ pc'[r] = label
  BY <1>1, <1>3 DEF Types
<1>7. Types'
  BY <1>1, <1>2, <1>3, <1>4 DEF Types, Working
<1>8. Frame(r)
  BY <1>1, <1>3, <1>4 DEF Frame, Types
<1>9. RowsOf(r, draft[r])'
  BY <1>1, <1>2, <1>4, <1>6 DEF RowsOf
<1>10. draft[r].entry = {Stored(request[r].entry)} /\ draft[r].position = 0
  BY <1>1 DEF DraftInv
<1>11. Opens(d) <=> Opens(draft[r])
  BY <1>2 DEF Opens
<1>12. label = "commit" => Whole(r, draft[r])'
  <2>. SUFFICES ASSUME label = "commit" PROVE Whole(r, draft[r])'
    OBVIOUS
  <2>1. ~ Opens(d) /\ Ledger!Trail(Opens(d)) = Ledger!Trail(FALSE)
    BY <1>5, <1>11 DEF Ledger!Trail
  <2>. QED
    BY <1>2, <1>4, <1>5, <1>6, <1>10, <2>1 DEF Whole
<1>13. DraftInv(r)'
  BY <1>2, <1>4, <1>5, <1>6, <1>9, <1>10, <1>11, <1>12 DEF DraftInv, Working
<1>14. \A c \in Beside(r) : ~ Collide(c, d)
  BY <1>2, DraftCollidesWithNone, SameKeys
<1>. QED
  BY <1>4, <1>6, <1>7, <1>8, <1>13, <1>14, Writes

LEMMA AppendReceivedKeeps ==
  ASSUME Inv, NEW r \in Requests, AppendReceived(r)
  PROVE  Inv'
<1>. DEFINE line == Line("ENTRY_RECEIVED", Provided(request[r].entry))
<1>1. pc[r] = "received" /\ pc[r] \in Working
  BY DEF AppendReceived, Working
<1>2. CASE /\ draft' = [draft EXCEPT ![r].trail = <<line>>]
           /\ Goto(r, "validated")
           /\ UNCHANGED <<cases, sequences, reply>>
  <2>1. line \in Lines /\ line.action = "ENTRY_RECEIVED"
    BY DEF Line, Lines, Provided
  <2>2. draft[r] \in Case
    BY <1>1, OpenDraft
  <2>3. /\ pc' = [pc EXCEPT ![r] = "validated"]
        /\ UNCHANGED <<cases, sequences, dispatched, request, earlier, reply>>
    BY <1>2 DEF Goto, AppendReceived
  <2>. HIDE DEF line
  <2>4. <<line>> \in Seq(Lines)
    BY <2>1
  <2>5. Actions([draft[r] EXCEPT !.trail = <<line>>]) = <<"ENTRY_RECEIVED">>
    <3>1. [draft[r] EXCEPT !.trail = <<line>>].trail = <<line>>
      BY <2>2, <2>4, WithTrail
    <3>. QED
      BY <2>1, <3>1 DEF Actions
  <2>6. "validated" \in Working \ {"insert"}
    BY DEF Working
  <2>. QED
    BY <1>1, <1>2, <2>3, <2>4, <2>5, <2>6, LineAdded
<1>3. CASE Fail(r)
  BY <1>1, <1>3, FailKeeps DEF Active, AppendReceived
<1>. QED
  BY <1>2, <1>3 DEF AppendReceived

LEMMA AppendValidatedKeeps ==
  ASSUME Inv, NEW r \in Requests, AppendValidated(r)
  PROVE  Inv'
<1>. DEFINE fields == FieldsIn(draft[r].findings)
            trail == Append(draft[r].trail, Line("VALIDATION_COMPLETED", fields))
            label == IF Opens(draft[r]) THEN "open" ELSE "commit"
<1>1. pc[r] = "validated" /\ pc[r] \in Working
  BY DEF AppendValidated, Working
<1>2. CASE /\ draft' = [draft EXCEPT ![r].trail =
                          Append(@, Line("VALIDATION_COMPLETED", fields))]
           /\ Goto(r, label)
           /\ UNCHANGED <<cases, sequences, reply>>
  <2>1. /\ draft[r] \in Case /\ draft[r].trail \in Seq(Lines)
        /\ fields \in SUBSET EntryFields /\ DraftInv(r)
    BY <1>1, OpenDraft, CaseFields DEF Inv
  <2>2. Actions(draft[r]) = <<"ENTRY_RECEIVED">>
    BY <1>1, <2>1 DEF DraftInv
  <2>3. /\ draft' = [draft EXCEPT ![r].trail = trail]
        /\ pc' = [pc EXCEPT ![r] = label]
        /\ UNCHANGED <<cases, sequences, dispatched, request, earlier, reply>>
    BY <1>2 DEF Goto, AppendValidated, sequences
  <2>4. trail \in Seq(Lines)
    BY <2>1 DEF Line, Lines
  <2>5. Actions([draft[r] EXCEPT !.trail = trail]) = Ledger!Trail(FALSE)
    <3>. DEFINE d == [draft[r] EXCEPT !.trail = trail]
    <3>1. d.trail = trail
      BY <2>1, <2>4, WithTrail
    <3>2. /\ Len(draft[r].trail) \in Nat
          /\ DOMAIN Actions(d) = 1 .. (Len(draft[r].trail) + 1)
          /\ \A k \in 1 .. Len(draft[r].trail) : Actions(d)[k] = draft[r].trail[k].action
          /\ Actions(d)[Len(draft[r].trail) + 1] = "VALIDATION_COMPLETED"
          /\ DOMAIN Actions(draft[r]) = 1 .. Len(draft[r].trail)
          /\ \A k \in 1 .. Len(draft[r].trail) : Actions(draft[r])[k] = draft[r].trail[k].action
      <4>. HIDE DEF d, fields
      <4>. QED
        BY <2>1, <3>1, ActionsGrow
    <3>. HIDE DEF d, fields
    <3>3. Len(draft[r].trail) = 1
      BY <2>2, <3>2
    <3>4. DOMAIN Actions(d) = 1 .. 2 /\ Actions(d)[1] = "ENTRY_RECEIVED"
          /\ Actions(d)[2] = "VALIDATION_COMPLETED"
      BY <2>2, <3>2, <3>3
    <3>5. Actions(d) = [k \in DOMAIN Actions(d) |-> Actions(d)[k]]
      BY DEF Actions
    <3>6. Actions(d) = <<"ENTRY_RECEIVED", "VALIDATION_COMPLETED">>
      BY <3>4, <3>5
    <3>. QED
      BY <3>6, LedgerTrails DEF d
  <2>6. label \in Working \ {"insert"} /\ label \in {"open", "commit"}
        /\ (Opens(draft[r]) <=> label = "open")
    BY DEF Working
  <2>. HIDE DEF trail, label
  <2>. QED
    BY <1>1, <2>3, <2>4, <2>5, <2>6, LineAdded
<1>3. CASE Fail(r)
  BY <1>1, <1>3, FailKeeps DEF Active, AppendValidated
<1>. QED
  BY <1>2, <1>3 DEF AppendValidated

LEMMA OpenExceptionKeeps ==
  ASSUME Inv, NEW r \in Requests, OpenException(r)
  PROVE  Inv'
<1>. DEFINE fields == FieldsIn(draft[r].findings)
            trail == Append(draft[r].trail, Line("EXCEPTION_OPENED", fields))
            d == [draft[r] EXCEPT !.position = positionSeq + 1, !.recommendation = "PENDING",
                                  !.trail = trail]
<1>1. /\ Types /\ DraftInv(r) /\ pc[r] = "open" /\ pc[r] \in Working
      /\ caseSeq \in Nat /\ positionSeq \in Nat /\ positionSeq + 1 \in Nat
  BY DEF Inv, OpenException, Types, Working
<1>2. /\ draft[r] \in Case /\ RowsOf(r, draft[r]) /\ Mine(r) = {}
      /\ fields \in SUBSET EntryFields /\ draft[r].trail \in Seq(Lines)
  BY <1>1, OpenDraft, CaseFields
<1>3. /\ cases' = cases /\ caseSeq' = caseSeq /\ positionSeq' = positionSeq + 1
      /\ dispatched' = dispatched /\ request' = request /\ earlier' = earlier
      /\ reply' = reply /\ pc' = [pc EXCEPT ![r] = "commit"]
  BY DEF OpenException, Goto
<1>4. draft' = [draft EXCEPT ![r] = d]
  BY <1>1, <1>2 DEF OpenException, Types
<1>5. trail \in Seq(Lines)
  BY <1>2 DEF Line, Lines
<1>6. /\ d \in Case
      /\ d.ref = draft[r].ref /\ d.by = draft[r].by /\ d.findings = draft[r].findings
      /\ d.entry = draft[r].entry /\ d.position = positionSeq + 1 /\ d.trail = trail
  <2>1. \A t \in Seq(Lines), n \in Nat :
          LET e == [draft[r] EXCEPT !.position = n, !.recommendation = "PENDING", !.trail = t]
          IN /\ e \in Case
             /\ e.ref = draft[r].ref /\ e.by = draft[r].by /\ e.findings = draft[r].findings
             /\ e.entry = draft[r].entry /\ e.position = n /\ e.trail = t
    BY <1>2, WithException
  <2>. HIDE DEF trail
  <2>. QED
    BY <1>1, <1>5, <2>1
<1>7. Actions(draft[r]) = Ledger!Trail(FALSE) /\ Opens(draft[r])
  BY <1>1 DEF DraftInv
<1>. HIDE DEF d, fields
<1>8. /\ Len(draft[r].trail) \in Nat
      /\ DOMAIN Actions(d) = 1 .. (Len(draft[r].trail) + 1)
      /\ \A k \in 1 .. Len(draft[r].trail) : Actions(d)[k] = draft[r].trail[k].action
      /\ Actions(d)[Len(draft[r].trail) + 1] = "EXCEPTION_OPENED"
      /\ DOMAIN Actions(draft[r]) = 1 .. Len(draft[r].trail)
      /\ \A k \in 1 .. Len(draft[r].trail) : Actions(draft[r])[k] = draft[r].trail[k].action
  <2>1. d.trail = Append(draft[r].trail, Line("EXCEPTION_OPENED", fields))
    BY <1>6
  <2>2. draft[r].trail \in Seq(Lines) /\ fields \in SUBSET EntryFields
    BY <1>2
  <2>. QED
    BY <2>1, <2>2, ActionsGrow
<1>9. Actions(d) = Ledger!Trail(TRUE)
  <2>0. Actions(draft[r]) = <<"ENTRY_RECEIVED", "VALIDATION_COMPLETED">>
    BY <1>7, LedgerTrails
  <2>1. Len(draft[r].trail) = 2
    BY <1>8, <2>0
  <2>2. /\ DOMAIN Actions(d) = 1 .. 3 /\ Actions(d)[1] = "ENTRY_RECEIVED"
        /\ Actions(d)[2] = "VALIDATION_COMPLETED" /\ Actions(d)[3] = "EXCEPTION_OPENED"
    BY <1>8, <2>0, <2>1
  <2>3. Actions(d) = [k \in DOMAIN Actions(d) |-> Actions(d)[k]]
    BY DEF Actions
  <2>4. Actions(d) = <<"ENTRY_RECEIVED", "VALIDATION_COMPLETED", "EXCEPTION_OPENED">>
    BY <2>2, <2>3
  <2>. QED
    BY <2>4, LedgerTrails
<1>10. draft'[r] = d /\ pc'[r] = "commit"
  BY <1>1, <1>3, <1>4 DEF Types
<1>11. Types'
  BY <1>1, <1>3, <1>4, <1>6 DEF Types
<1>12. Frame(r)
  BY <1>1, <1>3, <1>4 DEF Frame, Types
<1>13. RowsOf(r, draft[r])'
  <2>1. d.position \in 0 .. (positionSeq + 1)
    BY <1>1, <1>6
  <2>. QED
    BY <1>2, <1>3, <1>6, <1>10, <2>1 DEF RowsOf
<1>14. \A c \in cases : c.position \in 0 .. positionSeq
  BY DEF Inv, CaseInv, RowsOf
<1>15. draft[r].entry = {Stored(request[r].entry)}
  BY <1>1 DEF DraftInv
<1>16. Whole(r, draft[r])'
  <2>1. Opens(d) /\ Ledger!Trail(Opens(d)) = Ledger!Trail(TRUE)
    BY <1>6, <1>7 DEF Opens, Ledger!Trail
  <2>2. \A c \in earlier[r] : c.position < d.position
    BY <1>1, <1>6, <1>14 DEF Types
  <2>3. d.position # 0
    BY <1>1, <1>6
  <2>. QED
    BY <1>3, <1>6, <1>9, <1>10, <1>15, <2>1, <2>2, <2>3 DEF Whole
<1>17. DraftInv(r)'
  BY <1>3, <1>6, <1>10, <1>13, <1>15, <1>16 DEF DraftInv, Working
<1>18. ASSUME NEW c \in Beside(r)
       PROVE  ~ Collide(c, d)
  <2>1. ~ Collide(c, draft[r])
    BY <1>1, DraftCollidesWithNone
  <2>2. c.position \in 0 .. positionSeq
    <3>1. CASE c \in cases
      BY <1>14, <3>1
    <3>2. CASE c \notin cases
      BY <3>2 DEF Beside, Inv, DraftInv, RowsOf
    <3>. QED
      BY <3>1, <3>2
  <2>3. c.position # d.position
    BY <1>1, <1>6, <2>2
  <2>. QED
    BY <1>6, <2>1, <2>3 DEF Collide
<1>. QED
  BY <1>1, <1>3, <1>10, <1>11, <1>12, <1>17, <1>18, Writes DEF Working

\* A COMMIT takes effect, whether or not its acknowledgement arrives.
LEMMA PublishKeeps ==
  ASSUME Inv, NEW r \in Requests, pc[r] = "commit", Publish(r),
         UNCHANGED <<dispatched, request, earlier>>,
         \/ /\ pc' = [pc EXCEPT ![r] = "respond"]
            /\ reply' = reply
         \/ /\ pc' = [pc EXCEPT ![r] = "done"]
            /\ reply' = [reply EXCEPT ![r] = [code |-> "failed", ref |-> 0]]
            /\ "lost_ack" \in Faults
  PROVE  Inv'
<1>1. /\ Types /\ DraftInv(r) /\ MineInv(r) /\ ReplyInv(r) /\ ReferencesInv
      /\ caseSeq \in Nat /\ positionSeq \in Nat /\ pc[r] \in Working
  BY DEF Inv, Types, Working
<1>2. /\ draft[r] \in Case /\ RowsOf(r, draft[r]) /\ Mine(r) = {} /\ Whole(r, draft[r])
      /\ reply[r].code = "none"
  BY <1>1 DEF DraftInv, MineInv, ReplyInv
<1>3. /\ cases' = cases \cup {draft[r]} /\ caseSeq' = caseSeq /\ positionSeq' = positionSeq
      /\ dispatched' = dispatched /\ request' = request /\ earlier' = earlier
      /\ draft' = [draft EXCEPT ![r] = Blank]
  BY DEF Publish, sequences
<1>4. /\ draft'[r] = Blank
      /\ \/ pc'[r] = "respond" /\ reply'[r].code = "none"
         \/ pc'[r] = "done" /\ reply'[r].code = "failed" /\ "lost_ack" \in Faults
  BY <1>1, <1>2, <1>3 DEF Types
<1>5. Types'
  <2>1. earlier' \in [Requests -> SUBSET cases']
    <3>1. earlier \in [Requests -> SUBSET cases] /\ SUBSET cases \subseteq SUBSET cases'
      BY <1>1, <1>3 DEF Types
    <3>. QED
      BY <1>3, <3>1
  <2>2. reply' \in [Requests -> [code : Codes, ref : Nat]]
    <3>1. reply \in [Requests -> [code : Codes, ref : Nat]]
      BY <1>1 DEF Types
    <3>2. [code |-> "failed", ref |-> 0] \in [code : Codes, ref : Nat]
      BY DEF Codes
    <3>. QED
      BY <3>1, <3>2
  <2>3. /\ draft' \in [Requests -> Case \cup {Blank}] /\ cases' \subseteq Case
        /\ pc' = [pc EXCEPT ![r] = "respond"] \/ pc' = [pc EXCEPT ![r] = "done"]
    BY <1>1, <1>2, <1>3 DEF Types
  <2>. QED
    BY <1>1, <1>3, <2>1, <2>2, <2>3 DEF Types
<1>6. Frame(r)
  BY <1>1, <1>3 DEF Frame, Types
<1>7. DraftInv(r)'
  BY <1>4 DEF DraftInv, Working
<1>8. draft[r] \in Mine(r)'
  BY <1>2, <1>3 DEF Mine, RowsOf
<1>9. MineInv(r)' /\ ReplyInv(r)'
  BY <1>4, <1>8 DEF MineInv, ReplyInv, Working
<1>10. Rows' \subseteq Rows
  BY <1>1, <1>3, <1>4, <1>6 DEF Rows, OpenDrafts, Frame, Working
<1>11. NoCollision'
  BY <1>10, RowsLeft
<1>12. DispatchInv'
  BY <1>3, <1>4, <1>6, DispatchKept
<1>13. Unstamped' \subseteq Unstamped
  BY <1>4, <1>6 DEF Unstamped, Frame
<1>14. ReferencesInv'
  BY <1>1, <1>3, <1>13, ReferencesKept
<1>15. \A c \in cases' : c \in cases \/ CaseInv(c)'
  <2>1. \A c : c = draft[r] => RowsOf(r, c)' /\ Whole(r, c)'
    BY <1>1, <1>2, <1>3, <1>5, RowsOfKept
  <2>. QED
    BY <1>3, <2>1 DEF CaseInv
<1>. QED
  BY <1>5, <1>6, <1>7, <1>9, <1>11, <1>12, <1>14, <1>15, StepKeeps

LEMMA RespondKeeps ==
  ASSUME Inv, NEW r \in Requests, Respond(r)
  PROVE  Inv'
<1>1. /\ Types /\ DraftInv(r) /\ MineInv(r) /\ ReplyInv(r) /\ ReferencesInv /\ DispatchInv
      /\ caseSeq \in Nat /\ positionSeq \in Nat /\ pc[r] = "respond"
      /\ NoCollision /\ dispatched \in Seq(Nat)
  BY DEF Inv, Types, Respond
<1>2. PICK c \in Mine(r) :
        /\ dispatched' = IF Opens(c) THEN Append(dispatched, c.ref) ELSE dispatched
        /\ Finish(r, "received", c.ref)
  BY DEF Respond
<1>3. /\ cases' = cases /\ caseSeq' = caseSeq /\ positionSeq' = positionSeq
      /\ request' = request /\ earlier' = earlier /\ draft' = draft
      /\ pc' = [pc EXCEPT ![r] = "done"]
      /\ reply' = [reply EXCEPT ![r] = [code |-> "received", ref |-> c.ref]]
  BY <1>2 DEF Respond, Finish, sequences
<1>4. /\ c \in cases /\ c.by = {r} /\ c.ref \in Nat /\ c \in Mine(r)'
      /\ reply[r].code = "none"
  BY <1>1, <1>2, <1>3, CaseFields DEF Mine, Types, ReplyInv
<1>5. /\ draft'[r] = Blank /\ pc'[r] = "done"
      /\ reply'[r].code = "received" /\ reply'[r].ref = c.ref
  BY <1>1, <1>3 DEF Types, DraftInv, Working
<1>6. Types'
  <2>1. [code |-> "received", ref |-> c.ref] \in [code : Codes, ref : Nat]
    BY <1>4 DEF Codes
  <2>2. dispatched' \in Seq(Nat)
    BY <1>1, <1>2, <1>4
  <2>. QED
    BY <1>1, <1>3, <2>1, <2>2 DEF Types
<1>7. Frame(r)
  BY <1>1, <1>3 DEF Frame, Types
<1>8. DraftInv(r)' /\ MineInv(r)' /\ ReplyInv(r)'
  BY <1>4, <1>5 DEF DraftInv, MineInv, ReplyInv, Working
<1>9. Rows' \subseteq Rows
  BY <1>1, <1>3, <1>5, <1>7 DEF Rows, OpenDrafts, Frame, Working
<1>10. NoCollision'
  BY <1>9, RowsLeft
<1>11. \A d \in cases : d.ref = c.ref \/ d.by = {r} => d = c
  BY <1>1, <1>4 DEF NoCollision, Distinct, Collide
<1>12. /\ DOMAIN dispatched = 1 .. Len(dispatched) /\ Len(dispatched) \in Nat
       /\ \A i \in DOMAIN dispatched : i \in DOMAIN dispatched' /\ dispatched'[i] = dispatched[i]
       /\ \A i \in DOMAIN dispatched' :
             i \in DOMAIN dispatched \/ (i = Len(dispatched) + 1 /\ dispatched'[i] = c.ref /\ Opens(c))
       /\ Opens(c) => /\ Len(dispatched) + 1 \in DOMAIN dispatched'
                      /\ dispatched'[Len(dispatched) + 1] = c.ref
  <2>1. DOMAIN dispatched = 1 .. Len(dispatched) /\ Len(dispatched) \in Nat
    BY <1>1
  <2>2. CASE Opens(c)
    <3>. DEFINE longer == Append(dispatched, c.ref)
    <3>1. /\ DOMAIN longer = 1 .. (Len(dispatched) + 1)
          /\ \A i \in 1 .. Len(dispatched) : longer[i] = dispatched[i]
          /\ longer[Len(dispatched) + 1] = c.ref
      BY <1>1, <1>4
    <3>2. dispatched' = longer
      BY <1>2, <2>2
    <3>. HIDE DEF longer
    <3>. QED
      BY <2>1, <2>2, <3>1, <3>2
  <2>3. CASE ~ Opens(c)
    BY <1>2, <2>1, <2>3
  <2>. QED
    BY <2>2, <2>3
<1>13. \A i \in DOMAIN dispatched : dispatched[i] # c.ref
  <2>. SUFFICES ASSUME NEW i \in DOMAIN dispatched, dispatched[i] = c.ref
                PROVE  FALSE
    OBVIOUS
  <2>1. PICK d \in cases, q \in Requests : /\ d.ref = dispatched[i] /\ Opens(d)
                                           /\ d.by = {q} /\ reply[q].code = "received"
    BY <1>1 DEF DispatchInv
  <2>2. d = c
    BY <1>11, <2>1
  <2>3. q = r
    BY <1>4, <2>1, <2>2
  <2>. QED
    BY <1>4, <2>1, <2>3
<1>14. DispatchInv'
  <2>1. \A i \in DOMAIN dispatched' :
          \E d \in cases', q \in Requests :
             /\ d.ref = dispatched'[i] /\ Opens(d)
             /\ d.by = {q} /\ reply'[q].code = "received"
    <3>. SUFFICES ASSUME NEW i \in DOMAIN dispatched'
                  PROVE  \E d \in cases', q \in Requests :
                           /\ d.ref = dispatched'[i] /\ Opens(d)
                           /\ d.by = {q} /\ reply'[q].code = "received"
      OBVIOUS
    <3>1. CASE i \in DOMAIN dispatched
      <4>1. PICK d \in cases, q \in Requests :
              /\ d.ref = dispatched[i] /\ Opens(d)
              /\ d.by = {q} /\ reply[q].code = "received"
        BY <1>1, <3>1 DEF DispatchInv
      <4>2. q # r
        BY <1>4, <4>1
      <4>3. reply'[q].code = "received" /\ d \in cases' /\ d.ref = dispatched'[i]
        BY <1>3, <1>7, <1>12, <3>1, <4>1, <4>2 DEF Frame
      <4>. QED
        BY <4>1, <4>3
    <3>2. CASE i \notin DOMAIN dispatched
      BY <1>3, <1>4, <1>5, <1>12, <3>2
    <3>. QED
      BY <3>1, <3>2
  <2>2. \A i, j \in DOMAIN dispatched' : dispatched'[i] = dispatched'[j] => i = j
    BY <1>1, <1>12, <1>13 DEF DispatchInv
  <2>3. \A q \in Requests : reply'[q].code = "received" =>
          \A d \in Mine(q)' : Opens(d) => \E i \in DOMAIN dispatched' : dispatched'[i] = d.ref
    <3>. SUFFICES ASSUME NEW q \in Requests, reply'[q].code = "received",
                         NEW d \in Mine(q)', Opens(d)
                  PROVE  \E i \in DOMAIN dispatched' : dispatched'[i] = d.ref
      OBVIOUS
    <3>1. d \in cases /\ d.by = {q}
      BY <1>3 DEF Mine
    <3>2. CASE q = r
      BY <1>11, <1>12, <3>1, <3>2
    <3>3. CASE q # r
      <4>1. reply[q].code = "received" /\ d \in Mine(q)
        BY <1>7, <3>1, <3>3 DEF Frame, Mine
      <4>2. PICK i \in DOMAIN dispatched : dispatched[i] = d.ref
        BY <1>1, <4>1 DEF DispatchInv
      <4>. QED
        BY <1>12, <4>2
    <3>. QED
      BY <3>2, <3>3
  <2>. QED
    BY <2>1, <2>2, <2>3 DEF DispatchInv
<1>15. Unstamped' \subseteq Unstamped
  BY <1>5, <1>7 DEF Unstamped, Frame
<1>16. ReferencesInv'
  BY <1>1, <1>3, <1>15, ReferencesKept
<1>. QED
  BY <1>3, <1>6, <1>7, <1>8, <1>10, <1>14, <1>16, StepKeeps

LEMMA CrashKeeps ==
  ASSUME Inv, Crash
  PROVE  Inv'
<1>1. Types /\ DispatchInv /\ ReferencesInv
  BY DEF Inv
<1>2. /\ cases' = cases /\ caseSeq' = caseSeq /\ positionSeq' = positionSeq
      /\ dispatched' = dispatched /\ request' = request /\ earlier' = earlier
      /\ reply' = reply
      /\ draft' = [r \in Requests |-> Blank]
      /\ pc' = [r \in Requests |-> IF Active(r) THEN "lost" ELSE pc[r]]
  BY DEF Crash, sequences
<1>3. Types'
  BY <1>1, <1>2 DEF Types
<1>4. ASSUME NEW r \in Requests
      PROVE  /\ draft'[r] = Blank
             /\ pc'[r] = "lost" \/ (pc'[r] = pc[r] /\ pc[r] \in {"idle", "done", "lost"})
             /\ pc[r] = "done" => pc'[r] = "done"
  BY <1>2 DEF Active
<1>5. ASSUME NEW r \in Requests
      PROVE  DraftInv(r)' /\ MineInv(r)' /\ ReplyInv(r)'
  <2>1. DraftInv(r) /\ MineInv(r) /\ ReplyInv(r)
    BY DEF Inv
  <2>2. Mine(r)' = Mine(r) /\ SameNumber(r)' = SameNumber(r) /\ reply'[r] = reply[r]
    BY <1>2 DEF Mine, SameNumber
  <2>3. DraftInv(r)'
    BY <1>4 DEF DraftInv, Working
  <2>4. MineInv(r)'
    BY <1>4, <2>1, <2>2 DEF MineInv, Working
  <2>5. ReplyInv(r)'
    BY <1>4, <2>1, <2>2 DEF ReplyInv
  <2>. QED
    BY <2>3, <2>4, <2>5
<1>6. Rows' \subseteq Rows
  BY <1>2, <1>4 DEF Rows, OpenDrafts, Working
<1>7. NoCollision'
  BY <1>6, RowsLeft
<1>8. \A c \in cases' : CaseInv(c)'
  <2>. SUFFICES ASSUME NEW c \in cases PROVE CaseInv(c)'
    BY <1>2
  <2>1. PICK r \in Requests : RowsOf(r, c) /\ Whole(r, c)
    BY DEF Inv, CaseInv
  <2>2. RowsOf(r, c)' /\ Whole(r, c)'
    BY <1>2, <2>1 DEF RowsOf, Whole
  <2>. QED
    BY <2>2 DEF CaseInv
<1>9. DispatchInv'
  BY <1>1, <1>2 DEF DispatchInv, Mine
<1>10. Unstamped' \subseteq Unstamped
  BY <1>4 DEF Unstamped
<1>11. ReferencesInv'
  BY <1>1, <1>2, <1>10, ReferencesKept
<1>. QED
  BY <1>3, <1>5, <1>7, <1>8, <1>9, <1>11 DEF Inv

LEMMA StutterKeeps ==
  ASSUME Inv, UNCHANGED vars
  PROVE  Inv'
<1>. USE DEF vars
<1>1. Types' /\ NoCollision' /\ ReferencesInv'
  BY DEF Inv, Types, NoCollision, OpenDrafts, ReferencesInv, Unstamped
<1>2. ASSUME NEW r \in Requests
      PROVE  DraftInv(r)' /\ MineInv(r)' /\ ReplyInv(r)'
  <2>1. DraftInv(r) /\ MineInv(r) /\ ReplyInv(r)
    BY DEF Inv
  <2>2. Mine(r)' = Mine(r) /\ SameNumber(r)' = SameNumber(r)
    BY DEF Mine, SameNumber
  <2>3. DraftInv(r)'
    BY <2>1 DEF DraftInv, RowsOf, Whole
  <2>4. MineInv(r)' /\ ReplyInv(r)'
    BY <2>1, <2>2 DEF MineInv, ReplyInv
  <2>. QED
    BY <2>3, <2>4
<1>3. \A c \in cases' : CaseInv(c)'
  BY DEF Inv, CaseInv, RowsOf, Whole
<1>4. DispatchInv'
  BY DEF Inv, DispatchInv, Mine
<1>. QED
  BY <1>1, <1>2, <1>3, <1>4 DEF Inv

LEMMA InvNext == Inv /\ [Next]_vars => Inv'
<1>. SUFFICES ASSUME Inv, [Next]_vars PROVE Inv'
  OBVIOUS
<1>1. ASSUME NEW r \in Requests, Submit(r) PROVE Inv'
  BY <1>1, SubmitKeeps
<1>2. ASSUME NEW r \in Requests, Stamp(r) PROVE Inv'
  BY <1>2, StampKeeps
<1>3. ASSUME NEW r \in Requests, InsertEntry(r) PROVE Inv'
  BY <1>3, InsertEntryKeeps
<1>4. ASSUME NEW r \in Requests, LookUpDuplicate(r) PROVE Inv'
  BY <1>4, LookUpKeeps
<1>5. ASSUME NEW r \in Requests, AppendReceived(r) PROVE Inv'
  BY <1>5, AppendReceivedKeeps
<1>6. ASSUME NEW r \in Requests, AppendValidated(r) PROVE Inv'
  BY <1>6, AppendValidatedKeeps
<1>7. ASSUME NEW r \in Requests, OpenException(r) PROVE Inv'
  BY <1>7, OpenExceptionKeeps
<1>8. ASSUME NEW r \in Requests, Commit(r) PROVE Inv'
  BY <1>8, PublishKeeps DEF Commit, Goto
<1>9. ASSUME NEW r \in Requests, Respond(r) PROVE Inv'
  BY <1>9, RespondKeeps
<1>10. ASSUME NEW r \in Requests, EnvironmentError(r) PROVE Inv'
  BY <1>10, FailKeeps DEF EnvironmentError
<1>11. ASSUME NEW r \in Requests, LoseAck(r) PROVE Inv'
  BY <1>11, PublishKeeps DEF LoseAck, Finish
<1>12. CASE Crash
  BY <1>12, CrashKeeps
<1>13. CASE UNCHANGED vars
  BY <1>13, StutterKeeps
<1>. QED
  BY <1>1, <1>2, <1>3, <1>4, <1>5, <1>6, <1>7, <1>8, <1>9, <1>10, <1>11, <1>12, <1>13
     DEF Next, Step, Quiescent

LEMMA AlwaysInv == Spec => []Inv
BY InvInit, InvNext, PTL DEF Spec

-----------------------------------------------------------------------------
(* The properties. *)

\* The tables and the transactions always hold rows of the declared types, whatever
\* the requests, the entries and the faults.
THEOREM AlwaysTyped == Spec => []TypeOK
<1>1. Inv => TypeOK
  <2>. SUFFICES ASSUME Inv PROVE TypeOK
    OBVIOUS
  <2>1. Types
    BY DEF Inv
  <2>2. \A r \in Requests : earlier[r] \subseteq cases /\ (draft[r] = Blank \/ draft[r] \in Case)
    BY <2>1 DEF Types
  <2>. QED
    BY <2>1, <2>2 DEF Types, TypeOK
<1>. QED
  BY <1>1, AlwaysInv, PTL

\* A row is the only one with its reference, and its request's only one.
LEMMA OnlyRow ==
  ASSUME Inv, NEW c \in cases, NEW d \in cases, c.ref = d.ref \/ c.by = d.by
  PROVE  c = d
BY DEF Inv, NoCollision, Distinct, Collide

\* A 201 names the one case that was made from the request, a 409 a committed case that
\* has the entry number, found after the rollback of the transaction that met it, and a
\* 422 or a 500 left no case, unless the acknowledgement of the COMMIT was lost: for
\* any number of concurrent receipts.
THEOREM RepliesAlwaysTruthful == Spec => []RepliesTruthful
<1>1. Inv => RepliesTruthful
  <2>. SUFFICES ASSUME Inv, NEW r \in Requests,
                       NEW named, named = {c \in cases : c.ref = reply[r].ref}
                PROVE  /\ reply[r].code = "received"  => named # {} /\ named = Mine(r)
                       /\ reply[r].code = "duplicate" => named \cap SameNumber(r) # {} /\ Mine(r) = {}
                       /\ reply[r].code = "malformed" => Mine(r) = {}
                       /\ reply[r].code = "failed"    => "lost_ack" \in Faults \/ Mine(r) = {}
    BY DEF RepliesTruthful
  <2>1. ReplyInv(r)
    BY DEF Inv
  <2>2. CASE reply[r].code = "received"
    <3>1. PICK c \in Mine(r) : c.ref = reply[r].ref
      BY <2>1, <2>2 DEF ReplyInv
    <3>2. c \in cases /\ c.by = {r}
      BY <3>1 DEF Mine
    <3>3. \A d \in cases : d.ref = reply[r].ref <=> d.by = {r}
      BY <3>1, <3>2, OnlyRow
    <3>4. named = Mine(r) /\ c \in named
      BY <3>1, <3>2, <3>3 DEF Mine
    <3>. QED
      BY <2>2, <3>4
  <2>3. CASE reply[r].code = "duplicate"
    BY <2>1, <2>3 DEF ReplyInv, SameNumber
  <2>4. CASE reply[r].code \notin {"received", "duplicate"}
    BY <2>1, <2>4 DEF ReplyInv
  <2>. QED
    BY <2>2, <2>3, <2>4
<1>. QED
  BY <1>1, AlwaysInv, PTL

\* No two cases share a reference or a receipt position, and a case received when its
\* client knew another already comes after it in both, whatever the other transactions
\* rolled back in between.
THEOREM ReceiptsAlwaysOrdered == Spec => []ReceiptOrder
<1>1. Inv => ReceiptOrder
  <2>. SUFFICES ASSUME Inv PROVE ReceiptOrder
    OBVIOUS
  <2>1. \A c \in cases : Opens(c) => c.position # 0
    BY DEF Inv, CaseInv, Whole
  <2>2. ASSUME NEW c \in cases, NEW d \in cases,
               c.ref = d.ref \/ (Opens(c) /\ c.position = d.position)
        PROVE  c = d
    <3>1. Collide(c, d)
      BY <2>1, <2>2 DEF Collide
    <3>. QED
      BY <3>1 DEF Inv, NoCollision, Distinct
  <2>3. ASSUME NEW r \in Requests, NEW d \in Mine(r), NEW c \in earlier[r]
        PROVE  c.ref < d.ref /\ (Opens(c) /\ Opens(d) => c.position < d.position)
    <3>1. d \in cases /\ d.by = {r}
      BY DEF Mine
    <3>2. PICK q \in Requests : RowsOf(q, d) /\ Whole(q, d)
      BY <3>1 DEF Inv, CaseInv
    <3>3. q = r
      BY <3>1, <3>2 DEF RowsOf
    <3>. QED
      BY <3>2, <3>3 DEF RowsOf, Whole
  <2>. QED
    BY <2>2, <2>3 DEF ReceiptOrder
<1>. QED
  BY <1>1, AlwaysInv, PTL

\* The worker is told of committed open cases only, of each once, and of every one that
\* a client got a 201 for.
THEOREM DispatchAlwaysOnce == Spec => []DispatchedOnceAfterCommit
<1>1. Inv => DispatchedOnceAfterCommit
  BY DEF Inv, DispatchInv, DispatchedOnceAfterCommit
<1>. QED
  BY <1>1, AlwaysInv, PTL

\* Whatever is submitted, the engine reproaches an absent field once, for being absent,
\* and a present one never for that: for every entry, not for those of a run.
THEOREM AbsenceAlwaysReported == Spec => []AbsenceReported
<1>1. Inv => AbsenceReported
  <2>. SUFFICES ASSUME Inv, NEW r \in Requests, pc[r] = "insert"
                PROVE  AbsenceReportedOnce(request[r].entry, draft[r].findings)
    BY DEF AbsenceReported
  <2>1. request[r].entry \in Entries /\ draft[r].findings = Judged[request[r].entry]
    BY OpenDraft DEF Working
  <2>2. Judged[request[r].entry] = Evaluate(request[r].entry)
    BY <2>1, JudgedType
  <2>. QED
    BY <2>1, <2>2, AbsenceOnce
<1>. QED
  BY <1>1, AlwaysInv, PTL

\* Correcting all that the findings of a submitted entry name makes it pass, and leaving
\* any of it out does not, when it has a recognised mode and its own document only.  For
\* any other entry, with a settled mode and without the other mode's document, a second
\* correction, of what depends on the mode, is the last one that can be needed.
THEOREM CorrectionAlwaysSuffices == Spec => []CorrectionSuffices
<1>1. Inv => CorrectionSuffices
  <2>. SUFFICES ASSUME Inv, NEW r \in Requests, pc[r] = "insert"
                PROVE  /\ OneCorrectionSuffices(request[r].entry, draft[r].findings)
                       /\ NoThirdCorrection(request[r].entry, draft[r].findings)
    BY DEF CorrectionSuffices
  <2>1. request[r].entry \in Entries /\ draft[r].findings = Judged[request[r].entry]
    BY OpenDraft DEF Working
  <2>2. Judged[request[r].entry] = Evaluate(request[r].entry)
    BY <2>1, JudgedType
  <2>. QED
    BY <2>1, <2>2, CorrectionIsEnough, SecondCorrectionEnds
<1>. QED
  BY <1>1, AlwaysInv, PTL

-----------------------------------------------------------------------------
(* The refinement. *)

\* A case as the ledger has it.
LedgerRow(c) == [ref |-> c.ref, number |-> (CHOOSE e \in c.entry : TRUE).number,
                 opened |-> Opens(c), trail |-> Actions(c)]
Book == {LedgerRow(c) : c \in cases}

LEMMA LedgerRowOf ==
  ASSUME Types, NEW r \in Requests, NEW c, RowsOf(r, c), Whole(r, c)
  PROVE  /\ LedgerRow(c) = [ref |-> c.ref, number |-> request[r].entry.number,
                            opened |-> Opens(c), trail |-> Ledger!Trail(Opens(c))]
         /\ c.entry = {Stored(request[r].entry)} /\ request[r].entry \in Entries
         /\ \A e \in c.entry : e.number = request[r].entry.number
         /\ request[r].entry.number \in Numbers \cup {"absent"}
<1>1. request[r].entry \in Entries
  BY DEF Types, Submissions
<1>2. /\ c.entry = {Stored(request[r].entry)} /\ Actions(c) = Ledger!Trail(Opens(c))
  BY DEF Whole
<1>3. (CHOOSE e \in c.entry : TRUE) = Stored(request[r].entry)
  BY <1>2
<1>. QED
  BY <1>1, <1>2, <1>3, StoredNumber DEF LedgerRow

\* A COMMIT is a receipt of the ledger.
LEMMA PublishIsReceipt ==
  ASSUME Inv, Inv', NEW r \in Requests, pc[r] = "commit", cases' = cases \cup {draft[r]}
  PROVE  \E ref \in 1 .. Cardinality(Requests), number \in Numbers \cup {"absent"},
            opened \in BOOLEAN :
           /\ \A c \in Book : c.ref # ref
           /\ number # "absent" => \A c \in Book : c.number # number
           /\ Book' = Book \cup {[ref |-> ref, number |-> number, opened |-> opened,
                                  trail |-> Ledger!Trail(opened)]}
<1>. DEFINE d == draft[r]
            n == request[r].entry.number
<1>1. RowsOf(r, d) /\ Whole(r, d) /\ Types /\ pc[r] \in Working
  BY DEF Inv, DraftInv, Working
<1>2. /\ LedgerRow(d) = [ref |-> d.ref, number |-> n,
                         opened |-> Opens(d), trail |-> Ledger!Trail(Opens(d))]
      /\ \A e \in d.entry : e.number = n
      /\ d.entry # {} /\ n \in Numbers \cup {"absent"}
  BY <1>1, LedgerRowOf
<1>3. d.ref \in 1 .. Cardinality(Requests)
  <2>1. d.ref \in 1 .. caseSeq /\ caseSeq \in Nat
    BY <1>1 DEF RowsOf, Types
  <2>2. caseSeq + Cardinality(Unstamped) <= Cardinality(Requests)
    BY DEF Inv, ReferencesInv
  <2>. QED
    BY <2>1, <2>2, UnstampedFinite
<1>4. Opens(d) \in BOOLEAN
  BY DEF Opens
<1>5. ASSUME NEW c \in cases
      PROVE  LedgerRow(c).ref # d.ref /\ (n # "absent" => LedgerRow(c).number # n)
  <2>1. c \in Beside(r)
    BY DEF Beside
  <2>2. ~ Collide(c, d)
    BY <1>1, <2>1, DraftCollidesWithNone
  <2>3. PICK q \in Requests : RowsOf(q, c) /\ Whole(q, c)
    BY DEF Inv, CaseInv
  <2>4. /\ LedgerRow(c).ref = c.ref /\ LedgerRow(c).number = request[q].entry.number
        /\ c.entry # {} /\ \A e \in c.entry : e.number = request[q].entry.number
    BY <1>1, <2>3, LedgerRowOf
  <2>. QED
    BY <1>2, <2>2, <2>4 DEF Collide
<1>6. Book' = Book \cup {LedgerRow(d)}
  BY DEF Book
<1>7. \A b \in Book : b.ref # d.ref /\ (n # "absent" => b.number # n)
  BY <1>5 DEF Book
<1>. HIDE DEF d, n
<1>. QED
  BY <1>2, <1>3, <1>4, <1>6, <1>7

\* Every step either adds one case to the ledger or leaves it.
LEMMA StepIsReceipt ==
  ASSUME Inv, Inv', [Next]_vars
  PROVE  \/ cases' = cases
         \/ \E r \in Requests : pc[r] = "commit" /\ cases' = cases \cup {draft[r]}
BY DEF Next, Step, Submit, Stamp, InsertEntry, LookUpDuplicate, AppendReceived,
       AppendValidated, OpenException, Commit, Respond, EnvironmentError, LoseAck, Crash,
       Quiescent, vars, Fail, Rollback, Publish

\* Receiving entries implements CaseLedger: concurrent receipts, with their failures,
\* lost acknowledgements and crashes, add whole cases one at a time, each with its
\* complete trail, under a reference and a number that no case has, and never change or
\* remove one.
THEOREM AlwaysImplementsLedger == Spec => ImplementsLedger
<1>1. Init => Ledger!Init
  BY DEF Init, Ledger!Init
<1>2. Inv /\ Inv' /\ [Next]_vars => [Ledger!Receive]_Book
  <2>. SUFFICES ASSUME Inv, Inv', [Next]_vars PROVE [Ledger!Receive]_Book
    OBVIOUS
  <2>1. CASE cases' = cases
    BY <2>1 DEF Book
  <2>2. ASSUME NEW r \in Requests, pc[r] = "commit", cases' = cases \cup {draft[r]}
        PROVE  Ledger!Receive
    BY <2>2, PublishIsReceipt DEF Ledger!Receive, Book, LedgerRow, Actions
  <2>. QED
    BY <2>1, <2>2, StepIsReceipt
<1>3. [][Ledger!Receive]_Book /\ Ledger!Init => Ledger!Spec
  BY DEF Ledger!Spec, Book, LedgerRow, Actions
<1>. QED
  BY <1>1, <1>2, <1>3, AlwaysInv, PTL DEF Spec, ImplementsLedger
=============================================================================
