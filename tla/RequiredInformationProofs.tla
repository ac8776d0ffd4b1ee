---------------------- MODULE RequiredInformationProofs ----------------------
(***************************************************************************)
(* Theorems about the engine of the required-information rules, for every  *)
(* entry and every set of entry numbers.  The engine's loop is a recursive *)
(* function over the registry: what it computes is proved by induction on  *)
(* the rules it has applied.                                               *)
(***************************************************************************)
EXTENDS RequiredInformation, Induction, FiniteSetTheorems, SequenceTheorems

-----------------------------------------------------------------------------
(* The registry and the loop over it. *)

LEMMA EntryFieldsList ==
  EntryFields = {"number", "importer", "port", "mode", "carrier", "conveyance", "bill",
                 "waybill", "country", "goods", "quantity", "uom", "value", "arrival"}
BY DEF EntryFields, Contents

LEMMA RulesTable ==
  /\ Len(Rules) = 31 /\ DOMAIN Rules = 1 .. 31
  /\ \A i \in 1 .. 31 : Rules[i].id \in Nat /\ Rules[i].field \in EntryFields \cup {"transport"}
BY EntryFieldsList DEF Rules, Rule

Findings == [rule : Nat, field : EntryFields]

FindingOf(e, i) == [rule |-> Rules[i].id, field |-> PrimaryField(Rules[i], e)]

Violated(e, i, before) ==
    /\ ~ Gated(Rules[i], RulesIn(before))
    /\ Applicable(Rules[i], e)
    /\ ~ Satisfied(Rules[i], e)

\* One turn of the engine's loop over the registry.
Judge(e, i, before) ==
    IF Violated(e, i, before) THEN Append(before, FindingOf(e, i)) ELSE before

LEMMA FindingType ==
  ASSUME NEW e, NEW i \in 1 .. 31
  PROVE  FindingOf(e, i) \in Findings
<1>1. PrimaryField(Rules[i], e) \in EntryFields
  BY RulesTable, EntryFieldsList DEF PrimaryField
<1>. QED
  BY <1>1, RulesTable DEF FindingOf, Findings

\* The findings are what the loop leaves after the last rule.
LEMMA EvaluateUnfolds ==
  ASSUME NEW e
  PROVE  \E found \in [0 .. 31 -> Seq(Findings)] :
            /\ Evaluate(e) = found[31]
            /\ found[0] = <<>>
            /\ \A i \in 1 .. 31 : found[i] = Judge(e, i, found[i - 1])
<1>. DEFINE N == 31
            T == Seq(Findings)
            none == <<>>
            step == [i \in 1 .. N |-> [before \in T |-> Judge(e, i, before)]]
            Def(f) == [i \in 0 .. N |-> IF i = 0 THEN none ELSE Judge(e, i, f[i - 1])]
            found == CHOOSE f : f = Def(f)
<1>1. N \in Nat /\ none \in T
  OBVIOUS
<1>2. step \in [1 .. N -> [T -> T]]
  <2>1. ASSUME NEW i \in 1 .. N, NEW before \in T
        PROVE  Judge(e, i, before) \in T
    <3>1. FindingOf(e, i) \in Findings
      BY FindingType
    <3>. QED
      BY <3>1 DEF Judge
  <2>. QED
    BY <2>1
<1>3. PICK g \in [0 .. N -> T] :
        g[0] = none /\ \A i \in 1 .. N : g[i] = step[i][g[i - 1]]
  <2>1. Solutions(N, T, none, step) # {}
    <3>. HIDE DEF N, T, none, step
    <3>. QED
      BY <1>1, <1>2, RecursionUpTo
  <2>. HIDE DEF N, T, none, step
  <2>. QED
    BY <2>1 DEF Solutions
<1>4. ASSUME NEW i \in 1 .. N
      PROVE  g[i] = Judge(e, i, g[i - 1])
  <2>1. g[i - 1] \in T
    <3>1. i - 1 \in 0 .. N
      BY <1>1
    <3>. HIDE DEF N, T
    <3>. QED
      BY <3>1
  <2>2. g[i] = step[i][g[i - 1]]
    BY <1>3
  <2>. HIDE DEF T
  <2>. QED
    BY <2>1, <2>2
<1>5. g = Def(g)
  <2>1. g = [i \in 0 .. N |-> g[i]]
    BY <1>3
  <2>2. \A i \in 0 .. N : i = 0 \/ i \in 1 .. N
    BY <1>1
  <2>3. \A i \in 0 .. N : g[i] = Def(g)[i]
    BY <1>3, <1>4, <2>2
  <2>. HIDE DEF N
  <2>. QED
    BY <2>1, <2>3
<1>6. found = Def(found)
  <2>. HIDE DEF Def
  <2>. QED
    BY <1>5
<1>7. Evaluate(e) = found[N]
  BY RulesTable DEF Evaluate, Judge, Violated, FindingOf, RulesIn
<1>. HIDE DEF found
<1>8. found = g
  <2>. DEFINE same == {i \in 0 .. N : found[i] = g[i]}
  <2>1. found = [i \in 0 .. N |-> found[i]] /\ g = [i \in 0 .. N |-> g[i]]
    BY <1>3, <1>6
  <2>2. 0 \in same
    BY <1>1, <1>3, <1>6
  <2>3. ASSUME NEW n \in 0 .. N, n < N, n \in same
        PROVE  n + 1 \in same
    <3>1. n + 1 \in 1 .. N /\ n + 1 \in 0 .. N /\ n + 1 # 0 /\ (n + 1) - 1 = n
      <4>. HIDE DEF T, none, step, Def, same
      <4>. QED
        BY <2>3
    <3>2. found[n + 1] = Def(found)[n + 1]
      <4>. HIDE DEF Def
      <4>. QED
        BY <1>6
    <3>3. found[n + 1] = Judge(e, n + 1, found[n])
      BY <3>1, <3>2
    <3>. QED
      BY <1>4, <2>3, <3>1, <3>3
  <2>4. 0 .. N \subseteq same
    <3>. HIDE DEF same, N
    <3>. QED
      BY <1>1, <2>2, <2>3, InductionUpTo
  <2>. QED
    BY <2>1, <2>4
<1>. QED
  BY <1>3, <1>4, <1>7, <1>8

\* Findings name fields of the form.
LEMMA EvaluateType ==
  ASSUME NEW e
  PROVE  Evaluate(e) \in Seq(Findings) /\ FieldsIn(Evaluate(e)) \subseteq EntryFields
<1>1. Evaluate(e) \in Seq(Findings)
  <2>1. PICK found \in [0 .. 31 -> Seq(Findings)] : Evaluate(e) = found[31]
    BY EvaluateUnfolds
  <2>2. 31 \in 0 .. 31
    OBVIOUS
  <2>. QED
    BY <2>1, <2>2
<1>2. \A s \in Seq(Findings) : \A k \in DOMAIN s : s[k] \in Findings
  BY LenProperties, ElementOfSeq
<1>. QED
  BY <1>1, <1>2 DEF FieldsIn, Findings

-----------------------------------------------------------------------------
(* Absent fields. *)

\* The rule at p is the presence rule of f: every other rule about f comes after it
\* and is gated by it.
PresenceAt(p, f) ==
    /\ Rules[p].field = f /\ Rules[p].requires = {}
    /\ \A i \in 1 .. 31 : Rules[i].field = f /\ i # p =>
          p < i /\ Rules[p].id \in Rules[i].requires
    /\ \A i \in 1 .. 31 : Rules[i].id = Rules[p].id => i = p
    /\ \A e : Applicable(Rules[p], e) /\ (Satisfied(Rules[p], e) <=> Present(e, f))

\* Every field but the two transport documents has one in the registry.
LEMMA PresenceExists ==
  ASSUME NEW f \in EntryFields \ {"bill", "waybill"}
  PROVE  \E p \in 1 .. 31 : PresenceAt(p, f)
<1>1. PresenceAt(1, "number")
  BY DEF PresenceAt, Rules, Rule, Applicable, Satisfied
<1>2. PresenceAt(3, "importer")
  BY DEF PresenceAt, Rules, Rule, Applicable, Satisfied
<1>3. PresenceAt(5, "port")
  BY DEF PresenceAt, Rules, Rule, Applicable, Satisfied
<1>4. PresenceAt(8, "mode")
  BY DEF PresenceAt, Rules, Rule, Applicable, Satisfied
<1>5. PresenceAt(10, "carrier")
  BY DEF PresenceAt, Rules, Rule, Applicable, Satisfied
<1>6. PresenceAt(12, "conveyance")
  BY DEF PresenceAt, Rules, Rule, Applicable, Satisfied
<1>7. PresenceAt(17, "country")
  BY DEF PresenceAt, Rules, Rule, Applicable, Satisfied
<1>8. PresenceAt(20, "goods")
  BY DEF PresenceAt, Rules, Rule, Applicable, Satisfied
<1>9. PresenceAt(23, "quantity")
  BY DEF PresenceAt, Rules, Rule, Applicable, Satisfied
<1>10. PresenceAt(25, "uom")
  BY DEF PresenceAt, Rules, Rule, Applicable, Satisfied
<1>11. PresenceAt(27, "value")
  BY DEF PresenceAt, Rules, Rule, Applicable, Satisfied
<1>12. PresenceAt(29, "arrival")
  BY DEF PresenceAt, Rules, Rule, Applicable, Satisfied
<1>. QED
  BY EntryFieldsList, <1>1, <1>2, <1>3, <1>4, <1>5, <1>6, <1>7, <1>8, <1>9, <1>10, <1>11, <1>12

LEMMA PresenceRuleAt ==
  ASSUME NEW f, NEW p \in 1 .. 31, PresenceAt(p, f)
  PROVE  PresenceRule(f) = Rules[p].id
<1>. DEFINE Is(i) == i \in DOMAIN Rules /\ Rules[i].field = f /\ Rules[i].requires = {}
<1>1. Is(p) /\ \A i : Is(i) => i = p
  BY RulesTable DEF PresenceAt
<1>2. (CHOOSE i \in DOMAIN Rules : Rules[i].field = f /\ Rules[i].requires = {}) = p
  BY <1>1
<1>. QED
  BY <1>2 DEF PresenceRule

\* The findings so far are right about f: none says that it is absent when it is
\* present; and when it is absent none is about it before its presence rule, and that
\* rule's alone afterwards.
RightAbout(e, f, p, findings, n) ==
    /\ Present(e, f) => \A k \in 1 .. Len(findings) : findings[k].rule # Rules[p].id
    /\ ~ Present(e, f) /\ n < p => \A k \in 1 .. Len(findings) : findings[k].field # f
    /\ ~ Present(e, f) /\ p <= n =>
          \E k \in 1 .. Len(findings) :
             /\ findings[k].rule = Rules[p].id
             /\ findings[k].field = f
             /\ \A l \in 1 .. Len(findings) : findings[l].field = f => l = k

LEMMA FindingField ==
  ASSUME NEW e, NEW i \in 1 .. 31, NEW f \in EntryFields \ {"bill", "waybill"}
  PROVE  /\ FindingOf(e, i).field = f <=> Rules[i].field = f
         /\ FindingOf(e, i).rule = Rules[i].id
<1>1. f # "transport"
  BY EntryFieldsList
<1>2. FindingOf(e, i).field = PrimaryField(Rules[i], e) /\ FindingOf(e, i).rule = Rules[i].id
  BY DEF FindingOf
<1>3. PrimaryField(Rules[i], e) = f <=> Rules[i].field = f
  BY <1>1 DEF PrimaryField
<1>. QED
  BY <1>2, <1>3

LEMMA JudgeRight ==
  ASSUME NEW e, NEW f \in EntryFields \ {"bill", "waybill"},
         NEW p \in 1 .. 31, PresenceAt(p, f),
         NEW findings \in Seq(Findings), NEW n \in 0 .. 31, NEW i \in 1 .. 31, i = n + 1,
         RightAbout(e, f, p, findings, n)
  PROVE  RightAbout(e, f, p, Judge(e, i, findings), i)
<1>. DEFINE x == FindingOf(e, i)
            longer == Append(findings, x)
<1>0. i \in 1 .. 31 /\ Len(findings) \in Nat /\ DOMAIN findings = 1 .. Len(findings)
  OBVIOUS
<1>7. /\ Rules[p].field = f
      /\ i # p /\ Rules[i].field = f => p < i /\ Rules[p].id \in Rules[i].requires
      /\ i # p => Rules[i].id # Rules[p].id
  BY DEF PresenceAt
<1>8. i = n + 1 /\ n \in Nat /\ i \in Nat /\ p \in Nat
  OBVIOUS
<1>1. /\ x \in Findings
      /\ x.field = f <=> Rules[i].field = f
      /\ x.rule = Rules[i].id
  BY <1>0, FindingType, FindingField
<1>2. /\ Len(longer) = Len(findings) + 1
      /\ \A k \in 1 .. Len(findings) : longer[k] = findings[k]
      /\ longer[Len(findings) + 1] = x
  BY <1>1
<1>3. Judge(e, i, findings) = IF Violated(e, i, findings) THEN longer ELSE findings
  BY DEF Judge
<1>. HIDE DEF x, longer
<1>4. CASE i = p
  <2>1. Violated(e, i, findings) <=> ~ Present(e, f)
    BY <1>4 DEF Violated, Gated, PresenceAt
  <2>2. CASE Present(e, f)
    BY <1>3, <2>1, <2>2 DEF RightAbout
  <2>3. CASE ~ Present(e, f)
    <3>1. x.field = f /\ x.rule = Rules[p].id /\ \A k \in 1 .. Len(findings) : findings[k].field # f
      <4>1. n < p
        BY <1>4, <1>8
      <4>2. \A k \in 1 .. Len(findings) : findings[k].field # f
        BY <2>3, <4>1 DEF RightAbout
      <4>. QED
        BY <1>1, <1>4, <1>7, <4>2
    <3>2. \A l \in 1 .. Len(longer) : longer[l].field = f => l = Len(findings) + 1
      BY <1>0, <1>2, <3>1
    <3>3. Len(findings) + 1 \in 1 .. Len(longer)
      BY <1>0, <1>2
    <3>. QED
      BY <1>0, <1>2, <1>3, <1>4, <2>1, <2>3, <3>1, <3>2, <3>3 DEF RightAbout
  <2>. QED
    BY <2>2, <2>3
<1>5. CASE i # p /\ Rules[i].field = f
  <2>1. p < i /\ p <= n /\ Rules[p].id \in Rules[i].requires /\ x.rule # Rules[p].id
    <3>1. p < i /\ Rules[p].id \in Rules[i].requires /\ x.rule # Rules[p].id
      BY <1>1, <1>5, <1>7
    <3>. QED
      BY <1>8, <3>1
  <2>2. CASE Present(e, f)
    <3>1. \A k \in 1 .. Len(longer) : longer[k].rule # Rules[p].id
      <4>1. \A k \in 1 .. Len(findings) : longer[k].rule # Rules[p].id
        BY <1>2, <2>2 DEF RightAbout
      <4>2. \A k \in 1 .. Len(longer) : k \in 1 .. Len(findings) \/ k = Len(findings) + 1
        BY <1>0, <1>2
      <4>. QED
        BY <1>2, <2>1, <4>1, <4>2
    <3>. QED
      BY <1>3, <2>2, <3>1 DEF RightAbout
  <2>3. CASE ~ Present(e, f)
    <3>1. Rules[p].id \in RulesIn(findings)
      BY <1>0, <2>1, <2>3 DEF RightAbout, RulesIn
    <3>2. Judge(e, i, findings) = findings
      BY <1>3, <2>1, <3>1 DEF Violated, Gated
    <3>3. ~ (i < p) /\ p <= n
      BY <1>8, <2>1
    <3>. QED
      BY <2>3, <3>2, <3>3 DEF RightAbout
  <2>. QED
    BY <2>2, <2>3
<1>6. CASE i # p /\ Rules[i].field # f
  <2>1. x.field # f /\ x.rule # Rules[p].id
    BY <1>1, <1>6, <1>7
  <2>0. (n < p <=> i < p) /\ (p <= n <=> p <= i)
    BY <1>6, <1>8
  <2>2. RightAbout(e, f, p, findings, i)
    BY <2>0 DEF RightAbout
  <2>3. RightAbout(e, f, p, longer, i)
    <3>1. CASE Present(e, f)
      BY <1>0, <1>2, <2>1, <2>2, <3>1 DEF RightAbout
    <3>2. CASE ~ Present(e, f) /\ i < p
      BY <1>0, <1>2, <2>1, <2>2, <3>2 DEF RightAbout
    <3>3. CASE ~ Present(e, f) /\ p <= i
      <4>1. PICK k \in 1 .. Len(findings) :
              /\ findings[k].rule = Rules[p].id
              /\ findings[k].field = f
              /\ \A l \in 1 .. Len(findings) : findings[l].field = f => l = k
        BY <2>2, <3>3 DEF RightAbout
      <4>2. k \in 1 .. Len(longer) /\ longer[k] = findings[k]
        BY <1>0, <1>2
      <4>3. \A l \in 1 .. Len(longer) : longer[l].field = f => l = k
        BY <1>0, <1>2, <2>1, <4>1
      <4>4. /\ longer[k].rule = Rules[p].id
            /\ longer[k].field = f
        BY <4>1, <4>2
      <4>5. ~ (i < p)
        BY <3>3, <1>8
      <4>. QED
        BY <3>3, <4>2, <4>3, <4>4, <4>5 DEF RightAbout
    <3>. QED
      BY <3>1, <3>2, <3>3, <1>0
  <2>. QED
    BY <1>3, <2>2, <2>3
<1>. QED
  BY <1>4, <1>5, <1>6

LEMMA NextIndex ==
  ASSUME NEW n \in 0 .. 31, n < 31
  PROVE  n + 1 \in 1 .. 31 /\ (n + 1) - 1 = n /\ n + 1 \in 0 .. 31
OBVIOUS

LEMMA EvaluateRight ==
  ASSUME NEW e, NEW f \in EntryFields \ {"bill", "waybill"},
         NEW p \in 1 .. 31, PresenceAt(p, f)
  PROVE  RightAbout(e, f, p, Evaluate(e), 31)
<1>1. PICK found \in [0 .. 31 -> Seq(Findings)] :
        /\ Evaluate(e) = found[31]
        /\ found[0] = <<>>
        /\ \A i \in 1 .. 31 : found[i] = Judge(e, i, found[i - 1])
  BY EvaluateUnfolds
<1>. DEFINE right == {n \in 0 .. 31 : RightAbout(e, f, p, found[n], n)}
<1>2. 0 \in right
  <2>1. 0 \in 0 .. 31 /\ Len(<<>>) = 0 /\ ~ (p <= 0)
    OBVIOUS
  <2>2. RightAbout(e, f, p, <<>>, 0)
    BY <2>1 DEF RightAbout
  <2>. QED
    BY <1>1, <2>1, <2>2
<1>3. ASSUME NEW n \in 0 .. 31, n < 31, n \in right
      PROVE  n + 1 \in right
  <2>1. n + 1 \in 1 .. 31 /\ (n + 1) - 1 = n /\ n + 1 \in 0 .. 31
    BY <1>3, NextIndex
  <2>2. found[n + 1] = Judge(e, n + 1, found[n]) /\ found[n] \in Seq(Findings)
    BY <1>1, <2>1
  <2>3. RightAbout(e, f, p, found[n], n)
    BY <1>3
  <2>4. RightAbout(e, f, p, Judge(e, n + 1, found[n]), n + 1)
    BY <2>1, <2>2, <2>3, JudgeRight
  <2>. QED
    BY <2>1, <2>2, <2>4
<1>4. 0 .. 31 \subseteq right
  <2>. HIDE DEF right
  <2>. QED
    BY <1>2, <1>3, InductionUpTo
<1>5. 31 \in 0 .. 31
  OBVIOUS
<1>. QED
  BY <1>1, <1>4, <1>5

\* Whatever the entry: an absent field is reproached once, for being absent, and a
\* present one is not reproached for that.
THEOREM AbsenceOnce ==
  ASSUME NEW e
  PROVE  AbsenceReportedOnce(e, Evaluate(e))
<1>. SUFFICES ASSUME NEW f \in EntryFields \ {"bill", "waybill"}
              PROVE  LET about == {k \in DOMAIN Evaluate(e) : Evaluate(e)[k].field = f}
                     IN IF Present(e, f) THEN PresenceRule(f) \notin RulesIn(Evaluate(e))
                        ELSE \E k \in about : /\ about = {k}
                                              /\ Evaluate(e)[k].rule = PresenceRule(f)
  BY DEF AbsenceReportedOnce
<1>1. PICK p \in 1 .. 31 : PresenceAt(p, f)
  BY PresenceExists
<1>2. PresenceRule(f) = Rules[p].id
  BY <1>1, PresenceRuleAt
<1>3. RightAbout(e, f, p, Evaluate(e), 31)
  BY <1>1, EvaluateRight
<1>4. DOMAIN Evaluate(e) = 1 .. Len(Evaluate(e))
  BY EvaluateType, LenProperties
<1>5. p <= 31 /\ ~ (31 < p)
  OBVIOUS
<1>6. CASE Present(e, f)
  BY <1>2, <1>3, <1>4, <1>6 DEF RightAbout, RulesIn
<1>7. CASE ~ Present(e, f)
  <2>1. PICK k \in DOMAIN Evaluate(e) :
          /\ Evaluate(e)[k].rule = Rules[p].id
          /\ Evaluate(e)[k].field = f
          /\ \A l \in DOMAIN Evaluate(e) : Evaluate(e)[l].field = f => l = k
    BY <1>3, <1>4, <1>5, <1>7 DEF RightAbout
  <2>2. {l \in DOMAIN Evaluate(e) : Evaluate(e)[l].field = f} = {k}
    BY <2>1
  <2>. QED
    BY <1>2, <1>7, <2>1, <2>2
<1>. QED
  BY <1>6, <1>7

-----------------------------------------------------------------------------
(* One correction. *)

Broken(e, i) == Applicable(Rules[i], e) /\ ~ Satisfied(Rules[i], e)

BadFields(e) == {PrimaryField(Rules[i], e) : i \in {j \in 1 .. 31 : Broken(e, j)}}

Is(x, i, field, broken) == /\ PrimaryField(Rules[i], x) = field
                           /\ Broken(x, i) <=> broken

LEMMA RulesMean ==
  ASSUME NEW x
  PROVE  /\ Is(x, 1, "number", x.number = "absent")
         /\ Is(x, 2, "number", x.number \notin Numbers \ BadNumbers)
         /\ Is(x, 3, "importer", x.importer = "absent")
         /\ Is(x, 4, "importer", x.importer \in {"absent", "malformed"})
         /\ Is(x, 5, "port", x.port = "absent")
         /\ Is(x, 6, "port", x.port \in {"absent", "malformed"})
         /\ Is(x, 7, "port", x.port \in {"absent", "malformed", "unknown"})
         /\ Is(x, 8, "mode", x.mode = "absent")
         /\ Is(x, 9, "mode", x.mode \in {"absent", "malformed", "unknown"})
         /\ Is(x, 10, "carrier", x.carrier = "absent")
         /\ Is(x, 11, "carrier", x.carrier \notin {IF x.mode = "AIR" THEN "iata" ELSE "scac", "short"})
         /\ Is(x, 12, "conveyance", x.conveyance = "absent")
         /\ (x.mode \in Recognised =>
              Is(x, 13, Document(x.mode), x[Document(x.mode)] = "absent"))
         /\ Is(x, 14, "waybill", x.waybill = "malformed")
         /\ Is(x, 15, "bill", x.bill = "malformed")
         /\ Is(x, 16, "waybill", x.bill # "absent" /\ x.waybill # "absent")
         /\ Is(x, 17, "country", x.country = "absent")
         /\ Is(x, 18, "country", x.country \in {"absent", "malformed"})
         /\ Is(x, 19, "country", x.country \in {"absent", "malformed", "unknown"})
         /\ Is(x, 20, "goods", x.goods = "absent")
         /\ Is(x, 21, "goods", x.goods \in {"absent", "brief", "terse"})
         /\ Is(x, 22, "goods", x.goods \in {"generic", "terse"})
         /\ Is(x, 23, "quantity", x.quantity = "absent")
         /\ Is(x, 24, "quantity", x.quantity # "good")
         /\ Is(x, 25, "uom", x.uom = "absent")
         /\ Is(x, 26, "uom", x.uom \in {"absent", "malformed", "unknown"})
         /\ Is(x, 27, "value", x.value = "absent")
         /\ Is(x, 28, "value", x.value # "good")
         /\ Is(x, 29, "arrival", x.arrival = "absent")
         /\ Is(x, 30, "arrival", x.arrival \in {"absent", "malformed"})
         /\ Is(x, 31, "arrival", x.arrival # "good")
<1>1. Is(x, 1, "number", x.number = "absent")
  BY DEF Is, Broken, PrimaryField, Rules, Rule, Applicable, Satisfied, Present, WellFormed, Known
<1>2. Is(x, 2, "number", x.number \notin Numbers \ BadNumbers)
  BY DEF Is, Broken, PrimaryField, Rules, Rule, Applicable, Satisfied, Present, WellFormed, Known
<1>3. Is(x, 3, "importer", x.importer = "absent")
  BY DEF Is, Broken, PrimaryField, Rules, Rule, Applicable, Satisfied, Present, WellFormed, Known
<1>4. Is(x, 4, "importer", x.importer \in {"absent", "malformed"})
  BY DEF Is, Broken, PrimaryField, Rules, Rule, Applicable, Satisfied, Present, WellFormed, Known
<1>5. Is(x, 5, "port", x.port = "absent")
  BY DEF Is, Broken, PrimaryField, Rules, Rule, Applicable, Satisfied, Present, WellFormed, Known
<1>6. Is(x, 6, "port", x.port \in {"absent", "malformed"})
  BY DEF Is, Broken, PrimaryField, Rules, Rule, Applicable, Satisfied, Present, WellFormed, Known
<1>7. Is(x, 7, "port", x.port \in {"absent", "malformed", "unknown"})
  BY DEF Is, Broken, PrimaryField, Rules, Rule, Applicable, Satisfied, Present, WellFormed, Known
<1>8. Is(x, 8, "mode", x.mode = "absent")
  BY DEF Is, Broken, PrimaryField, Rules, Rule, Applicable, Satisfied, Present, WellFormed, Known
<1>9. Is(x, 9, "mode", x.mode \in {"absent", "malformed", "unknown"})
  BY DEF Is, Broken, PrimaryField, Rules, Rule, Applicable, Satisfied, Present, WellFormed, Known
<1>10. Is(x, 10, "carrier", x.carrier = "absent")
  BY DEF Is, Broken, PrimaryField, Rules, Rule, Applicable, Satisfied, Present, WellFormed, Known
<1>11. Is(x, 11, "carrier", x.carrier \notin {IF x.mode = "AIR" THEN "iata" ELSE "scac", "short"})
  BY DEF Is, Broken, PrimaryField, Rules, Rule, Applicable, Satisfied, Present, WellFormed, Known
<1>12. Is(x, 12, "conveyance", x.conveyance = "absent")
  BY DEF Is, Broken, PrimaryField, Rules, Rule, Applicable, Satisfied, Present, WellFormed, Known
<1>13. (x.mode \in Recognised =>
              Is(x, 13, Document(x.mode), x[Document(x.mode)] = "absent"))
  BY DEF Is, Broken, PrimaryField, Rules, Rule, Applicable, Satisfied, Present, WellFormed, Known, Recognised, Document
<1>14. Is(x, 14, "waybill", x.waybill = "malformed")
  BY DEF Is, Broken, PrimaryField, Rules, Rule, Applicable, Satisfied, Present, WellFormed, Known
<1>15. Is(x, 15, "bill", x.bill = "malformed")
  BY DEF Is, Broken, PrimaryField, Rules, Rule, Applicable, Satisfied, Present, WellFormed, Known
<1>16. Is(x, 16, "waybill", x.bill # "absent" /\ x.waybill # "absent")
  BY DEF Is, Broken, PrimaryField, Rules, Rule, Applicable, Satisfied, Present, WellFormed, Known
<1>17. Is(x, 17, "country", x.country = "absent")
  BY DEF Is, Broken, PrimaryField, Rules, Rule, Applicable, Satisfied, Present, WellFormed, Known
<1>18. Is(x, 18, "country", x.country \in {"absent", "malformed"})
  BY DEF Is, Broken, PrimaryField, Rules, Rule, Applicable, Satisfied, Present, WellFormed, Known
<1>19. Is(x, 19, "country", x.country \in {"absent", "malformed", "unknown"})
  BY DEF Is, Broken, PrimaryField, Rules, Rule, Applicable, Satisfied, Present, WellFormed, Known
<1>20. Is(x, 20, "goods", x.goods = "absent")
  BY DEF Is, Broken, PrimaryField, Rules, Rule, Applicable, Satisfied, Present, WellFormed, Known
<1>21. Is(x, 21, "goods", x.goods \in {"absent", "brief", "terse"})
  BY DEF Is, Broken, PrimaryField, Rules, Rule, Applicable, Satisfied, Present, WellFormed, Known
<1>22. Is(x, 22, "goods", x.goods \in {"generic", "terse"})
  BY DEF Is, Broken, PrimaryField, Rules, Rule, Applicable, Satisfied, Present, WellFormed, Known
<1>23. Is(x, 23, "quantity", x.quantity = "absent")
  BY DEF Is, Broken, PrimaryField, Rules, Rule, Applicable, Satisfied, Present, WellFormed, Known
<1>24. Is(x, 24, "quantity", x.quantity # "good")
  BY DEF Is, Broken, PrimaryField, Rules, Rule, Applicable, Satisfied, Present, WellFormed, Known
<1>25. Is(x, 25, "uom", x.uom = "absent")
  BY DEF Is, Broken, PrimaryField, Rules, Rule, Applicable, Satisfied, Present, WellFormed, Known
<1>26. Is(x, 26, "uom", x.uom \in {"absent", "malformed", "unknown"})
  BY DEF Is, Broken, PrimaryField, Rules, Rule, Applicable, Satisfied, Present, WellFormed, Known
<1>27. Is(x, 27, "value", x.value = "absent")
  BY DEF Is, Broken, PrimaryField, Rules, Rule, Applicable, Satisfied, Present, WellFormed, Known
<1>28. Is(x, 28, "value", x.value # "good")
  BY DEF Is, Broken, PrimaryField, Rules, Rule, Applicable, Satisfied, Present, WellFormed, Known
<1>29. Is(x, 29, "arrival", x.arrival = "absent")
  BY DEF Is, Broken, PrimaryField, Rules, Rule, Applicable, Satisfied, Present, WellFormed, Known
<1>30. Is(x, 30, "arrival", x.arrival \in {"absent", "malformed"})
  BY DEF Is, Broken, PrimaryField, Rules, Rule, Applicable, Satisfied, Present, WellFormed, Known
<1>31. Is(x, 31, "arrival", x.arrival # "good")
  BY DEF Is, Broken, PrimaryField, Rules, Rule, Applicable, Satisfied, Present, WellFormed, Known
<1>. QED
  BY <1>1, <1>2, <1>3, <1>4, <1>5, <1>6, <1>7, <1>8, <1>9, <1>10, <1>11, <1>12, <1>13, <1>14, <1>15, <1>16, <1>17, <1>18, <1>19, <1>20, <1>21, <1>22, <1>23, <1>24, <1>25, <1>26, <1>27, <1>28, <1>29, <1>30, <1>31

\* What a field may contain, in an entry with this mode.
Acceptable(f, v, mode) ==
    CASE f = "number" -> v \in Numbers \ BadNumbers
      [] f = "carrier" -> v \in {IF mode = "AIR" THEN "iata" ELSE "scac", "short"}
      [] f = "bill" -> mode = "AIR" \/ v \notin {"absent", "malformed"}
      [] f = "waybill" -> mode # "AIR" \/ v \notin {"absent", "malformed"}
      [] f = "importer" -> v \notin {"absent", "malformed"}
      [] f \in {"mode", "port", "country", "uom"} -> v \notin {"absent", "malformed", "unknown"}
      [] f = "conveyance" -> v # "absent"
      [] f = "goods" -> v \notin {"absent", "brief", "terse", "generic"}
      [] OTHER -> v = "good"

\* A broken rule names a field with contents that are not acceptable.
LEMMA BrokenNames ==
  ASSUME NEW x, Plain(x), NEW i \in 1 .. 31, Broken(x, i)
  PROVE  LET f == PrimaryField(Rules[i], x)
         IN f \in EntryFields /\ ~ Acceptable(f, x[f], x.mode)
<1>. DEFINE Names(k) == LET f == PrimaryField(Rules[k], x)
                        IN f \in EntryFields /\ (Broken(x, k) => ~ Acceptable(f, x[f], x.mode))
<1>1. Names(1)
  BY RulesMean, EntryFieldsList, NumbersAssumption DEF Is, Acceptable, Plain, Recognised, Document
<1>2. Names(2)
  BY RulesMean, EntryFieldsList, NumbersAssumption DEF Is, Acceptable, Plain, Recognised, Document
<1>3. Names(3)
  BY RulesMean, EntryFieldsList, NumbersAssumption DEF Is, Acceptable, Plain, Recognised, Document
<1>4. Names(4)
  BY RulesMean, EntryFieldsList, NumbersAssumption DEF Is, Acceptable, Plain, Recognised, Document
<1>5. Names(5)
  BY RulesMean, EntryFieldsList, NumbersAssumption DEF Is, Acceptable, Plain, Recognised, Document
<1>6. Names(6)
  BY RulesMean, EntryFieldsList, NumbersAssumption DEF Is, Acceptable, Plain, Recognised, Document
<1>7. Names(7)
  BY RulesMean, EntryFieldsList, NumbersAssumption DEF Is, Acceptable, Plain, Recognised, Document
<1>8. Names(8)
  BY RulesMean, EntryFieldsList, NumbersAssumption DEF Is, Acceptable, Plain, Recognised, Document
<1>9. Names(9)
  BY RulesMean, EntryFieldsList, NumbersAssumption DEF Is, Acceptable, Plain, Recognised, Document
<1>10. Names(10)
  BY RulesMean, EntryFieldsList, NumbersAssumption DEF Is, Acceptable, Plain, Recognised, Document
<1>11. Names(11)
  BY RulesMean, EntryFieldsList, NumbersAssumption DEF Is, Acceptable, Plain, Recognised, Document
<1>12. Names(12)
  BY RulesMean, EntryFieldsList, NumbersAssumption DEF Is, Acceptable, Plain, Recognised, Document
<1>13. Names(13)
  BY RulesMean, EntryFieldsList, NumbersAssumption DEF Is, Acceptable, Plain, Recognised, Document
<1>14. Names(14)
  BY RulesMean, EntryFieldsList, NumbersAssumption DEF Is, Acceptable, Plain, Recognised, Document
<1>15. Names(15)
  BY RulesMean, EntryFieldsList, NumbersAssumption DEF Is, Acceptable, Plain, Recognised, Document
<1>16. Names(16)
  BY RulesMean, EntryFieldsList, NumbersAssumption DEF Is, Acceptable, Plain, Recognised, Document
<1>17. Names(17)
  BY RulesMean, EntryFieldsList, NumbersAssumption DEF Is, Acceptable, Plain, Recognised, Document
<1>18. Names(18)
  BY RulesMean, EntryFieldsList, NumbersAssumption DEF Is, Acceptable, Plain, Recognised, Document
<1>19. Names(19)
  BY RulesMean, EntryFieldsList, NumbersAssumption DEF Is, Acceptable, Plain, Recognised, Document
<1>20. Names(20)
  BY RulesMean, EntryFieldsList, NumbersAssumption DEF Is, Acceptable, Plain, Recognised, Document
<1>21. Names(21)
  BY RulesMean, EntryFieldsList, NumbersAssumption DEF Is, Acceptable, Plain, Recognised, Document
<1>22. Names(22)
  BY RulesMean, EntryFieldsList, NumbersAssumption DEF Is, Acceptable, Plain, Recognised, Document
<1>23. Names(23)
  BY RulesMean, EntryFieldsList, NumbersAssumption DEF Is, Acceptable, Plain, Recognised, Document
<1>24. Names(24)
  BY RulesMean, EntryFieldsList, NumbersAssumption DEF Is, Acceptable, Plain, Recognised, Document
<1>25. Names(25)
  BY RulesMean, EntryFieldsList, NumbersAssumption DEF Is, Acceptable, Plain, Recognised, Document
<1>26. Names(26)
  BY RulesMean, EntryFieldsList, NumbersAssumption DEF Is, Acceptable, Plain, Recognised, Document
<1>27. Names(27)
  BY RulesMean, EntryFieldsList, NumbersAssumption DEF Is, Acceptable, Plain, Recognised, Document
<1>28. Names(28)
  BY RulesMean, EntryFieldsList, NumbersAssumption DEF Is, Acceptable, Plain, Recognised, Document
<1>29. Names(29)
  BY RulesMean, EntryFieldsList, NumbersAssumption DEF Is, Acceptable, Plain, Recognised, Document
<1>30. Names(30)
  BY RulesMean, EntryFieldsList, NumbersAssumption DEF Is, Acceptable, Plain, Recognised, Document
<1>31. Names(31)
  BY RulesMean, EntryFieldsList, NumbersAssumption DEF Is, Acceptable, Plain, Recognised, Document
<1>. HIDE DEF Names
<1>32. Names(i)
  BY <1>1, <1>2, <1>3, <1>4, <1>5, <1>6, <1>7, <1>8, <1>9, <1>10, <1>11, <1>12, <1>13, <1>14, <1>15, <1>16, <1>17, <1>18, <1>19, <1>20, <1>21, <1>22, <1>23, <1>24, <1>25, <1>26, <1>27, <1>28, <1>29, <1>30, <1>31
<1>. QED
  BY <1>32 DEF Names

\* Contents that are not acceptable break a rule that names the field.
LEMMA UnacceptableBreaks ==
  ASSUME NEW x, NEW f \in EntryFields, ~ Acceptable(f, x[f], x.mode),
         f \in {"carrier", "bill", "waybill"} => x.mode \in Recognised
  PROVE  \E i \in 1 .. 31 : Broken(x, i) /\ PrimaryField(Rules[i], x) = f
<1>1. CASE f = "number"
  <2>1. (Broken(x, 2) /\ PrimaryField(Rules[2], x) = f)
    BY <1>1, RulesMean DEF Is, Acceptable, Plain, Recognised, Document
  <2>. QED
    BY <2>1
<1>2. CASE f = "importer"
  <2>1. (Broken(x, 4) /\ PrimaryField(Rules[4], x) = f)
    BY <1>2, RulesMean DEF Is, Acceptable, Plain, Recognised, Document
  <2>. QED
    BY <2>1
<1>3. CASE f = "port"
  <2>1. (Broken(x, 7) /\ PrimaryField(Rules[7], x) = f)
    BY <1>3, RulesMean DEF Is, Acceptable, Plain, Recognised, Document
  <2>. QED
    BY <2>1
<1>4. CASE f = "mode"
  <2>1. (Broken(x, 9) /\ PrimaryField(Rules[9], x) = f)
    BY <1>4, RulesMean DEF Is, Acceptable, Plain, Recognised, Document
  <2>. QED
    BY <2>1
<1>5. CASE f = "carrier"
  <2>1. (Broken(x, 11) /\ PrimaryField(Rules[11], x) = f)
    BY <1>5, RulesMean DEF Is, Acceptable, Plain, Recognised, Document
  <2>. QED
    BY <2>1
<1>6. CASE f = "conveyance"
  <2>1. (Broken(x, 12) /\ PrimaryField(Rules[12], x) = f)
    BY <1>6, RulesMean DEF Is, Acceptable, Plain, Recognised, Document
  <2>. QED
    BY <2>1
<1>7. CASE f = "bill"
  <2>1. (Broken(x, 13) /\ PrimaryField(Rules[13], x) = f) \/ (Broken(x, 15) /\ PrimaryField(Rules[15], x) = f)
    BY <1>7, RulesMean DEF Is, Acceptable, Plain, Recognised, Document
  <2>. QED
    BY <2>1
<1>8. CASE f = "waybill"
  <2>1. (Broken(x, 13) /\ PrimaryField(Rules[13], x) = f) \/ (Broken(x, 14) /\ PrimaryField(Rules[14], x) = f)
    BY <1>8, RulesMean DEF Is, Acceptable, Plain, Recognised, Document
  <2>. QED
    BY <2>1
<1>9. CASE f = "country"
  <2>1. (Broken(x, 19) /\ PrimaryField(Rules[19], x) = f)
    BY <1>9, RulesMean DEF Is, Acceptable, Plain, Recognised, Document
  <2>. QED
    BY <2>1
<1>10. CASE f = "goods"
  <2>1. (Broken(x, 21) /\ PrimaryField(Rules[21], x) = f) \/ (Broken(x, 22) /\ PrimaryField(Rules[22], x) = f)
    BY <1>10, RulesMean DEF Is, Acceptable, Plain, Recognised, Document
  <2>. QED
    BY <2>1
<1>11. CASE f = "quantity"
  <2>1. (Broken(x, 24) /\ PrimaryField(Rules[24], x) = f)
    BY <1>11, RulesMean DEF Is, Acceptable, Plain, Recognised, Document
  <2>. QED
    BY <2>1
<1>12. CASE f = "uom"
  <2>1. (Broken(x, 26) /\ PrimaryField(Rules[26], x) = f)
    BY <1>12, RulesMean DEF Is, Acceptable, Plain, Recognised, Document
  <2>. QED
    BY <2>1
<1>13. CASE f = "value"
  <2>1. (Broken(x, 28) /\ PrimaryField(Rules[28], x) = f)
    BY <1>13, RulesMean DEF Is, Acceptable, Plain, Recognised, Document
  <2>. QED
    BY <2>1
<1>14. CASE f = "arrival"
  <2>1. (Broken(x, 31) /\ PrimaryField(Rules[31], x) = f)
    BY <1>14, RulesMean DEF Is, Acceptable, Plain, Recognised, Document
  <2>. QED
    BY <2>1
<1>. QED
  BY EntryFieldsList, <1>1, <1>2, <1>3, <1>4, <1>5, <1>6, <1>7, <1>8, <1>9, <1>10, <1>11, <1>12, <1>13, <1>14

LEMMA BadFieldsAre ==
  ASSUME NEW x, Plain(x)
  PROVE  BadFields(x) = {f \in EntryFields : ~ Acceptable(f, x[f], x.mode)}
BY BrokenNames, UnacceptableBreaks DEF BadFields, Plain, Recognised

\* A rule requires rules about its own field.
LEMMA RequiresSameField ==
  ASSUME NEW i \in 1 .. 31, NEW j \in 1 .. 31, Rules[j].id \in Rules[i].requires
  PROVE  Rules[j].field = Rules[i].field
<1>. DEFINE Same(k) == \A l \in 1 .. 31 : Rules[l].id \in Rules[k].requires =>
                                           Rules[l].field = Rules[k].field
<1>1. Same(1)
  BY DEF Rules, Rule
<1>2. Same(2)
  BY DEF Rules, Rule
<1>3. Same(3)
  BY DEF Rules, Rule
<1>4. Same(4)
  BY DEF Rules, Rule
<1>5. Same(5)
  BY DEF Rules, Rule
<1>6. Same(6)
  BY DEF Rules, Rule
<1>7. Same(7)
  BY DEF Rules, Rule
<1>8. Same(8)
  BY DEF Rules, Rule
<1>9. Same(9)
  BY DEF Rules, Rule
<1>10. Same(10)
  BY DEF Rules, Rule
<1>11. Same(11)
  BY DEF Rules, Rule
<1>12. Same(12)
  BY DEF Rules, Rule
<1>13. Same(13)
  BY DEF Rules, Rule
<1>14. Same(14)
  BY DEF Rules, Rule
<1>15. Same(15)
  BY DEF Rules, Rule
<1>16. Same(16)
  BY DEF Rules, Rule
<1>17. Same(17)
  BY DEF Rules, Rule
<1>18. Same(18)
  BY DEF Rules, Rule
<1>19. Same(19)
  BY DEF Rules, Rule
<1>20. Same(20)
  BY DEF Rules, Rule
<1>21. Same(21)
  BY DEF Rules, Rule
<1>22. Same(22)
  BY DEF Rules, Rule
<1>23. Same(23)
  BY DEF Rules, Rule
<1>24. Same(24)
  BY DEF Rules, Rule
<1>25. Same(25)
  BY DEF Rules, Rule
<1>26. Same(26)
  BY DEF Rules, Rule
<1>27. Same(27)
  BY DEF Rules, Rule
<1>28. Same(28)
  BY DEF Rules, Rule
<1>29. Same(29)
  BY DEF Rules, Rule
<1>30. Same(30)
  BY DEF Rules, Rule
<1>31. Same(31)
  BY DEF Rules, Rule
<1>. HIDE DEF Same
<1>32. Same(i)
  BY <1>1, <1>2, <1>3, <1>4, <1>5, <1>6, <1>7, <1>8, <1>9, <1>10, <1>11, <1>12, <1>13, <1>14, <1>15, <1>16, <1>17, <1>18, <1>19, <1>20, <1>21, <1>22, <1>23, <1>24, <1>25, <1>26, <1>27, <1>28, <1>29, <1>30, <1>31
<1>. QED
  BY <1>32 DEF Same

\* After n rules: the findings are of broken ones, and every broken one's field is named.
Covers(e, findings, n) ==
    /\ \A k \in 1 .. Len(findings) :
          \E i \in 1 .. n : findings[k] = FindingOf(e, i) /\ Broken(e, i)
    /\ \A i \in 1 .. n : Broken(e, i) => PrimaryField(Rules[i], e) \in FieldsIn(findings)

LEMMA JudgeCovers ==
  ASSUME NEW e, NEW findings \in Seq(Findings), NEW n \in 0 .. 31, NEW i \in 1 .. 31,
         i = n + 1, Covers(e, findings, n)
  PROVE  Covers(e, Judge(e, i, findings), i)
<1>. DEFINE x == FindingOf(e, i)
            longer == Append(findings, x)
<1>1. /\ Len(findings) \in Nat /\ DOMAIN findings = 1 .. Len(findings)
      /\ x \in Findings /\ x.field = PrimaryField(Rules[i], e)
  <2>1. x \in Findings
    BY FindingType
  <2>2. x.field = PrimaryField(Rules[i], e)
    BY DEF FindingOf
  <2>. QED
    BY <2>1, <2>2
<1>2. /\ Len(longer) = Len(findings) + 1 /\ DOMAIN longer = 1 .. Len(findings) + 1
      /\ \A k \in 1 .. Len(findings) : longer[k] = findings[k]
      /\ longer[Len(findings) + 1] = x
  BY <1>1
<1>3. Judge(e, i, findings) = IF Violated(e, i, findings) THEN longer ELSE findings
  BY DEF Judge
<1>4. \A m : m \in 1 .. i <=> m \in 1 .. n \/ m = i
  OBVIOUS
<1>. HIDE DEF x, longer
<1>5. CASE Violated(e, i, findings)
  <2>1. Broken(e, i)
    BY <1>5 DEF Violated, Broken
  <2>2. FieldsIn(findings) \cup {x.field} \subseteq FieldsIn(longer)
    <3>1. Len(findings) + 1 \in DOMAIN longer /\ \A k \in DOMAIN findings : k \in DOMAIN longer
      BY <1>1, <1>2
    <3>. QED
      BY <1>1, <1>2, <3>1 DEF FieldsIn
  <2>3. \A k \in 1 .. Len(longer) : k \in 1 .. Len(findings) \/ k = Len(findings) + 1
    BY <1>1, <1>2
  <2>4. \A k \in 1 .. Len(longer) :
          \E m \in 1 .. i : longer[k] = FindingOf(e, m) /\ Broken(e, m)
    <3>. SUFFICES ASSUME NEW k \in 1 .. Len(longer)
                  PROVE  \E m \in 1 .. i : longer[k] = FindingOf(e, m) /\ Broken(e, m)
      OBVIOUS
    <3>1. CASE k \in 1 .. Len(findings)
      BY <1>2, <1>4, <3>1 DEF Covers
    <3>2. CASE k = Len(findings) + 1
      BY <1>2, <2>1, <3>2 DEF x
    <3>. QED
      BY <2>3, <3>1, <3>2
  <2>5. \A m \in 1 .. i : Broken(e, m) => PrimaryField(Rules[m], e) \in FieldsIn(longer)
    BY <1>1, <1>4, <2>2 DEF Covers
  <2>. QED
    BY <1>3, <1>5, <2>4, <2>5 DEF Covers
<1>6. CASE ~ Violated(e, i, findings)
  <2>1. ASSUME Broken(e, i)
        PROVE  PrimaryField(Rules[i], e) \in FieldsIn(findings)
    <3>1. Gated(Rules[i], RulesIn(findings))
      BY <1>6, <2>1 DEF Violated, Broken
    <3>2. PICK k \in 1 .. Len(findings) : findings[k].rule \in Rules[i].requires
      BY <1>1, <3>1 DEF Gated, RulesIn
    <3>3. PICK j \in 1 .. n : findings[k] = FindingOf(e, j)
      BY DEF Covers
    <3>4. j \in 1 .. 31
      OBVIOUS
    <3>5. /\ Rules[j].id \in Rules[i].requires
          /\ findings[k].field = PrimaryField(Rules[j], e)
      BY <3>2, <3>3 DEF FindingOf
    <3>6. PrimaryField(Rules[j], e) = PrimaryField(Rules[i], e)
      BY <3>4, <3>5, RequiresSameField DEF PrimaryField
    <3>. QED
      BY <1>1, <3>5, <3>6 DEF FieldsIn
  <2>2. \A m \in 1 .. i : Broken(e, m) => PrimaryField(Rules[m], e) \in FieldsIn(findings)
    BY <1>4, <2>1 DEF Covers
  <2>3. \A k \in 1 .. Len(findings) :
          \E m \in 1 .. i : findings[k] = FindingOf(e, m) /\ Broken(e, m)
    BY <1>4 DEF Covers
  <2>. QED
    BY <1>3, <1>6, <2>2, <2>3 DEF Covers
<1>. QED
  BY <1>5, <1>6

\* The fields that the findings name are those of the broken rules: what a gate
\* suppresses is about a field that is named already.
LEMMA FindingsNameBadFields ==
  ASSUME NEW e
  PROVE  /\ FieldsIn(Evaluate(e)) = BadFields(e)
         /\ Evaluate(e) = <<>> <=> BadFields(e) = {}
<1>1. PICK found \in [0 .. 31 -> Seq(Findings)] :
        /\ Evaluate(e) = found[31]
        /\ found[0] = <<>>
        /\ \A i \in 1 .. 31 : found[i] = Judge(e, i, found[i - 1])
  BY EvaluateUnfolds
<1>. DEFINE right == {n \in 0 .. 31 : Covers(e, found[n], n)}
<1>2. 0 \in right
  <2>1. 0 \in 0 .. 31 /\ Len(<<>>) = 0 /\ 1 .. 0 = {}
    OBVIOUS
  <2>2. Covers(e, <<>>, 0)
    BY <2>1 DEF Covers
  <2>. QED
    BY <1>1, <2>1, <2>2
<1>3. ASSUME NEW n \in 0 .. 31, n < 31, n \in right
      PROVE  n + 1 \in right
  <2>1. n + 1 \in 1 .. 31 /\ (n + 1) - 1 = n /\ n + 1 \in 0 .. 31
    BY <1>3, NextIndex
  <2>2. found[n + 1] = Judge(e, n + 1, found[n]) /\ found[n] \in Seq(Findings)
    BY <1>1, <2>1
  <2>3. Covers(e, found[n], n)
    BY <1>3
  <2>4. Covers(e, Judge(e, n + 1, found[n]), n + 1)
    BY <2>1, <2>2, <2>3, JudgeCovers
  <2>. QED
    BY <2>1, <2>2, <2>4
<1>4. 0 .. 31 \subseteq right
  <2>. HIDE DEF right
  <2>. QED
    BY <1>2, <1>3, InductionUpTo
<1>5. Covers(e, Evaluate(e), 31)
  <2>1. 31 \in 0 .. 31
    OBVIOUS
  <2>. QED
    BY <1>1, <1>4, <2>1
<1>6. Evaluate(e) \in Seq(Findings) /\ DOMAIN Evaluate(e) = 1 .. Len(Evaluate(e))
  BY EvaluateType, LenProperties
<1>7. FieldsIn(Evaluate(e)) = BadFields(e)
  <2>1. FieldsIn(Evaluate(e)) \subseteq BadFields(e)
    <3>. SUFFICES ASSUME NEW k \in 1 .. Len(Evaluate(e))
                  PROVE  Evaluate(e)[k].field \in BadFields(e)
      BY <1>6 DEF FieldsIn
    <3>1. PICK i \in 1 .. 31 : Evaluate(e)[k] = FindingOf(e, i) /\ Broken(e, i)
      BY <1>5 DEF Covers
    <3>2. Evaluate(e)[k].field = PrimaryField(Rules[i], e)
      BY <3>1 DEF FindingOf
    <3>. QED
      BY <3>1, <3>2 DEF BadFields
  <2>2. BadFields(e) \subseteq FieldsIn(Evaluate(e))
    BY <1>5 DEF Covers, BadFields
  <2>. QED
    BY <2>1, <2>2
<1>8. Evaluate(e) = <<>> <=> FieldsIn(Evaluate(e)) = {}
  <2>1. \A s \in Seq(Findings) : s = <<>> <=> DOMAIN s = {}
    BY EmptySeq, LenProperties
  <2>. QED
    BY <1>6, <2>1 DEF FieldsIn
<1>. QED
  BY <1>7, <1>8

LEMMA CorrectionAcceptable ==
  ASSUME NEW f \in EntryFields \ {"mode"}, NEW mode
  PROVE  Acceptable(f, Correction(f), mode)
<1>1. (CHOOSE n \in Numbers : n \notin BadNumbers) \in Numbers \ BadNumbers
  BY NumbersAssumption
<1>. QED
  BY <1>1, EntryFieldsList DEF Acceptable, Correction

\* Correcting all the fields that the findings name is enough, and leaving one of them
\* out is not, for every entry with a recognised mode and its own document only.
THEOREM CorrectionIsEnough ==
  ASSUME NEW e
  PROVE  OneCorrectionSuffices(e, Evaluate(e))
<1>. DEFINE F == FieldsIn(Evaluate(e))
<1>. SUFFICES ASSUME Plain(e), NEW S \in {F} \cup {F \ {f} : f \in F}
              PROVE  Evaluate(Correct(e, S, e.mode)) = <<>> <=> S = F
  BY DEF OneCorrectionSuffices
<1>1. F = {f \in EntryFields : ~ Acceptable(f, e[f], e.mode)}
  BY BadFieldsAre, FindingsNameBadFields
<1>2. S \subseteq F
  OBVIOUS
<1>3. "mode" \notin F /\ (e.mode = "AIR" => "bill" \notin F)
        /\ (e.mode # "AIR" => "waybill" \notin F)
  BY <1>1 DEF Acceptable, Plain
<1>. DEFINE x == Correct(e, S, e.mode)
<1>4. \A f \in EntryFields : x[f] = IF f \in S THEN Correction(f) ELSE e[f]
  BY <1>2, <1>3 DEF Correct
<1>. HIDE DEF x, F
<1>5. x.mode = e.mode /\ x.bill = (IF "bill" \in S THEN x.bill ELSE e.bill)
      /\ x.waybill = (IF "waybill" \in S THEN x.waybill ELSE e.waybill)
  BY <1>2, <1>3, <1>4, EntryFieldsList
<1>6. Plain(x)
  BY <1>2, <1>3, <1>5 DEF Plain
<1>7. ASSUME NEW f \in F
      PROVE  Acceptable(f, Correction(f), e.mode)
  BY <1>1, <1>3, CorrectionAcceptable
<1>8. BadFields(x) = F \ S
  <2>1. BadFields(x) = {f \in EntryFields : ~ Acceptable(f, x[f], e.mode)}
    BY <1>5, <1>6, BadFieldsAre
  <2>. QED
    BY <1>1, <1>2, <1>4, <1>7, <2>1
<1>9. Evaluate(x) = <<>> <=> F \ S = {}
  BY <1>8, FindingsNameBadFields
<1>10. Evaluate(x) = <<>> <=> S = F
  BY <1>2, <1>9
<1>. QED
  BY <1>10 DEF x

\* Whatever the entry, with a settled mode and without the other mode's document: nothing
\* is left after the fields that the findings name are corrected, but what depends on a
\* mode that was not recognised, and nothing after that.
THEOREM SecondCorrectionEnds ==
  ASSUME NEW e
  PROVE  NoThirdCorrection(e, Evaluate(e))
<1>. DEFINE F == FieldsIn(Evaluate(e))
            modes == IF e.mode \in Recognised THEN {e.mode} ELSE Recognised
<1>. SUFFICES ASSUME NEW mode \in modes
              PROVE  LET corrected == [Correct(e, F, mode) EXCEPT
                                          ![OtherDocument(mode)] = "absent"]
                         left == FieldsIn(Evaluate(corrected))
                     IN /\ left \subseteq IF e.mode \in Recognised THEN {}
                                          ELSE {"carrier", Document(mode)}
                        /\ Evaluate(Correct(corrected, left, mode)) = <<>>
  BY DEF NoThirdCorrection
<1>1. mode \in Recognised /\ (e.mode \in Recognised => mode = e.mode)
  OBVIOUS
<1>. DEFINE other == OtherDocument(mode)
            x == [Correct(e, F, mode) EXCEPT ![other] = "absent"]
            left == FieldsIn(Evaluate(x))
            y == Correct(x, left, mode)
<1>2. /\ other \in EntryFields \ {"mode", "carrier", Document(mode)}
      /\ Acceptable(other, "absent", mode)
      /\ Acceptable("mode", mode, mode)
  BY <1>1, EntryFieldsList DEF Recognised, OtherDocument, Document, Acceptable
<1>3. \A f \in EntryFields : x[f] = IF f = other THEN "absent" ELSE IF f = "mode" THEN mode
                                   ELSE IF f \in F THEN Correction(f) ELSE e[f]
  BY DEF Correct
<1>4. F = BadFields(e)
  BY FindingsNameBadFields
<1>. HIDE DEF x, other, F, modes
<1>5. x.mode = mode /\ Plain(x)
  BY <1>1, <1>2, <1>3, EntryFieldsList DEF Plain, Recognised, other, OtherDocument
<1>6. left = {f \in EntryFields : ~ Acceptable(f, x[f], mode)}
  BY <1>5, BadFieldsAre, FindingsNameBadFields
<1>. HIDE DEF left
<1>7. left \subseteq IF e.mode \in Recognised THEN {} ELSE {"carrier", Document(mode)}
  <2>. SUFFICES ASSUME NEW f \in left,
                       f \in {"carrier", Document(mode)} => e.mode \in Recognised
                PROVE  FALSE
    OBVIOUS
  <2>1. f \in EntryFields /\ ~ Acceptable(f, x[f], mode)
    BY <1>6
  <2>2. f # other /\ f # "mode"
    BY <1>2, <1>3, <2>1
  <2>3. f \notin F
    BY <1>3, <2>1, <2>2, CorrectionAcceptable
  <2>4. x[f] = e[f]
    BY <1>3, <2>1, <2>2, <2>3
  <2>5. f \in {"carrier", "bill", "waybill"} => e.mode \in Recognised
    BY <1>1, <2>2 DEF other, OtherDocument, Document
  <2>6. Acceptable(f, e[f], mode) <=> Acceptable(f, e[f], e.mode)
    BY <1>1, <2>5 DEF Acceptable
  <2>7. \E i \in 1 .. 31 : Broken(e, i) /\ PrimaryField(Rules[i], e) = f
    BY <2>1, <2>4, <2>5, <2>6, UnacceptableBreaks
  <2>. QED
    BY <1>4, <2>3, <2>7 DEF BadFields
<1>8. Evaluate(y) = <<>>
  <2>1. \A f \in EntryFields : y[f] = IF f = "mode" THEN mode
                                     ELSE IF f \in left THEN Correction(f) ELSE x[f]
    BY DEF Correct
  <2>. HIDE DEF y
  <2>2. other \notin left
    BY <1>2, <1>3, <1>6
  <2>3. y.mode = mode /\ Plain(y)
    BY <1>1, <1>2, <1>3, <2>1, <2>2, EntryFieldsList DEF Plain, Recognised, other, OtherDocument
  <2>4. \A f \in EntryFields : Acceptable(f, y[f], mode)
    BY <1>2, <1>6, <2>1, CorrectionAcceptable
  <2>. QED
    BY <2>3, <2>4, BadFieldsAre, FindingsNameBadFields
<1>. QED
  BY <1>7, <1>8 DEF x, other, left, y, F
=============================================================================
