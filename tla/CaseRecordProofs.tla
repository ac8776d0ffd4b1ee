-------------------------- MODULE CaseRecordProofs --------------------------
(***************************************************************************)
(* Theorems about CaseRecord, for every number of requests and jobs, every *)
(* set of bodies, values and proposals, and every choice of faults.        *)
(***************************************************************************)
EXTENDS CaseRecord, TLAPS

Labels == {"idle", "precheck", "lock", "resolve", "write", "respond", "generate",
           "update", "append", "insert", "commit", "done", "lost"}

-----------------------------------------------------------------------------
(* Operators on data. *)

LEMMA NoValuesType == NoValues \in ValueMaps
<1>1. {} \in SUBSET Fields
  OBVIOUS
<1>2. NoValues \in [{} -> Values]
  BY DEF NoValues
<1>. QED
  BY <1>1, <1>2 DEF ValueMaps

LEMMA RecommendationTypes == Pending \in Recommendation /\ Unavailable \in Recommendation
BY NoValuesType DEF Pending, Unavailable, Recommendation

LEMMA ValueMapType ==
  ASSUME NEW m \in ValueMaps
  PROVE  /\ DOMAIN m \subseteq Fields
         /\ \A f \in DOMAIN m : m[f] \in Values
BY DEF ValueMaps

LEMMA HashTypes ==
  /\ ZeroHash \in Hash
  /\ \A e \in AuditEntry : EntryHash(e) \in Hash
BY DEF ZeroHash, Hash, EntryHash, AuditEntry

LEMMA NoWorkType == NoWork \in Work
BY RecommendationTypes, HashTypes DEF NoWork, Work

\* What a decision adopts is a set of values of fields, each with an origin.
LEMMA AdoptedValuesType ==
  ASSUME NEW b \in Body, NEW basis \in Recommendation
  PROVE  AdoptedValues(b, basis) \in SUBSET Resolution
<1>1. basis.values \in ValueMaps /\ b.values \in ValueMaps /\ b.type \in DecisionTypes
  BY DEF Recommendation, Body
<1>2. CASE b.type = "APPROVE"
  <2>1. \A f \in DOMAIN basis.values : f \in Fields /\ basis.values[f] \in Values
    BY <1>1, ValueMapType
  <2>. QED
    BY <1>2, <2>1 DEF AdoptedValues, Resolution
<1>3. CASE b.type = "EDIT_APPROVE"
  <2>1. \A f \in DOMAIN b.values : f \in Fields /\ b.values[f] \in Values
    BY <1>1, ValueMapType
  <2>2. \A f : OriginOf(b, basis, f) \in {"AI", "HUMAN"}
    BY DEF OriginOf
  <2>. QED
    BY <1>3, <2>1, <2>2 DEF AdoptedValues, Resolution
<1>4. CASE b.type = "REJECT"
  BY <1>4 DEF AdoptedValues
<1>. QED
  BY <1>1, <1>2, <1>3, <1>4 DEF DecisionTypes

LEMMA ActionTypes ==
  /\ \A t \in DecisionTypes : DecisionAction(t) \in DecisionActions
  /\ \A s : OutcomeAction(s) \in OutcomeActions
  /\ \A t \in DecisionTypes : ResultingState(t) \in {"RESOLVED", "REJECTED"}
<1>1. \A s : OutcomeAction(s) \in OutcomeActions
  <2>1. OutcomeAction("AVAILABLE") = "RECOMMENDATION_GENERATED"
        /\ OutcomeAction("UNAVAILABLE") = "RECOMMENDATION_UNAVAILABLE"
    BY DEF OutcomeAction
  <2>2. {"RECOMMENDATION_GENERATED", "RECOMMENDATION_UNAVAILABLE"} \subseteq OutcomeActions
    BY <2>1 DEF OutcomeActions
  <2>. QED
    BY <2>2 DEF OutcomeAction
<1>. QED
  BY <1>1 DEF DecisionActions, ResultingState

\* A set of entries with a last one still has a last one when one more is added.
HasLast(trail) == \E e \in trail : \A f \in trail : f.seq <= e.seq

LEMMA LastIsLast ==
  ASSUME NEW trail, HasLast(trail)
  PROVE  Last(trail) \in trail /\ \A f \in trail : f.seq <= Last(trail).seq
BY DEF HasLast, Last

LEMMA LastAfterAdding ==
  ASSUME NEW trail \in SUBSET AuditEntry, HasLast(trail), NEW e \in AuditEntry
  PROVE  HasLast(trail \cup {e})
<1>. DEFINE m == Last(trail)
<1>1. m \in trail /\ \A f \in trail : f.seq <= m.seq
  BY LastIsLast
<1>2. m.seq \in Nat /\ e.seq \in Nat /\ \A f \in trail : f.seq \in Nat
  BY <1>1 DEF AuditEntry
<1>. HIDE DEF m
<1>3. CASE e.seq <= m.seq
  BY <1>1, <1>2, <1>3 DEF HasLast
<1>4. CASE m.seq < e.seq
  <2>1. \A f \in trail \cup {e} : f.seq <= e.seq
    BY <1>1, <1>2, <1>4
  <2>. QED
    BY <2>1 DEF HasLast
<1>. QED
  BY <1>2, <1>3, <1>4

-----------------------------------------------------------------------------
(* Type correctness.  The sequence of a new entry is one more than that of the
   last entry of the trail, so the trail must have a last entry: it starts with
   three, and a transaction adds at most one. *)

\* A transaction's work is that of its kind of process, with at most one entry.
Own(p, w) ==
    /\ \A e, f \in w.entry : e = f
    /\ w.decision # {} => p \in Requests
    /\ w.outcome # {} => p \in Jobs

OwnWork == \A p \in Procs : Own(p, tx[p])

TypeInv == TypeOK /\ HasLast(audit) /\ OwnWork

LEMMA InitTypeInv == Init => TypeInv
<1>. SUFFICES ASSUME Init PROVE TypeInv
  OBVIOUS
<1>1. audit \subseteq AuditEntry
  BY DEF Init, Opening, AuditEntry, OpeningActions, Hash, ZeroHash
<1>2. HasLast(audit)
  BY DEF Init, Opening, HasLast
<1>3. tx \in [Procs -> Work] /\ OwnWork
  BY NoWorkType DEF Init, OwnWork, Own, NoWork
<1>4. /\ rec \in Recommendation
      /\ answer \in [Jobs -> Recommendation]
  BY RecommendationTypes DEF Init
<1>5. /\ exc \in [state : {"OPEN", "RESOLVED", "REJECTED"}, decision : Requests \cup {Nobody}]
      /\ decisions \subseteq Decision
      /\ holder \in [{"exception", "anchor", "recommendation"} -> SUBSET Procs]
      /\ keyShare \subseteq Procs
      /\ request \in [Requests -> [key : Keys \cup {NoKey}, body : Bodies]]
  BY DEF Init
<1>6. pc \in [Procs -> Labels]
  BY DEF Init, Labels
<1>7. reply \in [Procs -> [code : Codes, of : Requests \cup {Nobody}]]
  BY DEF Init, Codes
<1>. QED
  BY <1>1, <1>2, <1>3, <1>4, <1>5, <1>6, <1>7 DEF TypeInv, TypeOK, Labels

\* The parts that actions share.
LEMMA GotoType ==
  ASSUME TypeOK, NEW p \in Procs, NEW label \in Labels, Goto(p, label)
  PROVE  pc' \in [Procs -> Labels]
BY DEF TypeOK, Goto, Labels

LEMMA FinishType ==
  ASSUME TypeOK, NEW p \in Procs, NEW code \in Codes, NEW of \in Requests \cup {Nobody},
         Finish(p, code, of)
  PROVE  /\ pc' \in [Procs -> Labels]
         /\ reply' \in [Procs -> [code : Codes, of : Requests \cup {Nobody}]]
BY DEF TypeOK, Finish, Labels

LEMMA AcquireType ==
  ASSUME TypeOK, NEW p \in Procs, NEW row \in {"exception", "anchor", "recommendation"},
         Acquire(p, row)
  PROVE  holder' \in [{"exception", "anchor", "recommendation"} -> SUBSET Procs]
BY DEF TypeOK, Acquire

LEMMA ReleaseType ==
  ASSUME TypeOK, NEW p \in Procs, ReleaseLocks(p)
  PROVE  /\ holder' \in [{"exception", "anchor", "recommendation"} -> SUBSET Procs]
         /\ keyShare' \subseteq Procs
BY DEF TypeOK, ReleaseLocks

LEMMA RollbackType ==
  ASSUME TypeInv, NEW p \in Procs, Rollback(p)
  PROVE  /\ tx' \in [Procs -> Work]
         /\ OwnWork'
         /\ holder' \in [{"exception", "anchor", "recommendation"} -> SUBSET Procs]
         /\ keyShare' \subseteq Procs
<1>. USE DEF TypeInv
<1>1. tx' = [tx EXCEPT ![p] = NoWork] /\ ReleaseLocks(p)
  BY DEF Rollback
<1>2. tx' \in [Procs -> Work]
  BY <1>1, NoWorkType DEF TypeOK
<1>3. OwnWork'
  BY <1>1 DEF OwnWork, Own, NoWork, TypeOK
<1>. QED
  BY <1>1, <1>2, <1>3, ReleaseType

LEMMA FailType ==
  ASSUME TypeInv, NEW p \in Procs, NEW code \in Codes, NEW of \in Requests \cup {Nobody},
         Fail(p, code, of), UNCHANGED <<request, answer>>
  PROVE  TypeInv'
<1>1. Rollback(p) /\ Finish(p, code, of) /\ UNCHANGED tables
  BY DEF Fail, Rollback
<1>2. /\ pc' \in [Procs -> Labels]
      /\ reply' \in [Procs -> [code : Codes, of : Requests \cup {Nobody}]]
  BY <1>1, FinishType DEF TypeInv
<1>. QED
  BY <1>1, <1>2, RollbackType DEF TypeInv, TypeOK, tables, Labels

\* A change of one transaction's work.
LEMMA WorkType ==
  ASSUME TypeInv, NEW p \in Procs, NEW w \in Work,
         Own(p, w), tx' = [tx EXCEPT ![p] = w]
  PROVE  tx' \in [Procs -> Work] /\ OwnWork'
BY DEF TypeInv, TypeOK, OwnWork

LEMMA SubmitType ==
  ASSUME TypeInv, NEW r \in Requests, Submit(r)
  PROVE  TypeInv'
<1>1. pc' \in [Procs -> Labels]
  BY GotoType DEF Submit, TypeInv, Labels, Procs
<1>. QED
  BY <1>1 DEF Submit, TypeInv, TypeOK, OwnWork, HasLast, tables, locks, Labels

LEMMA PrecheckType ==
  ASSUME TypeInv, NEW r \in Requests, Precheck(r)
  PROVE  TypeInv'
<1>1. \A d \in decisions : d.by \in Requests
  BY DEF TypeInv, TypeOK, Decision
<1>2. \/ Goto(r, "lock") /\ UNCHANGED reply
      \/ \E d \in decisions : Finish(r, "replayed", d.by) \/ Finish(r, "key_reused", d.by)
  BY DEF Precheck
<1>3. /\ pc' \in [Procs -> Labels]
      /\ reply' \in [Procs -> [code : Codes, of : Requests \cup {Nobody}]]
  <2>1. CASE Goto(r, "lock") /\ UNCHANGED reply
    BY <2>1, GotoType DEF TypeInv, TypeOK, Labels, Procs
  <2>2. CASE \E d \in decisions : Finish(r, "replayed", d.by) \/ Finish(r, "key_reused", d.by)
    BY <2>2, <1>1, FinishType DEF TypeInv, Codes, Procs
  <2>. QED
    BY <1>2, <2>1, <2>2
<1>. QED
  BY <1>3 DEF Precheck, TypeInv, TypeOK, OwnWork, HasLast, tables, locks, Labels

LEMMA LockExceptionType ==
  ASSUME TypeInv, NEW r \in Requests, LockException(r)
  PROVE  TypeInv'
<1>0. r \in Procs /\ exc.decision \in Requests \cup {Nobody}
  BY DEF Procs, TypeInv, TypeOK
<1>1. CASE /\ Acquire(r, "exception")
           /\ Goto(r, "resolve")
           /\ UNCHANGED <<tables, keyShare, tx, reply>>
  BY <1>0, <1>1, AcquireType, GotoType
  DEF LockException, TypeInv, TypeOK, OwnWork, HasLast, tables, Labels
<1>2. CASE Fail(r, "already_decided", exc.decision)
  BY <1>0, <1>2, FailType DEF LockException, Codes
<1>. QED
  BY <1>1, <1>2 DEF LockException

LEMMA ReadRecommendationType ==
  ASSUME TypeInv, NEW r \in Requests, ReadRecommendation(r)
  PROVE  TypeInv'
<1>0. r \in Procs /\ rec \in Recommendation /\ tx[r] \in Work
  BY DEF Procs, TypeInv, TypeOK
<1>1. CASE /\ tx' = [tx EXCEPT ![r].basis = rec]
           /\ Goto(r, "write")
           /\ UNCHANGED <<tables, locks, reply>>
  <2>1. [tx[r] EXCEPT !.basis = rec] \in Work
    BY <1>0 DEF Work
  <2>2. tx' = [tx EXCEPT ![r] = [tx[r] EXCEPT !.basis = rec]]
    BY <1>1, <1>0 DEF TypeInv, TypeOK
  <2>3. tx' \in [Procs -> Work] /\ OwnWork'
    BY <2>1, <2>2, <1>0, WorkType DEF TypeInv, OwnWork, Own, Work
  <2>. QED
    BY <1>0, <1>1, <2>3, GotoType
    DEF ReadRecommendation, TypeInv, TypeOK, HasLast, tables, locks, Labels
<1>2. CASE /\ Verdict(request[r].body, rec) # "accepted"
           /\ Fail(r, Verdict(request[r].body, rec), Nobody)
  <2>1. Verdict(request[r].body, rec) \in Codes
    BY <1>2 DEF Verdict, Codes
  <2>. QED
    BY <1>0, <1>2, <2>1, FailType DEF ReadRecommendation
<1>. QED
  BY <1>1, <1>2 DEF ReadRecommendation

LEMMA DecisionOfType ==
  ASSUME TypeInv, NEW r \in Requests
  PROVE  DecisionOf(r) \in Decision
<1>1. /\ request[r].key \in Keys \cup {NoKey}
      /\ request[r].body \in Bodies
      /\ tx[r].basis \in Recommendation
  BY DEF TypeInv, TypeOK, Work, Procs
<1>2. request[r].body \in Body /\ request[r].body.type \in DecisionTypes
  BY <1>1, DataAssumption DEF Body
<1>3. AdoptedValues(request[r].body, tx[r].basis) \in SUBSET Resolution
  BY <1>1, <1>2, AdoptedValuesType
<1>. QED
  BY <1>1, <1>2, <1>3 DEF DecisionOf, Decision

LEMMA WriteDecisionType ==
  ASSUME TypeInv, NEW r \in Requests, WriteDecision(r)
  PROVE  TypeInv'
<1>0. r \in Procs /\ tx[r] \in Work
  BY DEF Procs, TypeInv, TypeOK
<1>1. CASE /\ Acquire(r, "anchor")
           /\ tx' = [tx EXCEPT ![r].decision = {DecisionOf(r)}]
           /\ Goto(r, "append")
           /\ UNCHANGED <<tables, keyShare, reply>>
  <2>1. [tx[r] EXCEPT !.decision = {DecisionOf(r)}] \in Work
    BY <1>0, DecisionOfType DEF Work
  <2>2. tx' = [tx EXCEPT ![r] = [tx[r] EXCEPT !.decision = {DecisionOf(r)}]]
    BY <1>1, <1>0 DEF TypeInv, TypeOK
  <2>3. tx' \in [Procs -> Work] /\ OwnWork'
    BY <2>1, <2>2, <1>0, WorkType DEF TypeInv, OwnWork, Own, Work
  <2>. QED
    BY <1>0, <1>1, <2>3, GotoType, AcquireType
    DEF WriteDecision, TypeInv, TypeOK, HasLast, tables, Labels
<1>2. CASE Fail(r, "conflict", Nobody)
  BY <1>0, <1>2, FailType DEF WriteDecision, Codes
<1>. QED
  BY <1>1, <1>2 DEF WriteDecision

LEMMA RespondType ==
  ASSUME TypeInv, NEW r \in Requests, Respond(r)
  PROVE  TypeInv'
<1>1. /\ pc' \in [Procs -> Labels]
      /\ reply' \in [Procs -> [code : Codes, of : Requests \cup {Nobody}]]
  BY FinishType DEF Respond, Codes, TypeInv, Procs
<1>. QED
  BY <1>1 DEF Respond, TypeInv, TypeOK, OwnWork, HasLast, tables, locks, Labels

LEMMA StartJobType ==
  ASSUME TypeInv, NEW j \in Jobs, StartJob(j)
  PROVE  TypeInv'
<1>1. /\ pc' \in [Procs -> Labels]
      /\ reply' \in [Procs -> [code : Codes, of : Requests \cup {Nobody}]]
  <2>1. CASE Goto(j, "generate") /\ UNCHANGED reply
    BY <2>1, GotoType DEF TypeInv, TypeOK, Labels, Procs
  <2>2. CASE Finish(j, "skipped", Nobody)
    BY <2>2, FinishType DEF TypeInv, Codes, Procs
  <2>. QED
    BY <2>1, <2>2 DEF StartJob
<1>. QED
  BY <1>1 DEF StartJob, TypeInv, TypeOK, OwnWork, HasLast, tables, locks, Labels

LEMMA GenerateType ==
  ASSUME TypeInv, NEW j \in Jobs, Generate(j)
  PROVE  TypeInv'
<1>1. pc' \in [Procs -> Labels]
  BY GotoType DEF Generate, TypeInv, Labels, Procs
<1>2. \A v \in Proposals : [status |-> "AVAILABLE", values |-> v] \in Recommendation
  BY DataAssumption DEF Recommendation
<1>3. answer' \in [Jobs -> Recommendation]
  <2>1. PICK a \in {[status |-> "AVAILABLE", values |-> v] : v \in Proposals} \cup {Unavailable} :
          answer' = [answer EXCEPT ![j] = a]
    BY DEF Generate
  <2>2. a \in Recommendation
    BY <1>2, RecommendationTypes
  <2>. QED
    BY <2>1, <2>2 DEF TypeInv, TypeOK
<1>. QED
  BY <1>1, <1>3 DEF Generate, TypeInv, TypeOK, OwnWork, HasLast, tables, locks, Labels

LEMMA UpdateRecommendationType ==
  ASSUME TypeInv, NEW j \in Jobs, UpdateRecommendation(j)
  PROVE  TypeInv'
<1>0. j \in Procs /\ tx[j] \in Work /\ answer[j] \in Recommendation
  BY DEF Procs, TypeInv, TypeOK
<1>1. CASE /\ Acquire(j, "recommendation")
           /\ tx' = [tx EXCEPT ![j].outcome = {answer[j]}]
           /\ Goto(j, "append")
           /\ UNCHANGED <<keyShare, reply>>
  <2>1. [tx[j] EXCEPT !.outcome = {answer[j]}] \in Work
    BY <1>0 DEF Work
  <2>2. tx' = [tx EXCEPT ![j] = [tx[j] EXCEPT !.outcome = {answer[j]}]]
    BY <1>1, <1>0 DEF TypeInv, TypeOK
  <2>3. tx' \in [Procs -> Work] /\ OwnWork'
    BY <2>1, <2>2, <1>0, WorkType DEF TypeInv, OwnWork, Own, Work
  <2>. QED
    BY <1>0, <1>1, <2>3, GotoType, AcquireType
    DEF UpdateRecommendation, TypeInv, TypeOK, HasLast, tables, Labels
<1>2. CASE Finish(j, "skipped", Nobody) /\ UNCHANGED <<tx, locks>>
  <2>1. /\ pc' \in [Procs -> Labels]
        /\ reply' \in [Procs -> [code : Codes, of : Requests \cup {Nobody}]]
    BY <1>0, <1>2, FinishType DEF Codes, TypeInv
  <2>. QED
    BY <1>2, <2>1
    DEF UpdateRecommendation, TypeInv, TypeOK, OwnWork, HasLast, tables, locks, Labels
<1>. QED
  BY <1>1, <1>2 DEF UpdateRecommendation

LEMMA RefuseEntryType ==
  ASSUME TypeInv, NEW p \in Procs, RefuseEntry(p)
  PROVE  TypeInv'
<1>1. CASE Fail(p, "forbidden", Nobody) /\ UNCHANGED answer
  BY <1>1, FailType DEF RefuseEntry, Codes
<1>2. CASE /\ p \in Jobs
           /\ Rollback(p)
           /\ answer' = [answer EXCEPT ![p] = Unavailable]
           /\ Goto(p, "update")
           /\ UNCHANGED reply
  <2>1. answer' \in [Jobs -> Recommendation]
    BY <1>2, RecommendationTypes DEF TypeInv, TypeOK
  <2>2. pc' \in [Procs -> Labels]
    BY <1>2, GotoType DEF TypeInv, Labels
  <2>. QED
    BY <1>2, <2>1, <2>2, RollbackType
    DEF RefuseEntry, Rollback, TypeInv, TypeOK, HasLast, tables, Labels
<1>. QED
  BY <1>1, <1>2 DEF RefuseEntry

LEMMA ReadTailType ==
  ASSUME TypeInv, NEW p \in Procs, ReadTail(p)
  PROVE  TypeInv'
<1>0. tx[p] \in Work /\ EntryHash(Last(audit)) \in Hash
  BY LastIsLast, HashTypes DEF TypeInv, TypeOK
<1>1. [tx[p] EXCEPT !.tail = EntryHash(Last(audit))] \in Work
  BY <1>0 DEF Work
<1>2. tx' = [tx EXCEPT ![p] = [tx[p] EXCEPT !.tail = EntryHash(Last(audit))]]
  BY <1>0 DEF TypeInv, TypeOK, ReadTail
<1>3. tx' \in [Procs -> Work] /\ OwnWork'
  BY <1>0, <1>1, <1>2, WorkType DEF TypeInv, OwnWork, Own, Work
<1>4. pc' \in [Procs -> Labels]
  BY GotoType DEF ReadTail, TypeInv, Labels
<1>5. holder' \in [{"exception", "anchor", "recommendation"} -> SUBSET Procs]
  BY AcquireType DEF ReadTail, TypeInv
<1>. QED
  BY <1>3, <1>4, <1>5 DEF ReadTail, TypeInv, TypeOK, HasLast, tables, Labels

LEMMA EntryOfType ==
  ASSUME TypeInv, NEW p \in Procs
  PROVE  EntryOf(p) \in AuditEntry
<1>1. tx[p].tail \in Hash /\ tx[p].tail.seq + 1 \in Nat
  BY DEF TypeInv, TypeOK, Work, Hash
<1>2. p \in Requests => DecisionAction(request[p].body.type) \in DecisionActions
  BY ActionTypes, DataAssumption DEF TypeInv, TypeOK, Body
<1>. QED
  BY <1>1, <1>2, ActionTypes DEF EntryOf, AuditEntry

LEMMA InsertEntryType ==
  ASSUME TypeInv, NEW p \in Procs, InsertEntry(p)
  PROVE  TypeInv'
<1>0. tx[p] \in Work /\ EntryOf(p) \in AuditEntry
  BY EntryOfType DEF TypeInv, TypeOK
<1>1. CASE /\ tx' = [tx EXCEPT ![p].entry = {EntryOf(p)}]
           /\ keyShare' = keyShare \cup {p}
           /\ Goto(p, "commit")
           /\ UNCHANGED <<tables, holder, reply>>
  <2>1. [tx[p] EXCEPT !.entry = {EntryOf(p)}] \in Work
    BY <1>0 DEF Work
  <2>2. tx' = [tx EXCEPT ![p] = [tx[p] EXCEPT !.entry = {EntryOf(p)}]]
    BY <1>1, <1>0 DEF TypeInv, TypeOK
  <2>3. tx' \in [Procs -> Work] /\ OwnWork'
    BY <2>1, <2>2, <1>0, WorkType DEF TypeInv, OwnWork, Own, Work
  <2>. QED
    BY <1>1, <2>3, GotoType
    DEF InsertEntry, TypeInv, TypeOK, HasLast, tables, Labels
<1>2. CASE Fail(p, "conflict", Nobody)
  BY <1>2, FailType DEF InsertEntry, Codes
<1>. QED
  BY <1>1, <1>2 DEF InsertEntry

LEMMA ApplyType ==
  ASSUME TypeInv, NEW p \in Procs, Apply(p)
  PROVE  /\ exc' \in [state : {"OPEN", "RESOLVED", "REJECTED"}, decision : Requests \cup {Nobody}]
         /\ rec' \in Recommendation
         /\ decisions' \subseteq Decision
         /\ audit' \subseteq AuditEntry
         /\ HasLast(audit')
         /\ tx' \in [Procs -> Work]
         /\ OwnWork'
         /\ holder' \in [{"exception", "anchor", "recommendation"} -> SUBSET Procs]
         /\ keyShare' \subseteq Procs
<1>0. tx[p] \in Work
  BY DEF TypeInv, TypeOK
<1>1. exc' \in [state : {"OPEN", "RESOLVED", "REJECTED"}, decision : Requests \cup {Nobody}]
  <2>1. CASE tx[p].decision = {}
    BY <2>1 DEF Apply, TypeInv, TypeOK
  <2>2. CASE tx[p].decision # {}
    <3>1. p \in Requests /\ request[p].body.type \in DecisionTypes
      BY <2>2, DataAssumption DEF TypeInv, OwnWork, Own, TypeOK, Body
    <3>. QED
      BY <2>2, <3>1, ActionTypes DEF Apply
  <2>. QED
    BY <2>1, <2>2
<1>2. rec' \in Recommendation
  BY DEF Apply, TypeInv, OwnWork, Own, TypeOK
<1>3. decisions' \subseteq Decision
  BY <1>0 DEF Apply, TypeInv, TypeOK, Work
<1>4. audit' \subseteq AuditEntry /\ HasLast(audit')
  <2>1. CASE tx[p].entry = {}
    BY <2>1 DEF Apply, TypeInv, TypeOK, HasLast
  <2>2. CASE tx[p].entry # {}
    <3>1. PICK e \in AuditEntry : tx[p].entry = {e}
      BY <2>2, <1>0 DEF TypeInv, OwnWork, Own, Work
    <3>2. audit' = audit \cup {e}
      BY <3>1 DEF Apply
    <3>. QED
      BY <3>2, LastAfterAdding DEF TypeInv, TypeOK
  <2>. QED
    BY <2>1, <2>2 DEF TypeInv, OwnWork, Own
<1>5. tx' \in [Procs -> Work] /\ OwnWork'
  BY NoWorkType, WorkType DEF Apply, NoWork, Own
<1>. QED
  BY <1>1, <1>2, <1>3, <1>4, <1>5, ReleaseType DEF Apply, TypeInv

LEMMA CommitType ==
  ASSUME TypeInv, NEW p \in Procs, Commit(p)
  PROVE  TypeInv'
<1>1. CASE Apply(p) /\ Goto(p, "respond") /\ UNCHANGED reply
  <2>1. pc' \in [Procs -> Labels]
    BY <1>1, GotoType DEF TypeInv, Labels
  <2>. QED
    BY <1>1, <2>1, ApplyType DEF Commit, TypeInv, TypeOK, Labels
<1>2. CASE Apply(p) /\ Finish(p, "settled", Nobody)
  <2>1. /\ pc' \in [Procs -> Labels]
        /\ reply' \in [Procs -> [code : Codes, of : Requests \cup {Nobody}]]
    BY <1>2, FinishType DEF TypeInv, Codes
  <2>. QED
    BY <1>2, <2>1, ApplyType DEF Commit, TypeInv, TypeOK, Labels
<1>3. CASE Fail(p, "violation", Nobody)
  BY <1>3, FailType DEF Commit, Codes
<1>. QED
  BY <1>1, <1>2, <1>3 DEF Commit

LEMMA EnvironmentType ==
  ASSUME TypeInv, NEW p \in Procs,
         DeadlockAbort(p) \/ EnvironmentError(p) \/ LoseAck(p)
  PROVE  TypeInv'
<1>1. CASE DeadlockAbort(p)
  BY <1>1, FailType DEF DeadlockAbort, Codes
<1>2. CASE EnvironmentError(p)
  BY <1>2, FailType DEF EnvironmentError, Codes
<1>3. CASE LoseAck(p)
  <2>1. /\ pc' \in [Procs -> Labels]
        /\ reply' \in [Procs -> [code : Codes, of : Requests \cup {Nobody}]]
    BY <1>3, FinishType DEF LoseAck, TypeInv, Codes
  <2>. QED
    BY <1>3, <2>1, ApplyType DEF LoseAck, TypeInv, TypeOK, Labels
<1>. QED
  BY <1>1, <1>2, <1>3

LEMMA CrashType ==
  ASSUME TypeInv, Crash
  PROVE  TypeInv'
<1>1. pc' \in [Procs -> Labels]
  BY DEF Crash, TypeInv, TypeOK, Labels
<1>2. tx' \in [Procs -> Work] /\ OwnWork'
  BY NoWorkType DEF Crash, OwnWork, Own, NoWork
<1>3. /\ holder' \in [{"exception", "anchor", "recommendation"} -> SUBSET Procs]
      /\ keyShare' \subseteq Procs
  BY DEF Crash, TypeInv, TypeOK
<1>. QED
  BY <1>1, <1>2, <1>3 DEF Crash, TypeInv, TypeOK, HasLast, tables, Labels

LEMMA NextTypeInv == TypeInv /\ [Next]_vars => TypeInv'
<1>. SUFFICES ASSUME TypeInv, [Next]_vars PROVE TypeInv'
  OBVIOUS
<1>1. ASSUME NEW r \in Requests, Submit(r) \/ RequestStep(r)
      PROVE  TypeInv'
  BY <1>1, SubmitType, PrecheckType, LockExceptionType, ReadRecommendationType,
     WriteDecisionType, RespondType DEF RequestStep
<1>2. ASSUME NEW j \in Jobs, JobStep(j) \/ Generate(j)
      PROVE  TypeInv'
  BY <1>2, StartJobType, GenerateType, UpdateRecommendationType DEF JobStep
<1>3. ASSUME NEW p \in Procs, WriterStep(p)
      PROVE  TypeInv'
  BY <1>3, RefuseEntryType, ReadTailType, InsertEntryType, CommitType DEF WriterStep
<1>4. ASSUME NEW p \in Procs, DeadlockAbort(p) \/ EnvironmentError(p) \/ LoseAck(p)
      PROVE  TypeInv'
  BY <1>4, EnvironmentType
<1>5. CASE Crash
  BY <1>5, CrashType
<1>6. CASE UNCHANGED vars
  BY <1>6 DEF vars, TypeInv, TypeOK, OwnWork, Own, HasLast
<1>. QED
  BY <1>1, <1>2, <1>3, <1>4, <1>5, <1>6 DEF Next, Quiescent

\* Every reachable state is well typed: whatever requests, jobs and faults do,
\* the tables, the locks and the open transactions hold what the schema and the
\* code declare.
THEOREM TypeCorrect == Spec => []TypeOK
<1>1. TypeInv => TypeOK
  BY DEF TypeInv
<1>. QED
  BY <1>1, InitTypeInv, NextTypeInv, PTL DEF Spec

THEOREM TypeInvariant == Spec => []TypeInv
BY InitTypeInv, NextTypeInv, PTL DEF Spec

-----------------------------------------------------------------------------
(* The inductive invariant of the case.

   Three row locks order everything.  A decision holds the exceptions row from
   its first statement to its end, and while it does no job can have inserted an
   audit entry, because that insert needs a key-share lock on the same row: so
   the recommendation it read unlocked is still the recommendation when it
   commits.  A job holds the recommendation row from its conditional update, so
   the recommendation is still pending when it commits.  The case anchor is held
   from the read of the chain's tail to the commit, so the tail is still the
   tail. *)

ExclusiveLocks ==
    /\ \A row \in {"exception", "anchor", "recommendation"} :
          \A p, q \in holder[row] : p = q
    /\ \A p \in holder["exception"] : \A q \in keyShare : p = q

\* The audit writer's part of a transaction.
WriterInv(p) ==
    /\ pc[p] # "commit" => tx[p].entry = {}
    /\ pc[p] \in {"insert", "commit"} =>
          p \in holder["anchor"] /\ tx[p].tail = EntryHash(Last(audit))
    /\ pc[p] = "commit" => p \in keyShare /\ tx[p].entry = {EntryOf(p)}
    /\ reply[p].code \notin {"conflict", "violation"}

RequestInv(r) ==
    /\ pc[r] \in {"resolve", "write", "append", "insert", "commit"} =>
          r \in holder["exception"] /\ exc.state = "OPEN"
    /\ pc[r] \in {"write", "append", "insert", "commit"} =>
          tx[r].basis = rec /\ Verdict(request[r].body, rec) = "accepted"
    /\ pc[r] \in {"append", "insert", "commit"} => tx[r].decision = {DecisionOf(r)}
    /\ pc[r] \notin {"append", "insert", "commit"} => tx[r].decision = {}

JobInv(j) ==
    /\ pc[j] \in {"update", "append", "insert", "commit"} =>
          answer[j].status = "AVAILABLE" \/ answer[j] = Unavailable
    /\ pc[j] \in {"append", "insert", "commit"} =>
          /\ j \in holder["recommendation"]
          /\ rec.status = "PENDING"
          /\ tx[j].outcome = {answer[j]}
    /\ pc[j] \notin {"append", "insert", "commit"} => tx[j].outcome = {}

\* A stored decision is one the code accepts on its basis, with its values.
DecisionSound(d) ==
    /\ d.type = d.body.type
    /\ Verdict(d.body, d.basis) = "accepted"
    /\ d.values = AdoptedValues(d.body, d.basis)

TablesInv ==
    /\ Chained
    /\ \A e \in audit : e.seq >= 1
    /\ AuditCoupled
    /\ rec.status = "AVAILABLE" \/ rec = Pending \/ rec = Unavailable
    /\ DecidedOnWhatTheTrailShows
    /\ \A d \in decisions : DecisionSound(d)

SafeInv ==
    /\ TypeInv
    /\ ExclusiveLocks
    /\ TablesInv
    /\ \A p \in Procs : WriterInv(p)
    /\ \A r \in Requests : RequestInv(r)
    /\ \A j \in Jobs : JobInv(j)

LEMMA InitSafe == Init => SafeInv
<1>. SUFFICES ASSUME Init PROVE SafeInv
  OBVIOUS
<1>1. TypeInv
  BY InitTypeInv
<1>2. ExclusiveLocks
  BY DEF Init, ExclusiveLocks
<1>3. Chained /\ \A e \in audit : e.seq >= 1
  BY DEF Init, Opening, Chained, Linked, EntryHash, ZeroHash
<1>4. DecisionEntries = {} /\ OutcomeEntries = {}
  <2>1. \A t \in DecisionTypes : DecisionAction(t) \notin OpeningActions
    BY DEF DecisionTypes, DecisionAction, OpeningActions
  <2>2. \A s : OutcomeAction(s) \notin OpeningActions
    BY DEF OutcomeAction, OpeningActions
  <2>3. \A e \in audit : e.action \in OpeningActions
    BY DEF Init, Opening, OpeningActions
  <2>. QED
    BY <2>1, <2>2, <2>3
    DEF DecisionEntries, OutcomeEntries, DecisionActions, OutcomeActions
<1>5. AuditCoupled
  BY <1>4 DEF Init, AuditCoupled, Pending
<1>6. TablesInv
  BY <1>3, <1>5 DEF Init, TablesInv, DecidedOnWhatTheTrailShows
<1>7. /\ \A p \in Procs : WriterInv(p)
      /\ \A r \in Requests : RequestInv(r)
      /\ \A j \in Jobs : JobInv(j)
  BY DEF Init, WriterInv, RequestInv, JobInv, Procs, NoWork
<1>. QED
  BY <1>1, <1>2, <1>6, <1>7 DEF SafeInv

\* A step of p that touches no other process and no table.
OnlyProc(p) ==
    /\ \A q \in Procs \ {p} :
          /\ pc'[q] = pc[q] /\ tx'[q] = tx[q] /\ reply'[q] = reply[q]
          /\ \A row \in {"exception", "anchor", "recommendation"} :
                q \in holder'[row] <=> q \in holder[row]
          /\ q \in keyShare' <=> q \in keyShare
    /\ \A j \in Jobs \ {p} : answer'[j] = answer[j]
    /\ UNCHANGED <<tables, request>>

LEMMA TablesFrame == TablesInv /\ UNCHANGED tables => TablesInv'
BY DEF tables, TablesInv, Chained, Linked, AuditCoupled, DecisionEntries,
       OutcomeEntries, DecidedOnWhatTheTrailShows, ProposedBefore, DecisionSound

\* Such a step leaves the others' invariants as they were.
LEMMA LocalStep ==
  ASSUME SafeInv, TypeInv', NEW p \in Procs, OnlyProc(p), ExclusiveLocks', WriterInv(p)',
         p \in Requests => RequestInv(p)', p \in Jobs => JobInv(p)'
  PROVE  SafeInv'
<1>1. TablesInv'
  BY TablesFrame DEF SafeInv, OnlyProc
<1>2. \A q \in Procs \ {p} : EntryOf(q)' = EntryOf(q)
  BY ProcsAssumption DEF OnlyProc, EntryOf, Procs
<1>3. \A q \in Procs \ {p} : WriterInv(q)'
  BY <1>2 DEF SafeInv, WriterInv, OnlyProc, tables
<1>4. \A r \in Requests \ {p} : RequestInv(r)'
  <2>1. \A r \in Requests \ {p} : DecisionOf(r)' = DecisionOf(r)
    BY DEF OnlyProc, DecisionOf, Procs
  <2>. QED
    BY <2>1 DEF SafeInv, RequestInv, OnlyProc, tables, Procs
<1>5. \A j \in Jobs \ {p} : JobInv(j)'
  BY DEF SafeInv, JobInv, OnlyProc, tables, Procs
<1>. QED
  BY <1>1, <1>3, <1>4, <1>5 DEF SafeInv

LEMMA ReleaseKeepsExclusive ==
  ASSUME TypeOK, ExclusiveLocks, NEW p \in Procs, ReleaseLocks(p)
  PROVE  /\ ExclusiveLocks'
         /\ \A q \in Procs \ {p} :
               /\ \A row \in {"exception", "anchor", "recommendation"} :
                     q \in holder'[row] <=> q \in holder[row]
               /\ q \in keyShare' <=> q \in keyShare
<1>1. \A row \in {"exception", "anchor", "recommendation"} : holder'[row] = holder[row] \ {p}
  BY DEF ReleaseLocks, TypeOK
<1>. QED
  BY <1>1 DEF ReleaseLocks, ExclusiveLocks

\* A transaction that fails leaves nothing behind.
LEMMA FailSafe ==
  ASSUME SafeInv, TypeInv', NEW p \in Procs,
         NEW code \in Codes \ {"conflict", "violation"}, NEW of,
         Fail(p, code, of), UNCHANGED <<request, answer>>
  PROVE  SafeInv'
<1>1. /\ pc' = [pc EXCEPT ![p] = "done"]
      /\ reply' = [reply EXCEPT ![p] = [code |-> code, of |-> of]]
      /\ tx' = [tx EXCEPT ![p] = NoWork]
      /\ ReleaseLocks(p)
      /\ UNCHANGED tables
  BY DEF Fail, Rollback, Finish
<1>2. TypeOK /\ ExclusiveLocks
  BY DEF SafeInv, TypeInv
<1>3. pc'[p] = "done" /\ tx'[p] = NoWork /\ reply'[p].code = code
  BY <1>1, <1>2 DEF TypeOK
<1>4. OnlyProc(p)
  BY <1>1, <1>2, ReleaseKeepsExclusive DEF OnlyProc, TypeOK
<1>5. WriterInv(p)' /\ RequestInv(p)' /\ JobInv(p)'
  BY <1>3 DEF WriterInv, RequestInv, JobInv, NoWork
<1>. QED
  BY <1>1, <1>2, <1>4, <1>5, LocalStep, ReleaseKeepsExclusive

LEMMA SubmitSafe ==
  ASSUME SafeInv, TypeInv', NEW r \in Requests, Submit(r)
  PROVE  SafeInv'
<1>1. r \in Procs /\ r \notin Jobs /\ TypeOK
  BY ProcsAssumption DEF Procs, SafeInv, TypeInv
<1>2. OnlyProc(r) /\ ExclusiveLocks'
  BY <1>1 DEF Submit, Goto, OnlyProc, locks, SafeInv, ExclusiveLocks, TypeOK
<1>3. WriterInv(r)' /\ RequestInv(r)'
  BY <1>1 DEF Submit, Goto, SafeInv, WriterInv, RequestInv, TypeOK
<1>. QED
  BY <1>1, <1>2, <1>3, LocalStep

LEMMA PrecheckSafe ==
  ASSUME SafeInv, TypeInv', NEW r \in Requests, Precheck(r)
  PROVE  SafeInv'
<1>1. r \in Procs /\ r \notin Jobs /\ TypeOK
  BY ProcsAssumption DEF Procs, SafeInv, TypeInv
<1>2. \/ Goto(r, "lock") /\ UNCHANGED reply
      \/ \E d : Finish(r, "replayed", d) \/ Finish(r, "key_reused", d)
  BY DEF Precheck
<1>3. OnlyProc(r) /\ ExclusiveLocks'
  BY <1>1, <1>2 DEF Precheck, Goto, Finish, OnlyProc, locks, SafeInv, ExclusiveLocks, TypeOK
<1>4. WriterInv(r)' /\ RequestInv(r)'
  BY <1>1, <1>2 DEF Precheck, Goto, Finish, SafeInv, WriterInv, RequestInv, TypeOK
<1>. QED
  BY <1>1, <1>3, <1>4, LocalStep

LEMMA RespondSafe ==
  ASSUME SafeInv, TypeInv', NEW r \in Requests, Respond(r)
  PROVE  SafeInv'
<1>1. r \in Procs /\ r \notin Jobs /\ TypeOK
  BY ProcsAssumption DEF Procs, SafeInv, TypeInv
<1>2. OnlyProc(r) /\ ExclusiveLocks'
  BY <1>1 DEF Respond, Finish, OnlyProc, locks, SafeInv, ExclusiveLocks, TypeOK
<1>3. WriterInv(r)' /\ RequestInv(r)'
  BY <1>1 DEF Respond, Finish, SafeInv, WriterInv, RequestInv, TypeOK
<1>. QED
  BY <1>1, <1>2, <1>3, LocalStep

LEMMA LockExceptionSafe ==
  ASSUME SafeInv, TypeInv', NEW r \in Requests, LockException(r)
  PROVE  SafeInv'
<1>1. r \in Procs /\ r \notin Jobs /\ TypeOK
  BY ProcsAssumption DEF Procs, SafeInv, TypeInv
<1>2. CASE Fail(r, "already_decided", exc.decision)
  BY <1>1, <1>2, FailSafe DEF LockException, Codes
<1>3. CASE /\ exc.state = "OPEN"
           /\ Acquire(r, "exception")
           /\ Goto(r, "resolve")
           /\ UNCHANGED <<tables, keyShare, tx, reply>>
  <2>1. (holder["exception"] \cup keyShare) \subseteq {r}
    BY DEF LockException, Free, WaitsFor
  <2>2. /\ holder'["exception"] = holder["exception"] \cup {r}
        /\ \A row \in {"anchor", "recommendation"} : holder'[row] = holder[row]
    BY <1>1, <1>3 DEF Acquire, TypeOK
  <2>3. ExclusiveLocks'
    BY <1>3, <2>1, <2>2 DEF SafeInv, ExclusiveLocks
  <2>4. OnlyProc(r)
    BY <1>1, <1>3, <2>2 DEF LockException, Goto, OnlyProc, TypeOK
  <2>5. WriterInv(r)' /\ RequestInv(r)'
    BY <1>1, <1>3, <2>2 DEF LockException, Goto, SafeInv, WriterInv, RequestInv, TypeOK, tables
  <2>. QED
    BY <1>1, <2>3, <2>4, <2>5, LocalStep
<1>. QED
  BY <1>2, <1>3 DEF LockException

LEMMA ReadRecommendationSafe ==
  ASSUME SafeInv, TypeInv', NEW r \in Requests, ReadRecommendation(r)
  PROVE  SafeInv'
<1>1. r \in Procs /\ r \notin Jobs /\ TypeOK
  BY ProcsAssumption DEF Procs, SafeInv, TypeInv
<1>2. CASE /\ Verdict(request[r].body, rec) # "accepted"
           /\ Fail(r, Verdict(request[r].body, rec), Nobody)
  <2>1. Verdict(request[r].body, rec) \in Codes \ {"conflict", "violation"}
    BY <1>2 DEF Verdict, Codes
  <2>. QED
    BY <1>1, <1>2, <2>1, FailSafe DEF ReadRecommendation
<1>3. CASE /\ Verdict(request[r].body, rec) = "accepted"
           /\ tx' = [tx EXCEPT ![r].basis = rec]
           /\ Goto(r, "write")
           /\ UNCHANGED <<tables, locks, reply>>
  <2>1. tx[r] \in Work /\ tx'[r] = [tx[r] EXCEPT !.basis = rec]
    BY <1>1, <1>3 DEF TypeOK
  <2>2. OnlyProc(r) /\ ExclusiveLocks'
    BY <1>1, <1>3 DEF ReadRecommendation, Goto, OnlyProc, locks, SafeInv, ExclusiveLocks, TypeOK
  <2>3. WriterInv(r)' /\ RequestInv(r)'
    BY <1>1, <1>3, <2>1
    DEF ReadRecommendation, Goto, SafeInv, WriterInv, RequestInv, TypeOK, tables, locks, Work
  <2>. QED
    BY <1>1, <2>2, <2>3, LocalStep
<1>. QED
  BY <1>2, <1>3 DEF ReadRecommendation

LEMMA WriteDecisionSafe ==
  ASSUME SafeInv, TypeInv', NEW r \in Requests, WriteDecision(r)
  PROVE  SafeInv'
<1>1. r \in Procs /\ r \notin Jobs /\ TypeOK
  BY ProcsAssumption DEF Procs, SafeInv, TypeInv
<1>2. decisions = {}
  BY DEF WriteDecision, SafeInv, RequestInv, TablesInv, AuditCoupled
<1>3. /\ Acquire(r, "anchor")
      /\ tx' = [tx EXCEPT ![r].decision = {DecisionOf(r)}]
      /\ Goto(r, "append")
      /\ UNCHANGED <<tables, keyShare, reply, request, answer>>
      /\ pc[r] = "write"
  BY <1>2 DEF WriteDecision
<1>4. holder["anchor"] \subseteq {r}
  BY <1>3 DEF WriteDecision, Free, WaitsFor
<1>5. /\ holder'["anchor"] = holder["anchor"] \cup {r}
      /\ \A row \in {"exception", "recommendation"} : holder'[row] = holder[row]
  BY <1>1, <1>3 DEF Acquire, TypeOK
<1>6. ExclusiveLocks'
  BY <1>3, <1>4, <1>5 DEF SafeInv, ExclusiveLocks
<1>7. OnlyProc(r)
  BY <1>1, <1>3, <1>5 DEF Goto, OnlyProc, TypeOK
<1>8. tx[r] \in Work /\ tx'[r] = [tx[r] EXCEPT !.decision = {DecisionOf(r)}]
  BY <1>1, <1>3 DEF TypeOK
<1>9. DecisionOf(r)' = DecisionOf(r)
  BY <1>3, <1>8 DEF DecisionOf, Work
<1>10. WriterInv(r)'
  BY <1>1, <1>3, <1>8 DEF Goto, SafeInv, WriterInv, TypeOK, Work
<1>11. RequestInv(r)'
  BY <1>1, <1>3, <1>5, <1>8, <1>9 DEF Goto, SafeInv, RequestInv, TypeOK, Work, tables
<1>. QED
  BY <1>1, <1>6, <1>7, <1>10, <1>11, LocalStep

LEMMA StartJobSafe ==
  ASSUME SafeInv, TypeInv', NEW j \in Jobs, StartJob(j)
  PROVE  SafeInv'
<1>1. j \in Procs /\ j \notin Requests /\ TypeOK
  BY ProcsAssumption DEF Procs, SafeInv, TypeInv
<1>2. OnlyProc(j) /\ ExclusiveLocks'
  BY <1>1 DEF StartJob, Goto, Finish, OnlyProc, locks, SafeInv, ExclusiveLocks, TypeOK
<1>3. WriterInv(j)' /\ JobInv(j)'
  BY <1>1 DEF StartJob, Goto, Finish, SafeInv, WriterInv, JobInv, TypeOK
<1>. QED
  BY <1>1, <1>2, <1>3, LocalStep

LEMMA GenerateSafe ==
  ASSUME SafeInv, TypeInv', NEW j \in Jobs, Generate(j)
  PROVE  SafeInv'
<1>1. j \in Procs /\ j \notin Requests /\ TypeOK
  BY ProcsAssumption DEF Procs, SafeInv, TypeInv
<1>2. PICK a : /\ a.status = "AVAILABLE" \/ a = Unavailable
               /\ answer' = [answer EXCEPT ![j] = a]
  BY DEF Generate
<1>3. OnlyProc(j) /\ ExclusiveLocks'
  BY <1>1, <1>2 DEF Generate, Goto, OnlyProc, locks, SafeInv, ExclusiveLocks, TypeOK
<1>4. WriterInv(j)' /\ JobInv(j)'
  BY <1>1, <1>2 DEF Generate, Goto, SafeInv, WriterInv, JobInv, TypeOK
<1>. QED
  BY <1>1, <1>3, <1>4, LocalStep

LEMMA UpdateRecommendationSafe ==
  ASSUME SafeInv, TypeInv', NEW j \in Jobs, UpdateRecommendation(j)
  PROVE  SafeInv'
<1>1. j \in Procs /\ j \notin Requests /\ TypeOK
  BY ProcsAssumption DEF Procs, SafeInv, TypeInv
<1>2. CASE Finish(j, "skipped", Nobody) /\ UNCHANGED <<tx, locks>>
  <2>1. OnlyProc(j) /\ ExclusiveLocks'
    BY <1>1, <1>2
    DEF UpdateRecommendation, Finish, OnlyProc, locks, SafeInv, ExclusiveLocks, TypeOK
  <2>2. WriterInv(j)' /\ JobInv(j)'
    BY <1>1, <1>2 DEF UpdateRecommendation, Finish, SafeInv, WriterInv, JobInv, TypeOK
  <2>. QED
    BY <1>1, <2>1, <2>2, LocalStep
<1>3. CASE /\ rec.status = "PENDING"
           /\ Acquire(j, "recommendation")
           /\ tx' = [tx EXCEPT ![j].outcome = {answer[j]}]
           /\ Goto(j, "append")
           /\ UNCHANGED <<keyShare, reply>>
  <2>0. pc[j] = "update" /\ UNCHANGED <<tables, request, answer>>
    BY DEF UpdateRecommendation
  <2>1. holder["recommendation"] \subseteq {j}
    BY <2>0 DEF UpdateRecommendation, Free, WaitsFor
  <2>2. /\ holder'["recommendation"] = holder["recommendation"] \cup {j}
        /\ \A row \in {"exception", "anchor"} : holder'[row] = holder[row]
    BY <1>1, <1>3 DEF Acquire, TypeOK
  <2>3. ExclusiveLocks'
    BY <1>3, <2>1, <2>2 DEF SafeInv, ExclusiveLocks
  <2>4. OnlyProc(j)
    BY <1>1, <1>3, <2>0, <2>2 DEF Goto, OnlyProc, TypeOK
  <2>5. tx[j] \in Work /\ tx'[j] = [tx[j] EXCEPT !.outcome = {answer[j]}]
    BY <1>1, <1>3 DEF TypeOK
  <2>6. WriterInv(j)' /\ JobInv(j)'
    BY <1>1, <1>3, <2>0, <2>2, <2>5
    DEF Goto, SafeInv, WriterInv, JobInv, TypeOK, Work, tables
  <2>. QED
    BY <1>1, <2>3, <2>4, <2>6, LocalStep
<1>. QED
  BY <1>2, <1>3 DEF UpdateRecommendation

LEMMA RefuseEntrySafe ==
  ASSUME SafeInv, TypeInv', NEW p \in Procs, RefuseEntry(p)
  PROVE  SafeInv'
<1>1. TypeOK /\ ExclusiveLocks /\ (p \in Jobs => p \notin Requests)
  BY ProcsAssumption DEF SafeInv, TypeInv
<1>2. CASE Fail(p, "forbidden", Nobody) /\ UNCHANGED answer
  BY <1>2, FailSafe DEF RefuseEntry, Codes
<1>3. CASE /\ p \in Jobs
           /\ Rollback(p)
           /\ answer' = [answer EXCEPT ![p] = Unavailable]
           /\ Goto(p, "update")
           /\ UNCHANGED reply
  <2>1. /\ tx' = [tx EXCEPT ![p] = NoWork]
        /\ ReleaseLocks(p)
        /\ UNCHANGED <<tables, request>>
    BY <1>3 DEF Rollback, RefuseEntry
  <2>2. OnlyProc(p) /\ ExclusiveLocks'
    BY <1>1, <1>3, <2>1, ReleaseKeepsExclusive DEF Goto, OnlyProc, TypeOK
  <2>3. WriterInv(p)' /\ JobInv(p)'
    BY <1>1, <1>3, <2>1 DEF Goto, SafeInv, WriterInv, JobInv, TypeOK, NoWork
  <2>. QED
    BY <1>1, <1>3, <2>2, <2>3, LocalStep
<1>. QED
  BY <1>2, <1>3 DEF RefuseEntry

LEMMA ReadTailSafe ==
  ASSUME SafeInv, TypeInv', NEW p \in Procs, ReadTail(p)
  PROVE  SafeInv'
<1>1. TypeOK
  BY DEF SafeInv, TypeInv
<1>2. /\ pc[p] = "append"
      /\ Acquire(p, "anchor")
      /\ tx' = [tx EXCEPT ![p].tail = EntryHash(Last(audit))]
      /\ Goto(p, "insert")
      /\ UNCHANGED <<tables, keyShare, request, answer, reply>>
  BY DEF ReadTail
<1>3. holder["anchor"] \subseteq {p}
  BY <1>2 DEF ReadTail, Free, WaitsFor
<1>4. /\ holder'["anchor"] = holder["anchor"] \cup {p}
      /\ \A row \in {"exception", "recommendation"} : holder'[row] = holder[row]
  BY <1>1, <1>2 DEF Acquire, TypeOK
<1>5. ExclusiveLocks'
  BY <1>2, <1>3, <1>4 DEF SafeInv, ExclusiveLocks
<1>6. OnlyProc(p)
  BY <1>1, <1>2, <1>4 DEF Goto, OnlyProc, TypeOK
<1>7. /\ tx[p] \in Work
      /\ tx'[p] = [tx[p] EXCEPT !.tail = EntryHash(Last(audit))]
      /\ Last(audit)' = Last(audit)
  BY <1>1, <1>2 DEF TypeOK, tables
<1>8. WriterInv(p)'
  BY <1>1, <1>2, <1>4, <1>7 DEF Goto, SafeInv, WriterInv, TypeOK, Work, EntryHash
<1>9. ASSUME p \in Requests PROVE RequestInv(p)'
  <2>1. DecisionOf(p)' = DecisionOf(p)
    BY <1>2, <1>7 DEF DecisionOf, Work
  <2>. QED
    BY <1>1, <1>2, <1>4, <1>7, <1>9, <2>1
    DEF Goto, SafeInv, RequestInv, TypeOK, Work, tables
<1>10. ASSUME p \in Jobs PROVE JobInv(p)'
  BY <1>1, <1>2, <1>4, <1>7, <1>10 DEF Goto, SafeInv, JobInv, TypeOK, Work, tables
<1>. QED
  BY <1>5, <1>6, <1>8, <1>9, <1>10, LocalStep

LEMMA InsertEntrySafe ==
  ASSUME SafeInv, TypeInv', NEW p \in Procs, InsertEntry(p)
  PROVE  SafeInv'
<1>1. TypeOK /\ HasLast(audit) /\ tx[p] \in Work
  BY DEF SafeInv, TypeInv, TypeOK
<1>2. pc[p] = "insert" /\ tx[p].tail = EntryHash(Last(audit)) /\ p \in holder["anchor"]
  BY DEF InsertEntry, SafeInv, WriterInv
<1>3. \A e \in audit : e.seq # tx[p].tail.seq + 1
  <2>1. \A e \in audit : e.seq \in Nat /\ e.seq <= Last(audit).seq
    BY <1>1, LastIsLast DEF TypeOK, AuditEntry
  <2>2. tx[p].tail.seq = Last(audit).seq /\ Last(audit).seq \in Nat
    BY <1>1, <1>2, LastIsLast DEF EntryHash, TypeOK, AuditEntry
  <2>. QED
    BY <2>1, <2>2
<1>4. /\ tx' = [tx EXCEPT ![p].entry = {EntryOf(p)}]
      /\ keyShare' = keyShare \cup {p}
      /\ Goto(p, "commit")
      /\ UNCHANGED <<tables, holder, reply, request, answer>>
  BY <1>3 DEF InsertEntry
<1>5. holder["exception"] \subseteq {p}
  BY <1>2 DEF InsertEntry, Free, WaitsFor
<1>6. ExclusiveLocks'
  BY <1>4, <1>5 DEF SafeInv, ExclusiveLocks
<1>7. OnlyProc(p)
  BY <1>1, <1>4 DEF Goto, OnlyProc, TypeOK
<1>8. /\ tx'[p] = [tx[p] EXCEPT !.entry = {EntryOf(p)}]
      /\ Last(audit)' = Last(audit)
  BY <1>1, <1>4 DEF TypeOK, tables
<1>9. EntryOf(p)' = EntryOf(p)
  BY <1>1, <1>4, <1>8 DEF EntryOf, Work
<1>10. WriterInv(p)'
  BY <1>1, <1>2, <1>4, <1>8, <1>9 DEF Goto, SafeInv, WriterInv, TypeOK, Work, EntryHash
<1>11. ASSUME p \in Requests PROVE RequestInv(p)'
  <2>1. DecisionOf(p)' = DecisionOf(p)
    BY <1>1, <1>4, <1>8 DEF DecisionOf, Work
  <2>. QED
    BY <1>1, <1>2, <1>4, <1>8, <1>11, <2>1
    DEF Goto, SafeInv, RequestInv, TypeOK, Work, tables
<1>12. ASSUME p \in Jobs PROVE JobInv(p)'
  BY <1>1, <1>2, <1>4, <1>8, <1>12 DEF Goto, SafeInv, JobInv, TypeOK, Work, tables
<1>. QED
  BY <1>6, <1>7, <1>10, <1>11, <1>12, LocalStep

LEMMA ActionsDisjoint ==
  /\ DecisionActions = {"RECOMMENDATION_APPROVED", "RECOMMENDATION_EDITED_AND_APPROVED",
                        "RECOMMENDATION_REJECTED"}
  /\ OutcomeActions = {"RECOMMENDATION_GENERATED", "RECOMMENDATION_UNAVAILABLE"}
  /\ DecisionActions \cap OutcomeActions = {}
<1>1. /\ DecisionAction("APPROVE") = "RECOMMENDATION_APPROVED"
      /\ DecisionAction("EDIT_APPROVE") = "RECOMMENDATION_EDITED_AND_APPROVED"
      /\ DecisionAction("REJECT") = "RECOMMENDATION_REJECTED"
  BY DEF DecisionAction
<1>2. /\ OutcomeAction("AVAILABLE") = "RECOMMENDATION_GENERATED"
      /\ OutcomeAction("UNAVAILABLE") = "RECOMMENDATION_UNAVAILABLE"
  BY DEF OutcomeAction
<1>3. DecisionActions = {"RECOMMENDATION_APPROVED", "RECOMMENDATION_EDITED_AND_APPROVED",
                         "RECOMMENDATION_REJECTED"}
  BY <1>1 DEF DecisionActions, DecisionTypes
<1>4. OutcomeActions = {"RECOMMENDATION_GENERATED", "RECOMMENDATION_UNAVAILABLE"}
  BY <1>2 DEF OutcomeActions
<1>. QED
  BY <1>3, <1>4

\* What a transaction that is about to commit holds: the entry that extends the
\* chain, and the one change the entry is about.
LEMMA CommitFacts ==
  ASSUME SafeInv, NEW p \in Procs, pc[p] = "commit"
  PROVE  /\ EntryOf(p) \in AuditEntry
         /\ tx[p].entry = {EntryOf(p)}
         /\ EntryOf(p).by = p
         /\ Last(audit) \in audit
         /\ EntryOf(p).seq = Last(audit).seq + 1
         /\ EntryOf(p).prev = EntryHash(Last(audit))
         /\ \A f \in audit : f.seq \in Nat /\ f.seq >= 1 /\ f.seq < EntryOf(p).seq
         /\ p \in holder["anchor"] /\ p \in keyShare
         /\ p \in Requests => /\ tx[p].decision = {DecisionOf(p)}
                              /\ tx[p].outcome = {}
                              /\ tx[p].basis = rec
                              /\ Verdict(request[p].body, rec) = "accepted"
                              /\ p \in holder["exception"]
                              /\ exc.state = "OPEN"
                              /\ decisions = {}
                              /\ DecisionEntries = {}
                              /\ EntryOf(p).action = DecisionAction(request[p].body.type)
                              /\ EntryOf(p).action \in DecisionActions
         /\ p \in Jobs => /\ tx[p].decision = {}
                          /\ tx[p].outcome = {answer[p]}
                          /\ answer[p].status = "AVAILABLE" \/ answer[p] = Unavailable
                          /\ p \in holder["recommendation"]
                          /\ rec = Pending
                          /\ OutcomeEntries = {}
                          /\ EntryOf(p).action = OutcomeAction(answer[p].status)
                          /\ EntryOf(p).action \in OutcomeActions
<1>1. TypeOK /\ HasLast(audit) /\ Own(p, tx[p]) /\ WriterInv(p) /\ TablesInv
  BY DEF SafeInv, TypeInv, OwnWork
<1>2. EntryOf(p) \in AuditEntry
  BY EntryOfType DEF SafeInv
<1>3. Last(audit) \in audit /\ \A f \in audit : f.seq <= Last(audit).seq
  BY <1>1, LastIsLast
<1>4. /\ tx[p].entry = {EntryOf(p)}
      /\ EntryOf(p).by = p
      /\ EntryOf(p).seq = Last(audit).seq + 1
      /\ EntryOf(p).prev = EntryHash(Last(audit))
      /\ p \in holder["anchor"] /\ p \in keyShare
  BY <1>1 DEF WriterInv, EntryOf, EntryHash
<1>5. \A f \in audit : f.seq \in Nat /\ f.seq >= 1 /\ f.seq < EntryOf(p).seq
  BY <1>1, <1>3, <1>4 DEF TypeOK, AuditEntry, TablesInv
<1>6. ASSUME p \in Requests
      PROVE  /\ tx[p].decision = {DecisionOf(p)}
             /\ tx[p].outcome = {}
             /\ tx[p].basis = rec
             /\ Verdict(request[p].body, rec) = "accepted"
             /\ p \in holder["exception"]
             /\ exc.state = "OPEN"
             /\ decisions = {}
             /\ DecisionEntries = {}
             /\ EntryOf(p).action = DecisionAction(request[p].body.type)
             /\ EntryOf(p).action \in DecisionActions
  <2>1. RequestInv(p)
    BY <1>6 DEF SafeInv
  <2>2. exc.state = "OPEN" /\ p \in holder["exception"]
    BY <2>1 DEF RequestInv
  <2>3. decisions = {} /\ DecisionEntries = {}
    BY <1>1, <2>2 DEF TablesInv, AuditCoupled
  <2>4. tx[p].outcome = {}
    BY <1>1, <1>6, ProcsAssumption DEF Own
  <2>5. EntryOf(p).action = DecisionAction(request[p].body.type)
    BY <1>6 DEF EntryOf
  <2>6. EntryOf(p).action \in DecisionActions
    BY <1>1, <1>6, <2>5, ActionTypes, DataAssumption DEF TypeOK, Body
  <2>. QED
    BY <2>1, <2>2, <2>3, <2>4, <2>5, <2>6 DEF RequestInv
<1>7. ASSUME p \in Jobs
      PROVE  /\ tx[p].decision = {}
             /\ tx[p].outcome = {answer[p]}
             /\ answer[p].status = "AVAILABLE" \/ answer[p] = Unavailable
             /\ p \in holder["recommendation"]
             /\ rec = Pending
             /\ OutcomeEntries = {}
             /\ EntryOf(p).action = OutcomeAction(answer[p].status)
             /\ EntryOf(p).action \in OutcomeActions
  <2>1. JobInv(p)
    BY <1>7 DEF SafeInv
  <2>2. rec.status = "PENDING"
    BY <2>1 DEF JobInv
  <2>3. rec = Pending /\ OutcomeEntries = {}
    BY <1>1, <2>2 DEF TablesInv, AuditCoupled, Unavailable
  <2>4. tx[p].decision = {}
    BY <1>1, <1>7, ProcsAssumption DEF Own
  <2>5. EntryOf(p).action = OutcomeAction(answer[p].status)
    BY <1>7, ProcsAssumption DEF EntryOf
  <2>. QED
    BY <2>1, <2>3, <2>4, <2>5, ActionTypes DEF JobInv
<1>. QED
  BY <1>2, <1>3, <1>4, <1>5, <1>6, <1>7

\* The deferred triggers accept every transaction of this program.
LEMMA TriggersAlwaysHold ==
  ASSUME SafeInv, NEW p \in Procs, pc[p] = "commit"
  PROVE  TriggersHold(p)
<1>. DEFINE e == EntryOf(p)
            trail == audit \cup tx[p].entry
<1>1. trail = audit \cup {e} /\ Last(audit) \in trail
  BY CommitFacts
<1>2. Linked(e, trail)
  <2>1. /\ Last(audit).seq = e.seq - 1
        /\ e.prev = EntryHash(Last(audit))
        /\ e.seq # 1
    BY CommitFacts
  <2>. QED
    BY <1>1, <2>1 DEF Linked
<1>3. \A d \in tx[p].decision :
         ExactlyOne({f \in trail : f.by = d.by /\ f.action \in DecisionActions})
  <2>1. CASE p \in Requests
    <3>1. tx[p].decision = {DecisionOf(p)} /\ DecisionOf(p).by = p
      BY <2>1, CommitFacts DEF DecisionOf
    <3>2. {f \in trail : f.by = p /\ f.action \in DecisionActions} = {e}
      BY <1>1, <2>1, CommitFacts DEF DecisionEntries
    <3>. QED
      BY <3>1, <3>2 DEF ExactlyOne
  <2>2. CASE p \in Jobs
    BY <2>2, CommitFacts
  <2>. QED
    BY <2>1, <2>2 DEF Procs
<1>4. \A o \in tx[p].outcome : ExactlyOne({f \in trail : f.action = OutcomeAction(o.status)})
  <2>1. CASE p \in Requests
    BY <2>1, CommitFacts
  <2>2. CASE p \in Jobs
    <3>1. tx[p].outcome = {answer[p]} /\ e.action = OutcomeAction(answer[p].status)
      BY <2>2, CommitFacts
    <3>2. {f \in trail : f.action = OutcomeAction(answer[p].status)} = {e}
      BY <1>1, <2>2, CommitFacts, ActionTypes DEF OutcomeEntries
    <3>. QED
      BY <3>1, <3>2 DEF ExactlyOne
  <2>. QED
    BY <2>1, <2>2 DEF Procs
<1>5. \A f \in tx[p].entry : Linked(f, trail)
  BY <1>2, CommitFacts
<1>. QED
  BY <1>3, <1>4, <1>5 DEF TriggersHold

\* An entry that carries the next sequence and the hash of the last extends the
\* chain.
LEMMA ChainExtends ==
  ASSUME SafeInv, NEW e \in AuditEntry,
         e.seq = Last(audit).seq + 1, e.prev = EntryHash(Last(audit)),
         audit' = audit \cup {e}
  PROVE  Chained' /\ \A f \in audit' : f.seq >= 1
<1>1. /\ Last(audit) \in audit
      /\ \A f \in audit : f.seq \in Nat /\ f.seq >= 1 /\ f.seq < e.seq
      /\ e.seq \in Nat
  BY LastIsLast DEF SafeInv, TypeInv, TypeOK, AuditEntry, TablesInv
<1>2. \A f \in audit : Linked(f, audit')
  BY DEF SafeInv, TablesInv, Chained, Linked
<1>3. Linked(e, audit')
  BY <1>1 DEF Linked
<1>4. \A f, g \in audit' : f.seq = g.seq => f = g
  BY <1>1 DEF SafeInv, TablesInv, Chained
<1>. QED
  BY <1>1, <1>2, <1>3, <1>4 DEF Chained, Linked

\* A committed decision closes the case on the recommendation the trail shows.
LEMMA DecisionApplied ==
  ASSUME SafeInv, NEW p \in Requests, pc[p] = "commit", Apply(p), UNCHANGED request
  PROVE  TablesInv'
<1>. DEFINE e == EntryOf(p)
            d == DecisionOf(p)
<1>0. p \in Procs /\ TypeOK /\ TablesInv
  BY DEF Procs, SafeInv, TypeInv
<1>1. /\ audit' = audit \cup {e}
      /\ decisions' = {d}
      /\ exc' = [state |-> ResultingState(request[p].body.type), decision |-> p]
      /\ rec' = rec
  BY <1>0, CommitFacts DEF Apply
<1>2. /\ d.by = p /\ d.type = request[p].body.type /\ d.body = request[p].body
      /\ d.basis = rec /\ d.values = AdoptedValues(d.body, rec)
  BY <1>0, CommitFacts DEF DecisionOf
<1>3. Chained' /\ \A f \in audit' : f.seq >= 1
  BY <1>0, <1>1, CommitFacts, ChainExtends
<1>4. DecisionEntries' = {e} /\ OutcomeEntries' = OutcomeEntries
  BY <1>0, <1>1, CommitFacts, ActionsDisjoint DEF DecisionEntries, OutcomeEntries
<1>5. AuditCoupled'
  <2>1. exc'.state # "OPEN" /\ decisions' # {}
    BY <1>1 DEF ResultingState
  <2>2. e.by = d.by /\ e.action = DecisionAction(d.type)
    BY <1>0, <1>2, CommitFacts
  <2>3. exc' = [state |-> ResultingState(d.type), decision |-> d.by]
    BY <1>1, <1>2
  <2>. HIDE DEF e, d
  <2>. QED
    BY <1>0, <1>1, <1>4, <2>1, <2>2, <2>3 DEF AuditCoupled, TablesInv, ExactlyOne
<1>6. DecidedOnWhatTheTrailShows'
  <2>1. CASE OutcomeEntries = {}
    <3>1. rec = Pending
      BY <1>0, <2>1 DEF TablesInv, AuditCoupled, ExactlyOne, Unavailable
    <3>. QED
      BY <1>1, <1>2, <1>4, <2>1, <3>1 DEF DecidedOnWhatTheTrailShows, ProposedBefore
  <2>2. CASE OutcomeEntries # {}
    <3>1. PICK f \in OutcomeEntries : f.seq < e.seq
      BY <1>0, <2>2, CommitFacts DEF OutcomeEntries
    <3>. QED
      BY <1>1, <1>2, <1>4, <3>1 DEF DecidedOnWhatTheTrailShows, ProposedBefore
  <2>. QED
    BY <2>1, <2>2
<1>7. DecisionSound(d)
  BY <1>0, <1>2, CommitFacts DEF DecisionSound
<1>8. \A x \in decisions' : DecisionSound(x)'
  BY <1>1, <1>7 DEF DecisionSound
<1>. QED
  BY <1>0, <1>1, <1>3, <1>5, <1>6, <1>8 DEF TablesInv

\* A committed outcome resolves the recommendation, before the decision or after
\* it.
LEMMA OutcomeApplied ==
  ASSUME SafeInv, NEW p \in Jobs, pc[p] = "commit", Apply(p), UNCHANGED answer
  PROVE  TablesInv'
<1>. DEFINE e == EntryOf(p)
<1>0. p \in Procs /\ TypeOK /\ TablesInv
  BY DEF Procs, SafeInv, TypeInv
<1>1. /\ audit' = audit \cup {e}
      /\ decisions' = decisions
      /\ exc' = exc
      /\ rec' = answer[p]
  BY <1>0, CommitFacts DEF Apply
<1>2. Chained' /\ \A f \in audit' : f.seq >= 1
  BY <1>0, <1>1, CommitFacts, ChainExtends
<1>3. /\ OutcomeEntries = {} /\ OutcomeEntries' = {e} /\ DecisionEntries' = DecisionEntries
      /\ e.action = OutcomeAction(answer[p].status)
      /\ answer[p].status = "AVAILABLE" \/ answer[p] = Unavailable
      /\ rec = Pending
      /\ \A f \in DecisionEntries : f.seq < e.seq /\ f.seq \in Nat
      /\ e.seq \in Nat
  BY <1>0, <1>1, CommitFacts, ActionsDisjoint DEF DecisionEntries, OutcomeEntries, AuditEntry
<1>. HIDE DEF e
<1>4. AuditCoupled'
  <2>1. rec'.status # "PENDING"
    BY <1>1, <1>3 DEF Unavailable
  <2>. QED
    BY <1>0, <1>1, <1>3, <2>1 DEF AuditCoupled, TablesInv, ExactlyOne
<1>5. DecidedOnWhatTheTrailShows'
  <2>1. \A f \in DecisionEntries : ~ProposedBefore(f)
    BY <1>3 DEF ProposedBefore
  <2>2. \A f \in DecisionEntries' : ~ProposedBefore(f)'
    BY <1>3 DEF ProposedBefore
  <2>. QED
    BY <1>0, <1>1, <1>3, <2>1, <2>2 DEF DecidedOnWhatTheTrailShows, TablesInv
<1>6. \A x \in decisions' : DecisionSound(x)'
  BY <1>0, <1>1 DEF DecisionSound, TablesInv
<1>. QED
  BY <1>1, <1>2, <1>3, <1>4, <1>5, <1>6 DEF TablesInv

\* COMMIT, acknowledged or not.
LEMMA ApplySafe ==
  ASSUME SafeInv, TypeInv', NEW p \in Procs, pc[p] = "commit",
         Apply(p), UNCHANGED <<request, answer>>,
         NEW label \in {"respond", "done"}, pc' = [pc EXCEPT ![p] = label],
         \A q \in Procs : q # p => reply'[q] = reply[q],
         reply'[p].code \notin {"conflict", "violation"}
  PROVE  SafeInv'
<1>1. TypeOK /\ ExclusiveLocks
  BY DEF SafeInv, TypeInv
<1>2. /\ tx' = [tx EXCEPT ![p] = NoWork]
      /\ ReleaseLocks(p)
  BY DEF Apply
<1>3. /\ \A q \in Procs \ {p} : pc'[q] = pc[q] /\ tx'[q] = tx[q]
      /\ pc'[p] \in {"respond", "done"} /\ tx'[p] = NoWork
  BY <1>1, <1>2 DEF TypeOK
<1>4. TablesInv'
  BY DecisionApplied, OutcomeApplied DEF Procs
<1>5. \A q \in Procs : WriterInv(q)'
  <2>1. WriterInv(p)'
    BY <1>3 DEF WriterInv, NoWork
  <2>2. ASSUME NEW q \in Procs \ {p} PROVE WriterInv(q)'
    <3>1. WriterInv(q) /\ q \notin holder["anchor"]
      BY <1>1, CommitFacts DEF SafeInv, ExclusiveLocks
    <3>. QED
      BY <1>3, <2>2, <3>1 DEF WriterInv
  <2>. QED
    BY <2>1, <2>2
<1>6. \A r \in Requests : RequestInv(r)'
  <2>1. RequestInv(p)'
    BY <1>3 DEF RequestInv, NoWork
  <2>2. ASSUME NEW r \in Requests \ {p} PROVE RequestInv(r)'
    <3>1. RequestInv(r) /\ r \notin holder["exception"]
      BY <1>1, CommitFacts DEF SafeInv, ExclusiveLocks
    <3>. QED
      BY <1>3, <2>2, <3>1 DEF RequestInv, Procs
  <2>. QED
    BY <2>1, <2>2
<1>7. \A j \in Jobs : JobInv(j)'
  <2>1. JobInv(p)'
    BY <1>3 DEF JobInv, NoWork
  <2>2. ASSUME NEW j \in Jobs \ {p} PROVE JobInv(j)'
    <3>0. j \in Procs \ {p} /\ JobInv(j) /\ answer' = answer
      BY DEF SafeInv, Procs
    <3>1. CASE p \in Jobs
      <4>1. j \notin holder["recommendation"]
        BY <1>1, <3>0, <3>1, CommitFacts DEF ExclusiveLocks
      <4>. QED
        BY <1>3, <3>0, <4>1 DEF JobInv
    <3>2. CASE p \in Requests
      <4>1. rec' = rec
        BY <3>2, CommitFacts DEF Apply
      <4>2. j \in holder'["recommendation"] <=> j \in holder["recommendation"]
        BY <1>1, <1>2, <3>0, ReleaseKeepsExclusive
      <4>. QED
        BY <1>3, <3>0, <4>1, <4>2 DEF JobInv
    <3>. QED
      BY <3>1, <3>2 DEF Procs
  <2>. QED
    BY <2>1, <2>2
<1>8. ExclusiveLocks'
  BY <1>1, <1>2, ReleaseKeepsExclusive
<1>. QED
  BY <1>4, <1>5, <1>6, <1>7, <1>8 DEF SafeInv

LEMMA CommitSafe ==
  ASSUME SafeInv, TypeInv', NEW p \in Procs, Commit(p)
  PROVE  SafeInv'
<1>1. /\ pc[p] = "commit" /\ UNCHANGED <<request, answer>>
      /\ Apply(p)
      /\ \/ Goto(p, "respond") /\ UNCHANGED reply
         \/ Finish(p, "settled", Nobody)
  BY TriggersAlwaysHold DEF Commit
<1>2. reply[p].code \notin {"conflict", "violation"} /\ TypeOK
  BY DEF SafeInv, WriterInv, TypeInv
<1>3. CASE Goto(p, "respond") /\ UNCHANGED reply
  BY <1>1, <1>2, <1>3, ApplySafe DEF Goto
<1>4. CASE Finish(p, "settled", Nobody)
  BY <1>1, <1>2, <1>4, ApplySafe DEF Finish, TypeOK
<1>. QED
  BY <1>1, <1>3, <1>4

LEMMA EnvironmentSafe ==
  ASSUME SafeInv, TypeInv', NEW p \in Procs,
         DeadlockAbort(p) \/ EnvironmentError(p) \/ LoseAck(p)
  PROVE  SafeInv'
<1>1. CASE DeadlockAbort(p)
  BY <1>1, FailSafe DEF DeadlockAbort, Codes
<1>2. CASE EnvironmentError(p)
  BY <1>2, FailSafe DEF EnvironmentError, Codes
<1>3. CASE LoseAck(p)
  BY <1>3, ApplySafe DEF LoseAck, Finish, SafeInv, TypeInv, TypeOK
<1>. QED
  BY <1>1, <1>2, <1>3

LEMMA CrashSafe ==
  ASSUME SafeInv, TypeInv', Crash
  PROVE  SafeInv'
<1>1. \A p \in Procs : pc'[p] \in {"idle", "done", "lost"} /\ tx'[p] = NoWork
  BY DEF Crash, Active
<1>2. /\ holder' = [row \in DOMAIN holder |-> {}]
      /\ keyShare' = {}
      /\ UNCHANGED <<tables, request, answer, reply>>
  BY DEF Crash
<1>3. ExclusiveLocks'
  BY <1>2 DEF ExclusiveLocks, SafeInv, TypeInv, TypeOK
<1>4. TablesInv'
  BY <1>2, TablesFrame DEF SafeInv
<1>5. /\ \A p \in Procs : WriterInv(p)'
      /\ \A r \in Requests : RequestInv(r)'
      /\ \A j \in Jobs : JobInv(j)'
  BY <1>1, <1>2 DEF SafeInv, WriterInv, RequestInv, JobInv, NoWork, Procs
<1>. QED
  BY <1>3, <1>4, <1>5 DEF SafeInv

LEMMA StutterSafe ==
  ASSUME SafeInv, TypeInv', UNCHANGED vars
  PROVE  SafeInv'
<1>1. TablesInv' /\ ExclusiveLocks'
  BY TablesFrame DEF SafeInv, vars, tables, ExclusiveLocks
<1>2. \A p \in Procs : WriterInv(p)'
  BY DEF SafeInv, vars, WriterInv, EntryOf
<1>3. \A r \in Requests : RequestInv(r)'
  BY DEF SafeInv, vars, RequestInv, DecisionOf
<1>4. \A j \in Jobs : JobInv(j)'
  BY DEF SafeInv, vars, JobInv
<1>. QED
  BY <1>1, <1>2, <1>3, <1>4 DEF SafeInv

LEMMA NextSafe == SafeInv /\ [Next]_vars => SafeInv'
<1>. SUFFICES ASSUME SafeInv, [Next]_vars PROVE SafeInv'
  OBVIOUS
<1>0. TypeInv'
  BY NextTypeInv DEF SafeInv
<1>1. ASSUME NEW r \in Requests, Submit(r) \/ RequestStep(r)
      PROVE  SafeInv'
  BY <1>0, <1>1, SubmitSafe, PrecheckSafe, LockExceptionSafe, ReadRecommendationSafe,
     WriteDecisionSafe, RespondSafe DEF RequestStep
<1>2. ASSUME NEW j \in Jobs, JobStep(j) \/ Generate(j)
      PROVE  SafeInv'
  BY <1>0, <1>2, StartJobSafe, GenerateSafe, UpdateRecommendationSafe DEF JobStep
<1>3. ASSUME NEW p \in Procs, WriterStep(p)
      PROVE  SafeInv'
  BY <1>0, <1>3, RefuseEntrySafe, ReadTailSafe, InsertEntrySafe, CommitSafe DEF WriterStep
<1>4. ASSUME NEW p \in Procs, DeadlockAbort(p) \/ EnvironmentError(p) \/ LoseAck(p)
      PROVE  SafeInv'
  BY <1>0, <1>4, EnvironmentSafe
<1>5. CASE Crash
  BY <1>0, <1>5, CrashSafe
<1>6. CASE UNCHANGED vars
  BY <1>0, <1>6, StutterSafe
<1>. QED
  BY <1>1, <1>2, <1>3, <1>4, <1>5, <1>6 DEF Next, Quiescent

-----------------------------------------------------------------------------
(* What follows from the invariant. *)

LEMMA AlwaysSafe == Spec => []SafeInv
BY InitSafe, NextSafe, PTL DEF Spec

\* The audit trail of a case is an unbroken hash chain in every reachable state,
\* whatever the number of concurrent requests and jobs (writer.ts under the
\* case-anchor lock).
THEOREM ChainAlwaysIntact == Spec => []ChainIntact
<1>1. SafeInv => ChainIntact
  BY DEF SafeInv, TablesInv, WriterInv, ChainIntact
<1>. QED
  BY <1>1, AlwaysSafe, PTL

\* Every change of the case and its audit entry are there together or not at all
\* (FR-11.12), across rollbacks, crashes and lost acknowledgements.
THEOREM AuditAlwaysCoupled == Spec => []AuditCoupled
<1>1. SafeInv => AuditCoupled
  BY DEF SafeInv, TablesInv
<1>. QED
  BY <1>1, AlwaysSafe, PTL

\* A decision is always taken on the recommendation its trail shows, although it
\* reads the recommendation without a lock.
THEOREM AlwaysDecidedOnTheTrail == Spec => []DecidedOnWhatTheTrailShows
<1>1. SafeInv => DecidedOnWhatTheTrailShows
  BY DEF SafeInv, TablesInv
<1>. QED
  BY <1>1, AlwaysSafe, PTL

\* AUDIT_SEQUENCE_CONFLICT, a second decision and a failing deferred trigger are
\* unreachable: nothing would retry them.
THEOREM GuardsNeverNeeded == Spec => []GuardsNeverFire
<1>1. SafeInv => GuardsNeverFire
  BY DEF SafeInv, WriterInv, GuardsNeverFire
<1>. QED
  BY <1>1, AlwaysSafe, PTL

\* Provenance follows from the basis: the basis is the trail's recommendation,
\* and the origins were computed from the basis.
LEMMA SafeProvenance == SafeInv => ProvenanceSound
<1>. SUFFICES ASSUME SafeInv, NEW d \in decisions, NEW e \in DecisionEntries, NEW x \in d.values
              PROVE  x.origin = "AI" <=> /\ ProposedBefore(e)
                                         /\ x.field \in DOMAIN rec.values
                                         /\ rec.values[x.field] = x.value
  BY DEF ProvenanceSound
<1>. DEFINE b == d.body
            basis == d.basis
<1>1. /\ basis = IF ProposedBefore(e) THEN rec ELSE Pending
      /\ Verdict(b, basis) = "accepted"
      /\ x \in AdoptedValues(b, basis)
      /\ rec.status = "AVAILABLE" \/ rec = Pending \/ rec = Unavailable
  BY DEF SafeInv, TablesInv, DecidedOnWhatTheTrailShows, DecisionSound
<1>2. b \in Body /\ b.type \in DecisionTypes
  BY DataAssumption DEF SafeInv, TypeInv, TypeOK, Decision, Body
<1>3. basis.status = "AVAILABLE" => ProposedBefore(e) /\ basis = rec
  BY <1>1 DEF Pending
<1>4. basis.status # "AVAILABLE" => ~ProposedBefore(e) \/ DOMAIN rec.values = {}
  BY <1>1 DEF Pending, Unavailable, NoValues
<1>. HIDE DEF b, basis
<1>5. CASE b.type = "APPROVE"
  <2>1. basis.status = "AVAILABLE"
    BY <1>1, <1>5 DEF Verdict
  <2>2. PICK f \in DOMAIN basis.values :
           x = [field |-> f, value |-> basis.values[f], origin |-> "AI"]
    BY <1>1, <1>5 DEF AdoptedValues
  <2>. QED
    BY <1>3, <2>1, <2>2
<1>6. CASE b.type = "EDIT_APPROVE"
  <2>1. PICK f \in DOMAIN b.values :
           x = [field |-> f, value |-> b.values[f], origin |-> OriginOf(b, basis, f)]
    BY <1>1, <1>6 DEF AdoptedValues
  <2>2. CASE basis.status = "AVAILABLE"
    <3>1. f \in DOMAIN basis.values
      BY <1>1, <1>6, <2>2 DEF Verdict, Incomplete
    <3>. QED
      BY <1>3, <2>1, <2>2, <3>1 DEF OriginOf
  <2>3. CASE basis.status # "AVAILABLE"
    BY <1>4, <2>1, <2>3 DEF OriginOf
  <2>. QED
    BY <2>2, <2>3
<1>7. CASE b.type = "REJECT"
  BY <1>1, <1>7 DEF AdoptedValues
<1>. QED
  BY <1>2, <1>5, <1>6, <1>7 DEF DecisionTypes

\* Every stored value is attributed to the AI exactly when the trail shows, before
\* the decision, an AI proposal of that value for that field (FR-11.8).
THEOREM ProvenanceAlwaysSound == Spec => []ProvenanceSound
BY SafeProvenance, AlwaysSafe, PTL

-----------------------------------------------------------------------------
(* The refinement of CaseLifecycle. *)

\* The trail as CaseLifecycle sees it.
Lines(entries) == {[seq |-> e.seq, action |-> e.action] : e \in entries}

\* What the committed decisions adopted.
Adopted(ds) == UNION {d.values : d \in ds}

\* A step of a process changes the tables by committing its transaction, or leaves
\* them alone.
LEMMA StepCommits ==
  ASSUME TypeOK, NEW p \in Procs,
         \/ p \in Requests /\ (Submit(p) \/ RequestStep(p))
         \/ p \in Jobs /\ (JobStep(p) \/ Generate(p))
         \/ WriterStep(p) \/ DeadlockAbort(p) \/ EnvironmentError(p) \/ LoseAck(p)
  PROVE  UNCHANGED tables \/ (pc[p] = "commit" /\ Apply(p))
<1>1. ASSUME p \in Requests, Submit(p) \/ RequestStep(p)
      PROVE  UNCHANGED tables
  BY <1>1 DEF Submit, RequestStep, Precheck, LockException, ReadRecommendation,
     WriteDecision, Respond, Fail, Rollback
<1>2. ASSUME p \in Jobs, JobStep(p) \/ Generate(p)
      PROVE  UNCHANGED tables
  BY <1>2 DEF JobStep, StartJob, UpdateRecommendation, Generate
<1>3. ASSUME RefuseEntry(p) \/ ReadTail(p) \/ InsertEntry(p)
             \/ DeadlockAbort(p) \/ EnvironmentError(p)
      PROVE  UNCHANGED tables
  BY <1>3 DEF RefuseEntry, ReadTail, InsertEntry, DeadlockAbort, EnvironmentError, Fail, Rollback
<1>4. ASSUME Commit(p) \/ LoseAck(p)
      PROVE  UNCHANGED tables \/ (pc[p] = "commit" /\ Apply(p))
  BY <1>4 DEF Commit, LoseAck, Fail, Rollback
<1>. QED
  BY <1>1, <1>2, <1>3, <1>4 DEF WriterStep

LEMMA OnlyCommits ==
  ASSUME TypeOK, [Next]_vars
  PROVE  UNCHANGED tables \/ \E p \in Procs : pc[p] = "commit" /\ Apply(p)
<1>1. CASE Crash \/ UNCHANGED vars
  BY <1>1 DEF Crash, vars, tables
<1>2. ASSUME NEW r \in Requests, Submit(r) \/ RequestStep(r)
      PROVE  UNCHANGED tables \/ (pc[r] = "commit" /\ Apply(r))
  BY <1>2, StepCommits DEF Procs
<1>3. ASSUME NEW j \in Jobs, JobStep(j) \/ Generate(j)
      PROVE  UNCHANGED tables \/ (pc[j] = "commit" /\ Apply(j))
  BY <1>3, StepCommits DEF Procs
<1>4. ASSUME NEW p \in Procs,
             WriterStep(p) \/ DeadlockAbort(p) \/ EnvironmentError(p) \/ LoseAck(p)
      PROVE  UNCHANGED tables \/ (pc[p] = "commit" /\ Apply(p))
  BY <1>4, StepCommits
<1>. QED
  BY <1>1, <1>2, <1>3, <1>4 DEF Next, Quiescent, Procs

LEMMA LifecycleInit == Init => Lifecycle!Init
<1>. SUFFICES ASSUME Init PROVE Lifecycle!Init
  OBVIOUS
<1>1. Lines(audit) = {[seq |-> 1, action |-> "ENTRY_RECEIVED"],
                      [seq |-> 2, action |-> "VALIDATION_COMPLETED"],
                      [seq |-> 3, action |-> "EXCEPTION_OPENED"]}
  BY DEF Init, Opening, Lines
<1>2. Adopted(decisions) = {}
  BY DEF Init, Adopted
<1>3. rec = [status |-> "PENDING", values |-> Lifecycle!NoMap]
  BY DEF Init, Pending, NoValues, Lifecycle!NoMap
<1>. QED
  BY <1>1, <1>2, <1>3 DEF Init, Lifecycle!Init, Lines, Adopted

\* The last line of the trail is that of the last entry.
LEMMA LastLineOfTrail ==
  ASSUME SafeInv
  PROVE  Lifecycle!LastLine.seq = Last(audit).seq
<1>. DEFINE m == Last(audit)
            line == [seq |-> m.seq, action |-> m.action]
<1>1. m \in audit /\ \A f \in audit : f.seq <= m.seq
  BY LastIsLast DEF SafeInv, TypeInv
<1>2. \A f \in audit : f.seq \in Nat
  BY DEF SafeInv, TypeInv, TypeOK, AuditEntry
<1>. HIDE DEF m
<1>3. line \in Lines(audit) /\ \A l \in Lines(audit) : l.seq <= line.seq
  BY <1>1 DEF Lines
<1>4. Lifecycle!LastLine \in Lines(audit)
      /\ \A l \in Lines(audit) : l.seq <= Lifecycle!LastLine.seq
  BY <1>3 DEF Lifecycle!LastLine, Lines
<1>5. Lifecycle!LastLine.seq <= m.seq /\ m.seq <= Lifecycle!LastLine.seq
      /\ Lifecycle!LastLine.seq \in Nat /\ m.seq \in Nat
  BY <1>1, <1>2, <1>3, <1>4 DEF Lines
<1>. QED
  BY <1>5 DEF m

\* A commit appends the line of its entry.
LEMMA CommitRecords ==
  ASSUME SafeInv, NEW p \in Procs, pc[p] = "commit", Apply(p)
  PROVE  Lifecycle!Record(EntryOf(p).action)
<1>1. audit' = audit \cup {EntryOf(p)} /\ EntryOf(p).seq = Last(audit).seq + 1
  BY CommitFacts DEF Apply
<1>2. Lines(audit)' = Lines(audit) \cup {[seq |-> EntryOf(p).seq, action |-> EntryOf(p).action]}
  BY <1>1 DEF Lines
<1>. QED
  BY <1>1, <1>2, LastLineOfTrail DEF Lifecycle!Record, Lines

\* A decision that commits closes the case of the life cycle.
LEMMA Closes ==
  ASSUME NEW state, NEW values, NEW action,
         exc.state = "OPEN", exc'.state = state, Adopted(decisions') = values, rec' = rec,
         Lifecycle!Record(action)
  PROVE  Lifecycle!Close(state, values, action)
BY DEF Lifecycle!Close, Adopted

LEMMA DecisionIsLifecycle ==
  ASSUME SafeInv, NEW p \in Requests, pc[p] = "commit", Apply(p)
  PROVE  Lifecycle!Next
<1>. DEFINE b == request[p].body
            d == DecisionOf(p)
<1>0. /\ tx[p].decision = {d} /\ tx[p].outcome = {} /\ tx[p].basis = rec
      /\ exc.state = "OPEN" /\ decisions = {}
      /\ Verdict(b, rec) = "accepted"
      /\ EntryOf(p).action = DecisionAction(b.type)
  BY CommitFacts DEF Procs
<1>1. /\ decisions' = {d} /\ rec' = rec
      /\ exc'.state = ResultingState(b.type)
      /\ d.values = AdoptedValues(b, rec)
  BY <1>0 DEF Apply, DecisionOf
<1>2. b \in Body /\ b.type \in DecisionTypes /\ b.values \in ValueMaps /\ rec \in Recommendation
  BY DataAssumption DEF SafeInv, TypeInv, TypeOK, Body
<1>3. Lifecycle!Record(DecisionAction(b.type))
  BY <1>0, CommitRecords DEF Procs, Lifecycle!Record
<1>4. Adopted(decisions') = AdoptedValues(b, rec)
  BY <1>1 DEF Adopted
<1>. HIDE DEF b, d
<1>5. Lifecycle!Close(ResultingState(b.type), AdoptedValues(b, rec), DecisionAction(b.type))
  BY <1>0, <1>1, <1>3, <1>4, Closes DEF Lifecycle!Record, Lifecycle!Close
<1>6. CASE b.type = "APPROVE"
  <2>1. rec.status = "AVAILABLE"
    BY <1>0, <1>6 DEF Verdict
  <2>2. /\ ResultingState(b.type) = "RESOLVED"
        /\ DecisionAction(b.type) = "RECOMMENDATION_APPROVED"
        /\ AdoptedValues(b, rec)
             = {[field |-> f, value |-> rec.values[f], origin |-> "AI"] : f \in DOMAIN rec.values}
    BY <1>6 DEF AdoptedValues, ResultingState, DecisionAction
  <2>3. Lifecycle!Approve
    BY <1>5, <2>1, <2>2 DEF Lifecycle!Approve, Lifecycle!Close, Lifecycle!Record
  <2>. QED
    BY <2>3 DEF Lifecycle!Next
<1>7. CASE b.type = "EDIT_APPROVE"
  <2>1. DOMAIN b.values # {} /\ (rec.status = "AVAILABLE" => DOMAIN b.values = DOMAIN rec.values)
    BY <1>0, <1>7 DEF Verdict, Incomplete
  <2>2. b.values \in Lifecycle!Maps \ {Lifecycle!NoMap}
    BY <1>2, <2>1 DEF ValueMaps, Lifecycle!Maps, Lifecycle!NoMap
  <2>3. AdoptedValues(b, rec)
          = {[field |-> f, value |-> b.values[f], origin |-> OriginOf(b, rec, f)] :
               f \in DOMAIN b.values}
    BY <1>7 DEF AdoptedValues
  <2>4. \A f \in DOMAIN b.values : OriginOf(b, rec, f) = Lifecycle!Author(b.values, f)
    BY <2>1 DEF OriginOf, Lifecycle!Author
  <2>5. AdoptedValues(b, rec)
          = {[field |-> f, value |-> b.values[f], origin |-> Lifecycle!Author(b.values, f)] :
               f \in DOMAIN b.values}
    BY <2>3, <2>4
  <2>6. ResultingState(b.type) = "RESOLVED"
        /\ DecisionAction(b.type) = "RECOMMENDATION_EDITED_AND_APPROVED"
    BY <1>7 DEF ResultingState, DecisionAction
  <2>7. Lifecycle!EditAndApprove
    BY <1>5, <2>1, <2>2, <2>5, <2>6 DEF Lifecycle!EditAndApprove, Lifecycle!Close, Lifecycle!Record
  <2>. QED
    BY <2>7 DEF Lifecycle!Next
<1>8. CASE b.type = "REJECT"
  <2>1. /\ ResultingState(b.type) = "REJECTED"
        /\ DecisionAction(b.type) = "RECOMMENDATION_REJECTED"
        /\ AdoptedValues(b, rec) = {}
    BY <1>8 DEF AdoptedValues, ResultingState, DecisionAction
  <2>. QED
    BY <1>5, <2>1 DEF Lifecycle!Next, Lifecycle!Reject, Lifecycle!Close, Lifecycle!Record
<1>. QED
  BY <1>2, <1>6, <1>7, <1>8 DEF DecisionTypes

LEMMA OutcomeIsLifecycle ==
  ASSUME SafeInv, NEW p \in Jobs, pc[p] = "commit", Apply(p)
  PROVE  Lifecycle!Next
<1>1. /\ decisions' = decisions /\ exc' = exc /\ rec' = answer[p] /\ rec = Pending
      /\ answer[p].status = "AVAILABLE" \/ answer[p] = Unavailable
      /\ EntryOf(p).action = OutcomeAction(answer[p].status)
  BY CommitFacts DEF Apply, Procs
<1>2. Lifecycle!Record(OutcomeAction(answer[p].status))
  BY <1>1, CommitRecords DEF Procs, Lifecycle!Record
<1>3. answer[p] \in Recommendation
  BY DEF SafeInv, TypeInv, TypeOK
<1>4. UNCHANGED <<exc.state, UNION {d.values : d \in decisions}>> /\ rec.status = "PENDING"
  BY <1>1 DEF Pending
<1>5. CASE answer[p].status = "AVAILABLE"
  <2>1. answer[p].values \in Lifecycle!Maps
        /\ answer[p] = [status |-> "AVAILABLE", values |-> answer[p].values]
    BY <1>3, <1>5 DEF Recommendation, ValueMaps, Lifecycle!Maps
  <2>2. Lifecycle!Record("RECOMMENDATION_GENERATED")
    BY <1>2, <1>5 DEF OutcomeAction, Lifecycle!Record
  <2>3. rec' = [status |-> "AVAILABLE", values |-> answer[p].values]
    BY <1>1, <2>1
  <2>4. \E values \in Lifecycle!Maps : rec' = [status |-> "AVAILABLE", values |-> values]
    BY <2>1, <2>3
  <2>5. Lifecycle!Propose
    BY <1>4, <2>2, <2>4 DEF Lifecycle!Propose
  <2>. QED
    BY <2>5 DEF Lifecycle!Next
<1>6. CASE answer[p] = Unavailable
  <2>1. Lifecycle!Record("RECOMMENDATION_UNAVAILABLE")
    BY <1>2, <1>6 DEF OutcomeAction, Unavailable, Lifecycle!Record
  <2>2. rec' = [status |-> "UNAVAILABLE", values |-> Lifecycle!NoMap]
    BY <1>1, <1>6 DEF Unavailable, NoValues, Lifecycle!NoMap
  <2>3. Lifecycle!GiveUp
    BY <1>4, <2>1, <2>2 DEF Lifecycle!GiveUp
  <2>. QED
    BY <2>3 DEF Lifecycle!Next
<1>. QED
  BY <1>1, <1>5, <1>6

LEMMA StepIsLifecycle == SafeInv /\ [Next]_vars => [Lifecycle!Next]_(Lifecycle!vars)
<1>. SUFFICES ASSUME SafeInv, [Next]_vars PROVE [Lifecycle!Next]_(Lifecycle!vars)
  OBVIOUS
<1>1. CASE UNCHANGED tables
  BY <1>1 DEF tables, Lifecycle!vars
<1>2. ASSUME NEW p \in Procs, pc[p] = "commit", Apply(p)
      PROVE  Lifecycle!Next
  BY <1>2, DecisionIsLifecycle, OutcomeIsLifecycle DEF Procs
<1>. QED
  BY <1>1, <1>2, OnlyCommits DEF SafeInv, TypeInv

\* Whatever requests, jobs, rollbacks and crashes do, the committed case changes as its
\* life cycle says, one step at a time (FR-11.12, FR-9.1, FR-11.3 to FR-11.8).
THEOREM AlwaysImplementsLifecycle == Spec => ImplementsLifecycle
BY LifecycleInit, StepIsLifecycle, AlwaysSafe, PTL DEF Spec, ImplementsLifecycle, Lifecycle!Spec

-----------------------------------------------------------------------------
(* What clients are told. *)

Mine(r) == {d \in decisions : d.by = r}

\* The decision d is the one that request r asks for.
Asked(r, d) ==
    /\ d.key = request[r].key
    /\ d.type = request[r].body.type
    /\ Sent(request[r].body) \subseteq Stored(d)

\* A reply of this code, naming this request, is true of the tables.
ReplyTrue(r, code, of) ==
    /\ code = "created" => of = r /\ Mine(r) # {}
    /\ code = "replayed" => \E d \in Mine(of) : Asked(r, d)
    /\ code = "already_decided" => Mine(of) # {}
    /\ code \notin {"none", "error", "created", "replayed"} => Mine(r) = {}

\* A request has a decision exactly from its commit on, and a reply when it is done.
ReplyInv(r) ==
    /\ pc[r] \notin {"respond", "done", "lost"} => Mine(r) = {}
    /\ pc[r] = "respond" => Mine(r) # {}
    /\ pc[r] # "done" => reply[r].code = "none"
    /\ ReplyTrue(r, reply[r].code, reply[r].of)

RepliesInv == \A r \in Requests : ReplyInv(r)

Waiting == {"lock", "update", "write", "append", "insert"}

LEMMA InitReplies == Init => RepliesInv
BY DEF Init, RepliesInv, ReplyInv, ReplyTrue, Mine, Procs

\* A request that a step does not touch keeps its part of the invariant.
LEMMA BystanderReply ==
  ASSUME NEW r \in Requests, ReplyInv(r),
         decisions \subseteq decisions', request' = request,
         \A d \in decisions' : d.by = r => d \in decisions,
         pc'[r] = pc[r], reply'[r] = reply[r]
  PROVE  ReplyInv(r)'
<1>1. Mine(r)' = Mine(r)
  BY DEF Mine
<1>2. ReplyTrue(r, reply[r].code, reply[r].of)
  BY DEF ReplyInv
<1>3. \A q : Mine(q) \subseteq Mine(q)'
  BY DEF Mine
<1>4. ReplyTrue(r, reply[r].code, reply[r].of)'
  BY <1>1, <1>2, <1>3 DEF ReplyTrue, Asked
<1>. QED
  BY <1>1, <1>4 DEF ReplyInv

\* A request that moves on without a commit and without a reply.
LEMMA GotoReply ==
  ASSUME TypeOK, NEW r \in Requests, ReplyInv(r), NEW label,
         pc[r] \notin {"respond", "done", "lost"},
         label \notin {"respond", "done"},
         Goto(r, label), reply' = reply, UNCHANGED <<decisions, request>>
  PROVE  ReplyInv(r)'
<1>1. pc'[r] = label
  BY DEF TypeOK, Goto, Procs
<1>2. Mine(r)' = Mine(r)
  BY DEF Mine
<1>. QED
  BY <1>1, <1>2 DEF ReplyInv, ReplyTrue

\* A request that ends before its commit.
LEMMA FinishReply ==
  ASSUME TypeOK, NEW r \in Requests, ReplyInv(r), NEW code, NEW of,
         pc[r] \notin {"respond", "done", "lost"},
         Finish(r, code, of), UNCHANGED <<decisions, request>>,
         code # "created",
         code = "replayed" => \E d \in Mine(of) : Asked(r, d),
         code = "already_decided" => Mine(of) # {}
  PROVE  ReplyInv(r)'
<1>1. pc'[r] = "done" /\ reply'[r] = [code |-> code, of |-> of]
  BY DEF TypeOK, Finish, Procs
<1>2. Mine(r) = {} /\ \A q : Mine(q)' = Mine(q)
  BY DEF ReplyInv, Mine
<1>3. \A d : Asked(r, d)' <=> Asked(r, d)
  BY DEF Asked
<1>4. ReplyTrue(r, code, of)'
  BY <1>2, <1>3 DEF ReplyTrue
<1>. QED
  BY <1>1, <1>4 DEF ReplyInv

\* What is stored under a key and says the same is what the request asks for.
LEMMA ReplayIsAsked ==
  ASSUME SafeInv, NEW r \in Requests, NEW d \in decisions,
         d.key = request[r].key, SameDecision(d, request[r].body)
  PROVE  d \in Mine(d.by) /\ Asked(r, d)
<1>1. d.type = request[r].body.type
  BY DEF SafeInv, TablesInv, DecisionSound, SameDecision
<1>2. Sent(request[r].body) \subseteq Stored(d)
  BY DEF SameDecision, Sent
<1>. QED
  BY <1>1, <1>2 DEF Mine, Asked

\* A closed case names the decision that closed it.
LEMMA ClosedByDecision ==
  ASSUME SafeInv, exc.state # "OPEN"
  PROVE  Mine(exc.decision) # {}
<1>1. PICK d \in decisions : exc = [state |-> ResultingState(d.type), decision |-> d.by]
  BY DEF SafeInv, TablesInv, AuditCoupled
<1>. QED
  BY <1>1 DEF Mine

LEMMA RequestStepReply ==
  ASSUME SafeInv, NEW r \in Requests, ReplyInv(r), Submit(r) \/ RequestStep(r)
  PROVE  ReplyInv(r)'
<1>. TypeOK
  BY DEF SafeInv, TypeInv
<1>1. CASE Submit(r)
  BY <1>1, GotoReply DEF Submit, tables
<1>2. CASE Precheck(r)
  <2>1. UNCHANGED <<decisions, request>> /\ pc[r] = "precheck"
    BY <1>2 DEF Precheck, tables
  <2>2. CASE Goto(r, "lock") /\ UNCHANGED reply
    BY <2>1, <2>2, GotoReply
  <2>3. ASSUME NEW d \in decisions, d.key = request[r].key,
               SameDecision(d, request[r].body), Finish(r, "replayed", d.by)
        PROVE  ReplyInv(r)'
    BY <2>1, <2>3, FinishReply, ReplayIsAsked
  <2>4. ASSUME NEW d \in decisions, Finish(r, "key_reused", d.by)
        PROVE  ReplyInv(r)'
    BY <2>1, <2>4, FinishReply
  <2>. QED
    BY <1>2, <2>2, <2>3, <2>4 DEF Precheck
<1>3. CASE LockException(r)
  <2>1. UNCHANGED <<decisions, request>> /\ pc[r] = "lock"
    BY <1>3 DEF LockException, tables, Fail, Rollback
  <2>2. CASE Goto(r, "resolve") /\ UNCHANGED reply
    BY <2>1, <2>2, GotoReply
  <2>3. CASE exc.state # "OPEN" /\ Finish(r, "already_decided", exc.decision)
    BY <2>1, <2>3, FinishReply, ClosedByDecision
  <2>. QED
    BY <1>3, <2>2, <2>3 DEF LockException, Fail
<1>4. CASE ReadRecommendation(r)
  <2>1. UNCHANGED <<decisions, request>> /\ pc[r] = "resolve"
    BY <1>4 DEF ReadRecommendation, tables, Fail, Rollback
  <2>2. CASE Goto(r, "write") /\ UNCHANGED reply
    BY <2>1, <2>2, GotoReply
  <2>3. CASE Finish(r, Verdict(request[r].body, rec), Nobody)
    <3>1. Verdict(request[r].body, rec) \notin {"created", "replayed", "already_decided"}
      BY DEF Verdict
    <3>. QED
      BY <2>1, <2>3, <3>1, FinishReply
  <2>. QED
    BY <1>4, <2>2, <2>3 DEF ReadRecommendation, Fail
<1>5. CASE WriteDecision(r)
  <2>1. UNCHANGED <<decisions, request>> /\ pc[r] = "write"
    BY <1>5 DEF WriteDecision, tables, Fail, Rollback
  <2>2. CASE Goto(r, "append") /\ UNCHANGED reply
    BY <2>1, <2>2, GotoReply
  <2>3. CASE Finish(r, "conflict", Nobody)
    BY <2>1, <2>3, FinishReply
  <2>. QED
    BY <1>5, <2>2, <2>3 DEF WriteDecision, Fail
<1>6. CASE Respond(r)
  <2>1. pc'[r] = "done" /\ reply'[r] = [code |-> "created", of |-> r] /\ Mine(r)' # {}
    BY <1>6 DEF Respond, Finish, TypeOK, Procs, ReplyInv, Mine, tables
  <2>. QED
    BY <2>1 DEF ReplyInv, ReplyTrue
<1>. QED
  BY <1>1, <1>2, <1>3, <1>4, <1>5, <1>6 DEF RequestStep

LEMMA DeadlockedIsWaiting ==
  ASSUME NEW p \in Procs, DeadlockAbort(p)
  PROVE  pc[p] \in Waiting
<1>1. pc[p] \notin Waiting => WaitsFor(p) = {}
  BY Zenon DEF WaitsFor, Waiting
<1>. QED
  BY <1>1 DEF DeadlockAbort

\* The audit writer, the environment, and the commit itself.
LEMMA WriterStepReply ==
  ASSUME SafeInv, NEW r \in Requests, ReplyInv(r),
         \/ WriterStep(r) \/ DeadlockAbort(r) \/ EnvironmentError(r) \/ LoseAck(r)
  PROVE  ReplyInv(r)'
<1>. r \in Procs /\ r \notin Jobs /\ TypeOK
  BY ProcsAssumption DEF SafeInv, TypeInv, Procs
<1>1. ASSUME NEW code \in {"forbidden", "conflict", "violation", "deadlock", "error"},
             Fail(r, code, Nobody), request' = request, pc[r] \notin {"respond", "done", "lost"}
      PROVE  ReplyInv(r)'
  BY <1>1, FinishReply DEF Fail, Rollback, tables
<1>2. CASE RefuseEntry(r)
  BY <1>1, <1>2 DEF RefuseEntry
<1>3. CASE ReadTail(r)
  BY <1>3, GotoReply DEF ReadTail, tables
<1>4. CASE InsertEntry(r)
  <2>1. CASE Fail(r, "conflict", Nobody)
    BY <1>1, <1>4, <2>1 DEF InsertEntry
  <2>2. CASE Goto(r, "commit") /\ UNCHANGED <<tables, reply>>
    BY <1>4, <2>2, GotoReply DEF InsertEntry, tables
  <2>. QED
    BY <1>4, <2>1, <2>2 DEF InsertEntry
<1>5. CASE DeadlockAbort(r)
  <2>1. pc[r] \notin {"respond", "done", "lost"}
    BY <1>5, DeadlockedIsWaiting DEF Waiting
  <2>. QED
    BY <1>1, <1>5, <2>1 DEF DeadlockAbort
<1>6. CASE EnvironmentError(r)
  BY <1>1, <1>6 DEF EnvironmentError, Active
<1>7. ASSUME pc[r] = "commit", Apply(r), request' = request
      PROVE  Mine(r)' # {}
  <2>1. decisions' = {DecisionOf(r)}
    BY <1>7, CommitFacts DEF Apply
  <2>2. DecisionOf(r).by = r
    BY DEF DecisionOf
  <2>. QED
    BY <2>1, <2>2 DEF Mine
<1>8. CASE Commit(r)
  <2>1. CASE Fail(r, "violation", Nobody)
    BY <1>1, <1>8, <2>1 DEF Commit
  <2>2. CASE Apply(r) /\ Goto(r, "respond") /\ UNCHANGED reply
    <3>1. pc'[r] = "respond" /\ Mine(r)' # {} /\ reply[r].code = "none"
      BY <1>7, <1>8, <2>2 DEF Commit, Goto, TypeOK, ReplyInv
    <3>. QED
      BY <2>2, <3>1 DEF ReplyInv, ReplyTrue
  <2>. QED
    BY <1>8, <2>1, <2>2 DEF Commit
<1>9. CASE LoseAck(r)
  <2>1. pc'[r] = "done" /\ reply'[r].code = "error"
    BY <1>9 DEF LoseAck, Finish, TypeOK
  <2>. QED
    BY <2>1 DEF ReplyInv, ReplyTrue
<1>. QED
  BY <1>2, <1>3, <1>4, <1>5, <1>6, <1>8, <1>9 DEF WriterStep

\* A process touches its own label and reply only, and adds no decision but its own.
LEMMA StepIsLocal ==
  ASSUME SafeInv, NEW p \in Procs, NEW r \in Requests, r # p,
         \/ p \in Requests /\ (Submit(p) \/ RequestStep(p))
         \/ p \in Jobs /\ (JobStep(p) \/ Generate(p))
         \/ WriterStep(p) \/ DeadlockAbort(p) \/ EnvironmentError(p) \/ LoseAck(p)
  PROVE  /\ pc'[r] = pc[r] /\ reply'[r] = reply[r]
         /\ decisions \subseteq decisions' /\ request' = request
         /\ \A d \in decisions' : d.by = r => d \in decisions
<1>. /\ TypeOK /\ r \in Procs
     /\ pc \in [Procs -> Labels]
     /\ reply \in [Procs -> [code : Codes, of : Requests \cup {Nobody}]]
  BY DEF SafeInv, TypeInv, TypeOK, Procs, Labels
<1>1. ASSUME p \in Requests, Submit(p) \/ RequestStep(p)
      PROVE  pc'[r] = pc[r] /\ reply'[r] = reply[r] /\ request' = request
  BY <1>1 DEF Submit, RequestStep, Precheck, LockException, ReadRecommendation, WriteDecision,
     Respond, Fail, Finish, Goto
<1>2. ASSUME p \in Jobs, JobStep(p) \/ Generate(p)
      PROVE  pc'[r] = pc[r] /\ reply'[r] = reply[r] /\ request' = request
  BY <1>2 DEF JobStep, StartJob, UpdateRecommendation, Generate, Finish, Goto
<1>3. ASSUME WriterStep(p)
      PROVE  pc'[r] = pc[r] /\ reply'[r] = reply[r] /\ request' = request
  BY <1>3 DEF WriterStep, RefuseEntry, ReadTail, InsertEntry, Commit, Fail, Finish, Goto
<1>4. ASSUME DeadlockAbort(p) \/ EnvironmentError(p) \/ LoseAck(p)
      PROVE  pc'[r] = pc[r] /\ reply'[r] = reply[r] /\ request' = request
  BY <1>4 DEF DeadlockAbort, EnvironmentError, LoseAck, Fail, Finish
<1>5. \/ UNCHANGED tables
      \/ pc[p] = "commit" /\ Apply(p)
  BY StepCommits DEF SafeInv, TypeInv
<1>6. CASE UNCHANGED tables
  BY <1>1, <1>2, <1>3, <1>4, <1>6 DEF tables
<1>7. CASE pc[p] = "commit" /\ Apply(p)
  <2>1. \A d \in tx[p].decision : d.by = p
    BY <1>7, CommitFacts DEF DecisionOf, Procs
  <2>2. decisions' = decisions \cup tx[p].decision
    BY <1>7 DEF Apply
  <2>. QED
    BY <1>1, <1>2, <1>3, <1>4, <2>1, <2>2
<1>. QED
  BY <1>5, <1>6, <1>7

LEMMA NextReplies == SafeInv /\ RepliesInv /\ [Next]_vars => RepliesInv'
<1>. SUFFICES ASSUME SafeInv, RepliesInv, [Next]_vars, NEW r \in Requests PROVE ReplyInv(r)'
  BY DEF RepliesInv
<1>0. ReplyInv(r) /\ r \in Procs
  BY DEF RepliesInv, Procs
<1>1. ASSUME NEW q \in Requests, Submit(q) \/ RequestStep(q)
      PROVE  ReplyInv(r)'
  BY <1>0, <1>1, RequestStepReply, StepIsLocal, BystanderReply DEF Procs
<1>2. ASSUME NEW j \in Jobs, JobStep(j) \/ Generate(j)
      PROVE  ReplyInv(r)'
  BY <1>0, <1>2, ProcsAssumption, StepIsLocal, BystanderReply DEF Procs
<1>3. ASSUME NEW p \in Procs,
             WriterStep(p) \/ DeadlockAbort(p) \/ EnvironmentError(p) \/ LoseAck(p)
      PROVE  ReplyInv(r)'
  BY <1>0, <1>3, WriterStepReply, StepIsLocal, BystanderReply
<1>4. CASE Crash
  <2>1. UNCHANGED <<decisions, request, reply>>
    BY <1>4 DEF Crash, tables
  <2>2. (pc'[r] = "lost" /\ pc[r] # "done") \/ pc'[r] = pc[r]
    BY <1>0, <1>4, ProcsAssumption DEF Crash, Active
  <2>3. \A q : Mine(q)' = Mine(q)
    BY <2>1 DEF Mine
  <2>4. ReplyTrue(r, reply[r].code, reply[r].of)'
    BY <1>0, <2>1, <2>3 DEF ReplyInv, ReplyTrue, Asked
  <2>. QED
    BY <1>0, <2>1, <2>2, <2>3, <2>4 DEF ReplyInv
<1>5. CASE UNCHANGED vars
  BY <1>0, <1>5, BystanderReply DEF vars
<1>. QED
  BY <1>1, <1>2, <1>3, <1>4, <1>5 DEF Next, Quiescent

LEMMA RepliesFollow == RepliesInv => RepliesTruthful
<1>. SUFFICES ASSUME RepliesInv, NEW r \in Requests,
                     NEW mine, mine = {d \in decisions : d.by = r},
                     NEW told, told = {d \in decisions : d.by = reply[r].of}
              PROVE  CASE reply[r].code = "created"  -> mine # {} /\ told = mine
                       [] reply[r].code = "replayed" ->
                            \E d \in told : /\ d.key = request[r].key
                                           /\ d.type = request[r].body.type
                                           /\ Sent(request[r].body) \subseteq Stored(d)
                       [] reply[r].code = "already_decided" -> told # {} /\ mine = {}
                       [] reply[r].code \in {"none", "error"} -> TRUE
                       [] OTHER -> mine = {}
  BY DEF RepliesTruthful
<1>1. ReplyTrue(r, reply[r].code, reply[r].of) /\ mine = Mine(r) /\ told = Mine(reply[r].of)
  BY DEF RepliesInv, ReplyInv, Mine
<1>2. CASE reply[r].code = "created"
  BY <1>1, <1>2 DEF ReplyTrue
<1>3. CASE reply[r].code = "replayed"
  BY <1>1, <1>3 DEF ReplyTrue, Asked
<1>4. CASE reply[r].code = "already_decided"
  BY <1>1, <1>4 DEF ReplyTrue
<1>5. CASE reply[r].code \in {"none", "error"}
  BY <1>5
<1>6. CASE reply[r].code \notin {"none", "error", "created", "replayed", "already_decided"}
  <2>1. mine = {}
    BY <1>1, <1>6 DEF ReplyTrue
  <2>. QED
    BY <1>6, <2>1, Zenon
<1>. QED
  BY <1>2, <1>3, <1>4, <1>5, <1>6

\* What a client is told is what the tables hold: a 201 names the request's own
\* stored decision, a replay one with the request's key, type and values, a conflict
\* the decision that won, and no refused or failed request has left a decision, a
\* lost COMMIT acknowledgement excepted.
THEOREM RepliesAlwaysTruthful == Spec => []RepliesTruthful
BY InitReplies, NextReplies, RepliesFollow, AlwaysSafe, PTL DEF Spec
=============================================================================
