----------------------- MODULE GenerationWorkerProofs -----------------------
(***************************************************************************)
(* Proofs about the worker and its calls, for any exceptions, any number   *)
(* of slots and any times.                                                 *)
(***************************************************************************)
EXTENDS GenerationWorker, FunctionTheorems, FiniteSetTheorems, SequenceTheorems, TLAPS

\* The exceptions whose job holds a slot.
Holders(jobs) == {e \in Exceptions : jobs[e].at \in Running}

Distinct(q) == \A i, j \in 1..Len(q) : q[i] = q[j] => i = j
Lists(q, jobs) == \A e \in Exceptions : jobs[e].at = "queued" <=> \E i \in 1..Len(q) : q[i] = e

\* The queue holds what is dispatched and not started, each exception once.
QueueInv ==
    /\ queue \in Seq(Exceptions) /\ arrived \in Seq(Exceptions) /\ started \in Seq(Exceptions)
    /\ active \in 0..Concurrency
    /\ job \in [Exceptions -> Job]
    /\ Distinct(queue) /\ Lists(queue, job)
    /\ SlotsUsed
    /\ ServedInOrder

-----------------------------------------------------------------------------
(* pump(). *)

LEMMA LeastFact ==
    ASSUME NEW m \in Nat, NEW n \in Nat
    PROVE  /\ Least(m, n) \in 0..m /\ Least(m, n) \in 0..n
           /\ Least(m, n) \in {m, n}
  BY DEF Least

\* A queue is cut in two; the exceptions of the first part are as many as it is long.
LEMMA CutFact ==
    ASSUME NEW q \in Seq(Exceptions), Distinct(q), NEW k \in 0..Len(q)
    PROVE  LET taken == SubSeq(q, 1, k)
               rest  == SubSeq(q, k + 1, Len(q))
               T     == {e \in Exceptions : \E i \in 1..k : q[i] = e}
           IN /\ taken \in Seq(Exceptions) /\ rest \in Seq(Exceptions)
              /\ DOMAIN taken = 1..k /\ \A i \in 1..k : taken[i] = q[i]
              /\ Len(rest) = Len(q) - k
              /\ \A i \in 1..Len(rest) : rest[i] = q[k + i]
              /\ taken \o rest = q
              /\ Distinct(rest)
              /\ IsFiniteSet(T) /\ Cardinality(T) = k
<1> DEFINE taken == SubSeq(q, 1, k)
           rest  == SubSeq(q, k + 1, Len(q))
           T     == {e \in Exceptions : \E i \in 1..k : q[i] = e}
<1>1. Len(q) \in Nat /\ \A i \in 1..Len(q) : q[i] \in Exceptions
  BY LenProperties, ElementOfSeq
<1>2. /\ taken \in Seq(Exceptions) /\ Len(taken) = k
      /\ \A i \in 1..k : taken[i] = q[i]
  <2>1. \A i \in 1..k : q[i] \in Exceptions
    BY <1>1
  <2>2. /\ taken \in Seq(Exceptions) /\ Len(taken) = IF 1 <= k THEN k - 1 + 1 ELSE 0
        /\ \A i \in 1..k - 1 + 1 : taken[i] = q[1 + i - 1]
    BY <2>1, SubSeqProperties
  <2> QED
    BY <1>1, <2>2
<1>3. /\ rest \in Seq(Exceptions) /\ Len(rest) = Len(q) - k
      /\ \A i \in 1..Len(rest) : rest[i] = q[k + i]
  <2>1. \A i \in (k + 1)..Len(q) : q[i] \in Exceptions
    BY <1>1
  <2>2. /\ rest \in Seq(Exceptions)
        /\ Len(rest) = IF k + 1 <= Len(q) THEN Len(q) - (k + 1) + 1 ELSE 0
        /\ \A i \in 1..Len(q) - (k + 1) + 1 : rest[i] = q[(k + 1) + i - 1]
    BY <1>1, <2>1, SubSeqProperties
  <2> QED
    BY <1>1, <2>2
<1>4. DOMAIN taken = 1..k
  BY <1>2, LenProperties
<1>5. taken \o rest = q
  <2>1. 1 \in 1..Len(q) + 1 /\ k \in 1 - 1..Len(q) /\ Len(q) \in k..Len(q)
    BY <1>1
  <2>2. taken \o rest = SubSeq(q, 1, Len(q))
    BY <2>1, ConcatAdjacentSubSeq
  <2> QED
    BY <2>2, SubSeqFull
<1>6. Distinct(rest)
  BY <1>1, <1>3 DEF Distinct
<1>7. IsFiniteSet(T) /\ Cardinality(T) = k
  <2> DEFINE f == [i \in 1..k |-> q[i]]
  <2>1. f \in [1..k -> T]
    BY <1>1
  <2>2. \A i, j \in 1..k : f[i] = f[j] => i = j
    BY <1>1 DEF Distinct
  <2>3. \A e \in T : \E i \in 1..k : f[i] = e
    OBVIOUS
  <2>4. f \in Bijection(1..k, T)
    BY <2>1, <2>2, <2>3, Fun_IsBij
  <2>5. ExistsBijection(1..k, T)
    BY <2>4 DEF ExistsBijection
  <2>6. IsFiniteSet(T)
    BY <2>5, FS_NatBijection
  <2> QED
    BY <2>5, <2>6, FS_CountingElements
<1> QED
  BY <1>2, <1>3, <1>4, <1>5, <1>6, <1>7

\* All that a pump does to the jobs is to start some that are queued.
StartsOnly(jobs) ==
    /\ job' \in [Exceptions -> Job]
    /\ \A e \in Exceptions :
          \/ job'[e] = jobs[e]
          \/ jobs[e].at = "queued" /\ job'[e] = [jobs[e] EXCEPT !.at = "lookup"]

\* A pump of a sound queue leaves a sound queue, no idle slot beside it, and the order of
\* service as it was.
LEMMA PumpFact ==
    ASSUME NEW q \in Seq(Exceptions), NEW n \in 0..Concurrency, NEW jobs \in [Exceptions -> Job],
           Distinct(q), Lists(q, jobs), n = Cardinality(Holders(jobs)),
           started \in Seq(Exceptions), Pump(q, n, jobs)
    PROVE  /\ queue' \in Seq(Exceptions) /\ started' \in Seq(Exceptions)
           /\ active' \in 0..Concurrency /\ job' \in [Exceptions -> Job]
           /\ Distinct(queue)' /\ Lists(queue, job)'
           /\ SlotsUsed'
           /\ started' \o queue' = started \o q
           /\ StartsOnly(jobs)
<1> DEFINE k == Least(Len(q), Concurrency - n)
           taken == SubSeq(q, 1, k)
           rest  == SubSeq(q, k + 1, Len(q))
           T     == {e \in Exceptions : \E i \in 1..k : q[i] = e}
<1>1. Len(q) \in Nat /\ Concurrency \in Nat /\ Concurrency - n \in Nat /\ n \in Nat
  BY LenProperties, WorkerAssumption
<1>2. k \in 0..Len(q) /\ k \in 0..(Concurrency - n) /\ k \in {Len(q), Concurrency - n}
  BY <1>1, LeastFact
<1>3. /\ taken \in Seq(Exceptions) /\ rest \in Seq(Exceptions)
      /\ DOMAIN taken = 1..k /\ \A i \in 1..k : taken[i] = q[i]
      /\ Len(rest) = Len(q) - k
      /\ \A i \in 1..Len(rest) : rest[i] = q[k + i]
      /\ taken \o rest = q
      /\ Distinct(rest)
      /\ IsFiniteSet(T) /\ Cardinality(T) = k
  <2> HIDE DEF k
  <2> QED
    BY <1>2, CutFact
<1>4. /\ queue' = rest /\ active' = n + k /\ started' = started \o taken
      /\ job' = [e \in Exceptions |-> IF \E i \in DOMAIN taken : taken[i] = e
                                      THEN [jobs[e] EXCEPT !.at = "lookup"] ELSE jobs[e]]
  BY DEF Pump
<1> HIDE DEF k, taken, rest
<1>5. job' = [e \in Exceptions |-> IF e \in T THEN [jobs[e] EXCEPT !.at = "lookup"] ELSE jobs[e]]
  BY <1>3, <1>4
<1>6. \A e \in T : jobs[e].at = "queued"
  BY <1>1, <1>2 DEF Lists
<1>7. /\ job' \in [Exceptions -> Job]
      /\ \A e \in Exceptions : e \in T => job'[e].at = "lookup"
      /\ \A e \in Exceptions : e \notin T => job'[e] = jobs[e]
  BY <1>5 DEF Job, Running, Calling
<1>8. Lists(queue, job)'
  <2> SUFFICES ASSUME NEW e \in Exceptions
               PROVE  job'[e].at = "queued" <=> \E i \in 1..Len(rest) : rest[i] = e
    BY <1>4 DEF Lists
  <2>1. CASE e \in T
    <3>1. PICK j \in 1..k : q[j] = e
      BY <2>1
    <3>2. ASSUME NEW i \in 1..Len(rest), rest[i] = e PROVE FALSE
      <4>1. q[k + i] = e
        BY <1>3, <3>2
      <4>2. k + i \in 1..Len(q) /\ j \in 1..Len(q) /\ j # k + i
        BY <1>1, <1>2, <1>3
      <4> QED
        BY <3>1, <4>1, <4>2 DEF Distinct
    <3> QED
      BY <1>7, <2>1, <3>2
  <2>2. CASE e \notin T
    <3>1. (\E i \in 1..Len(q) : q[i] = e) <=> \E i \in 1..Len(rest) : rest[i] = e
      <4>1. ASSUME NEW i \in 1..Len(q), q[i] = e PROVE \E j \in 1..Len(rest) : rest[j] = e
        <5>1. i \notin 1..k
          BY <2>2, <4>1
        <5>2. i - k \in 1..Len(rest) /\ k + (i - k) = i
          BY <1>1, <1>2, <1>3, <5>1
        <5> QED
          BY <1>3, <4>1, <5>2
      <4>2. ASSUME NEW i \in 1..Len(rest), rest[i] = e PROVE \E j \in 1..Len(q) : q[j] = e
        <5>1. k + i \in 1..Len(q)
          BY <1>1, <1>2, <1>3
        <5> QED
          BY <1>3, <4>2, <5>1
      <4> QED
        BY <4>1, <4>2
    <3> QED
      BY <1>7, <2>2, <3>1 DEF Lists
  <2> QED
    BY <2>1, <2>2
<1>9. /\ Holders(job') = Holders(jobs) \cup T
      /\ Holders(jobs) \cap T = {}
  BY <1>6, <1>7 DEF Holders, Running, Calling
<1>10. Cardinality(Holders(job')) = n + k
  <2>1. IsFiniteSet(Holders(jobs))
    BY WorkerAssumption, FS_Subset DEF Holders
  <2>2. Cardinality(Holders(jobs) \cup T)
          = Cardinality(Holders(jobs)) + Cardinality(T) - Cardinality(Holders(jobs) \cap T)
    BY <1>3, <2>1, FS_Union
  <2>3. Cardinality(Holders(jobs) \cap T) = 0
    BY <1>9, FS_EmptySet
  <2> QED
    BY <1>1, <1>2, <1>3, <1>9, <2>2, <2>3
<1>11. SlotsUsed'
  <2>1. queue' # <<>> => Len(rest) # 0
    BY <1>3, <1>4, EmptySeq
  <2>2. queue' # <<>> => active' = Concurrency
    BY <1>1, <1>2, <1>3, <1>4, <2>1
  <2>3. active' <= Concurrency
    BY <1>1, <1>2, <1>4
  <2>4. active' = Cardinality({e \in Exceptions : job'[e].at \in Running})
    BY <1>4, <1>10 DEF Holders
  <2> QED
    BY <2>2, <2>3, <2>4 DEF SlotsUsed
<1>12. started' \o queue' = started \o q /\ started' \in Seq(Exceptions)
  <2>1. started \o taken \in Seq(Exceptions)
    BY <1>3, ConcatProperties
  <2>2. (started \o taken) \o rest = started \o (taken \o rest)
    <3>1. started \in Seq(Exceptions) /\ taken \in Seq(Exceptions) /\ rest \in Seq(Exceptions)
      BY <1>3
    <3> QED
      BY <3>1, ConcatAssociative
  <2> QED
    BY <1>3, <1>4, <2>1, <2>2
<1>13. queue' \in Seq(Exceptions) /\ active' \in 0..Concurrency /\ Distinct(queue)'
  BY <1>1, <1>2, <1>3, <1>4 DEF Distinct
<1>14. StartsOnly(jobs)
  BY <1>5, <1>6, <1>7 DEF StartsOnly
<1> QED
  BY <1>7, <1>8, <1>11, <1>12, <1>13, <1>14

-----------------------------------------------------------------------------
(* The steps. *)

LEMMA InitQueueInv == ASSUME Init PROVE QueueInv
<1>1. {e \in Exceptions : job[e].at \in Running} = {}
  BY DEF Init, NoJob, Running, Calling
<1>2. SlotsUsed
  <2>1. active = 0 /\ queue = <<>> /\ Concurrency \in Nat
    BY WorkerAssumption DEF Init
  <2>2. Cardinality({e \in Exceptions : job[e].at \in Running}) = 0
    BY <1>1, FS_EmptySet
  <2> QED
    BY <2>1, <2>2 DEF SlotsUsed
<1>3. ServedInOrder
  BY EmptySeq, ConcatEmptySeq DEF Init, ServedInOrder
<1>4. Distinct(queue) /\ Lists(queue, job)
  BY EmptySeq DEF Init, Distinct, Lists, NoJob
<1> QED
  BY <1>2, <1>3, <1>4, EmptySeq, WorkerAssumption DEF Init, QueueInv, NoJob, Job, Running, Calling

\* A step within a job, or of time, leaves the queue and the slots alone.
LEMMA WithinJobs ==
    ASSUME QueueInv, Elsewhere, job' \in [Exceptions -> Job],
           \A e \in Exceptions : \/ job'[e].at = job[e].at
                                 \/ job[e].at \in Running /\ job'[e].at \in Running
    PROVE  QueueInv'
<1>1. Holders(job') = Holders(job)
  BY DEF Holders
<1>2. Lists(queue, job)'
  BY DEF QueueInv, Lists, Elsewhere, Running, Calling
<1>3. SlotsUsed'
  BY <1>1 DEF QueueInv, SlotsUsed, Elsewhere, Holders
<1> QED
  BY <1>2, <1>3 DEF QueueInv, Elsewhere, Distinct, ServedInOrder

LEMMA DispatchKeeps ==
    ASSUME QueueInv, NEW e \in Exceptions, Dispatch(e)
    PROVE  QueueInv' /\ StartsOnly([job EXCEPT ![e].at = "queued"])
<1> DEFINE q == Append(queue, e)
           jobs == [job EXCEPT ![e].at = "queued"]
<1>1. /\ queue \in Seq(Exceptions) /\ arrived \in Seq(Exceptions)
      /\ started \in Seq(Exceptions) /\ active \in 0..Concurrency
      /\ job \in [Exceptions -> Job] /\ job[e].at = "none"
      /\ Distinct(queue) /\ Lists(queue, job) /\ Len(queue) \in Nat
  BY LenProperties DEF QueueInv, Dispatch
<1>2. /\ q \in Seq(Exceptions) /\ Len(q) = Len(queue) + 1
      /\ \A i \in 1..Len(queue) : q[i] = queue[i]
      /\ q[Len(queue) + 1] = e
  BY <1>1, AppendProperties
<1>3. /\ jobs \in [Exceptions -> Job] /\ jobs[e].at = "queued"
      /\ \A f \in Exceptions \ {e} : jobs[f] = job[f]
  BY <1>1 DEF Job
<1>4. \A i \in 1..Len(queue) : queue[i] # e
  BY <1>1 DEF Lists
<1>5. Pump(q, active, jobs) /\ arrived' = Append(arrived, e)
  BY DEF Dispatch
<1> HIDE DEF q, jobs
<1>6. Distinct(q)
  <2> SUFFICES ASSUME NEW i \in 1..Len(q), NEW j \in 1..Len(q), q[i] = q[j] PROVE i = j
    BY DEF Distinct
  <2>1. /\ i \in 1..Len(queue) \/ i = Len(queue) + 1
        /\ j \in 1..Len(queue) \/ j = Len(queue) + 1
    BY <1>1, <1>2
  <2> QED
    BY <1>1, <1>2, <1>4, <2>1 DEF Distinct
<1>7. Lists(q, jobs)
  <2> SUFFICES ASSUME NEW f \in Exceptions
               PROVE  jobs[f].at = "queued" <=> \E i \in 1..Len(q) : q[i] = f
    BY DEF Lists
  <2>1. CASE f = e
    BY <1>1, <1>2, <1>3, <2>1
  <2>2. CASE f # e
    <3>1. jobs[f] = job[f]
      BY <1>3, <2>2
    <3>2. \A i \in 1..Len(q) : q[i] = f => i \in 1..Len(queue) /\ queue[i] = f
      <4> SUFFICES ASSUME NEW i \in 1..Len(q), q[i] = f
                   PROVE  i \in 1..Len(queue) /\ queue[i] = f
        OBVIOUS
      <4>1. i # Len(queue) + 1
        BY <1>2, <2>2
      <4>2. i \in 1..Len(queue)
        BY <1>1, <1>2, <4>1
      <4> QED
        BY <1>2, <4>2
    <3>3. \A i \in 1..Len(queue) : i \in 1..Len(q) /\ q[i] = queue[i]
      BY <1>1, <1>2
    <3> QED
      BY <1>1, <3>1, <3>2, <3>3 DEF Lists
  <2> QED
    BY <2>1, <2>2
<1>8. active = Cardinality(Holders(jobs))
  <2>1. Holders(jobs) = Holders(job)
    BY <1>1, <1>3 DEF Holders, Running, Calling
  <2> QED
    BY <2>1 DEF QueueInv, SlotsUsed, Holders
<1>9. /\ queue' \in Seq(Exceptions) /\ started' \in Seq(Exceptions)
      /\ active' \in 0..Concurrency /\ job' \in [Exceptions -> Job]
      /\ Distinct(queue)' /\ Lists(queue, job)' /\ SlotsUsed'
      /\ started' \o queue' = started \o q
      /\ StartsOnly(jobs)
  BY <1>1, <1>2, <1>3, <1>5, <1>6, <1>7, <1>8, PumpFact
<1>10. arrived' \in Seq(Exceptions) /\ arrived' = started \o q
  <2>1. arrived' = arrived \o <<e>> /\ q = queue \o <<e>>
    BY <1>1, <1>5, AppendIsConcat DEF q
  <2>2. <<e>> \in Seq(Exceptions)
    OBVIOUS
  <2>3. arrived = started \o queue
    BY DEF QueueInv, ServedInOrder
  <2> QED
    BY <1>1, <1>5, <2>1, <2>2, <2>3, ConcatAssociative, AppendProperties
<1> QED
  BY <1>9, <1>10 DEF QueueInv, ServedInOrder, jobs

LEMMA SettleKeeps ==
    ASSUME QueueInv, NEW e \in Exceptions, Settle(e)
    PROVE  QueueInv' /\ StartsOnly([job EXCEPT ![e] = [NoJob EXCEPT !.at = "done"]])
<1> DEFINE jobs == [job EXCEPT ![e] = [NoJob EXCEPT !.at = "done"]]
<1>1. /\ queue \in Seq(Exceptions) /\ arrived \in Seq(Exceptions)
      /\ started \in Seq(Exceptions) /\ active \in 0..Concurrency
      /\ job \in [Exceptions -> Job] /\ job[e].at = "over"
      /\ Distinct(queue) /\ Lists(queue, job) /\ UNCHANGED arrived
      /\ active = Cardinality(Holders(job)) /\ Concurrency \in Nat
  BY WorkerAssumption DEF QueueInv, Settle, SlotsUsed, Holders
<1>2. /\ jobs \in [Exceptions -> Job] /\ jobs[e].at = "done"
      /\ \A f \in Exceptions \ {e} : jobs[f] = job[f]
  BY <1>1 DEF Job, NoJob
<1>3. Pump(queue, active - 1, jobs)
  BY DEF Settle
<1> HIDE DEF jobs
<1>4. Lists(queue, jobs)
  BY <1>1, <1>2 DEF Lists
<1>5. Holders(jobs) = Holders(job) \ {e} /\ e \in Holders(job)
  BY <1>1, <1>2 DEF Holders, Running, Calling
<1>6. IsFiniteSet(Holders(job))
  BY WorkerAssumption, FS_Subset DEF Holders
<1>7. active - 1 = Cardinality(Holders(jobs))
  BY <1>1, <1>5, <1>6, FS_RemoveElement
<1>8. active - 1 \in 0..Concurrency
  <2>1. active # 0
    BY <1>1, <1>5, <1>6, FS_EmptySet
  <2> QED
    BY <1>1, <2>1
<1>9. /\ queue' \in Seq(Exceptions) /\ started' \in Seq(Exceptions)
      /\ active' \in 0..Concurrency /\ job' \in [Exceptions -> Job]
      /\ Distinct(queue)' /\ Lists(queue, job)' /\ SlotsUsed'
      /\ started' \o queue' = started \o queue
      /\ StartsOnly(jobs)
  BY <1>1, <1>2, <1>3, <1>4, <1>7, <1>8, PumpFact
<1> QED
  BY <1>1, <1>9 DEF QueueInv, ServedInOrder, jobs

\* What a step within a job makes of it.
LEMMA MoveFact ==
    ASSUME job \in [Exceptions -> Job], NEW e \in Exceptions, job[e].at \in Running,
           NEW label \in Running, Move(e, label)
    PROVE  /\ job' \in [Exceptions -> Job]
           /\ job'[e] = [job[e] EXCEPT !.at = label, !.waited = 0]
           /\ job'[e].at = label
           /\ \A f \in Exceptions \ {e} : job'[f] = job[f]
  BY DEF Move, Job

LEMMA SecondAttempt ==
    ASSUME job \in [Exceptions -> Job], NEW e \in Exceptions,
           job' = [job EXCEPT ![e].at = "fetch", ![e].waited = 0, ![e].attempt = 1]
    PROVE  /\ job' \in [Exceptions -> Job] /\ job'[e].at = "fetch"
           /\ \A f \in Exceptions \ {e} : job'[f] = job[f]
<1>1. job'[e] = [job[e] EXCEPT !.at = "fetch", !.waited = 0, !.attempt = 1]
  OBVIOUS
<1>2. job'[e] \in Job /\ job'[e].at = "fetch"
  <2>1. job[e] \in Job /\ "fetch" \in Running
    BY DEF Running, Calling
  <2> DEFINE once == [job[e] EXCEPT !.at = "fetch", !.waited = 0]
  <2>2. once \in Job /\ once.at = "fetch"
    BY <2>1 DEF Job
  <2>3. job'[e] = [once EXCEPT !.attempt = 1]
    BY <1>1, <2>1 DEF Job
  <2> HIDE DEF once
  <2> QED
    BY <2>2, <2>3 DEF Job
<1>3. \A f \in Exceptions \ {e} : job'[f] = job[f]
  OBVIOUS
<1> QED
  BY <1>2, <1>3

LEMMA JobStepKeeps ==
    ASSUME QueueInv, NEW e \in Exceptions,
           LookUp(e) \/ Respond(e) \/ TimeOut(e) \/ ReadBody(e) \/ Retry(e) \/ Record(e)
    PROVE  QueueInv'
<1>1. job \in [Exceptions -> Job] /\ job[e].at \in Running /\ Elsewhere
  BY DEF QueueInv, LookUp, Respond, TimeOut, ReadBody, Retry, Record, Running, Calling
<1>2. ASSUME NEW label \in Running, Move(e, label) PROVE QueueInv'
  BY <1>1, <1>2, MoveFact, WithinJobs
<1>3. ASSUME job' = [job EXCEPT ![e].at = "fetch", ![e].waited = 0, ![e].attempt = 1]
      PROVE  QueueInv'
  <2>1. "fetch" \in Running
    BY DEF Running, Calling
  <2> QED
    BY <1>1, <1>3, <2>1, SecondAttempt, WithinJobs
<1> QED
  BY <1>2, <1>3 DEF LookUp, Respond, TimeOut, ReadBody, Retry, Record, Transiently, Return,
     Running, Calling

LEMMA TickFact ==
    ASSUME job \in [Exceptions -> Job], Tick
    PROVE  /\ job' \in [Exceptions -> Job] /\ Elsewhere
           /\ \A e \in Exceptions : job'[e].at = job[e].at /\ job'[e].attempt = job[e].attempt
           /\ \A e \in Exceptions : job[e].at \notin Calling => job'[e] = job[e]
           /\ \A e \in Exceptions :
                 /\ job'[e].spent <= job[e].spent + 1
                 /\ job[e].at \in {"fetch", "sleep"} => job'[e].waited = job[e].waited + 1
<1>1. MaxSpent \in Nat
  BY WorkerAssumption DEF MaxSpent
<1>2. ASSUME NEW e \in Exceptions
      PROVE  /\ job'[e] \in Job
             /\ job'[e].at = job[e].at /\ job'[e].attempt = job[e].attempt
             /\ job[e].at \notin Calling => job'[e] = job[e]
             /\ job'[e].spent <= job[e].spent + 1
             /\ job[e].at \in {"fetch", "sleep"} => job'[e].waited = job[e].waited + 1
  <2>1. job[e] \in Job /\ job[e].spent \in Nat /\ job[e].waited \in Nat
    BY DEF Job
  <2>2. CASE job[e].at \notin Calling
    <3>1. job'[e] = job[e]
      BY <2>2 DEF Tick
    <3> QED
      BY <2>1, <2>2, <3>1 DEF Calling
  <2>3. CASE job[e].at \in Calling
    <3> DEFINE s == Least(job[e].spent + 1, MaxSpent)
               w == IF job[e].at = "body" THEN job[e].waited ELSE job[e].waited + 1
    <3>1. s \in Nat /\ s <= job[e].spent + 1 /\ w \in Nat
      BY <1>1, <2>1 DEF Least
    <3>2. job'[e] = [job[e] EXCEPT !.spent = s, !.waited = w]
      BY <2>3 DEF Tick
    <3> HIDE DEF s
    <3> QED
      BY <2>1, <2>3, <3>1, <3>2 DEF Job
  <2> QED
    BY <2>2, <2>3
<1>3. job' \in [Exceptions -> Job]
  BY <1>2 DEF Tick
<1> QED
  BY <1>2, <1>3 DEF Tick

LEMMA StepQueueInv == ASSUME QueueInv, [Next]_vars PROVE QueueInv'
<1>1. CASE UNCHANGED vars
  BY <1>1, WithinJobs DEF vars, QueueInv, Elsewhere
<1>2. CASE Tick
  BY <1>2, TickFact, WithinJobs DEF QueueInv
<1>3. ASSUME NEW e \in Exceptions, Dispatch(e) \/ JobStep(e) PROVE QueueInv'
  BY <1>3, DispatchKeeps, SettleKeeps, JobStepKeeps DEF JobStep
<1> QED
  BY <1>1, <1>2, <1>3 DEF Next, Quiescent

-----------------------------------------------------------------------------
(* The time of a call. *)

\* A body comes with its headers, and the delay before the retry fits into the budget.
FaultFree == Faults = {} /\ RetryDelay <= TotalBudget

\* What a job has spent by the state it is in: the first attempt begins with the call, the
\* delay begins at most one timeout later, the second attempt begins within the budget.
CallTimed(j) ==
    /\ j.at \in {"none", "queued", "lookup"} => j.spent = 0 /\ j.waited = 0 /\ j.attempt = 0
    /\ j.at = "fetch" => j.waited <= Timeout
    /\ j.at = "fetch" /\ j.attempt = 0 => j.spent <= j.waited
    /\ j.at = "fetch" /\ j.attempt = 1 => j.spent <= TotalBudget + j.waited
    /\ j.at = "sleep" => j.waited <= RetryDelay /\ j.spent <= Timeout + j.waited
    /\ j.spent <= TotalBudget + Timeout

CallInv == job \in [Exceptions -> Job] /\ \A e \in Exceptions : CallTimed(job[e])

LEMMA Times == Concurrency \in Nat /\ Timeout \in Nat /\ RetryDelay \in Nat /\ TotalBudget \in Nat
  BY WorkerAssumption

LEMMA InitCallInv == ASSUME Init PROVE CallInv
<1>1. NoJob \in Job /\ CallTimed(NoJob)
  BY Times DEF NoJob, Job, Running, Calling, CallTimed
<1> QED
  BY <1>1 DEF Init, CallInv

\* Only e's job changes, to one that is timed.
LEMMA OneJob ==
    ASSUME CallInv, NEW e \in Exceptions, job' \in [Exceptions -> Job], CallTimed(job'[e]),
           \A f \in Exceptions \ {e} : job'[f] = job[f]
    PROVE  CallInv'
<1>1. ASSUME NEW f \in Exceptions PROVE CallTimed(job'[f])
  BY DEF CallInv
<1>2. \A f \in Exceptions : CallTimed(job'[f])
  BY <1>1
<1> QED
  BY <1>2 DEF CallInv, CallTimed

\* A pump only turns queued jobs to "lookup", whose clock has not begun.
LEMMA LookupTimed ==
    ASSUME NEW j \in Job, j.at = "queued", CallTimed(j)
    PROVE  CallTimed([j EXCEPT !.at = "lookup"])
  BY Times DEF Job, CallTimed

LEMMA PumpTimed ==
    ASSUME NEW jobs \in [Exceptions -> Job], StartsOnly(jobs),
           \A e \in Exceptions : CallTimed(jobs[e])
    PROVE  CallInv'
<1>1. ASSUME NEW e \in Exceptions PROVE CallTimed(job'[e])
  <2>1. CASE job'[e] = jobs[e]
    BY <2>1
  <2>2. CASE jobs[e].at = "queued" /\ job'[e] = [jobs[e] EXCEPT !.at = "lookup"]
    BY <2>2, LookupTimed
  <2> QED
    BY <2>1, <2>2 DEF StartsOnly
<1>2. \A e \in Exceptions : CallTimed(job'[e])
  BY <1>1
<1> QED
  BY <1>2 DEF CallInv, CallTimed, StartsOnly

LEMMA DispatchTimed ==
    ASSUME QueueInv, CallInv, NEW e \in Exceptions, Dispatch(e) PROVE CallInv'
<1> DEFINE jobs == [job EXCEPT ![e].at = "queued"]
<1>1. job[e] \in Job /\ job[e].at = "none" /\ CallTimed(job[e]) /\ StartsOnly(jobs)
  BY DispatchKeeps DEF Dispatch, CallInv
<1>2. [job[e] EXCEPT !.at = "queued"] \in Job /\ CallTimed([job[e] EXCEPT !.at = "queued"])
  BY <1>1 DEF Job, CallTimed
<1>3. jobs \in [Exceptions -> Job] /\ \A f \in Exceptions : CallTimed(jobs[f])
  <2>1. ASSUME NEW f \in Exceptions PROVE CallTimed(jobs[f]) /\ jobs[f] \in Job
    BY <1>2 DEF CallInv
  <2> QED
    BY <2>1 DEF CallInv
<1> QED
  BY <1>1, <1>3, PumpTimed

LEMMA SettleTimed ==
    ASSUME QueueInv, CallInv, NEW e \in Exceptions, Settle(e) PROVE CallInv'
<1> DEFINE done == [NoJob EXCEPT !.at = "done"]
           jobs == [job EXCEPT ![e] = done]
<1>1. StartsOnly(jobs)
  BY SettleKeeps
<1>2. done \in Job /\ CallTimed(done)
  BY Times DEF NoJob, Job, Running, Calling, CallTimed
<1> HIDE DEF done
<1>3. jobs \in [Exceptions -> Job] /\ \A f \in Exceptions : CallTimed(jobs[f])
  <2>1. ASSUME NEW f \in Exceptions PROVE CallTimed(jobs[f]) /\ jobs[f] \in Job
    BY <1>2 DEF CallInv
  <2> QED
    BY <1>2, <2>1 DEF CallInv
<1> QED
  BY <1>1, <1>3, PumpTimed

LEMMA JobStepTimed ==
    ASSUME FaultFree, CallInv, NEW e \in Exceptions,
           LookUp(e) \/ Respond(e) \/ TimeOut(e) \/ ReadBody(e) \/ Retry(e) \/ Record(e)
    PROVE  CallInv'
<1>1. job \in [Exceptions -> Job] /\ job[e] \in Job /\ job[e].at \in Running /\ CallTimed(job[e])
  BY DEF CallInv, LookUp, Respond, TimeOut, ReadBody, Retry, Record, Running, Calling
<1>2. ASSUME NEW label \in {"body", "record", "over"}, Move(e, label) PROVE CallInv'
  <2>1. CallTimed([job[e] EXCEPT !.at = label, !.waited = 0])
    BY <1>1 DEF Job, CallTimed
  <2> QED
    BY <1>1, <1>2, <2>1, MoveFact, OneJob DEF Running, Calling
<1>3. ASSUME job[e].at = "lookup", Move(e, "fetch") PROVE CallInv'
  <2>1. CallTimed([job[e] EXCEPT !.at = "fetch", !.waited = 0])
    BY <1>1, <1>3, Times DEF Job, CallTimed
  <2> QED
    BY <1>1, <1>3, <2>1, MoveFact, OneJob DEF Running, Calling
<1>4. ASSUME job[e].at = "fetch", job[e].attempt = 0, Move(e, "sleep") PROVE CallInv'
  <2>1. CallTimed([job[e] EXCEPT !.at = "sleep", !.waited = 0])
    BY <1>1, <1>4, Times DEF Job, CallTimed
  <2> QED
    BY <1>1, <1>4, <2>1, MoveFact, OneJob DEF Running, Calling
<1>5. ASSUME job[e].spent <= TotalBudget,
             job' = [job EXCEPT ![e].at = "fetch", ![e].waited = 0, ![e].attempt = 1]
      PROVE  CallInv'
  <2>1. job'[e] = [job[e] EXCEPT !.at = "fetch", !.waited = 0, !.attempt = 1]
    BY <1>1, <1>5
  <2>2. CallTimed([job[e] EXCEPT !.at = "fetch", !.waited = 0, !.attempt = 1])
    BY <1>1, <1>5, Times DEF Job, CallTimed
  <2>3. job' \in [Exceptions -> Job] /\ \A f \in Exceptions \ {e} : job'[f] = job[f]
    BY <1>1, <1>5, SecondAttempt
  <2> QED
    BY <2>1, <2>2, <2>3, OneJob
<1> QED
  BY <1>2, <1>3, <1>4, <1>5 DEF LookUp, Respond, TimeOut, ReadBody, Retry, Record, Transiently,
     Return

LEMMA TickTimed == ASSUME FaultFree, CallInv, Tick PROVE CallInv'
<1>1. /\ job \in [Exceptions -> Job] /\ job' \in [Exceptions -> Job]
      /\ \A e \in Exceptions : job'[e].at = job[e].at /\ job'[e].attempt = job[e].attempt
      /\ \A e \in Exceptions : job[e].at \notin Calling => job'[e] = job[e]
      /\ \A e \in Exceptions :
            /\ job'[e].spent <= job[e].spent + 1
            /\ job[e].at \in {"fetch", "sleep"} => job'[e].waited = job[e].waited + 1
  BY TickFact DEF CallInv
<1>2. ASSUME NEW e \in Exceptions PROVE CallTimed(job'[e])
  <2>1. job[e] \in Job /\ job'[e] \in Job /\ CallTimed(job[e]) /\ MayWait(e)
    BY <1>1 DEF CallInv, Tick
  <2>2. CASE job[e].at \notin Calling
    BY <1>1, <2>1, <2>2
  <2>3. CASE job[e].at = "fetch"
    <3>1. job[e].waited < Timeout
      BY <2>1, <2>3 DEF MayWait
    <3> QED
      BY <1>1, <2>1, <2>3, <3>1, Times DEF CallTimed, Job
  <2>4. CASE job[e].at = "sleep"
    <3>1. job[e].waited < RetryDelay
      BY <2>1, <2>4 DEF MayWait
    <3> QED
      BY <1>1, <2>1, <2>4, <3>1, Times DEF CallTimed, Job, FaultFree
  <2>5. CASE job[e].at = "body"
    BY <2>1, <2>5 DEF MayWait, FaultFree
  <2> QED
    BY <2>2, <2>3, <2>4, <2>5 DEF Calling
<1>3. \A e \in Exceptions : CallTimed(job'[e])
  BY <1>2
<1> QED
  BY <1>1, <1>3 DEF CallInv, CallTimed

LEMMA StepCallInv == ASSUME FaultFree, QueueInv, CallInv, [Next]_vars PROVE CallInv'
<1>1. CASE UNCHANGED vars
  BY <1>1 DEF vars, CallInv, CallTimed
<1>2. CASE Tick
  BY <1>2, TickTimed
<1>3. ASSUME NEW e \in Exceptions, Dispatch(e) \/ JobStep(e) PROVE CallInv'
  BY <1>3, DispatchTimed, SettleTimed, JobStepTimed DEF JobStep
<1> QED
  BY <1>1, <1>2, <1>3 DEF Next, Quiescent

-----------------------------------------------------------------------------
(* Theorems. *)

LEMMA QueueInvHolds == Spec => []QueueInv
<1>1. Init => QueueInv
  BY InitQueueInv
<1>2. QueueInv /\ [Next]_vars => QueueInv'
  BY StepQueueInv
<1> QED
  BY <1>1, <1>2, PTL DEF Spec

\* The queue, the counter and the jobs keep their types.
THEOREM WorkerTypeCorrect == Spec => []TypeOK
<1>1. QueueInv => TypeOK
  BY LenProperties DEF QueueInv, TypeOK, Lists
<1> QED
  BY <1>1, QueueInvHolds, PTL

\* The counter is the number of running jobs, never more than the slots, and no slot is idle
\* while an exception waits.
THEOREM SlotsAlwaysUsed == Spec => []SlotsUsed
<1>1. QueueInv => SlotsUsed
  BY DEF QueueInv
<1> QED
  BY <1>1, QueueInvHolds, PTL

\* Exceptions are served in the order of their dispatch and none is lost.
THEOREM AlwaysServedInOrder == Spec => []ServedInOrder
<1>1. QueueInv => ServedInOrder
  BY DEF QueueInv
<1> QED
  BY <1>1, QueueInvHolds, PTL

\* With a body that comes with its headers, a call takes at most one timeout more than its
\* budget, whatever the times configured, if the retry delay alone does not exceed the budget.
THEOREM CallsBounded == ASSUME FaultFree PROVE Spec => []CallBounded
<1>1. Init => CallInv
  BY InitCallInv
<1>2. QueueInv /\ CallInv /\ [Next]_vars => CallInv'
  BY StepCallInv
<1>3. CallInv => CallBounded
  BY DEF CallInv, CallTimed, CallBounded
<1> QED
  BY <1>1, <1>2, <1>3, QueueInvHolds, PTL DEF Spec

=============================================================================
