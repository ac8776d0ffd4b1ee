-------------------------- MODULE GenerationWorker --------------------------
(***************************************************************************)
(* The in-process dispatcher of recommendation generation (ai/worker.ts)   *)
(* and the calls of its jobs to the provider (ai/adapter.http.ts).  What a *)
(* job does to the tables is in CaseRecord.                                *)
(*                                                                         *)
(* Time passes in units: the timers of a call fire on the unit they are    *)
(* due.  A step is what runs between two awaits.                           *)
(***************************************************************************)
EXTENDS Naturals, Sequences, FiniteSets

CONSTANTS
    Exceptions,    \* exceptions that receipts dispatch
    Concurrency,   \* AI_WORKER_CONCURRENCY
    Timeout,       \* AI_TIMEOUT_MS, from the request to the response headers
    RetryDelay,    \* RETRY_DELAY_MS
    TotalBudget,   \* TOTAL_BUDGET_MS
    Faults         \* "stall": the body of a response may take any time

ASSUME WorkerAssumption ==
    /\ IsFiniteSet(Exceptions)
    /\ {Concurrency, Timeout, RetryDelay} \subseteq Nat \ {0}
    /\ TotalBudget \in Nat
    /\ Faults \subseteq {"stall"}

VARIABLES
    queue,     \* dispatched exceptions that no job has taken
    active,    \* the counter of running jobs
    job,       \* the job of each exception
    arrived,   \* history: exceptions in the order of their dispatch
    started    \* history: exceptions in the order in which their jobs started

vars == <<queue, active, job, arrived, started>>

-----------------------------------------------------------------------------
\* The life of a job: "lookup" before the provider is called, the states of the
\* call, "record" when the outcome is written, "over" until the slot is free.
Calling == {"fetch", "body", "sleep"}
Running == Calling \cup {"lookup", "record", "over"}

\* spent: since the call began; waited: since its present state began; attempt:
\* the loop counter of generate.  What the call returned is CaseRecord's concern.
Job == [at : Running \cup {"none", "queued", "done"}, attempt : {0, 1},
        spent : Nat, waited : Nat]

NoJob == [at |-> "none", attempt |-> 0, spent |-> 0, waited |-> 0]

Init ==
    /\ queue = <<>>
    /\ active = 0
    /\ job = [e \in Exceptions |-> NoJob]
    /\ arrived = <<>>
    /\ started = <<>>

Move(e, label) == job' = [job EXCEPT ![e].at = label, ![e].waited = 0]

\* What the worker leaves alone while a job goes on.
Elsewhere == UNCHANGED <<queue, active, arrived, started>>

-----------------------------------------------------------------------------
(* The worker. *)

Least(m, n) == IF m < n THEN m ELSE n

\* Mutant: the newest dispatches are served first.
PumpNewest(q, n, jobs) ==
    LET k == Least(Len(q), Concurrency - n)
        taken == SubSeq(q, Len(q) - k + 1, Len(q))
    IN /\ queue' = SubSeq(q, 1, Len(q) - k)
       /\ active' = n + k
       /\ started' = started \o taken
       /\ job' = [e \in Exceptions |-> IF \E i \in DOMAIN taken : taken[i] = e
                                       THEN [jobs[e] EXCEPT !.at = "lookup"] ELSE jobs[e]]

\* Mutant: the loop tests the counter with <=.
PumpOneMore(q, n, jobs) ==
    LET k == Least(Len(q), (Concurrency + 1) - n)
        taken == SubSeq(q, 1, k)
    IN /\ queue' = SubSeq(q, k + 1, Len(q))
       /\ active' = n + k
       /\ started' = started \o taken
       /\ job' = [e \in Exceptions |-> IF \E i \in DOMAIN taken : taken[i] = e
                                       THEN [jobs[e] EXCEPT !.at = "lookup"] ELSE jobs[e]]

\* pump() with queue q and n running jobs: jobs start, oldest dispatch first, while
\* there are slots.
Pump(q, n, jobs) ==
    LET k == Least(Len(q), Concurrency - n)
        taken == SubSeq(q, 1, k)
    IN /\ queue' = SubSeq(q, k + 1, Len(q))
       /\ active' = n + k
       /\ started' = started \o taken
       /\ job' = [e \in Exceptions |-> IF \E i \in DOMAIN taken : taken[i] = e
                                       THEN [jobs[e] EXCEPT !.at = "lookup"] ELSE jobs[e]]

\* dispatch(): synchronous, called once for an exception, after its commit.
Dispatch(e) ==
    /\ job[e].at = "none"
    /\ arrived' = Append(arrived, e)
    /\ Pump(Append(queue, e), active, [job EXCEPT ![e].at = "queued"])

\* Mutant: the slot is given back and the queue is not looked at.
SettleWithoutPump(e) ==
    /\ job[e].at = "over"
    /\ active' = active - 1
    /\ job' = [job EXCEPT ![e].at = "done"]
    /\ UNCHANGED <<queue, arrived, started>>

\* Mutant: the queue is pumped before the slot is given back.
SettleLate(e) ==
    /\ job[e].at = "over"
    /\ UNCHANGED arrived
    /\ Pump(queue, active, [job EXCEPT ![e] = [NoJob EXCEPT !.at = "done"]])

\* finally: the slot is given back and the queue pumped, however the job ended.
Settle(e) ==
    /\ job[e].at = "over"
    /\ UNCHANGED arrived
    /\ Pump(queue, active - 1, [job EXCEPT ![e] = [NoJob EXCEPT !.at = "done"]])

-----------------------------------------------------------------------------
(* A job and its call of the provider. *)

\* The reads before the call: the recommendation is settled, a row is missing, a
\* read fails and the job ends; or the provider is called.
LookUp(e) ==
    /\ job[e].at = "lookup"
    /\ Move(e, "over") \/ Move(e, "fetch")
    /\ Elsewhere

Return(e) == Move(e, "record")

\* Mutant: every transient failure is tried again.
TransientlyAgain(e) == Move(e, "sleep")

\* continue: one retry after the delay; after the second attempt its reason is
\* returned.
Transiently(e) ==
    \/ job[e].attempt = 0 /\ Move(e, "sleep")
    \/ job[e].attempt = 1 /\ Return(e)

\* The response headers arrive, or the connection fails.  429, 5xx and connection
\* failures are transient, other refusals are final, and 2xx has its body read.
Respond(e) ==
    /\ job[e].at = "fetch"
    /\ Transiently(e) \/ Return(e) \/ Move(e, "body")
    /\ Elsewhere

\* The timer aborts the request.
TimeOut(e) ==
    /\ job[e].at = "fetch" /\ job[e].waited = Timeout
    /\ Transiently(e)
    /\ Elsewhere

\* The timer was cleared with the headers.  The body is a valid proposal, or it is
\* none and SCHEMA_INVALID is returned at once.
ReadBody(e) ==
    /\ job[e].at = "body"
    /\ Return(e)
    /\ Elsewhere

\* Mutant: the retry does not look at the budget.
RetryAlways(e) ==
    /\ job[e].at = "sleep" /\ job[e].waited = RetryDelay
    /\ job' = [job EXCEPT ![e].at = "fetch", ![e].waited = 0, ![e].attempt = 1]
    /\ Elsewhere

\* The delay is over: the second attempt starts, if the budget is not spent.
Retry(e) ==
    /\ job[e].at = "sleep" /\ job[e].waited = RetryDelay
    /\ \/ /\ job[e].spent <= TotalBudget
          /\ job' = [job EXCEPT ![e].at = "fetch", ![e].waited = 0, ![e].attempt = 1]
       \/ /\ job[e].spent > TotalBudget
          /\ Return(e)
    /\ Elsewhere

\* The outcome is written, or the attempt fails and is logged.
Record(e) ==
    /\ job[e].at = "record"
    /\ Move(e, "over")
    /\ Elsewhere

-----------------------------------------------------------------------------
(* Time. *)

\* A timer that is due fires before time goes on, and without a stall a body is
\* there with its headers.
MayWait(e) ==
    CASE job[e].at = "fetch" -> job[e].waited < Timeout
      [] job[e].at = "sleep" -> job[e].waited < RetryDelay
      [] job[e].at = "body"  -> "stall" \in Faults
      [] OTHER -> TRUE

\* Bound: no property tells apart the times beyond this one.
MaxSpent == TotalBudget + Timeout + 1

Tick ==
    /\ \E e \in Exceptions : job[e].at \in Calling
    /\ \A e \in Exceptions : MayWait(e)
    /\ job' = [e \in Exceptions |->
                 IF job[e].at \notin Calling THEN job[e]
                 ELSE [job[e] EXCEPT !.spent = Least(@ + 1, MaxSpent),
                                     !.waited = IF job[e].at = "body" THEN @ ELSE @ + 1]]
    /\ Elsewhere

JobStep(e) == LookUp(e) \/ Respond(e) \/ TimeOut(e) \/ ReadBody(e) \/ Retry(e)
              \/ Record(e) \/ Settle(e)

Quiescent == (\A e \in Exceptions : job[e].at = "done") /\ UNCHANGED vars

Next == (\E e \in Exceptions : Dispatch(e) \/ JobStep(e)) \/ Tick \/ Quiescent

\* The event loop runs whatever is ready, PostgreSQL answers or times out, a
\* body arrives that does not stall, and time goes on.  A provider that does not
\* answer is fair only through its timer.
OwnStep(e) == LookUp(e) \/ TimeOut(e) \/ Retry(e) \/ Record(e) \/ Settle(e)
              \/ ("stall" \notin Faults /\ ReadBody(e))

Fairness == WF_vars(Tick) /\ \A e \in Exceptions : WF_vars(OwnStep(e))

Spec == Init /\ [][Next]_vars /\ Fairness

-----------------------------------------------------------------------------
(* Safety. *)

TypeOK ==
    /\ queue \in Seq(Exceptions) /\ arrived \in Seq(Exceptions) /\ started \in Seq(Exceptions)
    /\ active \in 0..Concurrency
    /\ job \in [Exceptions -> Job]
    /\ \A e \in Exceptions : job[e].at = "queued" <=> \E i \in DOMAIN queue : queue[i] = e

\* The counter counts the running jobs, they are never more than the slots, and no
\* slot is idle while an exception waits: a job that ends by any path gives its
\* slot to the next (TechArch 5, worker.ts).
SlotsUsed ==
    /\ active = Cardinality({e \in Exceptions : job[e].at \in Running})
    /\ active <= Concurrency
    /\ queue # <<>> => active = Concurrency

\* Exceptions are served in the order of their dispatch, each once, and none is
\* lost between the queue and its job.
ServedInOrder == arrived = started \o queue

\* adapter.http.ts: "the whole attempt sequence never exceeds ~45s".
BudgetHonoured == \A e \in Exceptions : job[e].spent <= TotalBudget

\* The budget is tested before an attempt only: whatever the timeout, a call takes
\* at most one timeout more than its budget, and the time of its bodies.
CallBounded == \A e \in Exceptions : job[e].spent <= TotalBudget + Timeout

-----------------------------------------------------------------------------
(* Liveness. *)

\* Every dispatched exception has its job run to the end, whatever the provider
\* does to the jobs before it.
EveryDispatchEnds == \A e \in Exceptions : job[e].at = "queued" ~> job[e].at = "done"
=============================================================================
