------------------------------ MODULE SignIn -------------------------------
(***************************************************************************)
(* POST /api/session for one e-mail address, from the route to the answer, *)
(* with the rolling window of failed attempts that session.service.ts      *)
(* keeps in memory.  What a session is worth afterwards is in Session.     *)
(*                                                                         *)
(* A step is what runs between two awaits.  Times are ages: a failure is   *)
(* as old as the units of time that have passed since the attempt began    *)
(* whose failure it is.                                                    *)
(***************************************************************************)
EXTENDS Naturals, Sequences, FiniteSets

CONSTANTS
    Attempts,      \* the sign-in requests that can be under way at one time
    MaxFailures,   \* THROTTLE_MAX_FAILURES
    Window         \* THROTTLE_WINDOW_MS

ASSUME SignInAssumption ==
    /\ IsFiniteSet(Attempts)
    /\ {MaxFailures, Window} \subseteq Nat \ {0}

VARIABLES
    failures,   \* ages of the failures on record, in the order they were recorded
    active,     \* specialists.is_active
    attempt     \* each sign-in request

vars == <<failures, active, attempt>>

-----------------------------------------------------------------------------
Guesses == {"right", "wrong", "short"}
Codes == {"none", "CREATED", "AUTH_FAILED", "ACCOUNT_INACTIVE", "TOO_MANY_ATTEMPTS",
          "RECEIPT_FAILED"}

Ages == 0 .. Window - 1

\* age: since the attempt began; sawActive: the row that was read; wait: the
\* Retry-After of a refusal, and told: the failures it was computed from.
Attempt == [at : {"idle", "lookup", "verify", "mint", "stamp"}, guess : Guesses,
            age : 0 .. Window, sawActive : BOOLEAN, code : Codes,
            wait : 0 .. Window, told : Seq(Ages)]

Idle(guess, code) ==
    [at |-> "idle", guess |-> guess, age |-> 0, sawActive |-> FALSE, code |-> code,
     wait |-> 0, told |-> <<>>]

Init ==
    /\ failures = <<>>
    /\ active = TRUE
    /\ attempt = [a \in Attempts |-> Idle("right", "none")]

Goto(a, label) == attempt' = [attempt EXCEPT ![a].at = label]

Answer(a, code) == attempt' = [attempt EXCEPT ![a] = Idle(attempt[a].guess, code)]

-----------------------------------------------------------------------------
\* The members of a list that are below a limit, in their order.  It is SelectSeq,
\* written as a function that proofs can unfold.
Younger(list, limit) ==
    LET kept[i \in 0 .. Len(list)] ==
          IF i = 0 THEN <<>>
          ELSE IF list[i] < limit THEN Append(kept[i - 1], list[i])
          ELSE kept[i - 1]
    IN kept[Len(list)]

\* Mutant: nothing is pruned.
KeepAll(list) == list

\* pruneFailures, at an age
Surviving(list) == Younger(list, Window)

\* The list of an address, some time later
Aged(list, time) == Surviving([i \in DOMAIN list |-> list[i] + time])

\* Mutant: the last unit of the window is rounded away.
FloorRetryAfter(list) == (Window - list[1]) - 1

\* retryAfterMs: until the first failure of the list leaves the window.
RetryAfter(list) == Window - list[1]

\* Mutant: a refused attempt takes the place of the oldest failure.
CountingRefusal(a) ==
    /\ failures' = Append(SubSeq(failures, 2, Len(failures)), 0)
    /\ attempt' = [attempt EXCEPT ![a] =
                     [Idle("right", "TOO_MANY_ATTEMPTS") EXCEPT
                        !.wait = RetryAfter(failures), !.told = failures]]

\* 429, before any look at the database
Refuse(a) ==
    /\ attempt' = [attempt EXCEPT ![a] =
                     [Idle("right", "TOO_MANY_ATTEMPTS") EXCEPT
                        !.wait = RetryAfter(failures), !.told = failures]]
    /\ UNCHANGED failures

\* Mutant: the throttle looks at the failures only after the password.
LateBegin(a, guess) ==
    /\ attempt[a].at = "idle"
    /\ IF guess = "short"
       THEN Answer(a, "AUTH_FAILED")
       ELSE attempt' = [attempt EXCEPT ![a] = [Idle(guess, "none") EXCEPT !.at = "lookup"]]
    /\ UNCHANGED <<failures, active>>

\* postSession and the synchronous start of signIn.  A password outside 12 to 256
\* characters is refused by the route and counts for nothing.
Begin(a, guess) ==
    /\ attempt[a].at = "idle"
    /\ \/ /\ guess = "short"
          /\ attempt' = [attempt EXCEPT ![a] = Idle(guess, "AUTH_FAILED")]
          /\ UNCHANGED failures
       \/ /\ guess # "short"
          /\ Len(failures) >= MaxFailures
          /\ Refuse(a)
       \/ /\ guess # "short"
          /\ Len(failures) < MaxFailures
          /\ attempt' = [attempt EXCEPT ![a] = [Idle(guess, "none") EXCEPT !.at = "lookup"]]
          /\ UNCHANGED failures
    /\ UNCHANGED active

\* findSpecialistByEmail
LookUp(a) ==
    /\ attempt[a].at = "lookup"
    /\ attempt' = [attempt EXCEPT ![a].at = "verify", ![a].sawActive = active]
    /\ UNCHANGED <<failures, active>>

\* argon2.verify has ended.  A failure is recorded under the time at which its attempt
\* began, and an unknown address fails like a wrong password.
Verify(a) ==
    /\ attempt[a].at = "verify"
    /\ \/ /\ attempt[a].guess = "wrong"
          /\ failures' = Surviving(Append(failures, attempt[a].age))
          /\ Answer(a, "AUTH_FAILED")
       \/ /\ attempt[a].guess = "right"
          /\ ~attempt[a].sawActive
          /\ Answer(a, "ACCOUNT_INACTIVE")
          /\ UNCHANGED failures
       \/ /\ attempt[a].guess = "right"
          /\ attempt[a].sawActive
          /\ Goto(a, "mint")
          /\ UNCHANGED failures
    /\ UNCHANGED active

\* insertSession, then clearThrottle
Mint(a) ==
    /\ attempt[a].at = "mint"
    /\ failures' = <<>>
    /\ Goto(a, "stamp")
    /\ UNCHANGED active

\* touchLastSignIn, then 201
Stamp(a) ==
    /\ attempt[a].at = "stamp"
    /\ Answer(a, "CREATED")
    /\ UNCHANGED <<failures, active>>

\* A statement fails: 500.
StatementFails(a) ==
    /\ attempt[a].at \in {"lookup", "mint", "stamp"}
    /\ Answer(a, "RECEIPT_FAILED")
    /\ UNCHANGED <<failures, active>>

-----------------------------------------------------------------------------
\* A unit of time passes.
Tick ==
    /\ failures' = Aged(failures, 1)
    /\ attempt' = [a \in Attempts |->
                     [attempt[a] EXCEPT !.age = IF attempt[a].at = "idle" \/ @ = Window
                                                THEN @ ELSE @ + 1]]
    /\ UNCHANGED active

\* The operator switches the account off or on, in the database.
Deactivate == active' = ~active /\ UNCHANGED <<failures, attempt>>

\* The process ends: the window is in memory.
Restart ==
    /\ failures' = <<>>
    /\ attempt' = [a \in Attempts |-> Idle("right", "none")]
    /\ UNCHANGED active

Step(a) == LookUp(a) \/ Verify(a) \/ Mint(a) \/ Stamp(a)

Next ==
    \/ \E a \in Attempts :
          \/ \E guess \in Guesses : Begin(a, guess)
          \/ Step(a)
          \/ StatementFails(a)
    \/ Tick \/ Deactivate \/ Restart

Spec == Init /\ [][Next]_vars /\ WF_vars(Tick) /\ \A a \in Attempts : WF_vars(Step(a))

-----------------------------------------------------------------------------
TypeOK ==
    /\ failures \in Seq(Ages)
    /\ active \in BOOLEAN
    /\ attempt \in [Attempts -> Attempt]

\* The limit is tested before two awaits and the failure recorded after them, so guesses
\* that overlap go beyond it, but by no more than can be under way (signIn, steps 2 to 5).
GuessesBounded == Len(failures) < MaxFailures + Cardinality(Attempts)

\* What is left of a list for the next attempt of a client that, when it is refused, waits
\* as long as it is told while nobody else fails.
AtNextTry(list) == IF Len(list) < MaxFailures THEN list ELSE Aged(list, RetryAfter(list))

AfterTries(list, tries) ==
    LET left[n \in 0 .. tries] == IF n = 0 THEN list ELSE AtNextTry(left[n - 1])
    IN left[tries]

\* A refused client that waits as long as Retry-After says, while nobody else fails, is let
\* through, as Retry-After promises (retryAfterMs).  Where overlapping guesses have put more
\* failures on record than the limit it may be refused again, once for each failure above
\* it and so less often than there can be attempts under way.
WaitSuffices ==
    \A a \in Attempts : attempt[a].code = "TOO_MANY_ATTEMPTS" =>
        LET told == attempt[a].told
            above == Len(told) - MaxFailures
        IN /\ Len(AfterTries(Aged(told, attempt[a].wait), above)) < MaxFailures
           /\ above < Cardinality(Attempts)

\* There is no lock-out: whatever anybody tries, the address can be tried again and
\* again (the rolling window of section 4.2).
NeverLockedForGood == []<>(Len(failures) < MaxFailures)
=============================================================================
