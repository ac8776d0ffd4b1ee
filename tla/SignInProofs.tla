---------------------------- MODULE SignInProofs ----------------------------
(***************************************************************************)
(* Theorems about SignIn, for every number of attempts under way, every    *)
(* limit of failures and every window.                                     *)
(***************************************************************************)
EXTENDS SignIn, Induction, FiniteSetTheorems, SequenceTheorems

-----------------------------------------------------------------------------
(* The pruning of a list of ages. *)

\* Its recursive function exists and is what its definition says.
LEMMA YoungerUnfolds ==
  ASSUME NEW list \in Seq(Nat), NEW limit \in Nat
  PROVE  \E kept \in [0 .. Len(list) -> Seq({n \in Nat : n < limit})] :
            /\ Younger(list, limit) = kept[Len(list)]
            /\ kept[0] = <<>>
            /\ \A i \in 1 .. Len(list) :
                 kept[i] = IF list[i] < limit THEN Append(kept[i - 1], list[i])
                           ELSE kept[i - 1]
<1>. DEFINE N == Len(list)
            T == Seq({n \in Nat : n < limit})
            none == <<>>
            step == [i \in 1 .. N |-> [before \in T |->
                       IF list[i] < limit THEN Append(before, list[i]) ELSE before]]
            Def(f) == [i \in 0 .. N |->
                         IF i = 0 THEN <<>>
                         ELSE IF list[i] < limit THEN Append(f[i - 1], list[i])
                         ELSE f[i - 1]]
<1>1. N \in Nat /\ none \in T /\ \A i \in 1 .. N : list[i] \in Nat
  OBVIOUS
<1>2. step \in [1 .. N -> [T -> T]]
  <2>1. ASSUME NEW i \in 1 .. N, NEW before \in T, list[i] < limit
        PROVE  Append(before, list[i]) \in T
    BY <1>1, <2>1
  <2>. QED
    BY <2>1
<1>3. PICK g \in [0 .. N -> T] :
        g[0] = none /\ \A i \in 1 .. N : g[i] = step[i][g[i - 1]]
  <2>1. Solutions(N, T, none, step) # {}
    <3>. HIDE DEF N, T, none, step
    <3>. QED
      BY <1>1, <1>2, RecursionUpTo
  <2>. HIDE DEF N, T, none, step
  <2>. QED
    BY <2>1 DEF Solutions
<1>4. ASSUME NEW i \in 1 .. N
      PROVE  g[i] = IF list[i] < limit THEN Append(g[i - 1], list[i]) ELSE g[i - 1]
  <2>1. g[i - 1] \in T
    <3>1. i - 1 \in 0 .. N
      BY <1>1
    <3>. HIDE DEF N, T
    <3>. QED
      BY <3>1
  <2>2. g[i] = step[i][g[i - 1]]
    BY <1>3
  <2>. QED
    BY <2>1, <2>2
<1>5. g = Def(g)
  <2>1. g = [i \in 0 .. N |-> g[i]]
    BY <1>3
  <2>2. \A i \in 0 .. N : i = 0 \/ i \in 1 .. N
    BY <1>1
  <2>3. \A i \in 0 .. N : g[i] = Def(g)[i]
    BY <1>3, <1>4, <2>2
  <2>. HIDE DEF N
  <2>. QED
    BY <2>1, <2>3
<1>. DEFINE kept == CHOOSE f : f = Def(f)
<1>6. kept = Def(kept)
  <2>. HIDE DEF Def
  <2>. QED
    BY <1>5
<1>7. Younger(list, limit) = kept[N]
  BY DEF Younger
<1>. HIDE DEF kept
<1>8. kept = g
  <2>. DEFINE same == {i \in 0 .. N : kept[i] = g[i]}
  <2>1. kept = [i \in 0 .. N |-> kept[i]] /\ g = [i \in 0 .. N |-> g[i]]
    BY <1>3, <1>6
  <2>2. 0 \in same
    BY <1>1, <1>3, <1>6
  <2>3. \A n \in 0 .. N : n < N /\ n \in same => n + 1 \in same
    <3>. SUFFICES ASSUME NEW n \in 0 .. N, n < N, kept[n] = g[n]
                  PROVE  kept[n + 1] = g[n + 1]
      BY <1>1
    <3>1. n + 1 \in 1 .. N /\ n + 1 \in 0 .. N /\ n + 1 # 0 /\ (n + 1) - 1 = n
      BY <1>1
    <3>2. kept[n + 1] = IF list[n + 1] < limit THEN Append(kept[n], list[n + 1]) ELSE kept[n]
      BY <1>6, <3>1
    <3>. QED
      BY <1>4, <3>1, <3>2
  <2>4. 0 .. N \subseteq same
    <3>. HIDE DEF same, N
    <3>. QED
      BY <1>1, <2>2, <2>3, InductionUpTo
  <2>. QED
    BY <2>1, <2>4
<1>. QED
  BY <1>3, <1>4, <1>7, <1>8

\* What is kept is young, no longer than the list, and shorter when anything is not
\* young.
LEMMA YoungerFacts ==
  ASSUME NEW list \in Seq(Nat), NEW limit \in Nat
  PROVE  /\ Younger(list, limit) \in Seq({n \in Nat : n < limit})
         /\ Len(Younger(list, limit)) <= Len(list)
         /\ (\E i \in 1 .. Len(list) : ~ (list[i] < limit)) =>
               Len(Younger(list, limit)) < Len(list)
<1>. DEFINE N == Len(list)
            T == Seq({n \in Nat : n < limit})
<1>1. PICK kept \in [0 .. N -> T] :
        /\ Younger(list, limit) = kept[N]
        /\ kept[0] = <<>>
        /\ \A i \in 1 .. N :
             kept[i] = IF list[i] < limit THEN Append(kept[i - 1], list[i]) ELSE kept[i - 1]
  BY YoungerUnfolds
<1>. DEFINE short == {n \in 0 .. N :
                        /\ Len(kept[n]) <= n
                        /\ (\E i \in 1 .. n : ~ (list[i] < limit)) => Len(kept[n]) < n}
<1>2. N \in Nat /\ \A n \in 0 .. N : kept[n] \in T /\ Len(kept[n]) \in Nat
  BY <1>1
<1>3. 0 \in short
  BY <1>1, <1>2
<1>4. ASSUME NEW n \in 0 .. N, n < N, n \in short
      PROVE  n + 1 \in short
  <2>1. n + 1 \in 1 .. N /\ (n + 1) - 1 = n
    BY <1>2, <1>4
  <2>2. kept[n + 1] = IF list[n + 1] < limit THEN Append(kept[n], list[n + 1]) ELSE kept[n]
    BY <1>1, <2>1
  <2>3. CASE list[n + 1] < limit
    <3>1. Len(kept[n + 1]) = Len(kept[n]) + 1
      BY <1>2, <2>2, <2>3
    <3>2. (\E i \in 1 .. n + 1 : ~ (list[i] < limit)) => \E i \in 1 .. n : ~ (list[i] < limit)
      BY <2>3
    <3>. QED
      BY <1>2, <1>4, <2>1, <3>1, <3>2
  <2>4. CASE ~ (list[n + 1] < limit)
    BY <1>2, <1>4, <2>1, <2>2, <2>4
  <2>. QED
    BY <2>3, <2>4
<1>5. 0 .. N \subseteq short
  <2>. HIDE DEF short, N
  <2>. QED
    BY <1>2, <1>3, <1>4, InductionUpTo
<1>. QED
  BY <1>1, <1>2, <1>5

\* Pruning keeps a list of ages one, and makes it no longer.
LEMMA SurvivingFacts ==
  ASSUME NEW list \in Seq(Nat)
  PROVE  Surviving(list) \in Seq(Ages) /\ Len(Surviving(list)) <= Len(list)
<1>1. Window \in Nat /\ {n \in Nat : n < Window} = Ages
  BY SignInAssumption DEF Ages
<1>. QED
  BY <1>1, YoungerFacts DEF Surviving

-----------------------------------------------------------------------------
(* Type correctness. *)

LEMMA IdleType ==
  ASSUME NEW guess \in Guesses, NEW code \in Codes
  PROVE  Idle(guess, code) \in Attempt
<1>1. 0 \in 0 .. Window /\ <<>> \in Seq(Ages)
  BY SignInAssumption
<1>. QED
  BY <1>1 DEF Idle, Attempt

\* The list of a throttled address has a first failure, whose age gives the wait.
LEMMA WaitType ==
  ASSUME NEW list \in Seq(Ages), Len(list) >= MaxFailures
  PROVE  /\ list[1] \in Ages
         /\ RetryAfter(list) \in 0 .. Window
         /\ Window - RetryAfter(list) = list[1]
<1>1. Window \in Nat \ {0} /\ MaxFailures \in Nat \ {0}
  BY SignInAssumption
<1>2. 1 \in 1 .. Len(list) /\ list[1] \in Ages
  BY <1>1
<1>3. list[1] \in Nat /\ list[1] < Window
  BY <1>1, <1>2 DEF Ages
<1>. QED
  BY <1>1, <1>2, <1>3 DEF RetryAfter

\* A refusal says why: the failures on record, and the wait computed from them.
LEMMA RefusalType ==
  ASSUME TypeOK, Len(failures) >= MaxFailures, NEW x,
         x = [Idle("right", "TOO_MANY_ATTEMPTS") EXCEPT
                !.wait = RetryAfter(failures), !.told = failures]
  PROVE  x \in Attempt /\ x.at = "idle" /\ x.wait = RetryAfter(failures) /\ x.told = failures
<1>1. Idle("right", "TOO_MANY_ATTEMPTS") \in Attempt
  BY IdleType DEF Guesses, Codes
<1>2. failures \in Seq(Ages) /\ RetryAfter(failures) \in 0 .. Window
  BY WaitType DEF TypeOK
<1>. QED
  BY <1>1, <1>2 DEF Attempt, Idle

LEMMA InitType == Init => TypeOK
<1>. SUFFICES ASSUME Init PROVE TypeOK
  OBVIOUS
<1>1. Idle("right", "none") \in Attempt
  BY IdleType DEF Guesses, Codes
<1>2. failures \in Seq(Ages)
  BY DEF Init
<1>. QED
  BY <1>1, <1>2 DEF Init, TypeOK

\* An answer leaves the attempt idle.
LEMMA AnswerType ==
  ASSUME TypeOK, NEW a \in Attempts, NEW code \in Codes, Answer(a, code)
  PROVE  attempt' \in [Attempts -> Attempt]
<1>1. Idle(attempt[a].guess, code) \in Attempt
  BY IdleType DEF TypeOK, Attempt
<1>. QED
  BY <1>1 DEF TypeOK, Answer

LEMMA GotoType ==
  ASSUME TypeOK, NEW a \in Attempts, NEW label \in {"lookup", "verify", "mint", "stamp"},
         Goto(a, label)
  PROVE  attempt' \in [Attempts -> Attempt]
<1>1. [attempt[a] EXCEPT !.at = label] \in Attempt
  BY DEF TypeOK, Attempt
<1>. QED
  BY <1>1 DEF TypeOK, Goto

LEMMA BeginType ==
  ASSUME TypeOK, NEW a \in Attempts, NEW guess \in Guesses, Begin(a, guess)
  PROVE  TypeOK'
<1>1. \A x \in Attempt : [attempt EXCEPT ![a] = x] \in [Attempts -> Attempt]
  BY DEF TypeOK
<1>2. Idle(guess, "AUTH_FAILED") \in Attempt /\ Idle(guess, "none") \in Attempt
  BY IdleType DEF Codes
<1>3. [Idle(guess, "none") EXCEPT !.at = "lookup"] \in Attempt
  BY <1>2 DEF Attempt
<1>4. CASE attempt' = [attempt EXCEPT ![a] = Idle(guess, "AUTH_FAILED")] /\ UNCHANGED failures
  BY <1>1, <1>2, <1>4 DEF Begin, TypeOK
<1>5. CASE Len(failures) >= MaxFailures /\ Refuse(a)
  BY <1>1, <1>5, RefusalType DEF Begin, Refuse, TypeOK
<1>6. CASE attempt' = [attempt EXCEPT ![a] = [Idle(guess, "none") EXCEPT !.at = "lookup"]]
           /\ UNCHANGED failures
  BY <1>1, <1>3, <1>6 DEF Begin, TypeOK
<1>. QED
  BY <1>4, <1>5, <1>6 DEF Begin

LEMMA VerifyType ==
  ASSUME TypeOK, NEW a \in Attempts, Verify(a)
  PROVE  TypeOK' /\ Len(failures') <= Len(failures) + 1
<1>0. failures \in Seq(Ages) /\ Len(failures) \in Nat
  BY DEF TypeOK
<1>1. CASE failures' = Surviving(Append(failures, attempt[a].age)) /\ Answer(a, "AUTH_FAILED")
  <2>1. attempt[a].age \in Nat
    BY SignInAssumption DEF TypeOK, Attempt
  <2>2. failures \in Seq(Nat)
    BY <1>0, SeqMonotonic, SignInAssumption DEF Ages
  <2>3. Append(failures, attempt[a].age) \in Seq(Nat)
        /\ Len(Append(failures, attempt[a].age)) = Len(failures) + 1
    BY <2>1, <2>2
  <2>4. attempt' \in [Attempts -> Attempt]
    BY <1>1, AnswerType DEF Codes
  <2>. QED
    BY <1>1, <2>3, <2>4, SurvivingFacts DEF Verify, TypeOK
<1>2. CASE Answer(a, "ACCOUNT_INACTIVE") /\ UNCHANGED failures
  BY <1>0, <1>2, AnswerType DEF Verify, TypeOK, Codes
<1>3. CASE Goto(a, "mint") /\ UNCHANGED failures
  BY <1>0, <1>3, GotoType DEF Verify, TypeOK
<1>. QED
  BY <1>1, <1>2, <1>3 DEF Verify

LEMMA TickType ==
  ASSUME TypeOK, Tick
  PROVE  TypeOK' /\ Len(failures') <= Len(failures)
<1>. DEFINE older == [i \in DOMAIN failures |-> failures[i] + 1]
<1>1. failures \in Seq(Ages) /\ \A i \in 1 .. Len(failures) : failures[i] \in Nat
  BY SignInAssumption DEF TypeOK, Ages
<1>2. older \in Seq(Nat) /\ Len(older) = Len(failures)
  BY <1>1
<1>3. failures' \in Seq(Ages) /\ Len(failures') <= Len(failures)
  <2>1. failures' = Surviving(older)
    BY DEF Tick, Aged
  <2>. HIDE DEF older
  <2>. QED
    BY <1>2, <2>1, SurvivingFacts
<1>4. ASSUME NEW a \in Attempts
      PROVE  [attempt[a] EXCEPT !.age = IF attempt[a].at = "idle" \/ @ = Window
                                        THEN @ ELSE @ + 1] \in Attempt
  <2>1. attempt[a] \in Attempt /\ attempt[a].age \in 0 .. Window /\ Window \in Nat
    BY SignInAssumption DEF TypeOK, Attempt
  <2>2. attempt[a].age # Window => attempt[a].age + 1 \in 0 .. Window
    BY <2>1
  <2>. QED
    BY <2>1, <2>2 DEF Attempt
<1>5. attempt' \in [Attempts -> Attempt]
  BY <1>4 DEF Tick
<1>. QED
  BY <1>3, <1>5 DEF Tick, TypeOK

LEMMA NextType == TypeOK /\ [Next]_vars => TypeOK'
<1>. SUFFICES ASSUME TypeOK, [Next]_vars PROVE TypeOK'
  OBVIOUS
<1>1. ASSUME NEW a \in Attempts, NEW guess \in Guesses, Begin(a, guess)
      PROVE  TypeOK'
  BY <1>1, BeginType
<1>2. ASSUME NEW a \in Attempts, LookUp(a)
      PROVE  TypeOK'
  <2>1. [attempt[a] EXCEPT !.at = "verify", !.sawActive = active] \in Attempt
    BY DEF TypeOK, Attempt
  <2>. QED
    BY <1>2, <2>1 DEF LookUp, TypeOK
<1>3. ASSUME NEW a \in Attempts, Verify(a)
      PROVE  TypeOK'
  BY <1>3, VerifyType
<1>4. ASSUME NEW a \in Attempts, Mint(a)
      PROVE  TypeOK'
  BY <1>4, GotoType DEF Mint, TypeOK
<1>5. ASSUME NEW a \in Attempts, Stamp(a) \/ StatementFails(a)
      PROVE  TypeOK'
  BY <1>5, AnswerType DEF Stamp, StatementFails, TypeOK, Codes
<1>6. CASE Tick
  BY <1>6, TickType
<1>7. CASE Deactivate
  BY <1>7 DEF Deactivate, TypeOK
<1>8. CASE Restart
  <2>1. Idle("right", "none") \in Attempt
    BY IdleType DEF Guesses, Codes
  <2>2. failures' \in Seq(Ages)
    BY <1>8 DEF Restart
  <2>. QED
    BY <1>8, <2>1, <2>2 DEF Restart, TypeOK
<1>9. CASE UNCHANGED vars
  BY <1>9 DEF vars, TypeOK
<1>. QED
  BY <1>1, <1>2, <1>3, <1>4, <1>5, <1>6, <1>7, <1>8, <1>9 DEF Next, Step

\* The failures on record are ages inside the window and the attempts are well formed,
\* for every limit, window and number of attempts.
THEOREM SignInTypeCorrect == Spec => []TypeOK
BY InitType, NextType, PTL DEF Spec

-----------------------------------------------------------------------------
(* The limit. *)

\* The attempts that have passed the limit and can still record a failure.
UnderWay == {a \in Attempts : attempt[a].at \in {"lookup", "verify"}}

\* Each of them counts as the failure it may become.
PlacesLeft == Len(failures) + Cardinality(UnderWay) < MaxFailures + Cardinality(Attempts)

LEMMA UnderWayFinite ==
  /\ IsFiniteSet(UnderWay) /\ Cardinality(UnderWay) \in Nat
  /\ Cardinality(Attempts) \in Nat
  /\ Cardinality(UnderWay) <= Cardinality(Attempts)
  /\ IsFiniteSet(UnderWay)' /\ Cardinality(UnderWay') \in Nat
  /\ Cardinality(UnderWay') <= Cardinality(Attempts)
<1>1. UnderWay \subseteq Attempts /\ UnderWay' \subseteq Attempts
  BY DEF UnderWay
<1>. QED
  BY <1>1, SignInAssumption, FS_Subset, FS_CardinalityType

\* Where an attempt is after its step; the others stay where they are.
LEMMA StepMoves ==
  ASSUME TypeOK, NEW a \in Attempts, Step(a) \/ StatementFails(a)
  PROVE  /\ LookUp(a) => attempt'[a].at = "verify"
         /\ ~ LookUp(a) => attempt'[a].at \in {"idle", "mint", "stamp"}
         /\ \A b \in Attempts \ {a} : attempt'[b] = attempt[b]
<1>1. ASSUME NEW code, Answer(a, code)
      PROVE  attempt'[a].at = "idle" /\ \A b \in Attempts \ {a} : attempt'[b] = attempt[b]
  BY <1>1 DEF Answer, Idle, TypeOK
<1>2. ASSUME NEW label, Goto(a, label)
      PROVE  attempt'[a].at = label /\ \A b \in Attempts \ {a} : attempt'[b] = attempt[b]
  BY <1>2 DEF Goto, TypeOK, Attempt
<1>3. LookUp(a) => attempt'[a].at = "verify"
  BY DEF LookUp, TypeOK, Attempt
<1>4. CASE LookUp(a)
  BY <1>4 DEF LookUp, TypeOK, Attempt
<1>5. CASE Verify(a)
  BY <1>1, <1>2, <1>5 DEF Verify, LookUp
<1>6. CASE Mint(a)
  BY <1>2, <1>6 DEF Mint, LookUp
<1>7. CASE Stamp(a) \/ StatementFails(a)
  BY <1>1, <1>7, <1>3 DEF Stamp, StatementFails
<1>. QED
  BY <1>4, <1>5, <1>6, <1>7 DEF Step

\* Neither a longer record nor a new attempt.
LEMMA NoFewerPlaces ==
  ASSUME TypeOK, TypeOK', PlacesLeft,
         Len(failures') <= Len(failures), UnderWay' \subseteq UnderWay
  PROVE  PlacesLeft'
<1>1. Cardinality(UnderWay') <= Cardinality(UnderWay)
  BY UnderWayFinite, FS_Subset
<1>2. Len(failures) \in Nat /\ Len(failures') \in Nat /\ MaxFailures \in Nat
  BY SignInAssumption DEF TypeOK
<1>. QED
  BY <1>1, <1>2, UnderWayFinite DEF PlacesLeft

LEMMA NextPlaces == TypeOK /\ PlacesLeft /\ [Next]_vars => PlacesLeft'
<1>. SUFFICES ASSUME TypeOK, PlacesLeft, [Next]_vars PROVE PlacesLeft'
  OBVIOUS
<1>. TypeOK'
  BY NextType
<1>0. Len(failures) \in Nat /\ Len(failures') \in Nat /\ MaxFailures \in Nat \ {0}
  BY SignInAssumption DEF TypeOK
<1>1. ASSUME NEW a \in Attempts, NEW guess \in Guesses, Begin(a, guess)
      PROVE  PlacesLeft'
  <2>1. CASE Len(failures) < MaxFailures /\ UNCHANGED failures
    BY <1>0, <2>1, UnderWayFinite DEF PlacesLeft
  <2>2. CASE Len(failures) >= MaxFailures /\ Refuse(a)
    <3>1. attempt'[a].at = "idle" /\ \A b \in Attempts \ {a} : attempt'[b] = attempt[b]
      BY <2>2, RefusalType DEF Refuse, TypeOK
    <3>2. UnderWay' \subseteq UnderWay
      BY <3>1 DEF UnderWay
    <3>. QED
      BY <1>0, <2>2, <3>2, NoFewerPlaces DEF Refuse
  <2>3. CASE attempt' = [attempt EXCEPT ![a] = Idle(guess, "AUTH_FAILED")] /\ UNCHANGED failures
    <3>1. UnderWay' \subseteq UnderWay
      BY <2>3 DEF UnderWay, TypeOK, Idle
    <3>. QED
      BY <1>0, <2>3, <3>1, NoFewerPlaces
  <2>. QED
    BY <1>1, <2>1, <2>2, <2>3 DEF Begin
<1>2. ASSUME NEW a \in Attempts, LookUp(a) \/ Mint(a) \/ Stamp(a) \/ StatementFails(a)
      PROVE  PlacesLeft'
  <2>1. UnderWay' \subseteq UnderWay
    <3>1. attempt[a].at = "lookup" \/ attempt'[a].at \notin {"lookup", "verify"}
      BY <1>2, StepMoves DEF Step, LookUp
    <3>. QED
      BY <1>2, <3>1, StepMoves DEF Step, UnderWay
  <2>2. Len(failures') <= Len(failures)
    BY <1>0, <1>2 DEF LookUp, Mint, Stamp, StatementFails
  <2>. QED
    BY <2>1, <2>2, NoFewerPlaces
<1>3. ASSUME NEW a \in Attempts, Verify(a)
      PROVE  PlacesLeft'
  <2>1. a \in UnderWay /\ UnderWay' = UnderWay \ {a}
    <3>1. attempt[a].at = "verify" /\ ~ LookUp(a)
      BY <1>3 DEF Verify, LookUp
    <3>. QED
      BY <1>3, <3>1, StepMoves DEF Step, UnderWay
  <2>2. Cardinality(UnderWay') = Cardinality(UnderWay) - 1
    BY <2>1, UnderWayFinite, FS_RemoveElement
  <2>3. Len(failures') <= Len(failures) + 1
    BY <1>3, VerifyType
  <2>. QED
    BY <1>0, <2>2, <2>3, UnderWayFinite DEF PlacesLeft
<1>4. CASE Tick
  <2>1. UnderWay' \subseteq UnderWay
    BY <1>4 DEF Tick, UnderWay, TypeOK, Attempt
  <2>. QED
    BY <1>4, <2>1, TickType, NoFewerPlaces
<1>5. CASE Restart
  <2>1. UnderWay' = {}
    BY <1>5 DEF Restart, UnderWay, Idle
  <2>2. Len(failures') <= Len(failures)
    BY <1>0, <1>5 DEF Restart
  <2>. QED
    BY <2>1, <2>2, NoFewerPlaces
<1>6. CASE Deactivate \/ UNCHANGED vars
  <2>1. UnderWay' = UnderWay /\ failures' = failures
    BY <1>6 DEF Deactivate, vars, UnderWay
  <2>. QED
    BY <1>0, <2>1, NoFewerPlaces
<1>. QED
  BY <1>1, <1>2, <1>3, <1>4, <1>5, <1>6 DEF Next, Step

LEMMA InitPlaces == Init => PlacesLeft
<1>. SUFFICES ASSUME Init PROVE PlacesLeft
  OBVIOUS
<1>1. UnderWay = {} /\ Len(failures) = 0
  BY DEF Init, UnderWay, Idle
<1>2. Cardinality(UnderWay) = 0
  BY <1>1, FS_EmptySet
<1>. QED
  BY <1>1, <1>2, UnderWayFinite, SignInAssumption DEF PlacesLeft

LEMMA PlacesBound == TypeOK /\ PlacesLeft => GuessesBounded
  BY UnderWayFinite, SignInAssumption DEF PlacesLeft, GuessesBounded, TypeOK

\* The failures on record are fewer than the limit plus the attempts that can be under
\* way: what overlapping guesses gain from the two awaits between the test of the limit
\* and the recording of the failure is at most one failure each.
THEOREM GuessesAlwaysBounded == Spec => []GuessesBounded
  BY InitPlaces, PlacesBound, InitType, NextType, NextPlaces, PTL DEF Spec

-----------------------------------------------------------------------------
(* What a refused client is told. *)

\* The wait and the failures of a refusal stay those of the moment it was given.
ToldTheWait ==
    \A a \in Attempts : attempt[a].code = "TOO_MANY_ATTEMPTS" =>
        /\ Len(attempt[a].told) >= MaxFailures
        /\ Len(attempt[a].told) < MaxFailures + Cardinality(Attempts)
        /\ attempt[a].wait = RetryAfter(attempt[a].told)

LEMMA NextTold == TypeOK /\ PlacesLeft /\ ToldTheWait /\ [Next]_vars => ToldTheWait'
<1>. SUFFICES ASSUME TypeOK, PlacesLeft, ToldTheWait, [Next]_vars PROVE ToldTheWait'
  OBVIOUS
<1>1. ASSUME NEW a \in Attempts, NEW guess \in Guesses, Begin(a, guess)
      PROVE  ToldTheWait'
  <2>1. CASE Len(failures) >= MaxFailures /\ Refuse(a)
    <3>1. /\ attempt'[a].told = failures /\ attempt'[a].wait = RetryAfter(failures)
          /\ \A b \in Attempts \ {a} : attempt'[b] = attempt[b]
      BY <2>1, RefusalType DEF Refuse, TypeOK
    <3>2. Len(failures) < MaxFailures + Cardinality(Attempts)
      BY PlacesBound DEF GuessesBounded
    <3>. QED
      BY <2>1, <3>1, <3>2 DEF ToldTheWait, RetryAfter
  <2>2. CASE attempt' = [attempt EXCEPT ![a] = Idle(guess, "AUTH_FAILED")]
    BY <2>2 DEF ToldTheWait, TypeOK, Idle, RetryAfter
  <2>3. CASE attempt' = [attempt EXCEPT ![a] = [Idle(guess, "none") EXCEPT !.at = "lookup"]]
    BY <2>3 DEF ToldTheWait, TypeOK, Idle, RetryAfter
  <2>. QED
    BY <1>1, <2>1, <2>2, <2>3 DEF Begin
<1>2. ASSUME NEW a \in Attempts, NEW code \in Codes \ {"TOO_MANY_ATTEMPTS"}, Answer(a, code)
      PROVE  ToldTheWait'
  BY <1>2 DEF Answer, ToldTheWait, TypeOK, Idle, RetryAfter
<1>3. ASSUME NEW a \in Attempts, NEW label, Goto(a, label)
      PROVE  ToldTheWait'
  BY <1>3 DEF Goto, ToldTheWait, TypeOK, Attempt, RetryAfter
<1>4. ASSUME NEW a \in Attempts, LookUp(a)
      PROVE  ToldTheWait'
  BY <1>4 DEF LookUp, ToldTheWait, TypeOK, Attempt, RetryAfter
<1>5. ASSUME NEW a \in Attempts, Verify(a) \/ Mint(a) \/ Stamp(a) \/ StatementFails(a)
      PROVE  ToldTheWait'
  BY <1>2, <1>3, <1>5 DEF Verify, Mint, Stamp, StatementFails, Codes
<1>6. CASE Tick
  BY <1>6 DEF Tick, ToldTheWait, TypeOK, Attempt, RetryAfter
<1>7. CASE Restart
  BY <1>7 DEF Restart, ToldTheWait, Idle
<1>8. CASE Deactivate \/ UNCHANGED vars
  BY <1>8 DEF Deactivate, vars, ToldTheWait, RetryAfter
<1>. QED
  BY <1>1, <1>4, <1>5, <1>6, <1>7, <1>8 DEF Next, Step

\* After the wait that a list gives its first failure has left the window, and the list is
\* shorter.
LEMMA WaitShortens ==
  ASSUME NEW list \in Seq(Ages), Len(list) >= MaxFailures
  PROVE  /\ Aged(list, RetryAfter(list)) \in Seq(Ages)
         /\ Len(Aged(list, RetryAfter(list))) < Len(list)
<1>. DEFINE wait == RetryAfter(list)
            older == [i \in DOMAIN list |-> list[i] + wait]
<1>1. Window \in Nat \ {0} /\ MaxFailures \in Nat \ {0} /\ wait \in Nat /\ list[1] \in Nat
      /\ list[1] + wait = Window
  BY SignInAssumption, WaitType DEF Ages
<1>2. \A i \in 1 .. Len(list) : list[i] \in Nat
  BY <1>1 DEF Ages
<1>. HIDE DEF wait
<1>3. older \in Seq(Nat) /\ Len(older) = Len(list)
  BY <1>1, <1>2
<1>4. 1 \in 1 .. Len(older) /\ ~ (older[1] < Window)
  BY <1>1, <1>3
<1>5. Aged(list, RetryAfter(list)) = Surviving(older)
  BY DEF Aged, wait
<1>. HIDE DEF older
<1>. QED
  BY <1>1, <1>3, <1>4, <1>5, YoungerFacts, SurvivingFacts DEF Surviving

LEMMA NextTryFacts ==
  ASSUME NEW list \in Seq(Ages)
  PROVE  /\ AtNextTry(list) \in Seq(Ages)
         /\ Len(AtNextTry(list)) < MaxFailures \/ Len(AtNextTry(list)) < Len(list)
  BY WaitShortens, SignInAssumption DEF AtNextTry

\* The recursive function of the tries exists and is what its definition says.
LEMMA TriesUnfold ==
  ASSUME NEW list \in Seq(Ages), NEW tries \in Nat
  PROVE  \E left \in [0 .. tries -> Seq(Ages)] :
            /\ AfterTries(list, tries) = left[tries]
            /\ left[0] = list
            /\ \A n \in 1 .. tries : left[n] = AtNextTry(left[n - 1])
<1>. DEFINE T == Seq(Ages)
            step == [n \in 1 .. tries |-> [before \in T |-> AtNextTry(before)]]
            Def(f) == [n \in 0 .. tries |-> IF n = 0 THEN list ELSE AtNextTry(f[n - 1])]
<1>1. step \in [1 .. tries -> [T -> T]]
  BY NextTryFacts
<1>2. PICK g \in [0 .. tries -> T] :
        g[0] = list /\ \A n \in 1 .. tries : g[n] = step[n][g[n - 1]]
  <2>1. Solutions(tries, T, list, step) # {}
    <3>. HIDE DEF step
    <3>. QED
      BY <1>1, RecursionUpTo
  <2>. HIDE DEF T, step
  <2>. QED
    BY <2>1 DEF Solutions
<1>3. ASSUME NEW n \in 1 .. tries
      PROVE  g[n] = AtNextTry(g[n - 1])
  <2>1. g[n - 1] \in T
    <3>1. n - 1 \in 0 .. tries
      OBVIOUS
    <3>. HIDE DEF T
    <3>. QED
      BY <3>1
  <2>2. g[n] = step[n][g[n - 1]]
    BY <1>2
  <2>. QED
    BY <2>1, <2>2
<1>4. g = Def(g)
  <2>1. g = [n \in 0 .. tries |-> g[n]]
    BY <1>2
  <2>2. \A n \in 0 .. tries : n = 0 \/ n \in 1 .. tries
    OBVIOUS
  <2>3. \A n \in 0 .. tries : g[n] = Def(g)[n]
    BY <1>2, <1>3, <2>2
  <2>. QED
    BY <2>1, <2>3
<1>. DEFINE left == CHOOSE f : f = Def(f)
<1>5. left = Def(left)
  <2>. HIDE DEF Def
  <2>. QED
    BY <1>4
<1>6. AfterTries(list, tries) = left[tries]
  BY DEF AfterTries
<1>. HIDE DEF left
<1>7. left = g
  <2>. DEFINE same == {n \in 0 .. tries : left[n] = g[n]}
  <2>1. left = [n \in 0 .. tries |-> left[n]] /\ g = [n \in 0 .. tries |-> g[n]]
    BY <1>2, <1>5
  <2>2. 0 \in same
    BY <1>2, <1>5
  <2>3. \A n \in 0 .. tries : n < tries /\ n \in same => n + 1 \in same
    <3>. SUFFICES ASSUME NEW n \in 0 .. tries, n < tries, left[n] = g[n]
                  PROVE  left[n + 1] = g[n + 1]
      OBVIOUS
    <3>1. n + 1 \in 1 .. tries /\ n + 1 \in 0 .. tries /\ n + 1 # 0 /\ (n + 1) - 1 = n
      OBVIOUS
    <3>2. left[n + 1] = AtNextTry(left[n])
      BY <1>5, <3>1
    <3>. QED
      BY <1>3, <3>1, <3>2
  <2>4. 0 .. tries \subseteq same
    <3>. HIDE DEF same
    <3>. QED
      BY <2>2, <2>3, InductionUpTo
  <2>. QED
    BY <2>1, <2>4
<1>. QED
  BY <1>2, <1>3, <1>6, <1>7

\* Each try that is refused is followed by a shorter list, so as many tries as there are
\* failures above the limit end below it.
LEMMA TriesSuffice ==
  ASSUME NEW list \in Seq(Ages), NEW tries \in Nat, Len(list) < MaxFailures + tries
  PROVE  Len(AfterTries(list, tries)) < MaxFailures
<1>1. PICK left \in [0 .. tries -> Seq(Ages)] :
        /\ AfterTries(list, tries) = left[tries]
        /\ left[0] = list
        /\ \A n \in 1 .. tries : left[n] = AtNextTry(left[n - 1])
  BY TriesUnfold
<1>. DEFINE fewer == {n \in 0 .. tries : Len(left[n]) < MaxFailures
                                       \/ Len(left[n]) + n <= Len(list)}
<1>2. MaxFailures \in Nat /\ Len(list) \in Nat
      /\ \A n \in 0 .. tries : left[n] \in Seq(Ages) /\ Len(left[n]) \in Nat
  BY <1>1, SignInAssumption
<1>3. 0 \in fewer
  BY <1>1, <1>2
<1>4. ASSUME NEW n \in 0 .. tries, n < tries, n \in fewer
      PROVE  n + 1 \in fewer
  <2>1. n + 1 \in 0 .. tries /\ left[n + 1] = AtNextTry(left[n])
    <3>1. n + 1 \in 1 .. tries /\ (n + 1) - 1 = n
      BY <1>4
    <3>. QED
      BY <1>1, <3>1
  <2>2. CASE Len(left[n]) < MaxFailures
    BY <2>1, <2>2 DEF AtNextTry
  <2>3. CASE Len(left[n]) + n <= Len(list)
    <3>1. Len(left[n + 1]) < MaxFailures \/ Len(left[n + 1]) < Len(left[n])
      BY <1>2, <2>1, NextTryFacts
    <3>. QED
      BY <1>2, <2>1, <2>3, <3>1
  <2>. QED
    BY <1>4, <2>2, <2>3
<1>5. 0 .. tries \subseteq fewer
  <2>. HIDE DEF fewer
  <2>. QED
    BY <1>3, <1>4, InductionUpTo
<1>6. tries \in fewer
  BY <1>5
<1>. QED
  BY <1>1, <1>2, <1>6

\* The first wait ends with one failure less than the refusal was given for; one more wait
\* for each of those that are above the limit ends below it.
LEMMA WaitIsEnough == TypeOK /\ ToldTheWait => WaitSuffices
<1>. SUFFICES ASSUME TypeOK, ToldTheWait, NEW a \in Attempts,
                     attempt[a].code = "TOO_MANY_ATTEMPTS"
              PROVE  LET told == attempt[a].told
                         above == Len(told) - MaxFailures
                     IN /\ Len(AfterTries(Aged(told, attempt[a].wait), above)) < MaxFailures
                        /\ above < Cardinality(Attempts)
  BY DEF WaitSuffices
<1>. DEFINE told == attempt[a].told
            above == Len(told) - MaxFailures
            list == Aged(told, attempt[a].wait)
<1>1. /\ told \in Seq(Ages) /\ Len(told) >= MaxFailures
      /\ Len(told) < MaxFailures + Cardinality(Attempts)
      /\ attempt[a].wait = RetryAfter(told)
  BY DEF TypeOK, Attempt, ToldTheWait
<1>2. MaxFailures \in Nat /\ Len(told) \in Nat /\ Cardinality(Attempts) \in Nat
  BY <1>1, SignInAssumption, UnderWayFinite
<1>3. list \in Seq(Ages) /\ Len(list) < Len(told)
  <2>. HIDE DEF told
  <2>. QED
    BY <1>1, WaitShortens
<1>4. above \in Nat /\ above < Cardinality(Attempts)
  BY <1>1, <1>2
<1>5. Len(list) < MaxFailures + above
  BY <1>2, <1>3
<1>6. Len(AfterTries(list, above)) < MaxFailures
  <2>. HIDE DEF list, above, told
  <2>. QED
    BY <1>3, <1>4, <1>5, TriesSuffice
<1>. QED
  BY <1>4, <1>6

\* Whatever a client was refused for, waits as long as Retry-After says bring it through
\* when nobody else fails: one wait, and one more for each failure above the limit, which
\* are fewer than the attempts that can be under way (retryAfterMs).
THEOREM WaitAlwaysSuffices == Spec => []WaitSuffices
<1>1. Init => ToldTheWait
  BY DEF Init, ToldTheWait, Idle
<1>. QED
  BY <1>1, InitType, InitPlaces, NextType, NextPlaces, NextTold, WaitIsEnough, PTL DEF Spec
=============================================================================
