----------------------------- MODULE CaseScreen ----------------------------
(***************************************************************************)
(* The whole screen of one case (web: CaseDetail.tsx): the decision panel  *)
(* (DecisionPanel), the recommendation section that polls, and the region  *)
(* of the audit trail (AuditTrailRegion.tsx) with the read that fills it   *)
(* (TrailRead).  Sections and region live as long as a case is shown.      *)
(***************************************************************************)
EXTENDS DecisionPanel, TrailRead

CONSTANT
    Polls     \* how often the 60 s of STALE_AFTER_MS let the section ask, at most

ASSUME PollsAssumption == Polls \in Nat \ {0}

VARIABLES
    section,  \* RecommendationSection
    region    \* AuditTrailRegion

vars == <<panelVars, trailRead, section, region>>

\* left: how often the section will still ask before it is stale.
Section == [rec : Recommendation, stale : BOOLEAN, left : 0 .. Polls,
            timer : {"off", "set"}]
NoSection == [rec |-> Pending, stale |-> FALSE, left |-> 0, timer |-> "off"]

\* What it shows of the integrity of the trail is checked where it is read.
Region == [status : {"loading", "error", "loaded"}, lines : SUBSET Line,
           values : SUBSET [seq : Nat, rows : SUBSET Resolution]]
NoRegion == [status |-> "loading", lines |-> {}, values |-> {}]

Init ==
    /\ PanelInit
    /\ trailRead = NoTrailRead
    /\ section = NoSection
    /\ region = NoRegion

-----------------------------------------------------------------------------
(* What comes and goes with the case. *)

\* The section shows the recommendation of the case and asks on while it is PENDING, for
\* what is left of 60 s since requested_at; the region asks for the trail.
Mount ==
    /\ trailRead' = AskTrail
    /\ \E left \in 0 .. Polls :
          section' = IF screen'.data.rec.status = "PENDING"
                     THEN [NoSection EXCEPT !.timer = "set", !.left = left]
                     ELSE [NoSection EXCEPT !.rec = screen'.data.rec]
    /\ region' = NoRegion

\* Timers are cleared and answers that are under way are not looked at.
Unmount ==
    /\ trailRead' = NoTrailRead
    /\ section' = NoSection
    /\ region' = NoRegion

\* Mutant: the region outlives a fetch of the case, and its trail with it.
FollowKeepingRegion ==
    CASE screen'.status = "loading" -> section' = NoSection /\ UNCHANGED <<trailRead, region>>
      [] screen.status = "loading" /\ screen'.status = "loaded" ->
           IF region = NoRegion /\ trailRead = NoTrailRead THEN Mount
           ELSE UNCHANGED <<trailRead, region>> /\ section' = [NoSection EXCEPT !.rec = screen'.data.rec]
      [] OTHER -> UNCHANGED <<trailRead, section, region>>

\* What a step of the panel means for them.
Follow ==
    CASE screen'.status = "loading" -> Unmount
      [] screen.status = "loading" /\ screen'.status = "loaded" -> Mount
      [] OTHER -> UNCHANGED <<trailRead, section, region>>

-----------------------------------------------------------------------------
(* RecommendationSection. *)

\* Mutant: a poll that fails is the last.
TickOnce ==
    /\ section.timer = "set"
    /\ \/ /\ section.left = 0
          /\ section' = [section EXCEPT !.stale = TRUE, !.timer = "off"]
       \/ /\ section.left > 0 /\ Polled.status # "PENDING"
          /\ section' = [section EXCEPT !.rec = Polled, !.timer = "off"]
       \/ /\ section.left > 0 /\ Polled.status = "PENDING"
          /\ \E left \in 0 .. section.left - 1 : section' = [section EXCEPT !.left = left]
       \/ /\ section.left > 0 /\ Faults # {}
          /\ section' = [section EXCEPT !.timer = "off"]
    /\ UNCHANGED <<panelVars, trailRead, region>>

\* Mutant: it asks without a look at the time.
TickPastBudget ==
    /\ section.timer = "set"
    /\ \/ /\ Polled.status # "PENDING"
          /\ section' = [section EXCEPT !.rec = Polled, !.timer = "off"]
       \/ /\ Polled.status = "PENDING" \/ Faults # {}
          /\ section' = [section EXCEPT !.left = @ - 1]
    /\ UNCHANGED <<panelVars, trailRead, region>>

\* The timer fires, and the answer is there before it is set again: the budget is spent, a
\* terminal status is shown, or a PENDING one or an error means to ask again.
Tick ==
    /\ section.timer = "set"
    /\ \/ /\ section.left = 0
          /\ section' = [section EXCEPT !.stale = TRUE, !.timer = "off"]
       \/ /\ section.left > 0 /\ Polled.status # "PENDING"
          /\ section' = [section EXCEPT !.rec = Polled, !.timer = "off"]
       \/ /\ section.left > 0 /\ (Polled.status = "PENDING" \/ Faults # {})
          /\ \E left \in 0 .. section.left - 1 : section' = [section EXCEPT !.left = left]
    /\ UNCHANGED <<panelVars, trailRead, region>>

-----------------------------------------------------------------------------
(* AuditTrailRegion. *)

\* An empty trail is an error.  The answer to a region that has gone is not looked at.
DeliverTrail ==
    /\ trailRead.at = "answer"
    /\ trailRead' = NoTrailRead
    /\ region' = IF trailRead.code = "OK" /\ trailRead.data.lines # {}
                 THEN [status |-> "loaded", lines |-> trailRead.data.lines,
                       values |-> trailRead.data.values]
                 ELSE [NoRegion EXCEPT !.status = "error"]
    /\ UNCHANGED <<panelVars, section>>

-----------------------------------------------------------------------------
ServeTrail ==
    /\ TrailReadStep \/ TrailReadFails
    /\ UNCHANGED <<panelVars, section, region>>

Next ==
    \/ PanelNext /\ Follow
    \/ ServeTrail \/ DeliverTrail
    \/ Tick

\* Reads are answered, the browser hands over what arrives and its timers fire.  Nothing
\* is assumed of the specialist, of decision requests, of jobs and of others.
Fairness ==
    /\ WF_caseRead(CaseReadStep \/ DeliverCase)
    /\ WF_trailRead(TrailReadStep \/ DeliverTrail)
    /\ WF_vars(Tick)

Spec == Init /\ [][Next]_vars /\ Fairness

-----------------------------------------------------------------------------
TypeOK ==
    /\ PanelTypeOK
    /\ trail \subseteq Line
    /\ trailRead \in ReadOfTrail
    /\ section \in Section
    /\ region \in Region

\* A screen that shows a decision and a trail shows the decision in the trail, with the
\* values it adopted, although the two are read at different times by different requests
\* (FR-14.12: the region is mounted by the fetch that follows a decision, never before it).
\* A proposal stands beside a trail with its line too, unless the fetch of the case found
\* it PENDING: the section may then have polled it after the trail was read, and the
\* region is not asked to read again (CaseDetail.tsx:552).
TrailShowsTheCase ==
    screen.status = "loaded" /\ region.status = "loaded" =>
        LET shown(action) == {l \in region.lines : l.action = action}
        IN /\ screen.data.decision.type # "none" =>
                 \E v \in region.values :
                    /\ screen.data.decision.type # "REJECT" =>
                          v.rows = screen.data.decision.values
                    /\ \E l \in region.lines : l.seq = v.seq /\ l.action \in
                          {"RECOMMENDATION_APPROVED", "RECOMMENDATION_EDITED_AND_APPROVED",
                           "RECOMMENDATION_REJECTED"}
           /\ section.rec.status = "AVAILABLE" /\ shown("RECOMMENDATION_GENERATED") = {} =>
                 screen.data.rec.status = "PENDING"

Waiting == screen.status = "loaded" /\ section.rec.status = "PENDING" /\ ~section.stale

\* Nothing on the screen is loading for ever: neither the case, nor the trail, nor the
\* recommendation, which a job that has died leaves PENDING for good (FR-10.7).
EveryWaitEnds ==
    /\ screen.status = "loading" ~> screen.status # "loading"
    /\ Waiting ~> ~Waiting
    /\ (screen.status = "loaded" /\ region.status = "loading")
          ~> (screen.status # "loaded" \/ region.status # "loading")
=============================================================================
