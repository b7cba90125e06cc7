------------------------------ MODULE MCHiring ------------------------------
(* The campaign's lifecycle and the interview rounds: a behaviour of the run  *)
(* is one of either, chosen at the start.                                     *)
EXTENDS CampaignLifecycle, InterviewRounds, TLC

CONSTANT Areas      \* of "campaign" and "interviews"

VARIABLE area
mcVars == <<vars, roundsVars, area>>

-----------------------------------------------------------------------------
(* The campaign: concurrent edits and a reset; openings against selections;   *)
(* deadlines; then pauses, closes and reopenings around queued work, failures *)
(* and replays.                                                               *)
Budget(b) ==
    [k \in {"patch", "scoring", "openings", "deadline", "pause", "resume", "reset", "close",
            "reopen", "replay", "time", "jd", "select", "fail", "extract", "tasks"} |->
        IF k \in DOMAIN b THEN b[k] ELSE 0]
Settings == {Budget([patch |-> 2, scoring |-> 1, reset |-> 1]),
             Budget([openings |-> 2, select |-> 2, reopen |-> 1]),
             Budget([deadline |-> 1, time |-> 1, close |-> 1, reopen |-> 1, jd |-> 1,
                     extract |-> 3])}
QueuedWork == {Budget([tasks |-> 1, pause |-> 2, resume |-> 2, fail |-> 1]),
               Budget([tasks |-> 1, pause |-> 1, close |-> 1, reopen |-> 1, resume |-> 1]),
               Budget([tasks |-> 1, fail |-> 2, replay |-> 2])}
MCScenarios == Settings \cup QueuedWork
MCKind == [t \in Tasks |-> CASE t = "d1" -> "det" [] t = "a1" -> "ai" [] t = "p1" -> "parse"]

-----------------------------------------------------------------------------
(* A few interview requests and faults per behaviour, in every order.         *)
Calm == [k \in {"schedule", "reschedule", "cancel", "complete", "request_feedback", "leave",
                "feedback", "refuse", "unsent", "unlogged", "crash"} |-> 0]
        @@ [panels |-> {{"a"}}, times |-> {1}]
MCAgendas ==
  { [Calm EXCEPT !.schedule = 3],
    [Calm EXCEPT !.schedule = 1, !.complete = 1, !.refuse = 1, !.feedback = 1],
    [Calm EXCEPT !.schedule = 1, !.request_feedback = 1, !.refuse = 1, !.feedback = 1],
    [Calm EXCEPT !.schedule = 1, !.refuse = 3],
    [Calm EXCEPT !.schedule = 1, !.cancel = 1, !.reschedule = 1],
    [Calm EXCEPT !.schedule = 1, !.reschedule = 1, !.panels = {{"a"}, {"b"}}, !.times = {1, 2}],
    [Calm EXCEPT !.schedule = 1, !.reschedule = 1, !.leave = 1],
    [Calm EXCEPT !.schedule = 1, !.request_feedback = 1, !.unsent = 1, !.unlogged = 1],
    [Calm EXCEPT !.schedule = 1, !.crash = 2] }

-----------------------------------------------------------------------------
InCampaign(A) == area = "campaign" /\ A /\ UNCHANGED <<roundsVars, area>>
InInterviews(A) == area = "interviews" /\ A /\ UNCHANGED <<vars, area>>

\* What is not the behaviour's component starts in one fixed state and stays in it.
MCInit ==
    /\ area \in Areas
    /\ Init
    /\ area # "campaign" => /\ left = CHOOSE s \in Settings : TRUE
                            /\ camp.deadline = "none" /\ camp.openings = 0
    /\ RoundsInit /\ (area # "interviews" => budget = CHOOSE s \in Agendas : TRUE)

MCNext == InCampaign(Next) \/ InInterviews(RoundsNext)

\* The fairness each component states for itself.
MCFairness ==
    /\ \A t \in Tasks : WF_mcVars(InCampaign(Start(t))) /\ WF_mcVars(InCampaign(Finish(t) \/ Fail(t)))
    /\ \A s \in Admins : WF_mcVars(InCampaign(Proceed(s)))
    /\ \A c \in Clerks : WF_mcVars(InInterviews(Request(c)))
    /\ WF_mcVars(InInterviews(Enqueue(Beat)))
    /\ WF_mcVars(InInterviews(Sweep)) /\ WF_mcVars(InInterviews(Mail))

MCFairSpec == MCInit /\ [][MCNext]_mcVars /\ MCFairness
=============================================================================
