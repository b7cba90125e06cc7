---------------------------- MODULE MCRecruiting ----------------------------
(* Job descriptions and the intake of resumes: a behaviour of the run is one  *)
(* of either, chosen at the start.                                            *)
EXTENDS MCJdPipeline, ResumeIntake, TLC

CONSTANT Areas   \* of "jd" and "intake"

-----------------------------------------------------------------------------
(* Two or three requests about two people and two files, over a resume that   *)
(* may be there already, in the campaign or not, from one upload or in bulk.  *)
Asks(k) == [kind |-> k, campaign |-> "c1", person |-> "p1", file |-> "f1", resolution |-> "none",
            people |-> {}]
Uploads(p, f, r) == [Asks("upload") EXCEPT !.person = p, !.file = f, !.resolution = r]
Take(ps) == [Asks("pool") EXCEPT !.people = ps]
OldResume(o) == [of |-> "p1", file |-> "f1", version |-> 1, active |-> TRUE, parsed |-> TRUE,
                 outdated |-> o, task |-> "old"]
Encounter(a, b, c, old, in, logged) ==
    [ask |-> [q \in {"r1", "r2", "r3"} |-> CASE q = "r1" -> a [] q = "r2" -> b [] q = "r3" -> c],
     old |-> old, in |-> in, logged |-> logged]

Nothing == Asks("none")
NewUploads == {Uploads("p1", "f1", "none"), Uploads("p1", "f2", "none"), Uploads("p2", "f1", "upload_anyway"),
               Uploads("p2", "f1", "use_existing"), [Uploads("p1", "f2", "none") EXCEPT !.campaign = "c2"]}
Interruptions == {Asks("erase"), Asks("requestErasure"), Asks("close"), Asks("fraud")}

(* Nobody is known yet; a resume is there; it is outdated, or came in bulk;   *)
(* its owner is under suspicion; three requests meet.                         *)
MCEncounters ==
    {Encounter(Uploads("p1", "f1", "none"), b, Nothing, NoResume, {}, FALSE) :
        b \in NewUploads \cup {Take({"p1", "p2"})}}
    \cup {Encounter(a, b, Nothing, OldResume(FALSE), {}, TRUE) :
            a \in NewUploads, b \in NewUploads \cup Interruptions \cup {Take({"p1"})}}
    \cup {Encounter(Take({"p1", "p2"}), b, Nothing, OldResume(o), {}, l) :
            b \in Interruptions \cup {Take({"p1"})}, o \in BOOLEAN, l \in BOOLEAN}
    \cup {Encounter(Asks("fraud"), b, c, OldResume(FALSE), {"c2"}, TRUE) :
            b \in {Asks("requestErasure"), Take({"p1"})}, c \in {Asks("erase"), Uploads("p1", "f2", "none")}}
    \cup {Encounter(Uploads("p1", "f2", "none"), b, c, OldResume(FALSE), {}, TRUE) :
            b \in {Take({"p1"}), Uploads("p2", "f1", "upload_anyway")},
            c \in {Asks("erase"), Take({"p1", "p2"})}}

-----------------------------------------------------------------------------
VARIABLE area
mcVars == <<vars, intakeVars, area>>

InJd(A) == area = "jd" /\ A /\ UNCHANGED <<intakeVars, area>>
InIntake(A) == area = "intake" /\ A /\ UNCHANGED <<vars, area>>

\* What is not the behaviour's component starts in one fixed state and stays in it.
MCInit ==
    /\ area \in Areas
    /\ Init /\ (area # "jd" => events = CHOOSE s \in Scenarios : TRUE)
    /\ IntakeInit
    /\ area # "intake" => cand["p1"] = "none" /\ ask["r2"] = Uploads("p1", "f2", "none")

MCNext == InJd(Next) \/ InIntake(IntakeNext)

\* The fairness each component states for itself.
MCFairness ==
    /\ \A w \in Workers : WF_mcVars(InJd(Work(w)))
    /\ \A c \in Clerks : WF_mcVars(InJd(Continue(c)))
    /\ \A i \in Ids : /\ WF_mcVars(InIntake(Parse(i))) /\ WF_mcVars(InIntake(Recover(i)))
                      /\ WF_mcVars(InIntake(EmbedResume(i)))
    /\ \A p \in Persons : WF_mcVars(InIntake(ValidateRead(p))) /\ WF_mcVars(InIntake(ValidateWrite(p)))

MCFairSpec == MCInit /\ [][MCNext]_mcVars /\ MCFairness
=============================================================================
