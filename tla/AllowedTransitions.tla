------------------------ MODULE AllowedTransitions ------------------------
(***************************************************************************)
(* The allowed_transitions table as it is seeded, and the lookup every     *)
(* stage engine makes in it.  A row permits the move from -> to for a      *)
(* candidate that came to `from' out of `prev'; Wildcard is prev = NULL.   *)
(* requires_reason is left out: a reason is always given in the models.    *)
(***************************************************************************)
EXTENDS FiniteSets

Stages == {"UPLOADED", "SCREENING", "SHORTLISTED", "HOLD", "HM_REVIEW", "INTERVIEW",
           "SELECTED", "REJECTED", "FRAUD_REVIEW"}
Wildcard == "ANY"  \* previous_stage of a wildcard row
None == "NULL"     \* previous_stage of a candidate that has not moved yet

R == {"RECRUITER"}
H == {"HIRING_MANAGER"}
S == {"SYSTEM"}

Rows(prev, from, roles, tos) ==
    {[prev |-> prev, from |-> from, to |-> to, roles |-> roles] : to \in tos}

FromUploaded == Rows(Wildcard, "UPLOADED", S, {"SCREENING", "FRAUD_REVIEW"})

FromScreening ==
    Rows(Wildcard, "SCREENING", R \cup S, {"SHORTLISTED", "REJECTED", "FRAUD_REVIEW"})
    \cup Rows(Wildcard, "SCREENING", R, {"HOLD", "UPLOADED"})

FromShortlisted ==
    Rows(Wildcard, "SHORTLISTED", R, {"HM_REVIEW", "INTERVIEW", "HOLD", "REJECTED", "UPLOADED"})
    \cup Rows(Wildcard, "SHORTLISTED", R \cup S, {"FRAUD_REVIEW"})
    \cup Rows("HM_REVIEW", "SHORTLISTED", H,
              {"HM_REVIEW", "INTERVIEW", "HOLD", "REJECTED", "FRAUD_REVIEW"})

\* HM_REVIEW has no wildcard row: what is possible depends on where it was entered from.
FromHmReview ==
    UNION {Rows(p, "HM_REVIEW", H, {"INTERVIEW", "HOLD", "REJECTED", "FRAUD_REVIEW"}) :
              p \in {"SHORTLISTED", "SCREENING"}}
    \cup Rows("INTERVIEW", "HM_REVIEW", H,
              {"SELECTED", "INTERVIEW", "SHORTLISTED", "HOLD", "REJECTED", "FRAUD_REVIEW"})
    \cup Rows("SELECTED", "HM_REVIEW", H, {"SELECTED", "INTERVIEW", "REJECTED", "FRAUD_REVIEW"})
    \cup Rows("HOLD", "HM_REVIEW", H, {"INTERVIEW", "SHORTLISTED", "REJECTED", "FRAUD_REVIEW"})
    \cup Rows("REJECTED", "HM_REVIEW", H,
              {"SCREENING", "SHORTLISTED", "INTERVIEW", "REJECTED", "FRAUD_REVIEW"})
    \cup Rows("FRAUD_REVIEW", "HM_REVIEW", H, {"INTERVIEW", "SHORTLISTED", "REJECTED"})

FromInterview ==
    Rows(Wildcard, "INTERVIEW", R, {"SELECTED", "REJECTED", "HOLD", "HM_REVIEW"})
    \cup Rows(Wildcard, "INTERVIEW", R \cup S, {"FRAUD_REVIEW"})
    \cup Rows("HM_REVIEW", "INTERVIEW", H, {"SELECTED", "REJECTED", "HOLD", "HM_REVIEW"})
    \cup Rows("HM_REVIEW", "INTERVIEW", H \cup S, {"FRAUD_REVIEW"})

FromSelected ==
    Rows(Wildcard, "SELECTED", R, {"REJECTED", "HM_REVIEW"})
    \cup Rows(Wildcard, "SELECTED", R \cup S, {"FRAUD_REVIEW"})
    \cup Rows("HM_REVIEW", "SELECTED", H, {"REJECTED", "INTERVIEW", "FRAUD_REVIEW"})

\* HOLD and REJECTED remember where the candidate was paused or rejected.
FromHold ==
    Rows("SCREENING", "HOLD", R, {"SHORTLISTED", "REJECTED", "UPLOADED"})
    \cup Rows("SHORTLISTED", "HOLD", R, {"HM_REVIEW", "INTERVIEW", "REJECTED", "UPLOADED"})
    \cup Rows("INTERVIEW", "HOLD", R, {"SELECTED", "REJECTED", "UPLOADED"})
    \cup Rows("HM_REVIEW", "HOLD", H, {"INTERVIEW", "REJECTED", "UPLOADED"})
    \cup Rows("FRAUD_REVIEW", "HOLD", H, {"HOLD", "REJECTED"})

FromRejected ==
    UNION {Rows(p, "REJECTED", R, {"SCREENING"}) : p \in {"SCREENING", "SHORTLISTED", "HOLD"}}
    \cup Rows("INTERVIEW", "REJECTED", R, {"INTERVIEW"})
    \cup Rows("SELECTED", "REJECTED", R, {"HM_REVIEW"})
    \cup Rows("HM_REVIEW", "REJECTED", H, {"HM_REVIEW"})
    \cup Rows("FRAUD_REVIEW", "REJECTED", H, {"SCREENING"})

FromFraudReview ==
    Rows("UPLOADED", "FRAUD_REVIEW", H, {"SCREENING"})
    \cup Rows("SCREENING", "FRAUD_REVIEW", H, {"SCREENING", "SHORTLISTED", "REJECTED"})
    \cup Rows("SHORTLISTED", "FRAUD_REVIEW", H,
              {"SHORTLISTED", "HM_REVIEW", "INTERVIEW", "REJECTED"})
    \cup Rows("HM_REVIEW", "FRAUD_REVIEW", H, {"HM_REVIEW", "INTERVIEW", "REJECTED"})
    \cup Rows("INTERVIEW", "FRAUD_REVIEW", H, {"INTERVIEW", "SELECTED", "REJECTED"})
    \cup Rows("SELECTED", "FRAUD_REVIEW", H, {"SELECTED", "HM_REVIEW", "REJECTED"})
    \cup Rows("HOLD", "FRAUD_REVIEW", H, {"HOLD", "REJECTED"})
    \cup Rows("REJECTED", "FRAUD_REVIEW", H,
              {"SCREENING", "SHORTLISTED", "INTERVIEW", "REJECTED"})

Transitions == FromUploaded \cup FromScreening \cup FromShortlisted \cup FromHmReview
               \cup FromInterview \cup FromSelected \cup FromHold \cup FromRejected
               \cup FromFraudReview

\* AllowedTransitionRepository.get: the exact row first, the wildcard row otherwise.
Governing ==
    [prev \in Stages \cup {None}, from \in Stages, to \in Stages |->
        LET matching(p) == {t \in Transitions : t.prev = p /\ t.from = from /\ t.to = to}
        IN  IF matching(prev) # {} THEN matching(prev) ELSE matching(Wildcard)]

\* is_transition_allowed: does a row exist at all, whoever it is for.
IsAllowed(prev, from, to) == Governing[prev, from, to] # {}

\* The callers with a role also ask whether the governing row lists it.
MayMove(role, prev, from, to) == \E t \in Governing[prev, from, to] : role \in t.roles

\* list_eligible: what the board offers for a candidate at `from' out of `prev'.
Eligible(prev, from) == {to \in Stages : IsAllowed(prev, from, to)}
===========================================================================
