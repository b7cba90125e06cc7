-------------------------- MODULE CandidateReports --------------------------
(***************************************************************************)
(* What the screens, tabs and exports tell of the candidates of ONE        *)
(* campaign, against what happened to them.                                *)
(*                                                                         *)
(* Nothing is stored for a view: each is read off the campaign_candidates  *)
(* row (whose decision_* columns hold ONE decision) and the rows of        *)
(* campaign_candidate_stage_history (stamped with the START of the         *)
(* transaction that inserted them).  Who may move whom, and how writers    *)
(* overwrite each other, is CandidateStages; here a write happens to the   *)
(* row as it is at its commit, and the subject is what is read afterwards. *)
(***************************************************************************)
EXTENDS AllowedTransitions, Integers, SequencesExt

CONSTANTS
    Cands,       \* campaign_candidate ids: naturals, as the rankings tie-break by id
    Created,     \* created_at of each; two may be equal
    Writers,     \* database sessions that write
    RequestMixes,\* bound: the sets of kinds of request one behaviour may mix
    Situations,  \* rows and histories a behaviour may start from
    Queries,     \* what a reader may ask the ranked list for
    GapMixes,    \* bound: results of the deterministic layer that are distinguished
    MaxWrites,   \* bound: requests in one behaviour, the reader's included
    PageSize,
    Null         \* SQL NULL

VARIABLES
    cc,       \* campaign_candidates rows; Gone once deleted
    history,  \* stage-history rows: no two are equal, and no query knows who committed first
    tx,       \* the writers' open transactions
    now,      \* database clock: one tick per transaction start and per commit
    reader,   \* the client paging through the ranked list, or exporting it
    asked     \* kinds of write, and "read", so far

reportVars == <<cc, history, tx, now, reader, asked>>

---------------------------------------------------------------------------
Gone == [stage |-> Null]
Present == {c \in Cands : cc[c] # Gone}
Gaps == {"skills", "experience", "education"}

\* type, src, why, at: decision_*; a decision's text is identified by the moment it was
\* first taken.  orig: the overridden_* keys of decision_details.  gaps: which checks of the
\* stored deterministic_breakdown failed, Null without one.
Fresh == [stage |-> "UPLOADED", prev |-> None, type |-> Null, src |-> Null, why |-> Null,
          at |-> Null, orig |-> Null, gaps |-> Null, det |-> Null, sem |-> "none", comp |-> Null,
          ai |-> "none", rec |-> Null, fraud |-> FALSE]

Entry(c, from, to, at, src, why, gaps) ==
    [cand |-> c, from |-> from, to |-> to, at |-> at, src |-> src, why |-> why, gaps |-> gaps]
\* A row whose scores_snapshot holds no decision.
Plain(c, from, to, at) == Entry(c, from, to, at, Null, Null, Null)

\* Of what rows and history rows are made.
OrNull(T) == T \cup {Null}
Source == OrNull({"DETERMINISTIC", "SEMANTIC", "AI", "RECRUITER", "HR_ADMIN"})
Moment == OrNull(Nat)
GapSet == OrNull(SUBSET Gaps)
Grade == OrNull(1 .. 2)
Overruled == OrNull([src : Source, why : Moment, at : Moment])
ReportRow ==
    [stage : Stages, prev : Stages \cup {None}, type : OrNull(Stages \cup {"RESET"}), src : Source,
     why : Moment, at : Moment, orig : Overruled, gaps : GapSet, det : Grade,
     sem : {"none", "passed", "failed"}, comp : Grade, ai : {"none", "COMPLETED", "FAILED", "MANUAL_REVIEW"},
     rec : OrNull({"SHORTLIST", "REJECT"}), fraud : BOOLEAN]
HistoryRow ==
    [cand : Cands, from : OrNull(Stages), to : Stages, at : Nat, src : Source, why : Moment,
     gaps : GapSet]

\* The rejections of c by the deterministic layer in a history, and whether the reason is theirs.
RejectionsOf(c, rows) ==
    {e \in rows : e.cand = c /\ e.to = "REJECTED" /\ e.src = "DETERMINISTIC"}
NamesOne(c, rows, src, why) ==
    src = "DETERMINISTIC" => \E e \in RejectionsOf(c, rows) : e.why = why
Backed(c, r, rows) ==
    /\ NamesOne(c, rows, r.src, r.why)
    /\ r.orig # Null => NamesOne(c, rows, r.orig.src, r.orig.why)
\* A deterministic rejection carries the breakdown it was decided by.
WithBreakdown(e) == e.to = "REJECTED" /\ e.src = "DETERMINISTIC" => e.gaps \in SUBSET Gaps

RequestKinds == {"screen", "semantic", "evaluate", "override", "revert", "drag", "bulk", "flag",
                 "rescore", "add", "delete", "read"}

\* Candidates are rows of a table; a behaviour starts from what the code has written.
ASSUME ReportsAssumption ==
    /\ IsFiniteSet(Cands) /\ Cands \subseteq Nat /\ Created \in [Cands -> Nat]
    /\ Null \notin Stages \cup {"DETERMINISTIC", "PASSED", "FAILED", "NOT_APPLICABLE"} /\ PageSize \in Nat \ {0}
    /\ GapMixes \subseteq SUBSET Gaps /\ RequestMixes \subseteq SUBSET RequestKinds
    /\ \A s \in Situations :
          /\ s.now \in Nat /\ s.history \subseteq HistoryRow /\ IsFiniteSet(s.history)
          /\ \A e \in s.history : WithBreakdown(e)
          /\ s.cc \in [Cands -> ReportRow \cup {Gone}]
          /\ \A c \in Cands : s.cc[c] # Gone => Backed(c, s.cc[c], s.history)

NoTx == [cand |-> 0, kind |-> "none", since |-> 0]
NoReader == [view |-> "none", q |-> Null, got |-> <<>>, total |-> 0, clean |-> TRUE]

ReportsInit ==
    /\ \E s \in Situations : cc = s.cc /\ history = s.history /\ now = s.now
    /\ tx = [w \in Writers |-> NoTx]
    /\ reader = NoReader
    /\ asked = <<>>

---------------------------------------------------------------------------
(* What a write makes of the row r of c, and the history rows it adds: a set of pairs. *)

MovedTo(r, to) == [r EXCEPT !.prev = r.stage, !.stage = to]
WithDecision(r, type, src, why) ==
    [r EXCEPT !.type = type, !.src = src, !.why = why, !.at = now, !.orig = Null]

\* transition_to_screening: history without a snapshot.
ToScreening(c, r, at) ==
    IF r.stage = "UPLOADED"
    THEN [row |-> MovedTo(r, "SCREENING"), log |-> {Plain(c, "UPLOADED", "SCREENING", at)}]
    ELSE [row |-> r, log |-> {}]

\* transition_to_rejected and the AI's: the decision goes to the row and to the snapshot.
Judgement(c, s, at, to, src, gaps) ==
    IF ~IsAllowed(s.row.prev, s.row.stage, to) THEN s
    ELSE [row |-> WithDecision(MovedTo(s.row, to), to, src, now),
          log |-> s.log \cup {Entry(c, s.row.stage, to, at, src, now, gaps)}]

WithScreening(r, gaps, score) == [r EXCEPT !.gaps = gaps, !.det = score]
\* calculate_deterministic_score_task: the candidate passes, or is rejected in the same
\* transaction; no single gap when only the weighted score is too low.
Screen(c, r, at) ==
    LET s == ToScreening(c, r, at)
        scored(g, n) == [row |-> WithScreening(s.row, g, n), log |-> s.log]
    IN  {scored({}, 2)}
        \cup {Judgement(c, scored(g, 1), at, "REJECTED", "DETERMINISTIC", g) : g \in GapMixes}

SemanticFails(c, r, at) ==
    {Judgement(c, [row |-> [r EXCEPT !.sem = "failed"], log |-> {}], at, "REJECTED", "SEMANTIC", Null)}

\* A resume without an embedding is not scored: the note takes the place of whatever decision
\* the row holds, and of the one an override kept, and the stage stays.  (The code leaves an
\* identical note as it is; here it may be stamped again.)
AwaitsEmbedding(c, r, at) ==
    {[row |-> [WithDecision(r, r.type, "SEMANTIC", now) EXCEPT !.ai = "MANUAL_REVIEW"], log |-> {}]}

\* Passing the semantic layer, the AI's recommendation and the composite score, in one.
Recommended(r, rec) == [r EXCEPT !.sem = "passed", !.ai = "COMPLETED", !.comp = r.det, !.rec = rec]
Evaluate(c, r, at) ==
    {Judgement(c, [row |-> Recommended(r, v[1]), log |-> {}], at, v[2], "AI", Null) :
        v \in {<<"SHORTLIST", "SHORTLISTED">>, <<"REJECT", "REJECTED">>}}
    \cup {[row |-> [r EXCEPT !.sem = "passed", !.ai = "FAILED"], log |-> {}]}

\* Mutant: any decision is kept as the one that was overridden
OverrideRejection_AnySource(c, r, at) ==
    {[row |-> [WithDecision(MovedTo(r, "SCREENING"), "RESET", "RECRUITER", now)
                  EXCEPT !.orig = [src |-> "DETERMINISTIC", why |-> now, at |-> r.at]],
      log |-> {Entry(c, "REJECTED", "SCREENING", at, "RECRUITER", now, Null)}]}

\* apply_hr_override: the rejection moves to decision_details, RESET takes its place.
OverrideRejection(c, r, at) ==
    {[row |-> [WithDecision(MovedTo(r, "SCREENING"), "RESET", "RECRUITER", now)
                  EXCEPT !.orig = [src |-> r.src, why |-> r.why, at |-> r.at]],
      log |-> {Entry(c, "REJECTED", "SCREENING", at, "RECRUITER", now, Null)}]}

\* revert_override: the kept decision comes back, stamped with the time of the revert; its
\* history row has no snapshot.
RevertOverride(c, r, at) ==
    {[row |-> WithDecision([r EXCEPT !.stage = "REJECTED"], "REJECTED", r.orig.src, r.orig.why),
      log |-> {Plain(c, "SCREENING", "REJECTED", at)}]}

\* move_pipeline_stage and transition(): the stage moves, the decision stays, no snapshot.
DragCard(c, r, at) ==
    {[row |-> MovedTo(r, to), log |-> {Plain(c, r.stage, to, at)}] :
        to \in {t \in Stages \ {"UPLOADED"} : \E who \in {"RECRUITER", "HIRING_MANAGER"} :
                                                 MayMove(who, r.prev, r.stage, t)}}

\* bulk_move decides, for the stages that are decisions.
MoveInBulk(c, r, at) ==
    {[row |-> WithDecision(MovedTo(r, to), to, "HR_ADMIN", now),
      log |-> {Entry(c, r.stage, to, at, "HR_ADMIN", now, Null)}] :
        to \in {t \in {"SHORTLISTED", "REJECTED", "HOLD"} : MayMove("RECRUITER", r.prev, r.stage, t)}}

\* transition_candidate_stage: the snapshot repeats whatever decision the row holds.
FlagFraud(c, r, at) ==
    {[row |-> [r EXCEPT !.stage = "FRAUD_REVIEW", !.fraud = TRUE],
      log |-> {Entry(c, r.stage, "FRAUD_REVIEW", at, r.src, r.why, r.gaps)}]}

\* reset_for_rescore: every evaluation-derived field, of the row and of its AI evaluation.
ClearScores(c, r, at) ==
    {[row |-> [Fresh EXCEPT !.stage = r.stage, !.prev = r.prev], log |-> {}]}

WriteFits(kind, r) ==
    CASE kind = "screen"   -> r.stage \in {"UPLOADED", "SCREENING"}
      [] kind = "semantic" -> r.stage = "SCREENING" /\ r.det = 2
      [] kind = "evaluate" -> r.stage = "SCREENING" /\ r.det # Null
      [] kind = "override" -> r.stage = "REJECTED" /\ r.type = "REJECTED"
                              /\ r.src \in {"DETERMINISTIC", "SEMANTIC"}
      [] kind = "revert"   -> r.stage = "SCREENING" /\ r.type = "RESET" /\ r.orig # Null
      [] kind = "flag"     -> r.stage # "FRAUD_REVIEW"
      [] kind = "rescore"  -> r.stage \in {"UPLOADED", "SCREENING"}
      [] OTHER -> TRUE

Outcomes(kind, c, r, at) ==
    CASE kind = "screen"   -> Screen(c, r, at)
      [] kind = "semantic" -> SemanticFails(c, r, at) \cup AwaitsEmbedding(c, r, at)
      [] kind = "evaluate" -> Evaluate(c, r, at)
      [] kind = "override" -> OverrideRejection(c, r, at)
      [] kind = "revert"   -> RevertOverride(c, r, at)
      [] kind = "drag"     -> DragCard(c, r, at)
      [] kind = "bulk"     -> MoveInBulk(c, r, at)
      [] kind = "flag"     -> FlagFraud(c, r, at)
      [] kind = "rescore"  -> ClearScores(c, r, at)
      [] kind = "add"      -> {[row |-> Fresh, log |-> {Plain(c, Null, "UPLOADED", at)}]}
      [] kind = "delete"   -> {[row |-> Gone, log |-> {}]}

---------------------------------------------------------------------------
(* The writers. *)

MayMix(kind) == Len(asked) < MaxWrites /\ \E mix \in RequestMixes : ToSet(asked) \cup {kind} \subseteq mix

\* The first statement of a transaction fixes the stamp of every history row it inserts.
BeginWrite(w) ==
    /\ tx[w] = NoTx
    /\ \E kind \in (UNION RequestMixes) \ {"read"}, c \in Cands :
          /\ MayMix(kind)
          /\ (kind = "add") = (cc[c] = Gone)
          /\ kind # "add" => WriteFits(kind, cc[c])
          /\ tx' = [tx EXCEPT ![w] = [cand |-> c, kind |-> kind, since |-> now]]
          /\ asked' = Append(asked, kind)
    /\ now' = now + 1
    /\ UNCHANGED <<cc, history, reader>>

Touched == [reader EXCEPT !.clean = FALSE]

\* delete_campaign_candidate takes the candidate's history along.
CommitWrite(w) ==
    LET c == tx[w].cand
        kind == tx[w].kind
    IN  /\ tx[w] # NoTx
        /\ (kind = "add") = (cc[c] = Gone)
        /\ kind # "add" => WriteFits(kind, cc[c])
        /\ \E o \in Outcomes(kind, c, cc[c], tx[w].since) :
              /\ cc' = [cc EXCEPT ![c] = o.row]
              /\ history' = IF kind = "delete" THEN {e \in history : e.cand # c}
                            ELSE history \cup o.log
        /\ tx' = [tx EXCEPT ![w] = NoTx]
        /\ now' = now + 1
        /\ reader' = Touched
        /\ UNCHANGED asked

\* The row went away, or is where the write no longer applies; or the process died.
GiveUpWrite(w) ==
    /\ tx[w] # NoTx
    /\ tx' = [tx EXCEPT ![w] = NoTx]
    /\ UNCHANGED <<cc, history, now, reader, asked>>

---------------------------------------------------------------------------
(* One row of a list: _to_campaign_candidate_response and the texts derived from it. *)

RankingStatus(r) ==
    IF r.comp # Null THEN "RANKED" ELSE IF r.ai = "FAILED" THEN "FAILED" ELSE "PENDING"

IsOverride(r) == r.type = "RESET"

ListRow(r) == [stage |-> r.stage, det |-> r.det, comp |-> r.comp, fraud |-> r.fraud,
               override |-> IsOverride(r), status |-> RankingStatus(r), rec |-> r.rec]

Outcome(r) == CASE r.stage = "SELECTED" -> "Selected" [] r.stage = "REJECTED" -> "Rejected"
                [] OTHER -> "In Progress"

---------------------------------------------------------------------------
(* get_ranked_by_campaign. *)

Matches(q, r) ==
    /\ q.stage \in {Null, r.stage}
    /\ q.min # Null => r.comp # Null /\ r.comp >= q.min
    /\ q.max # Null => r.comp # Null /\ r.comp <= q.max
    /\ q.rec \in {Null, r.rec}
    /\ q.ai = Null \/ r.ai = q.ai \/ (q.ai = "PENDING" /\ r.ai = "none")
    /\ q.pending \/ r.comp # Null
    /\ q.rejected \/ r.stage # "REJECTED"
    /\ q.fraud \/ ~r.fraud
    /\ q.override = Null \/ q.override = IsOverride(r)

Matching(q) == {c \in Present : Matches(q, cc[c])}

Descending(x, nulls) == IF x = Null THEN nulls ELSE -x
NullsFirst == -100
NullsLast == 100

\* Mutant: the ranking has no tie-break by id
SortKey_NoId(q, c) ==
    IF q.sort = "default"
    THEN <<Descending(cc[c].comp, NullsLast), Descending(cc[c].det, NullsFirst), Created[c]>>
    ELSE <<Descending(cc[c].det, NullsLast), Created[c]>>

\* Unscored candidates come last; without an explicit sort, PostgreSQL puts the NULLs of
\* the second column first.
SortKey(q, c) ==
    IF q.sort = "default"
    THEN <<Descending(cc[c].comp, NullsLast), Descending(cc[c].det, NullsFirst), Created[c], c>>
    ELSE <<Descending(cc[c].det, NullsLast), Created[c], c>>

Precedes(a, b) == \E i \in DOMAIN a : a[i] < b[i] /\ \A j \in 1 .. i - 1 : a[j] = b[j]

\* Every order the database may return: ORDER BY decides no more than its columns do.
Ranked(q) ==
    {s \in SetToSeqs(Matching(q)) :
        \A i, j \in DOMAIN s : i < j => ~Precedes(SortKey(q, s[j]), SortKey(q, s[i]))}

Page(s, number, size) == SubSeq(s, (number - 1) * size + 1, Min({Len(s), number * size}))

---------------------------------------------------------------------------
(* A client asks for page after page; the export asks for the count and then for one page
   of that size. *)

Ask ==
    /\ reader.view = "none" /\ MayMix("read")
    /\ \E q \in Queries, view \in {"pages", "count"} :
          reader' = [NoReader EXCEPT !.view = view, !.q = q]
    /\ asked' = Append(asked, "read")
    /\ UNCHANGED <<cc, history, tx, now>>

NextPage ==
    /\ reader.view = "pages"
    /\ \E s \in Ranked(reader.q) :
        LET page == Page(s, Len(reader.got) \div PageSize + 1, PageSize)
        IN  reader' = [reader EXCEPT !.got = @ \o page,
                                     !.total = Len(s),
                                     !.view = IF Len(page) < PageSize THEN "read" ELSE "pages"]
    /\ UNCHANGED <<cc, history, tx, now, asked>>

CountRows ==
    /\ reader.view = "count"
    /\ LET total == Cardinality(Matching(reader.q))
       IN  reader' = [reader EXCEPT !.total = total, !.view = IF total = 0 THEN "read" ELSE "rows"]
    /\ UNCHANGED <<cc, history, tx, now, asked>>

ExportRows ==
    /\ reader.view = "rows"
    /\ \E s \in Ranked(reader.q) :
          reader' = [reader EXCEPT !.got = Page(s, 1, reader.total), !.view = "exported"]
    /\ UNCHANGED <<cc, history, tx, now, asked>>

---------------------------------------------------------------------------
ReportsNext ==
    \/ \E w \in Writers : BeginWrite(w) \/ CommitWrite(w) \/ GiveUpWrite(w)
    \/ Ask \/ NextPage \/ CountRows \/ ExportRows

ReportsSpec == ReportsInit /\ [][ReportsNext]_reportVars

---------------------------------------------------------------------------
(* The tabs of one candidate. *)

NoBanner == [has |-> FALSE, why |-> Null, at |-> Null]

\* _build_rejection_banner: a current rejection by the deterministic layer, or the one an
\* override replaced.
Banner(r) ==
    IF r.stage = "REJECTED"
    THEN IF r.src = "DETERMINISTIC" THEN [has |-> TRUE, why |-> r.why, at |-> r.at] ELSE NoBanner
    ELSE IF IsOverride(r) /\ r.orig # Null /\ r.orig.src = "DETERMINISTIC"
         THEN [has |-> FALSE, why |-> r.orig.why, at |-> r.orig.at] ELSE NoBanner

\* _validation_status of the skills, the experience and the education.
Check(r) == [g \in Gaps |-> IF g \in r.gaps THEN "FAILED" ELSE "PASSED"]

DeterministicTab(r) ==
    IF r.gaps = Null THEN Null
    ELSE [status |-> IF r.det = 2 THEN "PASSED" ELSE "FAILED", checks |-> Check(r),
          reason |-> Banner(r).why]

SemanticTab(r) ==
    CASE r.sem = "passed" -> "PASSED"
      [] r.sem = "failed" -> "FAILED"
      [] r.sem = "none" /\ r.stage = "REJECTED" /\ r.src = "DETERMINISTIC" -> "NOT_APPLICABLE"
      [] OTHER -> Null

AiTab(r) == [status |-> IF r.ai = "none" THEN "PENDING" ELSE r.ai, rec |-> r.rec]

\* The scorecard is the list row, the banner and the deterministic tab.
Scorecard(r) == [row |-> ListRow(r), banner |-> Banner(r), tab |-> DeterministicTab(r),
                 overridden |-> IsOverride(r)]

SummaryTab(r) == [stage |-> r.stage, det |-> r.det, comp |-> r.comp,
                  ai |-> IF r.rec = Null THEN Null ELSE r.rec]

RankingDetails(r) ==
    [comp |-> r.comp, det |-> r.det, status |-> RankingStatus(r), override |-> IsOverride(r),
     why |-> IF IsOverride(r) THEN r.why ELSE Null, at |-> IF IsOverride(r) THEN r.at ELSE Null]

---------------------------------------------------------------------------
(* What is read off the stage history. *)

HistoryOf(c) == {e \in history : e.cand = c}

\* ORDER BY changed_at: rows of one transaction carry one stamp, in no particular order.
StageHistory(c) ==
    {s \in SetToSeqs(HistoryOf(c)) :
        \A i, j \in DOMAIN s : i < j => s[i].at <= s[j].at}

\* get_rejection_history: newest first; the first entry is the current status.
RejectionHistory(c, s) == Reverse(SelectSeq(s, LAMBDA e : e.to = "REJECTED"))

\* The "original" rejection of the override report: the oldest one's decision_reason.
OriginalReason(c, s) ==
    LET rejections == SelectSeq(s, LAMBDA e : e.to = "REJECTED")
    IN  IF rejections = <<>> THEN Null ELSE rejections[1].why

\* get_deterministic_rejection_details: every deterministic rejection there ever was.
DeterministicRejections == {e \in history : e.to = "REJECTED" /\ e.src = "DETERMINISTIC"}

RejectionLayers ==
    LET rejections == {e \in history : e.to = "REJECTED" /\ e.src # Null}
    IN  [s \in {e.src : e \in rejections} |-> Cardinality({e \in rejections : e.src = s})]

\* rejection_rows: every rejection event, joined with the decision the candidate has NOW.
RejectionSheet ==
    [e \in {f \in history : f.to = "REJECTED"} |->
        [layer |-> cc[e.cand].src, at |-> e.at, override |-> IsOverride(cc[e.cand])]]

\* days_in_current_stage: since the newest history row, whatever stage it led to.
InStageSince(c) == Max({e.at : e \in HistoryOf(c)})

---------------------------------------------------------------------------
(* The figures of the campaign. *)

InStage(s) == {c \in Present : cc[c].stage = s}
Scored == {c \in Present : cc[c].comp # Null}
Flagged == {c \in Present : cc[c].fraud}

BoardStages == Stages \ {"FRAUD_REVIEW"}
Board == [columns |-> [s \in BoardStages |-> {c \in Present : cc[c].stage = s}],
          other |-> Cardinality({c \in Present : cc[c].stage \notin BoardStages})]

StageCounts == [s \in {cc[c].stage : c \in Present} |-> Cardinality(InStage(s))]

FailedCount == Cardinality({c \in Present \ Scored : cc[c].ai = "FAILED"})

\* Mutant: a failed evaluation is subtracted from nothing
Summary_FailedIsPending ==
    [total |-> Cardinality(Present), ranked |-> Cardinality(Scored),
     pending |-> Cardinality(Present) - Cardinality(Scored),
     rejected |-> Cardinality(InStage("REJECTED")), fraud |-> Cardinality(Flagged)]

\* get_campaign_candidate_summary: what is neither ranked nor failed is pending.
Summary ==
    LET total == Cardinality(Present)
        ranked == Cardinality(Scored)
    IN  [total |-> total, ranked |-> ranked, pending |-> total - ranked - FailedCount,
         rejected |-> IF "REJECTED" \in DOMAIN StageCounts THEN StageCounts["REJECTED"] ELSE 0,
         fraud |-> Cardinality(Flagged)]

RecommendationCounts ==
    [v \in {cc[c].rec : c \in Present} \ {Null} |-> Cardinality({c \in Present : cc[c].rec = v})]

\* _classify_rejection: the seven combinations of failed checks; a rejection for the
\* weighted score alone is in none.
Bucket(g) == {e \in DeterministicRejections : e.gaps = g}
Breakdown == [g \in (SUBSET Gaps) \ {{}} |-> Cardinality(Bucket(g))]

OverriddenNow == {c \in Present : IsOverride(cc[c])}
RejectedNow == InStage("REJECTED")

\* _compute_campaign_alerts, and the third calibration rule: overrides against the
\* candidates that are rejected now.
OverrideAlert(threshold) ==
    RejectedNow # {} /\ Cardinality(OverriddenNow) * 100 > threshold * Cardinality(RejectedNow)

\* _to_export_row of the rejected candidates.
RejectedRow(r) ==
    [layer |-> r.src, why |-> r.why, override |-> IsOverride(r),
     overrideReason |-> IF IsOverride(r) THEN r.why ELSE Null,
     gaps |-> IF r.gaps = Null THEN {} ELSE r.gaps]

---------------------------------------------------------------------------
(* Properties. *)

\* "preserving original rejection_reason and rejected_at" (_build_rejection_banner): after any
\* sequence of verdicts, overrides, reverts, moves and re-scorings, a reason a scorecard
\* shows as the deterministic rejection's is that of a deterministic rejection this
\* candidate really had, and not of some later decision.
BannerNamesARejection ==
    \A c \in Present : Banner(cc[c]).why # Null =>
        \E e \in HistoryOf(c) : e \in DeterministicRejections /\ e.why = Banner(cc[c]).why

Once(s) == \A i, j \in DOMAIN s : i # j => s[i] # s[j]

\* "ties ... still produce a total, stable order across pages" (get_ranked_by_campaign): if
\* nothing was written meanwhile, a client that read every page, each by a query of its
\* own, holds every matching candidate once, in the order the export would list them.
PagesTellOneOrder ==
    reader.view \in {"read", "exported"} /\ reader.clean =>
        /\ Once(reader.got) /\ ToSet(reader.got) = Matching(reader.q)
        /\ Ranked(reader.q) = {reader.got}

\* What the seven entries of the breakdown add up to.
InBuckets ==
    LET n(g) == Breakdown[g]
    IN  n({"skills"}) + n({"experience"}) + n({"education"}) + n({"skills", "experience"})
        + n({"skills", "education"}) + n({"experience", "education"}) + n(Gaps)

\* The board, the summary, the lists and the rejection figures are computed apart: the
\* columns and other_count add up to the total, what the summary obtains by subtraction is
\* what the rows call PENDING, the rejected export holds the summary's number of rows, and
\* the seven buckets hold the deterministic rejections for which some check failed.
ScreensAgree ==
    /\ Cardinality(UNION {Board.columns[s] : s \in BoardStages}) + Board.other = Summary.total
    /\ Summary.pending = Cardinality({c \in Present : RankingStatus(cc[c]) = "PENDING"})
    /\ FailedCount = Cardinality({c \in Present : RankingStatus(cc[c]) = "FAILED"})
    /\ Summary.rejected = Cardinality(RejectedNow)
    /\ \A c \in Present : Scorecard(cc[c]).banner.has =>
            /\ c \in Board.columns["REJECTED"] /\ Outcome(cc[c]) = "Rejected"
            /\ SemanticTab(cc[c]) # Null
    /\ Cardinality(DeterministicRejections) = InBuckets + Cardinality(Bucket({}))

\* All that is shown of one campaign agrees: banners with the history, pages with the export,
\* figures with lists.
ReportsAgree == BannerNamesARejection /\ PagesTellOneOrder /\ ScreensAgree

\* "the complete ... history ..., oldest first" (get_stage_history_by_campaign_candidate_id):
\* the last event of a timeline leads to the stage the candidate is at.
TimelineTellsTheOrder ==
    \A c \in Present : \A s \in StageHistory(c) :
        s # <<>> => s[Len(s)].to = cc[c].stage

\* "the candidate's own decision_* fields ARE the latest rejection" (_build_rejection_banner).
DecisionIsTheRejection ==
    \A c \in Present : cc[c].stage = "REJECTED" => cc[c].type = "REJECTED"

\* "which can never simultaneously be decision_type == RESET" (_to_export_row).
RejectedIsNotReset == \A c \in Present : cc[c].stage = "REJECTED" => cc[c].type # "RESET"

\* "what fraction did HR override" of "all-time rejected candidates" (_compute_campaign_alerts):
\* when every candidate the deterministic layer ever rejected is overridden, the alert is up.
OverridesRaiseTheAlert ==
    OverriddenNow # {} /\ {e.cand : e \in DeterministicRejections} \subseteq OverriddenNow
    => OverrideAlert(30)

\* "exports the campaign's COMPLETE filtered/sorted ranked candidate list": who matches when
\* the rows are read is in the export.
ExportIsComplete == [][reader.view = "rows" /\ reader'.view = "exported"
                       => ToSet(reader'.got) = Matching(reader.q)]_reportVars
=============================================================================
