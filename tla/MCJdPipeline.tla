---------------------------- MODULE MCJdPipeline ----------------------------
(* The scenarios of the TLC runs of JdPipeline. *)
EXTENDS JdPipeline

May(once, twice) == [k \in EventKinds |-> IF k \in twice THEN 2 ELSE IF k \in once THEN 1 ELSE 0]

\* AI_EXTRACTION has one attempt more than the other stages.
MCAttempts == [i \in 1..7 |-> IF STAGE_ORDER[i] = "AI_EXTRACTION" THEN 3 ELSE 2]

\* Failures with one replay and with a replay asked twice; crashes; duplicates; updates that
\* race an update, a soft delete, a campaign or their own redelivery; refused publishes.
MCScenarios == {May({"create", "replay"}, {"fail"}), May({"upload"}, {"fail", "replay"}),
                May({"upload", "crash"}, {}), May({"create", "upload", "crash"}, {}),
                May({"create", "rewrite"}, {"edit"}), May({"create", "edit", "close"}, {}),
                May({"create", "rewrite", "attach"}, {}), May({"upload", "replace", "close", "crash"}, {}),
                May({"create", "edit", "lost"}, {"fail"})}
MCRetry == {May({"create"}, {"fail"})}
=============================================================================
