---------------------------- MODULE MCLiveness ----------------------------
(* What must happen eventually, of a resume's task, of a bulk upload and of   *)
(* the embedding tasks: a behaviour of the run is one of them, chosen at the  *)
(* start.  BulkUpload and EmbeddingBreaker are instantiated with their own    *)
(* workers, faults and mixes.                                                 *)
EXTENDS MCResumeTask

CONSTANTS Files, Runners, UploadMixes, Embeds, NoBreaker, NoHolder

VARIABLES job, file, resumes, members, scored, dead, open, queue, runners, ext, clerks, happened,
          breaker, holder, logRow, post, embedder, text, vector, letters, reviewed, mishaps, trace, area

Same == [f \in Files |-> "same"]
AnyArchive == {Files, {}, {CHOOSE f \in Files : TRUE}}
UploadFaults == [k \in {"crash", "slow", "outage", "db", "pause", "several", "retry", "cancel", "replay"} |-> 1]

Upload == INSTANCE BulkUpload WITH
    Workers <- Runners, Clerks <- {}, Archives <- AnyArchive, Content <- Same, Person <- Same,
    Prior <- {}, Members <- {}, FileAttempts <- 2, MaxReplays <- 0, MaxFaults <- UploadFaults,
    Mixes <- UploadMixes, run <- runners, req <- clerks, faults <- happened

Trials == {[mishaps |-> 0, known |-> TRUE, texts |-> [e \in Embeds |-> "fresh"]]}
Breaker == INSTANCE EmbeddingBreaker WITH
    Resumes <- Embeds, Cap <- 2, DefaultCap <- 3, MaxEmbedTries <- 2, MaxTaskTries <- 2,
    message <- post, worker <- embedder

taskVars == vars
uploadVars == <<job, file, resumes, members, scored, dead, open, queue, runners, ext, clerks, happened>>
embedVars == <<breaker, holder, logRow, post, embedder, text, vector, letters, reviewed, mishaps, trace>>
mcVars == <<taskVars, uploadVars, embedVars, area>>

InTask(A) == area = "task" /\ A /\ UNCHANGED <<uploadVars, embedVars, area>>
InUpload(A) == area = "upload" /\ A /\ UNCHANGED <<taskVars, embedVars, area>>
InEmbedding(A) == area = "embedding" /\ A /\ UNCHANGED <<taskVars, uploadVars, area>>

MCInit == Init /\ Upload!Init /\ Breaker!BreakerInit /\ area \in {"task", "upload", "embedding"}
MCNext == InTask(Next) \/ InUpload(Upload!Next) \/ InEmbedding(Breaker!BreakerNext)

MCFairness ==
    /\ \A q \in Requests : /\ WF_mcVars(InTask(RequestStep(q) /\ req[q].pc # "idle"))
                           /\ WF_mcVars(InTask(GrowOld(q) /\ ~InHand(q)))
    /\ \A w \in Workers : WF_mcVars(InTask(WorkerStep(w)))
    /\ \A s \in Scanners : WF_mcVars(InTask(ScanStep(s)))
    /\ WF_mcVars(InTask(VisibilityTimeout))
    /\ WF_mcVars(InUpload(Upload!ExtractStep))
    /\ \A w \in Runners : WF_mcVars(InUpload(Upload!Receive(w) \/ Upload!WorkerStep(w)))
    /\ WF_mcVars(InEmbedding(Breaker!CoolDown))
    /\ \A e \in Embeds : WF_mcVars(InEmbedding(Breaker!Work(e)))

MCFairSpec == MCInit /\ [][MCNext]_mcVars /\ MCFairness

(* Every accepted upload reaches a terminal status, however the files fail,  *)
(* are retried or turn out to be duplicates.                                  *)
JobSettles == Upload!JobSettles

(* Every embedding task comes to rest, however often the breaker is open.     *)
EveryEmbedDecided == area = "embedding" => Breaker!EveryEmbedDecided
===========================================================================
