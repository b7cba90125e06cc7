-------------------------- MODULE PromptTemplates --------------------------
(* Prompt templates: admins create, edit and delete them, campaigns and JDs   *)
(* choose them, and AI tasks read them, by the id of the campaign's own row   *)
(* or by the id their message was queued with.                                *)
EXTENDS FiniteSets

CONSTANTS
  PromptIds, Texts, Editors,
  Slots,      \* the columns that name a prompt
  Kind,       \* the task type each column asks for
  Edits,      \* the request of every editor, and the prompts there are at the start
  NoPrompt, Nobody

TaskTypes == {"JD_PARSE", "RESUME_PARSE", "AI_EVALUATE"}
Prompt == [type : TaskTypes, text : Texts, active : BOOLEAN]
Change == [op : {"create", "edit", "delete", "choose"}, id : PromptIds, type : TaskTypes,
           text : Texts \cup {Nobody}, off : BOOLEAN, slot : Slots]

ASSUME PromptConstants ==
  Kind \in [Slots -> TaskTypes] /\ NoPrompt \notin Prompt /\ Nobody \notin PromptIds

\* The id of a new prompt is nobody else's, and never given again.
ASSUME EditsAssumption ==
  \A x \in Edits :
    /\ x.prompts \in [PromptIds -> Prompt \cup {NoPrompt}] /\ x.ask \in [Editors -> Change]
    /\ \A e \in Editors : x.ask[e].op = "create" =>
          /\ x.prompts[x.ask[e].id] = NoPrompt /\ x.ask[e].text \in Texts
          /\ \A f \in Editors \ {e} : x.ask[f].op = "create" => x.ask[f].id # x.ask[e].id

VARIABLES
  edits,     \* what the editors ask in this behaviour
  prompts,   \* prompt_templates
  slot,      \* the prompt each column names
  queue,     \* AI tasks in the broker: the column, and the prompt id in the message
  ed,        \* the request of each editor
  served,    \* what AI tasks asked for and what they were given
  twins      \* texts two overlapping saves both found new

promptVars == <<edits, prompts, slot, queue, ed, served, twins>>

Kept == {i \in PromptIds : prompts[i] # NoPrompt}

PromptsTypeOK ==
  /\ edits \in Edits /\ prompts \in [PromptIds -> Prompt \cup {NoPrompt}]
  /\ slot \in [Slots -> PromptIds \cup {Nobody}] /\ queue \subseteq Slots \X (PromptIds \cup {Nobody})
  /\ ed \in [Editors -> [step : {"begin", "write", "done"}, loaded : Prompt \cup {NoPrompt},
                         same : SUBSET PromptIds]]
  /\ twins \subseteq Texts

PromptsInit ==
  /\ edits \in Edits /\ prompts = edits.prompts
  /\ slot = [s \in Slots |-> Nobody]
  /\ queue = {} /\ served = {} /\ twins = {}
  /\ ed = [e \in Editors |-> [step |-> "begin", loaded |-> NoPrompt, same |-> {}]]

Ask(e) == edits.ask[e]
Withdraw(e) == ed' = [ed EXCEPT ![e].step = "done"]
Proceed(e, old, same) == ed' = [ed EXCEPT ![e] = [step |-> "write", loaded |-> old, same |-> same]]

-----------------------------------------------------------------------------
(* What a request reads and refuses. *)

SameText(x, but) == {i \in Kept \ {but} : prompts[i].text = x}

NewText_Unchecked(e, old) == TRUE

\* A text that is given, and changes, must be nobody else's.
NewText(e, old) == Ask(e).text \in {Nobody, old} \/ SameText(Ask(e).text, Ask(e).id) = {}

Selectable_AnyStatus(i, k) == i \in Kept /\ prompts[i].type = k

Selectable(i, k) == i \in Kept /\ prompts[i].active /\ prompts[i].type = k

Accepted(e) ==
  CASE Ask(e).op = "create" -> NewText(e, Nobody)
    [] Ask(e).op = "edit" -> Ask(e).id \in Kept /\ NewText(e, prompts[Ask(e).id].text)
    [] Ask(e).op = "delete" -> Ask(e).id \in Kept
    [] Ask(e).op = "choose" -> Selectable(Ask(e).id, Kind[Ask(e).slot])

BeginPrompt(e) ==
  /\ ed[e].step = "begin"
  /\ IF Accepted(e) THEN Proceed(e, prompts[Ask(e).id], SameText(Ask(e).text, Ask(e).id)) ELSE Withdraw(e)
  /\ UNCHANGED <<edits, prompts, slot, queue, served, twins>>

-----------------------------------------------------------------------------
(* What it commits.  A row that is gone, or a foreign key that would dangle, *)
(* rolls the request back.                                                    *)

Overlap(e) ==
  twins' = IF SameText(Ask(e).text, Ask(e).id) \subseteq ed[e].same THEN twins ELSE twins \cup {Ask(e).text}

SaveNew(e) ==
  /\ Ask(e).op = "create" /\ Overlap(e)
  /\ prompts' = [prompts EXCEPT ![Ask(e).id] = [type |-> Ask(e).type, text |-> Ask(e).text, active |-> TRUE]]
  /\ UNCHANGED <<slot, queue>>

SaveEdit(e) ==
  LET i == Ask(e).id  old == ed[e].loaded
  IN  /\ Ask(e).op = "edit"
      /\ IF i \in Kept
         THEN /\ prompts' = [prompts EXCEPT ![i].text = IF Ask(e).text \in {Nobody, old.text} THEN @ ELSE Ask(e).text,
                                            ![i].active = IF Ask(e).off THEN ~old.active ELSE @]
              /\ Overlap(e)
         ELSE UNCHANGED <<prompts, twins>>
      /\ UNCHANGED <<slot, queue>>

DropPrompt(e) ==
  /\ Ask(e).op = "delete"
  /\ prompts' = IF \E s \in Slots : slot[s] = Ask(e).id THEN prompts
                ELSE [prompts EXCEPT ![Ask(e).id] = NoPrompt]
  /\ UNCHANGED <<slot, queue, twins>>

\* A JD gets its row, and its prompt, from the task; a campaign at once.
Choose(e) ==
  LET s == Ask(e).slot
  IN  /\ Ask(e).op = "choose"
      /\ IF Kind[s] = "JD_PARSE" THEN queue' = queue \cup {<<s, Ask(e).id>>} /\ UNCHANGED slot
         ELSE slot' = (IF Ask(e).id \in Kept THEN [slot EXCEPT ![s] = Ask(e).id] ELSE slot) /\ UNCHANGED queue
      /\ UNCHANGED <<prompts, twins>>

CommitPrompt(e) ==
  /\ ed[e].step = "write" /\ Withdraw(e)
  /\ SaveNew(e) \/ SaveEdit(e) \/ DropPrompt(e) \/ Choose(e)
  /\ UNCHANGED <<edits, served>>

-----------------------------------------------------------------------------
(* AI tasks. *)

\* A resume's message carries the prompt its campaign has now; an evaluation's
\* carries none.
QueueTask(s) ==
  /\ Kind[s] # "JD_PARSE" /\ slot[s] # Nobody
  /\ queue' = queue \cup {<<s, IF Kind[s] = "AI_EVALUATE" THEN Nobody ELSE slot[s]>>}
  /\ UNCHANGED <<edits, prompts, slot, ed, served, twins>>

Serve(s, i) == served' = served \cup {[want |-> Kind[s], got |-> prompts[i].type, active |-> prompts[i].active]}

\* A parse takes the prompt of its message, whatever its status, if it is there.
Parse(m) ==
  /\ Kind[m[1]] # "AI_EVALUATE" /\ queue' = queue \ {m}
  /\ IF m[2] \in Kept
     THEN /\ Serve(m[1], m[2])
          /\ slot' = IF Kind[m[1]] = "JD_PARSE" THEN [slot EXCEPT ![m[1]] = m[2]] ELSE slot
     ELSE UNCHANGED <<served, slot>>
  /\ UNCHANGED <<edits, prompts, ed, twins>>

\* An evaluation validates the campaign's prompt again; it fails on any other.
Evaluate(m) ==
  /\ Kind[m[1]] = "AI_EVALUATE" /\ queue' = queue \ {m}
  /\ IF Selectable(slot[m[1]], "AI_EVALUATE") THEN Serve(m[1], slot[m[1]]) ELSE UNCHANGED served
  /\ UNCHANGED <<edits, prompts, slot, ed, twins>>

PromptsNext ==
  \/ \E e \in Editors : BeginPrompt(e) \/ CommitPrompt(e)
  \/ \E s \in Slots : QueueTask(s)
  \/ \E m \in queue : Parse(m) \/ Evaluate(m)

PromptsSpec == PromptsInit /\ [][PromptsNext]_promptVars

-----------------------------------------------------------------------------
(* No two prompts hold the same text, whatever is created and edited at once, *)
(* unless two saves overlapped and each found the text new: the hash is       *)
(* looked up, not constrained.                                                *)
NoTwinTexts ==
  \A i, j \in Kept : i # j /\ prompts[i].text = prompts[j].text => prompts[i].text \in twins

(* Every task is given a prompt of its own type, and an evaluation an active *)
(* one, whatever was edited, deleted or chosen between the choice of the     *)
(* prompt, the message and the task.                                          *)
ServedFits ==
  \A r \in served : r.got = r.want /\ (r.want = "AI_EVALUATE" => r.active)
=============================================================================
