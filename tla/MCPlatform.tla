----------------------------- MODULE MCPlatform -----------------------------
(* The services every other component uses, side by side: the cache, the      *)
(* WebSocket channels, the AI providers and the prompt templates.  They share *)
(* no state, so a behaviour of the run is one of them, chosen at the start.   *)
EXTENDS CachedViews, LiveChannels, AiProviders, PromptTemplates, TLC

VARIABLE area
providersAndPrompts == <<providerVars, promptVars>>
mcVars == <<vars, channelVars, providersAndPrompts, area>>

-----------------------------------------------------------------------------
Scene(c, v, r, w) == [change |-> c, view |-> v, readers |-> r, writers |-> w]
OneScene == Scene("campaign", "dashboard", {"r1"}, {"w1"})
MCScenes ==
    {Scene(p[1], p[2], q[1], q[2]) :
        p \in {<<"resume", "resume">>, <<"candidate", "campaign:list">>},
        q \in {<<{"r1"}, {"w1", "w2"}>>, <<{"r1", "r2"}, {"w1"}>>}}
    \cup {OneScene}

-----------------------------------------------------------------------------
(* Two admins over no, one or two registered providers.  k1 and k3 carry no  *)
(* prefix, k2 carries groq's.                                                 *)
Admin(op, p, i, m, k) == [op |-> op, provider |-> p, row |-> i, model |-> m, key |-> k]
MCOwner == [k \in Keys |-> IF k = "k2" THEN "groq" ELSE None]

Config(p, on) == [provider |-> p, model |-> "m1", key |-> "k1", active |-> on]
MCTables == {[i \in 1 .. MaxRows |-> IF i <= Len(t) THEN t[i] ELSE NoRow] :
                t \in {<<>>, <<Config("google", TRUE)>>,
                       <<Config("google", TRUE), Config("groq", FALSE)>>}}

MCAdminRequests ==
    <<Admin("create", "openai", 0, "m1", "k1"), Admin("create", "groq", 0, "m1", "k2"),
      Admin("create", "openai", 0, "m2", "k2"),
      Admin("check", "openai", 0, "m2", "k1"), Admin("check", "groq", 0, "m2", None),
      Admin("update", "groq", 2, "m2", None), Admin("update", "groq", 2, "m1", "k3"),
      Admin("update", "google", 1, "m2", "k3"),
      Admin("activate", "groq", 2, "m1", None), Admin("activate", "google", 1, "m1", None),
      Admin("delete", "groq", 2, "m1", None), Admin("delete", "google", 1, "m1", None)>>
MCPairs == {p \in (1 .. 12) \X (1 .. 12) : p[1] <= p[2]}
MCPlans == {[a \in Admins |-> MCAdminRequests[IF a = "h1" THEN p[1] ELSE p[2]]] : p \in MCPairs}

-----------------------------------------------------------------------------
(* Two editors; pA and pB are there from the start, pC and pD can be added.   *)
MCKind == [s \in Slots |-> CASE s = "jd" -> "JD_PARSE" [] s = "resumes" -> "RESUME_PARSE"
                             [] s = "evaluation" -> "AI_EVALUATE"]
PromptReq(op, i, k, x, off, s) == [op |-> op, id |-> i, type |-> k, text |-> x, off |-> off, slot |-> s]
NewPrompt(i, x) == PromptReq("create", i, "AI_EVALUATE", x, FALSE, "jd")
EditPrompt(i, x, off) == PromptReq("edit", i, "AI_EVALUATE", x, off, "jd")
DeletePrompt(i) == PromptReq("delete", i, "AI_EVALUATE", Nobody, FALSE, "jd")
PickPrompt(i, s) == PromptReq("choose", i, "AI_EVALUATE", Nobody, FALSE, s)
Stored(k, x, on) == [type |-> k, text |-> x, active |-> on]

MCPromptRequests(e) ==
    {NewPrompt(IF e = "e1" THEN "pC" ELSE "pD", "x2"), EditPrompt("pA", "x2", FALSE),
     EditPrompt("pA", Nobody, TRUE), EditPrompt("pB", "x1", TRUE), DeletePrompt("pA"),
     PickPrompt("pA", "resumes"), PickPrompt("pA", "evaluation"), PickPrompt("pA", "jd"),
     PickPrompt("pB", "evaluation")}
MCEdits ==
    {[ask |-> [e \in Editors |-> f[e]],
      prompts |-> [i \in PromptIds |-> CASE i = "pA" -> Stored(k, "x1", TRUE)
                                         [] i = "pB" -> Stored("AI_EVALUATE", y, TRUE)
                                         [] OTHER -> NoPrompt]] :
        f \in {g \in [Editors -> UNION {MCPromptRequests(e) : e \in Editors}] :
                 \A e \in Editors : g[e] \in MCPromptRequests(e)},
        k \in {"JD_PARSE", "RESUME_PARSE", "AI_EVALUATE"}, y \in {"x2", "x3"}}

-----------------------------------------------------------------------------
MCInit ==
    /\ area \in {"cache", "channel", "providers", "prompts"}
    /\ Init /\ (area # "cache" => focus = OneScene)
    /\ ChannelInit /\ (area # "channel" => kind = "board")
    /\ ProvidersInit
    /\ area # "providers" => /\ plan = [a \in Admins |-> Admin("create", "openai", 0, "m1", "k1")]
                             /\ Registered = {}
    /\ PromptsInit
    /\ area # "prompts" => /\ edits.prompts["pA"].type = "JD_PARSE" /\ edits.prompts["pB"].text = "x3"
                           /\ edits.ask = [e \in Editors |-> DeletePrompt("pA")]

MCNext ==
    /\ UNCHANGED area
    /\ \/ area = "cache" /\ CachedNext /\ UNCHANGED <<channelVars, providersAndPrompts>>
       \/ area = "channel" /\ ChannelNext /\ UNCHANGED <<vars, providersAndPrompts>>
       \/ area = "providers" /\ ProvidersNext /\ UNCHANGED <<vars, channelVars, promptVars>>
       \/ area = "prompts" /\ PromptsNext /\ UNCHANGED <<vars, channelVars, providerVars>>

InChannel(A) == area = "channel" /\ A /\ UNCHANGED <<vars, providersAndPrompts, area>>

MCFairSpec ==
    /\ MCInit /\ [][MCNext]_mcVars
    /\ WF_mcVars(InChannel(Subscribed)) /\ WF_mcVars(InChannel(Retry))
=============================================================================
