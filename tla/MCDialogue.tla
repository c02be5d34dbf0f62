----------------------------- MODULE MCDialogue -----------------------------
(***************************************************************************)
(* The parts of the host that talk to the operator and to the models, each *)
(* on a small instance: the streaming runners, the WebSocket endpoint with *)
(* its background passes, the ideation interview, the planner, the tools   *)
(* of the workers, the companion and the model settings.  The run is their *)
(* disjoint sum, as in MCWorkspace: the parts share no variable, and in    *)
(* each behaviour only the one in focus moves.                             *)
(***************************************************************************)
EXTENDS Toolbox, Endpoint, Ideation, Companion, Streams, MCPlanning, Settings, Integers

VARIABLE focus

-----------------------------------------------------------------------------
(* The constants of the parts.                                              *)

\* A chat turn, a side conversation, an inline edit, a chip and its retry.
MCRunners == {"chat", "natt1", "edit", "chip", "retry"}
MCKindOf == [r \in MCRunners |-> CASE r = "natt1" -> "natt" [] r = "retry" -> "chip"
                                   [] OTHER -> r]
MCKeyOf == [r \in MCRunners |-> IF r = "chat" THEN "session" ELSE "connection"]
MCMemOf == [r \in MCRunners |-> IF r = "chat" THEN "session" ELSE "natt"]
MCRetryOf == [r \in MCRunners |-> IF r = "retry" THEN "chip" ELSE r]

\* Two windows on one project.
MCProjectOf == [c \in {"w1", "w2"} |-> "p1"]

\* A catalog of seven schemas, one name of them shared by two families and one by
\* a family and a server, for a subagent and the coder's pre-pass.
Schema(t, roles, tier) == [tool |-> t, roles |-> roles, tier |-> tier]
MCBootSchemas == << Schema("grep", {"analyst"}, "READ_ONLY"),
                    Schema("lint", {"analyst"}, "READ_ONLY"),
                    Schema("run_tests", {"core_dev"}, "EXECUTE"),
                    Schema("tool_search", {"core_dev"}, "READ_ONLY"),
                    Schema("grep", {"core_dev"}, "READ_ONLY") >>
MCMcpSchemas == {Schema("query", {"core_dev"}, "DANGEROUS"),
                 Schema("lint", {"core_dev"}, "WRITE")}
MCFamilyTools == << Schema("grep", {"core_dev"}, "READ_ONLY"),
                    Schema("grep", {"analyst"}, "READ_ONLY"),
                    Schema("lint", {"analyst"}, "READ_ONLY") >>
MCRoleOf == [w \in {"sub", "pre"} |-> "core_dev"]

\* Two points of a task, one file in both, a cache of one entry.
MCFilesOf == [x |-> {"f", "g"}, y |-> {"g"}]

\* One plan that two sessions make for one file, saved between.
MCPlannedOnce == {MCOrdered}

\* The bodies a dashboard may PUT; Absent and "kept" stand for what it leaves out.
Phi == [prov |-> "ollama", name |-> "phi"]
Chat == [prov |-> "anthropic", name |-> "chat"]
Bare == [prov |-> "", name |-> "gpt"]
Body(e, p, a) == [endpoints |-> e, presets |-> p, active |-> a, cache |-> Absent]
MCBodies ==
    {Body([ollama |-> "", anthropic |-> "k"], Absent, "kept"),
     [Body([anthropic |-> "mask"], Absent, "kept") EXCEPT !.cache = [anthropic |-> {Chat}]],
     Body(Absent, [mine |-> [medium |-> Phi, big |-> Unset]], "kept"),
     Body(Absent, [mine |-> [medium |-> Bare, big |-> Chat]], "kept"),
     Body(Absent, Absent, "mine"),
     Body(Absent, [other |-> [medium |-> Unset, big |-> Unset]], "local")}
MCLadder == <<"medium", "big">>

ASSUME StreamsAssumption /\ EndpointAssumption /\ IdeationAssumption /\ ToolboxAssumption

-----------------------------------------------------------------------------
(* The sum.                                                                 *)

\* A part out of focus starts in one state.
Init ==
    /\ focus \in {"toolbox", "endpoint", "ideation", "companion", "streams", "planning", "settings"}
    /\ ToolboxInit /\ EndpointInit /\ IdeationInit /\ CompanionInit /\ StreamsInit
    /\ PlanningInit /\ SettingsInit
    /\ focus # "planning" => content = "old"
    /\ focus # "settings" => engine = {}

Next ==
    /\ UNCHANGED focus
    /\ IF focus = "toolbox" THEN ToolboxNext ELSE UNCHANGED toolboxVars
    /\ IF focus = "endpoint" THEN EndpointNext ELSE UNCHANGED endpointVars
    /\ IF focus = "ideation" THEN IdeationNext ELSE UNCHANGED ideationVars
    /\ IF focus = "companion" THEN CompanionNext ELSE UNCHANGED companionVars
    /\ IF focus = "streams" THEN StreamsNext ELSE UNCHANGED streamVars
    /\ IF focus = "planning" THEN PlanningNext ELSE UNCHANGED planningVars
    /\ IF focus = "settings" THEN SettingsNext ELSE UNCHANGED settingsVars

vars == <<focus, toolboxVars, endpointVars, ideationVars, companionVars, streamVars,
          planningVars, settingsVars>>

Spec == Init /\ [][Next]_vars
=============================================================================
