---------------------------- MODULE MCWorkspace ----------------------------
(***************************************************************************)
(* The parts of the host that work on the user's files and processes, each *)
(* on a small instance: the sandbox and its pool, the terminal sessions,   *)
(* the background commands, the MCP servers, the boundary scan, the index, *)
(* the code graph, the coder's edits, the read firewall and the snapshot.  *)
(*                                                                         *)
(* They share no state, so the run is their disjoint sum: the initial      *)
(* state chooses the part in focus, whose steps are the steps of the       *)
(* behaviour.  The parts about which there are theorems have their own     *)
(* variables; those of the code graph and the edits are held in v1, v2 and *)
(* so on.                                                                  *)
(***************************************************************************)
EXTENDS Sandbox, Shell, Background, Servers, Boundary, Index, Firewall, Snapshot

VARIABLES focus, v1, v2, v3, v4, v5, v6, v7, v8, v9, v10

-----------------------------------------------------------------------------
(* The sandbox: two jobs of one session and one of another root, two        *)
(* sessions of one root, shells, jobs without a session, one container.     *)

MCSessions == {"a", "b", "c", "shared"}
MCRootOf == [s \in MCSessions |-> IF s = "b" THEN "q" ELSE "p"]
Work(k, s) == [kind |-> k, session |-> s]
MCWorkloads ==
    {[j1 |-> Work("bash", "a"), j2 |-> Work("check", "c"), j3 |-> Work("oracle", "b")],
     [j1 |-> Work("bash", "shared"), j2 |-> Work("shell", "a"), j3 |-> Work("oracle", "a")],
     [j1 |-> Work("oracle", "a"), j2 |-> Work("shell", "c"), j3 |-> Work("oracle", "b")]}

(* The boundary scan: a file of contracts, one of each side, four channels. *)
MCBoundaryFiles ==
    {[name |-> "contracts", side |-> "core", gateway |-> FALSE, declares |-> TRUE],
     [name |-> "main", side |-> "core", gateway |-> FALSE, declares |-> FALSE],
     [name |-> "panel", side |-> "extension", gateway |-> FALSE, declares |-> FALSE]}
MCChannels ==
    {[name |-> "stream_end", seam |-> "ws", prefix |-> "server"],
     [name |-> "response", seam |-> "ws", prefix |-> "client"],
     [name |-> "auth", seam |-> "ws", prefix |-> ""],
     [name |-> "run_task", seam |-> "mcp", prefix |-> ""]}

\* The index: two files, a large revision with imports and a small one without.
MCSize == [c \in {"c1", "c2"} |-> IF c = "c1" THEN "large" ELSE "small"]
MCImports == [c \in {"c1", "c2"} |-> c = "c1"]

\* The read firewall: one file of each kind, one project with rules and one without.
MCKindOf == [a |-> "text", b |-> "large", c |-> "binary", d |-> "outside", e |-> "minified"]
MCPatterns == {{}, {"a"}}
MCBuffers == {{}, {"b"}}

\* The snapshot: a clone of two files, one of which imports the other.
MCFirstTrees == {[f |-> {[root |-> "rel", name |-> "g"], [root |-> "lib", name |-> "x"]},
                  g |-> {[root |-> "module", name |-> "m"]}]}

ASSUME SandboxBounds

-----------------------------------------------------------------------------
(* The code graph: small workspaces, one or two for each language.          *)

Source(path, ext) == [at |-> path, ext |-> ext]
Statement(form, up, path, ext, members) ==
    [form |-> form, up |-> up, at |-> path, ext |-> ext, members |-> members]
Import(path) == Statement("name", 0, path, "", {})
From(path, members) == Statement("from", 0, path, "", members)
Group(path, members) == Statement("group", 0, path, "", members)
Rel(up, path, ext) == Statement("rel", up, path, ext, {})
Lib(path) == Statement("lib", 0, path, "", {})

\* Three files of one language in two directories, or two of them.
Three(ext, imports) ==
    LET a == Source(<<"core", "db">>, ext)
        b == Source(<<"app", "db">>, ext)
        c == Source(<<"app", "main">>, ext)
    IN [files |-> {a, b, c}, imports |-> imports, defines |-> {a}, mentions |-> {a, b, c}]
Two(ext, imports) ==
    LET a == Source(<<"core", "db">>, ext)
        b == Source(<<"app", "db">>, ext)
    IN [files |-> {a, b}, imports |-> imports, defines |-> {a}, mentions |-> {b}]

Python == LET i == Source(<<"core", "__init__">>, "py")
              a == Source(<<"core", "db">>, "py")
              b == Source(<<"app", "db">>, "py")
              h == Source(<<"core", "db">>, "h")
          IN [files |-> {i, a, b, h}, defines |-> {a, b}, mentions |-> {a, h},
              imports |-> {Import(<<"core", "db">>), Import(<<"db">>), From(<<"core">>, {"db"})}]
Typescript == LET i == Source(<<"core", "index">>, "ts")
                  b == Source(<<"app", "db">>, "ts")
                  m == Source(<<"app", "ui">>, "mjs")
              IN [files |-> {i, b, m}, defines |-> {i}, mentions |-> {b},
                  imports |-> {Rel(1, <<"core">>, ""), Rel(0, <<"db">>, "ts"),
                               Rel(0, <<"ui">>, "mjs"), Rel(2, <<"db">>, ""), Lib(<<"db">>)}]
Dotted == {Two(e, {Import(<<"core", "db">>), Import(<<"db">>)}) :
              e \in {"java", "kt", "cs", "lua", "hs"}}
Grouped == {Two(e, {Import(<<"core", "db">>), Group(<<"core">>, {"db", "log"})}) :
               e \in {"rs", "scala", "ex"}}
Relatives == {Two(e, {Rel(1, <<"core", "db">>, e), Rel(0, <<"db">>, ""), Lib(<<"db">>)}) :
                 e \in {"h", "rb", "zig", "sh", "ps1", "php", "dart"}}
Workspaces == {Python, Typescript, Two("go", {Import(<<"core">>)}),
               Two("swift", {Lib(<<"core">>)}),
               Three("java", {Import(<<"core", "db">>), Import(<<"main">>)}),
               Three("h", {Rel(1, <<"core", "db">>, "h"), Rel(0, <<"main">>, "h")})}
              \cup Dotted \cup Grouped \cup Relatives

Cg == INSTANCE Codegraph WITH Depth <- 2, MaxBlastEdges <- 3, MaxChanges <- 3, MaxObserved <- 1,
        ws <- v1, indexed <- v2, holds <- v3, rows <- v4, pass <- v5, settled <- v6,
        observed <- v7, changes <- v8

-----------------------------------------------------------------------------
(* The coder's edits: four lines, of which two look alike and one is short: *)
(* what the user types before it may pass for it.                           *)

Plain(w) == [word |-> w, form |-> "plain"]
Near(w) == [word |-> w, form |-> "near"]
Block(s, r, f, g) == [search |-> s, replace |-> r, fenced |-> f, glued |-> g]

Light == {"", "brief", "mine", "end"}

Ed == INSTANCE Edits WITH
        Sessions <- {"s1"}, Python <- TRUE, MaxTyped <- 1, MaxSteps <- 2,
        LightWords <- Light,
        FirstText <- <<Plain("a"), [word |-> "b", form |-> "pad"], Near("a"), Plain("end")>>,
        Blocks <- {Block(<<Plain("a")>>, <<Plain("c")>>, FALSE, TRUE),
                   Block(<<Plain("a"), Plain("b")>>, <<>>, FALSE, FALSE),
                   Block(<<Plain("b"), Near("a"), Plain("end")>>, <<Plain("b"), Plain("c")>>, TRUE, FALSE),
                   Block(<<Plain("c")>>, <<Plain("bad")>>, FALSE, FALSE),
                   Block(<<Plain("brief")>>, <<Plain("a"), Plain("a")>>, FALSE, FALSE)},
        doc <- v1, disk <- v2, ram <- v3, stage <- v4, reply <- v5, pending <- v6,
        base <- v7, draft <- v8, steps <- v9, typed <- v10

-----------------------------------------------------------------------------
(* The sum.                                                                 *)

slots == <<v1, v2, v3, v4, v5, v6, v7, v8, v9, v10>>

Past8 == v9 = 0 /\ v10 = 0
NoSlots == /\ v1 = 0 /\ v2 = 0 /\ v3 = 0 /\ v4 = 0 /\ v5 = 0 /\ v6 = 0 /\ v7 = 0 /\ v8 = 0
           /\ Past8

\* In a behaviour about another part nothing happens: one initial state will do.
Asleep ==
    /\ focus # "sandbox" => tier = "DOCKER" /\ work = CHOOSE w \in Workloads : TRUE
    /\ focus # "shell" => kind = "pty"
    /\ focus # "boundary" => quotes = [f \in BoundaryFiles |-> {}]

Parts == {"sandbox", "shell", "background", "servers", "boundary", "index", "firewall", "snapshot"}

WorkspaceInit ==
    /\ \/ focus \in Parts /\ NoSlots
       \/ focus = "codegraph" /\ Cg!GraphInit /\ Past8
       \/ focus = "edits" /\ Ed!EditsInit
    /\ Init /\ ShellInit /\ BgInit /\ ServersInit
    /\ BoundaryInit /\ IndexInit /\ FirewallInit /\ SnapshotInit
    /\ Asleep

diskVars == <<indexVars, firewallVars, snapshotVars, boundaryVars>>
procVars == <<vars, shellVars, bgVars, serversVars>>

\* The parts that work with processes.
ProcessNext ==
    \/ focus = "sandbox" /\ Next /\ UNCHANGED <<shellVars, bgVars, serversVars>>
    \/ focus = "shell" /\ ShellNext /\ UNCHANGED <<vars, bgVars, serversVars>>
    \/ focus = "background" /\ BgNext /\ UNCHANGED <<vars, shellVars, serversVars>>
    \/ focus = "servers" /\ ServersNext /\ UNCHANGED <<vars, shellVars, bgVars>>

\* The parts that work with files.
FilesNext ==
    \/ focus = "boundary" /\ BoundaryNext /\ UNCHANGED <<indexVars, firewallVars, snapshotVars>>
    \/ focus = "index" /\ IndexNext /\ UNCHANGED <<boundaryVars, firewallVars, snapshotVars>>
    \/ focus = "firewall" /\ FirewallNext /\ UNCHANGED <<boundaryVars, indexVars, snapshotVars>>
    \/ focus = "snapshot" /\ SnapshotNext /\ UNCHANGED <<boundaryVars, indexVars, firewallVars>>

SlotsNext ==
    \/ focus = "codegraph" /\ Cg!GraphNext /\ UNCHANGED <<v9, v10>>
    \/ focus = "edits" /\ Ed!EditsNext

WorkspaceNext ==
    /\ \/ ProcessNext /\ UNCHANGED <<diskVars, slots>>
       \/ FilesNext /\ UNCHANGED <<procVars, slots>>
       \/ SlotsNext /\ UNCHANGED <<procVars, diskVars>>
    /\ UNCHANGED focus

workspaceVars == <<focus, slots, procVars, diskVars>>

WorkspaceSpec == WorkspaceInit /\ [][WorkspaceNext]_workspaceVars

-----------------------------------------------------------------------------
(* What the other two parts promise, as the conjunction of the named parts  *)
(* of their modules' promises.                                              *)

\* Blast radius, dead code and symbol references agree with the imports the files
\* were indexed with, in every order of indexing, purging and analysing; only a
\* graph of more rows than MAX_BLAST_EDGES has an empty radius everywhere.
GraphAnswersAreExact ==
    focus = "codegraph" =>
        /\ Cg!ImportersAreCounted /\ Cg!RadiusIsExact /\ Cg!DeadHasNoDependents
        /\ Cg!NoCallerIsLost /\ Cg!NoOverclaim

\* A reply that was cut off yields whole edits, an edit changes its window only,
\* and the first draft of a file loses no line of the user's but one inside a window
\* that the fuzzy pass takes for the searched block (coder.py, patch_tool.py,
\* PatchActuator.ts).
FirstDraftKeepsUserLines ==
    /\ [](focus = "edits" => Ed!CutRepliesKeepWholeEdits /\ Ed!EditIsLocal)
    /\ [][focus = "edits" => Ed!FirstDraftLands]_workspaceVars
=============================================================================
