----------------------------- MODULE Workspace -----------------------------
(***************************************************************************)
(* The `bt` tool (bin/bt.rs) over a workspace with one project: several bt *)
(* processes initialise, run and sweep it while its author edits the       *)
(* strategy.  What they share is the file system: bt.toml, the files of    *)
(* the strategy crate with their modification times, the binary that cargo *)
(* left under target/, and one output directory per run.                   *)
(*                                                                         *)
(* bt builds the binary that runs a strategy only when a modification time *)
(* says so, and learns what strategies and parameters the crate declares   *)
(* from two earlier runs of cargo; the crate can change between any two of *)
(* these steps.  A text of the strategy source is a member of Codes, which *)
(* says whether it compiles and what it declares.  Time is a counter that  *)
(* advances with every write, so no two files have the same time.          *)
(***************************************************************************)
EXTENDS Sweep, TLC

CONSTANTS
    Procs,         \* bt processes
    Codes,         \* texts of the strategy source; Template is what `bt project init` writes
    Template,
    Compiles,      \* the texts that compile
    Declares,      \* text -> (strategy id -> (parameter -> [values, required]))
    Builtins,      \* known_stage1_strategies()
    Tomls,         \* contents of bt.toml an author may write
    TemplateToml,  \* the one `bt project init` writes
    Commands,      \* command lines of `bt run`
    Environment,   \* the BT_ variables: a layer like a command line
    DataFiles,     \* data paths that exist
    None,          \* an option that is not given
    MaxTime        \* bound: no edit, and no new command, after this time

VARIABLES
    now,       \* the time of the last write
    manifest,  \* .bt/workspace.toml exists
    files,     \* file of the project -> time of its last write, 0 if it is not there
    toml,      \* what bt.toml says
    code,      \* the text of the strategy source
    binary,    \* a set: the bt_run_project that cargo left, if any
    reports,   \* the output directories of the project -> holds a report.json
    proc       \* each bt process: what it is doing and what it has found out

vars == <<now, manifest, files, toml, code, binary, reports, proc, sweep>>
project == <<manifest, files, toml, code, binary, reports>>

SourceFiles == {"lib", "lists", "main"}
WriteOrder == <<"toml", "cargo", "lib", "lists", "main">>
NoFiles == [f \in {"root"} \cup Range(WriteOrder) |-> 0]    \* root: the directory itself
ProjectExists == files["root"] > 0

Idle == [pc |-> "idle", since |-> 0, cli |-> {}, toml |-> {}, strategy |-> None,
         ids |-> {}, params |-> << >>, building |-> {}, started |-> 0, ran |-> {}, todo |-> << >>]

At(p, pc) == proc[p].pc = pc
Turn(p, pc) == proc' = [proc EXCEPT ![p].pc = pc]

Init ==
    /\ manifest \in BOOLEAN
    /\ IF manifest
       THEN files = [f \in DOMAIN NoFiles |-> 1]    \* a project made earlier
       ELSE files = NoFiles
    /\ now = 1 /\ toml = TemplateToml /\ code = Template /\ binary = {}
    /\ reports = << >> /\ proc = [p \in Procs |-> Idle] /\ sweep = NoSweep

-----------------------------------------------------------------------------
(* Pure parts.                                                             *)

\* First(layers): the option of the first layer that gives one.
First(layers) ==
    IF \E i \in DOMAIN layers : layers[i] # None
    THEN layers[Min({i \in DOMAIN layers : layers[i] # None})] ELSE None

\* Default(x, d): x, or d when it is not given.
Default(x, d) == IF x = None THEN d ELSE x

\* MergedParams(cli, env, file): a later layer replaces the value of an earlier one.
MergedParams(cli, env, file) == cli @@ env @@ file

\* ValidParams(id, params, declared): what validate_strategy_params accepts.
\* A strategy without declared parameters is given any.
ValidParams(id, params, declared) ==
    (id \in DOMAIN declared /\ DOMAIN declared[id] # {}) =>
        /\ DOMAIN params \subseteq DOMAIN declared[id]
        /\ \A k \in DOMAIN declared[id] : declared[id][k].required => k \in DOMAIN params
        /\ \A k \in DOMAIN params : params[k] \in declared[id][k].values

\* KnownIds(declared, fallback): the ids a run may name; declared ones hide
\* those of the engine.
KnownIds(declared, fallback) ==
    IF DOMAIN declared # {} THEN DOMAIN declared
    ELSE IF fallback THEN Builtins ELSE {}

\* NewestSource: newest_mtime_recursive over strategy/src.
NewestSource == Max({files[f] : f \in SourceFiles})

\* RebuildOnManifestOnly: the rebuild test without the look into src/.
RebuildOnManifestOnly == \/ binary = {}
                         \/ \E b \in binary : files["cargo"] > b.at

\* BinaryNeedsRebuild: the binary is missing, or older than a file of the crate.
BinaryNeedsRebuild ==
    \/ binary = {}
    \/ \E b \in binary : files["cargo"] > b.at \/ NewestSource > b.at

\* Discovery: what `cargo run --bin bt_list_strategies` makes known: nothing
\* without a manifest, a failure when the crate is not whole or does not
\* compile (cargo itself rebuilds whatever it finds changed).
CrateIsWhole == \A f \in SourceFiles \cup {"cargo"} : files[f] > 0
DiscoveryFails == files["cargo"] > 0 /\ ~(CrateIsWhole /\ code \in Compiles)
Discovered == IF files["cargo"] = 0 THEN << >> ELSE Declares[code]

\* Ensured: the cache server may or may not have the data for bt.
Ensured == BOOLEAN

\* The engine reads a subcommand first (main.rs); bt gives it this.
Subcommands == {"run", "sweep"}
BuiltinArgs == <<"--strategy", "--data-dir", "--log-file", "--report-path",
                 "--start-date", "--end-date", "--log-time-mode">>
EngineAccepts(args) == Head(args) \in Subcommands

-----------------------------------------------------------------------------
(* The author, and bt workspace init and bt project init.                  *)

\* EditCode, EditToml: the author writes the strategy source, or bt.toml.
EditCode ==
    /\ now < MaxTime /\ files["lib"] > 0
    /\ \E c \in Codes \ {code} : code' = c
    /\ now' = now + 1 /\ files' = [files EXCEPT !["lib"] = now']
    /\ UNCHANGED <<manifest, toml, binary, reports, proc, sweep>>

EditToml ==
    /\ now < MaxTime /\ files["toml"] > 0
    /\ \E t \in Tomls \ {toml} : toml' = t
    /\ now' = now + 1 /\ files' = [files EXCEPT !["toml"] = now']
    /\ UNCHANGED <<manifest, code, binary, reports, proc, sweep>>

\* WorkspaceInit(p, force): the manifest is the last thing it writes.
WorkspaceInit(p, force) ==
    /\ At(p, "idle") /\ now < MaxTime
    /\ IF manifest /\ ~force THEN Turn(p, "failed") /\ UNCHANGED manifest
       ELSE Turn(p, "ok") /\ manifest' = TRUE
    /\ UNCHANGED <<now, files, toml, code, binary, reports, sweep>>

\* InitBegins(p, force): --force removes the project with its target and its
\* backtests (bound: in one step) before anything is written.
InitBegins(p, force) ==
    /\ At(p, "idle") /\ now < MaxTime
    /\ IF ~manifest \/ (ProjectExists /\ ~force)
       THEN Turn(p, "failed") /\ UNCHANGED <<files, binary, reports>>
       ELSE /\ proc' = [proc EXCEPT ![p].pc = "init", ![p].todo = WriteOrder]
            /\ files' = [NoFiles EXCEPT !["root"] = 1] /\ binary' = {} /\ reports' = << >>
    /\ UNCHANGED <<now, manifest, toml, code, sweep>>

\* InitWrites(p): the next file of the scaffold.
InitWrites(p) ==
    /\ At(p, "init")
    /\ LET f == Head(proc[p].todo)
       IN  /\ now' = now + 1 /\ files' = [files EXCEPT ![f] = now']
           /\ toml' = IF f = "toml" THEN TemplateToml ELSE toml
           /\ code' = IF f = "lib" THEN Template ELSE code
           /\ proc' = [proc EXCEPT ![p].todo = Tail(@),
                                   ![p].pc = IF Len(proc[p].todo) = 1 THEN "ok" ELSE "init"]
    /\ UNCHANGED <<manifest, binary, reports, sweep>>

-----------------------------------------------------------------------------
(* bt run and bt sweep.                                                    *)

\* RunBegins(p), SweepCommand(p): the workspace and the project are found.
Begins(p, given) ==
    /\ At(p, "idle") /\ now < MaxTime
    /\ IF manifest /\ ProjectExists
       THEN proc' = [proc EXCEPT ![p].pc = "begun", ![p].since = now, ![p].cli = given]
       ELSE Turn(p, "failed")
    /\ UNCHANGED <<now, project, sweep>>

RunBegins(p) == \E cli \in Commands : Begins(p, {cli})
SweepCommand(p) == sweep.stage = "none" /\ Begins(p, {})

\* LoadsToml(p): the strategy is chosen; a run makes its output directory
\* before it knows whether the strategy exists.
LoadsToml(p) ==
    /\ At(p, "begun")
    /\ IF files["toml"] = 0 THEN Turn(p, "failed") /\ UNCHANGED reports
       ELSE /\ proc' = [proc EXCEPT ![p].pc = "ids", ![p].toml = {toml},
                 ![p].strategy = IF proc[p].cli = {} THEN Default(toml.strategy, "random")
                                 ELSE LET cli == CHOOSE c \in proc[p].cli : TRUE
                                      IN  Default(First(<<cli.strategy, Environment.strategy,
                                                          toml.strategy>>), "random")]
            /\ reports' = IF proc[p].cli = {} THEN reports ELSE (p :> FALSE) @@ reports
    /\ UNCHANGED <<now, manifest, files, toml, code, binary, sweep>>

\* DiscoversIds(p): the strategy must be one that the crate declares now.
DiscoversIds(p) ==
    /\ At(p, "ids")
    /\ \E t \in proc[p].toml :
          LET known == KnownIds(Discovered, t.fallback)
          IN  IF DiscoveryFails \/ proc[p].strategy \notin known THEN Turn(p, "failed")
              ELSE proc' = [proc EXCEPT ![p].pc = "checks", ![p].ids = known]
    /\ UNCHANGED <<now, project, sweep>>

\* ChecksSweep(p), ChecksRun(p): the parameters against what the crate
\* declares by now, the data, the dates, and the answer of the cache server.
ChecksSweep(p) ==
    /\ At(p, "checks") /\ proc[p].cli = {}
    /\ \E t \in proc[p].toml, file \in SweepFiles, ensured \in Ensured :
          IF ~DiscoveryFails /\ ValidParams(proc[p].strategy, t.params, Discovered)
                /\ sweep.stage = "none" /\ file.dates /\ ensured
          THEN SweepBegins(file) /\ Turn(p, "sweeping")
          ELSE Turn(p, "failed") /\ UNCHANGED sweep
    /\ UNCHANGED <<now, project>>

ChecksRun(p) ==
    /\ At(p, "checks")
    /\ \E t \in proc[p].toml, cli \in proc[p].cli, ensured \in Ensured :
          LET params == MergedParams(cli.params, Environment.params, t.params)
              data == First(<<cli.data, Environment.data, t.data>>)
              start == First(<<cli.start, Environment.start, t.start>>)
              end == First(<<cli.end, Environment.end, t.end>>)
          IN  IF /\ ~DiscoveryFails /\ ValidParams(proc[p].strategy, params, Discovered)
                 /\ Default(data, "sample") \in DataFiles
                 /\ {start, end} \cap {None, "blank"} = {} /\ ensured
              THEN proc' = [proc EXCEPT ![p].pc = "launch", ![p].params = params]
              ELSE Turn(p, "failed")
    /\ UNCHANGED <<now, project, sweep>>

\* LaunchesBuiltin(p): a name of the engine's own is left to the engine,
\* also when the crate declares it.
LaunchesBuiltin(p) ==
    /\ At(p, "launch") /\ proc[p].strategy \in Builtins
    /\ IF EngineAccepts(BuiltinArgs) THEN Turn(p, "engine") ELSE Turn(p, "refused")
    /\ UNCHANGED <<now, project, sweep>>

\* LaunchesProject(p): the binary is run as it is unless its age says otherwise.
LaunchesProject(p) ==
    /\ At(p, "launch") /\ proc[p].strategy \notin Builtins
    /\ IF files["cargo"] = 0 THEN Turn(p, "failed")
       ELSE Turn(p, IF Environment.force \/ BinaryNeedsRebuild THEN "build" ELSE "execute")
    /\ UNCHANGED <<now, project, sweep>>

\* CargoBegins(p), CargoEnds(p): cargo holds the lock of target/ while it
\* builds, reads the source when it begins and puts the binary there when
\* it ends.
CargoBegins(p) ==
    /\ At(p, "build") /\ \A q \in Procs : ~At(q, "building")
    /\ IF CrateIsWhole /\ code \in Compiles
       THEN proc' = [proc EXCEPT ![p].pc = "building", ![p].started = now,
                                   ![p].building = {code}]
       ELSE Turn(p, "failed")
    /\ UNCHANGED <<now, project, sweep>>

CargoEnds(p) ==
    /\ At(p, "building")
    /\ IF files["cargo"] = 0 \/ files["cargo"] > proc[p].started   \* the crate was removed
       THEN Turn(p, "failed") /\ UNCHANGED <<now, binary>>
       ELSE /\ now' = now + 1
            /\ binary' = {[code |-> c, started |-> proc[p].started, at |-> now'] :
                              c \in proc[p].building}
            /\ proc' = [proc EXCEPT ![p].pc = "execute", ![p].building = {}]
    /\ UNCHANGED <<manifest, files, toml, code, reports, sweep>>

\* Executes(p): whatever binary is there by now is started.
Executes(p) ==
    /\ At(p, "execute") /\ binary # {}
    /\ proc' = [proc EXCEPT ![p].pc = "engine", ![p].ran = binary]
    /\ UNCHANGED <<now, project, sweep>>

\* EngineEnds(p): the program panics when the cache server no longer has the
\* data, when its code has no strategy of that name, or when the output
\* directory is gone; bt only warns when it cannot read the report back.
EngineEnds(p) ==
    /\ At(p, "engine")
    /\ \E ensured \in Ensured :
          IF /\ ensured /\ p \in DOMAIN reports
             /\ \A b \in proc[p].ran : proc[p].strategy \in DOMAIN Declares[b.code]
          THEN Turn(p, "ok") /\ reports' = [reports EXCEPT ![p] = TRUE]
          ELSE Turn(p, "failed") /\ UNCHANGED reports
    /\ UNCHANGED <<now, manifest, files, toml, code, binary, sweep>>

\* ExecutableGone(p): the project was removed under the run.
ExecutableGone(p) ==
    /\ At(p, "execute") /\ binary = {} /\ Turn(p, "failed")
    /\ UNCHANGED <<now, project, sweep>>

\* SweepRuns, SweepEnds(p): the engine's sweep, and its exit.
SweepRuns ==
    /\ OneRun \/ Summarise
    /\ UNCHANGED <<now, project, proc>>

SweepEnds(p) ==
    /\ At(p, "sweeping") /\ sweep.stage \in {"summarised", "panicked"}
    /\ Turn(p, IF sweep.stage = "summarised" THEN "ok" ELSE "failed")
    /\ UNCHANGED <<now, project, sweep>>

\* Killed(p): bt, with the cargo it started, is interrupted.
Killed(p) ==
    /\ proc[p].pc \notin {"idle", "ok", "failed", "refused", "sweeping"}
    /\ Turn(p, "failed")
    /\ UNCHANGED <<now, project, sweep>>

Command(p) ==
    \/ \E force \in BOOLEAN : WorkspaceInit(p, force) \/ InitBegins(p, force)
    \/ InitWrites(p) \/ RunBegins(p) \/ SweepCommand(p)
    \/ LoadsToml(p) \/ DiscoversIds(p) \/ ChecksSweep(p) \/ ChecksRun(p)
    \/ LaunchesBuiltin(p) \/ LaunchesProject(p) \/ CargoBegins(p) \/ CargoEnds(p)
    \/ Executes(p) \/ ExecutableGone(p) \/ EngineEnds(p) \/ SweepEnds(p) \/ Killed(p)

Next == EditCode \/ EditToml \/ SweepRuns \/ \E p \in Procs : Command(p)

Spec == Init /\ [][Next]_vars

-----------------------------------------------------------------------------
(* Properties.                                                             *)

\* RunsWhatItChecked: while the strategy is as it was when a run began, the
\* binary it executes was built from the source on disk, the one its id and
\* parameters were checked against, or that source was saved while the binary
\* was being built (which the times cannot tell); and the parameters given are
\* among those the source declares.
RunsWhatItChecked ==
    \A p \in Procs : (proc[p].pc \in {"engine", "ok"} /\ files["lib"] \in 1 .. proc[p].since) =>
        \A b \in proc[p].ran :
            \/ b.started < files["lib"] /\ files["lib"] < b.at
            \/ /\ b.code = code
               /\ proc[p].strategy \in DOMAIN Declares[code]
               /\ ValidParams(proc[p].strategy, proc[p].params, Declares[code])

\* AcceptedRunsReport: a run whose inputs were all accepted is not turned away
\* by the engine it is handed to (docs: bt uses opt_bt for built-in engine runs).
AcceptedRunsReport == \A p \in Procs : ~At(p, "refused")
=============================================================================
