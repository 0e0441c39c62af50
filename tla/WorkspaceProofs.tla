-------------------------- MODULE WorkspaceProofs --------------------------
(***************************************************************************)
(* What the bt command does.  A binary that it starts is the one its       *)
(* checks were about, for any number of bt processes, any texts of the     *)
(* strategy and any bt.toml, whatever the author saves and whichever       *)
(* process is killed meanwhile; a sweep covers its grid, for any lists of  *)
(* values; and a slice shows what the file says, however long the file,    *)
(* because both views of the data do.                                      *)
(***************************************************************************)
EXTENDS Workspace, MarketStore, TLAPS, SequenceTheorems, FiniteSetTheorems,
        WellFoundedInduction

-----------------------------------------------------------------------------
(* The invariant.                                                           *)

ProjectFiles == DOMAIN NoFiles

(* What the times and the lists of the model are.                           *)
TimesOK ==
  /\ now \in Nat \ {0}
  /\ files \in [ProjectFiles -> Nat] /\ \A f \in ProjectFiles : files[f] <= now
  /\ \A b \in binary : /\ b.started \in Nat /\ b.at \in Nat
                       /\ b.started < b.at /\ b.at <= now

IsProc(r) ==
  r = [pc |-> r.pc, since |-> r.since, cli |-> r.cli, toml |-> r.toml,
       strategy |-> r.strategy, ids |-> r.ids, params |-> r.params,
       building |-> r.building, started |-> r.started, ran |-> r.ran, todo |-> r.todo]

ProcOK(p) ==
  /\ proc[p].since \in Nat /\ proc[p].since <= now
  /\ proc[p].started \in Nat /\ proc[p].started <= now
  /\ proc[p].todo \in Seq(ProjectFiles)
  /\ At(p, "init") => proc[p].todo # << >>
  /\ proc[p].ran # {} => proc[p].pc \in {"engine", "ok", "failed"}

(* A source saved between two times may be in the binary that was built     *)
(* between them, or not: nothing can tell.                                  *)
BuiltOf(text, started, at) ==
  \/ started < files["lib"] /\ files["lib"] < at
  \/ files["lib"] <= started /\ text = code

(* The binary is older than the source, or built of it.                     *)
BinaryKnown ==
  \A b \in binary : /\ files["lib"] # 0
                    /\ files["lib"] > b.at \/ BuiltOf(b.code, b.started, b.at)

(* While cargo builds, the crate was removed, or the source is the text     *)
(* that cargo read, or was saved since.                                     *)
BuildKnown(p) ==
  At(p, "building") =>
    \/ files["cargo"] = 0 \/ files["cargo"] > proc[p].started
    \/ /\ files["lib"] # 0
       /\ files["lib"] > proc[p].started \/ proc[p].building = {code}

(* The strategy has not been saved, or removed, since the command began.    *)
Untouched(p) == files["lib"] \in 1 .. proc[p].since

(* What a process has made sure of, as long as the strategy is untouched.   *)
IdDeclared(p) == files["cargo"] # 0 /\ proc[p].strategy \in DOMAIN Declares[code]

ParamsDeclared(p) ==
  /\ proc[p].strategy \in DOMAIN Declares[code]
  /\ ValidParams(proc[p].strategy, proc[p].params, Declares[code])

Launching == {"build", "building", "execute"}

Checked(p) ==
  /\ At(p, "checks") /\ proc[p].strategy \notin Builtins => IdDeclared(p)
  /\ At(p, "launch") /\ proc[p].strategy \notin Builtins => ParamsDeclared(p)
  /\ proc[p].pc \in Launching => ParamsDeclared(p)
  /\ At(p, "execute") => \A b \in binary : files["lib"] <= b.at
  /\ \A b \in proc[p].ran : /\ BuiltOf(b.code, b.started, b.at)
                            /\ ParamsDeclared(p)

ProcInv(p) == ProcOK(p) /\ BuildKnown(p) /\ (Untouched(p) => Checked(p))

ProcsOK == proc = [p \in Procs |-> proc[p]] /\ \A p \in Procs : IsProc(proc[p])

WorkspaceInv == /\ TimesOK /\ ProcsOK /\ BinaryKnown
                /\ \A p \in Procs : ProcInv(p)

LEMMA TheFiles == /\ ProjectFiles = {"root", "toml", "cargo", "lib", "lists", "main"}
                  /\ NoFiles = [f \in ProjectFiles |-> 0]
<1>1. Range(WriteOrder) = {"toml", "cargo", "lib", "lists", "main"}
  <2>1. DOMAIN WriteOrder = 1 .. 5
    BY DEF WriteOrder
  <2>2. Range(WriteOrder) = {WriteOrder[i] : i \in 1 .. 5}
    BY <2>1 DEF Range
  <2>. QED
    BY <2>2 DEF WriteOrder
<1>. QED
  BY <1>1 DEF ProjectFiles, NoFiles

(* The newest of the source files is no older than lib.rs.                  *)
LEMMA NewestIsNewest == TimesOK => NewestSource \in Nat /\ NewestSource >= files["lib"]
<1>. SUFFICES ASSUME TimesOK PROVE NewestSource \in Nat /\ NewestSource >= files["lib"]
  OBVIOUS
<1>. DEFINE T == {files[f] : f \in SourceFiles}
<1>1. files["lib"] \in Nat /\ files["lists"] \in Nat /\ files["main"] \in Nat
  BY TheFiles DEF TimesOK
<1>2. T = {files["lib"], files["lists"], files["main"]}
  BY DEF SourceFiles
<1>3. \E x \in T : \A y \in T : x >= y
  <2>. DEFINE a == files["lib"]
              b == files["lists"]
              c == files["main"]
  <2>1. T = {a, b, c} /\ a \in Nat /\ b \in Nat /\ c \in Nat
    BY <1>1, <1>2
  <2>. HIDE DEF T, a, b, c
  <2>2. CASE a >= b /\ a >= c
    BY <2>1, <2>2
  <2>3. CASE b >= a /\ b >= c
    BY <2>1, <2>3
  <2>4. CASE c >= a /\ c >= b
    BY <2>1, <2>4
  <2>. QED
    BY <2>1, <2>2, <2>3, <2>4
<1>4. NewestSource = CHOOSE x \in T : \A y \in T : x >= y
  BY DEF NewestSource, Max
<1>5. NewestSource \in T /\ \A y \in T : NewestSource >= y
  <2>. HIDE DEF T
  <2>. QED
    BY <1>3, <1>4
<1>. QED
  BY <1>1, <1>2, <1>5

-----------------------------------------------------------------------------
(* Initially, nothing is built and nobody has begun.                        *)

LEMMA InitKnown == Init => WorkspaceInv
<1>. SUFFICES ASSUME Init PROVE WorkspaceInv
  OBVIOUS
<1>1. TimesOK
  BY TheFiles DEF Init, TimesOK
<1>2. ProcsOK
  BY DEF Init, ProcsOK, IsProc, Idle
<1>3. ASSUME NEW p \in Procs PROVE ProcInv(p)
  <2>1. /\ proc[p].pc = "idle" /\ proc[p].since = 0 /\ proc[p].started = 0
        /\ proc[p].ran = {} /\ proc[p].todo = << >>
    BY DEF Init, Idle
  <2>. QED
    BY <1>1, <2>1 DEF ProcInv, ProcOK, TimesOK, BuildKnown, Untouched, Checked, At, Launching
<1>. QED
  BY <1>1, <1>2, <1>3 DEF WorkspaceInv, BinaryKnown, Init

-----------------------------------------------------------------------------
(* Steps that leave the sources and the binary alone.                       *)

Quiet == UNCHANGED <<now, files, code, binary>>

(* A process whose record is not touched knows what it knew.                *)
LEMMA OthersKeep ==
  ASSUME NEW q \in Procs, ProcInv(q), Quiet, proc'[q] = proc[q]
  PROVE  ProcInv(q)'
  BY DEF ProcInv, ProcOK, BuildKnown, Untouched, Checked, IdDeclared,
         ParamsDeclared, BuiltOf, At, Quiet

LEMMA QuietStep ==
  ASSUME WorkspaceInv, Quiet, NEW p \in Procs, ProcsOK', ProcInv(p)',
         \A q \in Procs \ {p} : proc'[q] = proc[q]
  PROVE  WorkspaceInv'
<1>1. TimesOK' /\ BinaryKnown'
  BY DEF WorkspaceInv, Quiet, TimesOK, BinaryKnown, BuiltOf
<1>2. ASSUME NEW q \in Procs PROVE ProcInv(q)'
  BY <1>2, OthersKeep DEF WorkspaceInv
<1>. QED
  BY <1>1, <1>2 DEF WorkspaceInv

(* What a process found out and what it builds.                             *)
SameKnowledge(p) ==
  /\ proc'[p].since = proc[p].since /\ proc'[p].cli = proc[p].cli
  /\ proc'[p].toml = proc[p].toml /\ proc'[p].strategy = proc[p].strategy
  /\ proc'[p].ids = proc[p].ids /\ proc'[p].params = proc[p].params
  /\ proc'[p].building = proc[p].building /\ proc'[p].started = proc[p].started
  /\ proc'[p].ran = proc[p].ran /\ proc'[p].todo = proc[p].todo

LEMMA TurnFacts ==
  ASSUME ProcsOK, NEW p \in Procs, NEW pc, Turn(p, pc)
  PROVE  /\ ProcsOK' /\ proc'[p].pc = pc /\ SameKnowledge(p)
         /\ \A q \in Procs \ {p} : proc'[q] = proc[q]
<1>1. proc' = [q \in Procs |-> IF q = p THEN [proc[p] EXCEPT !.pc = pc] ELSE proc[q]]
  BY DEF ProcsOK, Turn
<1>2. proc'[p] = [proc[p] EXCEPT !.pc = pc] /\ IsProc(proc[p])
  BY <1>1 DEF ProcsOK
<1>3. proc'[p].pc = pc /\ SameKnowledge(p) /\ IsProc(proc'[p])
  BY <1>2 DEF SameKnowledge, IsProc
<1>. QED
  BY <1>1, <1>3 DEF ProcsOK

LEMMA OneMoves ==
  ASSUME ProcsOK, NEW p \in Procs, NEW r, IsProc(r),
         proc' = [q \in Procs |-> IF q = p THEN r ELSE proc[q]]
  PROVE  ProcsOK' /\ proc'[p] = r /\ \A q \in Procs \ {p} : proc'[q] = proc[q]
  BY DEF ProcsOK

(* A process that ends, or hands over to the engine or to the sweep.        *)
LEMMA EndsQuietly ==
  ASSUME WorkspaceInv, Quiet, NEW p \in Procs, NEW pc, Turn(p, pc),
         pc \in {"ok", "failed", "refused", "sweeping", "engine"},
         proc[p].ran # {} => pc \in {"ok", "failed", "engine"}
  PROVE  WorkspaceInv'
<1>1. /\ ProcsOK' /\ proc'[p].pc = pc /\ SameKnowledge(p)
      /\ \A q \in Procs \ {p} : proc'[q] = proc[q]
  BY TurnFacts DEF WorkspaceInv
<1>2. ProcInv(p)
  BY DEF WorkspaceInv
<1>3. ProcInv(p)'
  BY <1>1, <1>2 DEF ProcInv, ProcOK, BuildKnown, Untouched, Checked, IdDeclared,
       ParamsDeclared, BuiltOf, At, Quiet, SameKnowledge, Launching
<1>. QED
  BY <1>1, <1>3, QuietStep

-----------------------------------------------------------------------------
(* A run is begun, and its strategy chosen.                                 *)

LEMMA BeginsKnown ==
  ASSUME WorkspaceInv, NEW p \in Procs, NEW given, Begins(p, given)
  PROVE  WorkspaceInv'
<1>1. Quiet /\ At(p, "idle") /\ ProcInv(p) /\ ProcsOK /\ IsProc(proc[p]) /\ TimesOK
  BY DEF Begins, Quiet, project, WorkspaceInv, ProcsOK
<1>2. CASE manifest /\ ProjectExists
  <2>1. PICK r : /\ r = [proc[p] EXCEPT !.pc = "begun", !.since = now, !.cli = given]
                 /\ proc' = [q \in Procs |-> IF q = p THEN r ELSE proc[q]]
    BY <1>1, <1>2 DEF Begins, ProcsOK
  <2>2. /\ IsProc(r) /\ r.pc = "begun" /\ r.since = now
        /\ r.started = proc[p].started /\ r.todo = proc[p].todo
        /\ r.ran = proc[p].ran
    BY <1>1, <2>1 DEF IsProc
  <2>3. /\ ProcsOK' /\ proc'[p] = r
        /\ \A q \in Procs \ {p} : proc'[q] = proc[q]
    BY <1>1, <2>1, <2>2, OneMoves
  <2>4. ProcInv(p)'
    BY <1>1, <2>2, <2>3 DEF ProcInv, ProcOK, TimesOK, BuildKnown, Checked, At, Quiet, Launching
  <2>. QED
    BY <1>1, <2>3, <2>4, QuietStep
<1>3. CASE ~(manifest /\ ProjectExists)
  <2>1. Turn(p, "failed")
    BY <1>3 DEF Begins
  <2>. QED
    BY <1>1, <2>1, EndsQuietly
<1>. QED
  BY <1>2, <1>3

LEMMA LoadsTomlKnown ==
  ASSUME WorkspaceInv, NEW p \in Procs, LoadsToml(p)
  PROVE  WorkspaceInv'
<1>1. Quiet /\ At(p, "begun") /\ ProcInv(p) /\ ProcsOK /\ IsProc(proc[p]) /\ TimesOK
  BY DEF LoadsToml, Quiet, WorkspaceInv, ProcsOK
<1>2. CASE files["toml"] = 0
  <2>1. Turn(p, "failed")
    BY <1>2 DEF LoadsToml
  <2>. QED
    BY <1>1, <2>1, EndsQuietly
<1>3. CASE files["toml"] # 0
  <2>0. PICK s : proc' = [proc EXCEPT ![p].pc = "ids", ![p].toml = {toml}, ![p].strategy = s]
    BY <1>3 DEF LoadsToml
  <2>1. PICK r : /\ r = [proc[p] EXCEPT !.pc = "ids", !.toml = {toml}, !.strategy = s]
                 /\ proc' = [q \in Procs |-> IF q = p THEN r ELSE proc[q]]
    BY <1>1, <2>0 DEF ProcsOK
  <2>2. /\ IsProc(r) /\ r.pc = "ids" /\ r.since = proc[p].since
        /\ r.started = proc[p].started /\ r.todo = proc[p].todo
        /\ r.ran = proc[p].ran
    BY <1>1, <2>1 DEF IsProc
  <2>3. /\ ProcsOK' /\ proc'[p] = r
        /\ \A q \in Procs \ {p} : proc'[q] = proc[q]
    BY <1>1, <2>1, <2>2, OneMoves
  <2>4. ProcInv(p)'
    BY <1>1, <2>2, <2>3 DEF ProcInv, ProcOK, BuildKnown, Checked, At, Quiet, Launching
  <2>. QED
    BY <1>1, <2>3, <2>4, QuietStep
<1>. QED
  BY <1>2, <1>3

-----------------------------------------------------------------------------
(* What a run checks.                                                       *)

(* The id is known because the crate declares it, or it is an engine's.     *)
LEMMA IdKnown ==
  ASSUME NEW id, NEW fallback, id \in KnownIds(Discovered, fallback), id \notin Builtins
  PROVE  files["cargo"] # 0 /\ id \in DOMAIN Declares[code]
<1>1. id \in DOMAIN Discovered
  BY DEF KnownIds
<1>2. files["cargo"] # 0
  BY <1>1 DEF Discovered
<1>. QED
  BY <1>1, <1>2 DEF Discovered

LEMMA DiscoversIdsKnown ==
  ASSUME WorkspaceInv, NEW p \in Procs, DiscoversIds(p)
  PROVE  WorkspaceInv'
<1>1. Quiet /\ At(p, "ids") /\ ProcInv(p) /\ ProcsOK /\ IsProc(proc[p])
  BY DEF DiscoversIds, Quiet, project, WorkspaceInv, ProcsOK
<1>2. CASE Turn(p, "failed")
  BY <1>1, <1>2, EndsQuietly
<1>3. CASE ~Turn(p, "failed")
  <2>1. PICK known, fallback :
          /\ known = KnownIds(Discovered, fallback) /\ proc[p].strategy \in known
          /\ proc' = [proc EXCEPT ![p].pc = "checks", ![p].ids = known]
    BY <1>3 DEF DiscoversIds
  <2>2. PICK r : /\ r = [proc[p] EXCEPT !.pc = "checks", !.ids = known]
                 /\ proc' = [q \in Procs |-> IF q = p THEN r ELSE proc[q]]
    BY <1>1, <2>1 DEF ProcsOK
  <2>3. /\ IsProc(r) /\ r.pc = "checks" /\ r.since = proc[p].since
        /\ r.strategy = proc[p].strategy
        /\ r.started = proc[p].started /\ r.todo = proc[p].todo
        /\ r.ran = proc[p].ran
    BY <1>1, <2>2 DEF IsProc
  <2>4. /\ ProcsOK' /\ proc'[p] = r
        /\ \A q \in Procs \ {p} : proc'[q] = proc[q]
    BY <1>1, <2>2, <2>3, OneMoves
  <2>5. proc[p].strategy \notin Builtins => IdDeclared(p)'
    BY <1>1, <2>1, <2>3, <2>4, IdKnown DEF IdDeclared, Quiet
  <2>6. ProcInv(p)'
    BY <1>1, <2>3, <2>4, <2>5 DEF ProcInv, ProcOK, BuildKnown, Checked, At, Quiet, Launching
  <2>. QED
    BY <1>1, <2>4, <2>6, QuietStep
<1>. QED
  BY <1>2, <1>3

LEMMA ChecksRunKnown ==
  ASSUME WorkspaceInv, NEW p \in Procs, ChecksRun(p)
  PROVE  WorkspaceInv'
<1>1. Quiet /\ At(p, "checks") /\ ProcInv(p) /\ ProcsOK /\ IsProc(proc[p])
  BY DEF ChecksRun, Quiet, project, WorkspaceInv, ProcsOK
<1>2. CASE Turn(p, "failed")
  BY <1>1, <1>2, EndsQuietly
<1>3. CASE ~Turn(p, "failed")
  <2>1. PICK params :
          /\ ValidParams(proc[p].strategy, params, Discovered)
          /\ proc' = [proc EXCEPT ![p].pc = "launch", ![p].params = params]
    BY <1>3 DEF ChecksRun
  <2>2. PICK r : /\ r = [proc[p] EXCEPT !.pc = "launch", !.params = params]
                 /\ proc' = [q \in Procs |-> IF q = p THEN r ELSE proc[q]]
    BY <1>1, <2>1 DEF ProcsOK
  <2>3. /\ IsProc(r) /\ r.pc = "launch" /\ r.since = proc[p].since
        /\ r.strategy = proc[p].strategy /\ r.params = params
        /\ r.started = proc[p].started /\ r.todo = proc[p].todo
        /\ r.ran = proc[p].ran
    BY <1>1, <2>2 DEF IsProc
  <2>4. /\ ProcsOK' /\ proc'[p] = r
        /\ \A q \in Procs \ {p} : proc'[q] = proc[q]
    BY <1>1, <2>2, <2>3, OneMoves
  <2>5. Untouched(p) /\ proc[p].strategy \notin Builtins => ParamsDeclared(p)'
    <3>1. SUFFICES ASSUME IdDeclared(p) PROVE ParamsDeclared(p)'
      BY <1>1 DEF ProcInv, Checked
    <3>2. Discovered = Declares[code]
      BY <3>1 DEF IdDeclared, Discovered
    <3>. QED
      BY <1>1, <2>1, <2>3, <2>4, <3>1, <3>2 DEF IdDeclared, ParamsDeclared, Quiet
  <2>6. ProcInv(p)'
    BY <1>1, <2>3, <2>4, <2>5 DEF ProcInv, ProcOK, BuildKnown, Checked, Untouched, At, Quiet, Launching
  <2>. QED
    BY <1>1, <2>4, <2>6, QuietStep
<1>. QED
  BY <1>2, <1>3

-----------------------------------------------------------------------------
(* How it is launched.                                                      *)

LEMMA LaunchesBuiltinKnown ==
  ASSUME WorkspaceInv, NEW p \in Procs, LaunchesBuiltin(p)
  PROVE  WorkspaceInv'
<1>1. Quiet /\ proc[p].ran = {}
  BY DEF LaunchesBuiltin, Quiet, project, WorkspaceInv, ProcInv, ProcOK, At
<1>2. \E pc \in {"engine", "refused"} : Turn(p, pc)
  BY DEF LaunchesBuiltin
<1>. QED
  BY <1>1, <1>2, EndsQuietly

(* A binary that needs no rebuilding is not older than the source.          *)
LEMMA LaunchesProjectKnown ==
  ASSUME WorkspaceInv, NEW p \in Procs, LaunchesProject(p)
  PROVE  WorkspaceInv'
<1>1. Quiet /\ At(p, "launch") /\ ProcInv(p) /\ ProcsOK /\ TimesOK
      /\ proc[p].strategy \notin Builtins
  BY DEF LaunchesProject, Quiet, project, WorkspaceInv
<1>2. CASE Turn(p, "failed")
  BY <1>1, <1>2, EndsQuietly
<1>3. CASE ~Turn(p, "failed")
  <2>1. PICK pc \in {"build", "execute"} :
          Turn(p, pc) /\ (pc = "execute" => ~BinaryNeedsRebuild)
    BY <1>3 DEF LaunchesProject
  <2>2. /\ ProcsOK' /\ proc'[p].pc = pc /\ SameKnowledge(p)
        /\ \A q \in Procs \ {p} : proc'[q] = proc[q]
    BY <1>1, <2>1, TurnFacts
  <2>3. pc = "execute" => \A b \in binary : files["lib"] <= b.at
    <3>1. ASSUME NEW b \in binary, pc = "execute" PROVE files["lib"] <= b.at
      <4>1. ~(NewestSource > b.at)
        BY <2>1, <3>1 DEF BinaryNeedsRebuild
      <4>2. b.at \in Nat /\ files["lib"] \in Nat
        BY <1>1, TheFiles DEF TimesOK
      <4>3. NewestSource \in Int /\ NewestSource >= files["lib"]
        BY <1>1, NewestIsNewest
      <4>. QED
        BY <4>1, <4>2, <4>3
    <3>. QED
      BY <3>1
  <2>4. ProcInv(p)'
    BY <1>1, <2>2, <2>3 DEF ProcInv, ProcOK, BuildKnown, Untouched, Checked,
         ParamsDeclared, BuiltOf, At, Quiet, SameKnowledge, Launching
  <2>. QED
    BY <1>1, <2>2, <2>4, QuietStep
<1>. QED
  BY <1>2, <1>3

(* cargo reads the source that is there.                                    *)
LEMMA CargoBeginsKnown ==
  ASSUME WorkspaceInv, NEW p \in Procs, CargoBegins(p)
  PROVE  WorkspaceInv'
<1>1. Quiet /\ At(p, "build") /\ ProcInv(p) /\ ProcsOK /\ IsProc(proc[p]) /\ TimesOK
  BY DEF CargoBegins, Quiet, project, WorkspaceInv, ProcsOK
<1>2. CASE Turn(p, "failed")
  BY <1>1, <1>2, EndsQuietly
<1>3. CASE ~Turn(p, "failed")
  <2>1. /\ CrateIsWhole
        /\ proc' = [proc EXCEPT ![p].pc = "building", ![p].started = now, ![p].building = {code}]
    BY <1>3 DEF CargoBegins
  <2>2. PICK r : /\ r = [proc[p] EXCEPT !.pc = "building", !.started = now, !.building = {code}]
                 /\ proc' = [q \in Procs |-> IF q = p THEN r ELSE proc[q]]
    BY <1>1, <2>1 DEF ProcsOK
  <2>3. /\ IsProc(r) /\ r.pc = "building" /\ r.since = proc[p].since
        /\ r.strategy = proc[p].strategy /\ r.params = proc[p].params
        /\ r.started = now /\ r.todo = proc[p].todo
        /\ r.ran = proc[p].ran /\ r.building = {code}
    BY <1>1, <2>2 DEF IsProc
  <2>4. /\ ProcsOK' /\ proc'[p] = r
        /\ \A q \in Procs \ {p} : proc'[q] = proc[q]
    BY <1>1, <2>2, <2>3, OneMoves
  <2>5. files["lib"] # 0
    BY <1>1, <2>1, TheFiles DEF CrateIsWhole, SourceFiles, TimesOK
  <2>6. ProcInv(p)'
    BY <1>1, <2>3, <2>4, <2>5 DEF ProcInv, ProcOK, TimesOK, BuildKnown, Untouched, Checked,
         ParamsDeclared, At, Quiet, Launching
  <2>. QED
    BY <1>1, <2>4, <2>6, QuietStep
<1>. QED
  BY <1>2, <1>3

(* The binary that is started is not older than the source.                 *)
LEMMA ExecutesKnown ==
  ASSUME WorkspaceInv, NEW p \in Procs, Executes(p)
  PROVE  WorkspaceInv'
<1>1. Quiet /\ At(p, "execute") /\ ProcInv(p) /\ ProcsOK /\ IsProc(proc[p]) /\ TimesOK /\ BinaryKnown
  BY DEF Executes, Quiet, project, WorkspaceInv, ProcsOK
<1>2. PICK r : /\ r = [proc[p] EXCEPT !.pc = "engine", !.ran = binary]
               /\ proc' = [q \in Procs |-> IF q = p THEN r ELSE proc[q]]
  BY <1>1 DEF Executes, ProcsOK
<1>3. /\ IsProc(r) /\ r.pc = "engine" /\ r.since = proc[p].since
      /\ r.strategy = proc[p].strategy /\ r.params = proc[p].params
      /\ r.started = proc[p].started /\ r.todo = proc[p].todo
      /\ r.ran = binary
  BY <1>1, <1>2 DEF IsProc
<1>4. ProcsOK' /\ proc'[p] = r /\ \A q \in Procs \ {p} : proc'[q] = proc[q]
  BY <1>1, <1>2, <1>3, OneMoves
<1>5. Untouched(p) => \A b \in binary : BuiltOf(b.code, b.started, b.at)
  <2>1. ASSUME Untouched(p), NEW b \in binary PROVE ~(files["lib"] > b.at)
    BY <1>1, <2>1, TheFiles DEF TimesOK, ProcInv, Checked
  <2>. QED
    BY <1>1, <2>1 DEF BinaryKnown
<1>6. ProcInv(p)'
  BY <1>1, <1>3, <1>4, <1>5 DEF ProcInv, ProcOK, BuildKnown, Untouched, Checked,
       ParamsDeclared, BuiltOf, At, Quiet, Launching
<1>. QED
  BY <1>1, <1>4, <1>6, QuietStep

-----------------------------------------------------------------------------
(* Steps that write a file.  Each is the latest.                            *)

LEMMA FileWritten ==
  ASSUME WorkspaceInv, NEW f \in ProjectFiles, now' = now + 1,
         files' = [files EXCEPT ![f] = now'], UNCHANGED binary,
         f = "lib" \/ UNCHANGED code
  PROVE  TimesOK' /\ BinaryKnown'
<1>1. TimesOK /\ BinaryKnown
  BY DEF WorkspaceInv
<1>2. /\ now \in Nat /\ files' \in [ProjectFiles -> Nat]
      /\ \A g \in ProjectFiles : files'[g] <= now + 1
      /\ files'["lib"] = IF f = "lib" THEN now + 1 ELSE files["lib"]
  BY <1>1, TheFiles DEF TimesOK
<1>3. TimesOK'
  BY <1>1, <1>2 DEF TimesOK
<1>4. BinaryKnown'
  <2>1. CASE f = "lib"
    BY <1>1, <1>2, <2>1 DEF TimesOK, BinaryKnown
  <2>2. CASE f # "lib"
    BY <1>1, <1>2, <2>2 DEF BinaryKnown, BuiltOf
  <2>. QED
    BY <2>1, <2>2
<1>. QED
  BY <1>3, <1>4

(* The strategy saved now is not the one that any run began with.           *)
LEMMA SourceWritten ==
  ASSUME WorkspaceInv, now' = now + 1, files' = [files EXCEPT !["lib"] = now'],
         NEW q \in Procs, SameKnowledge(q)
  PROVE  BuildKnown(q)' /\ ~Untouched(q)'
<1>1. TimesOK /\ ProcOK(q)
  BY DEF WorkspaceInv, ProcInv
<1>2. /\ now \in Nat /\ proc[q].since \in Nat /\ proc[q].since <= now
      /\ proc[q].started \in Nat /\ proc[q].started <= now
      /\ files'["lib"] = now + 1
  BY <1>1, TheFiles DEF TimesOK, ProcOK
<1>. QED
  BY <1>2 DEF Untouched, BuildKnown, SameKnowledge

(* Another file of the project changes nothing that a process knows.        *)
LEMMA OtherFileWritten ==
  ASSUME WorkspaceInv, NEW f \in ProjectFiles \ {"lib"}, now' = now + 1,
         files' = [files EXCEPT ![f] = now'], UNCHANGED <<binary, code>>,
         NEW q \in Procs, SameKnowledge(q),
         proc'[q].pc = proc[q].pc \/ (proc'[q].pc = "ok" /\ proc[q].ran = {})
  PROVE  BuildKnown(q)' /\ (Untouched(q)' => Checked(q)')
<1>1. TimesOK /\ ProcOK(q) /\ BuildKnown(q) /\ (Untouched(q) => Checked(q))
  BY DEF WorkspaceInv, ProcInv
<1>2. /\ now \in Nat /\ proc[q].since \in Nat /\ proc[q].since <= now
      /\ proc[q].started \in Nat /\ proc[q].started <= now
      /\ files'["lib"] = files["lib"]
      /\ files'["cargo"] = files["cargo"] \/ files'["cargo"] = now + 1
  BY <1>1, TheFiles DEF TimesOK, ProcOK
<1>3. BuildKnown(q)'
  BY <1>1, <1>2 DEF BuildKnown, At, SameKnowledge
<1>4. Untouched(q)' => Untouched(q)
  BY <1>2 DEF Untouched, SameKnowledge
<1>5. Checked(q) => Checked(q)'
  BY <1>1, <1>2 DEF Checked, At, SameKnowledge, IdDeclared, ParamsDeclared,
       BuiltOf, Launching
<1>. QED
  BY <1>1, <1>3, <1>4, <1>5

(* A process whose record is not touched, when time goes on.                *)
LEMMA LaterStill ==
  ASSUME WorkspaceInv, now' = now + 1, NEW q \in Procs, proc'[q] = proc[q]
  PROVE  ProcOK(q)' /\ SameKnowledge(q)
<1>1. now \in Nat /\ ProcOK(q)
  BY DEF WorkspaceInv, TimesOK, ProcInv
<1>2. SameKnowledge(q)
  BY DEF SameKnowledge
<1>. QED
  BY <1>1, <1>2 DEF ProcOK, At

LEMMA EditCodeKnown ==
  ASSUME WorkspaceInv, EditCode PROVE WorkspaceInv'
<1>1. /\ now' = now + 1 /\ files' = [files EXCEPT !["lib"] = now']
      /\ UNCHANGED <<binary, proc>>
  BY DEF EditCode
<1>2. TimesOK' /\ BinaryKnown'
  BY <1>1, FileWritten, TheFiles
<1>3. ASSUME NEW q \in Procs PROVE ProcInv(q)'
  BY <1>1, LaterStill, SourceWritten DEF ProcInv
<1>4. ProcsOK'
  BY <1>1 DEF WorkspaceInv, ProcsOK
<1>. QED
  BY <1>2, <1>3, <1>4 DEF WorkspaceInv

LEMMA EditTomlKnown ==
  ASSUME WorkspaceInv, EditToml PROVE WorkspaceInv'
<1>1. /\ now' = now + 1 /\ files' = [files EXCEPT !["toml"] = now']
      /\ UNCHANGED <<binary, proc, code>> /\ "toml" \in ProjectFiles \ {"lib"}
  BY TheFiles DEF EditToml
<1>2. TimesOK' /\ BinaryKnown'
  BY <1>1, FileWritten
<1>3. ASSUME NEW q \in Procs PROVE ProcInv(q)'
  <2>1. ProcOK(q)' /\ SameKnowledge(q) /\ proc'[q].pc = proc[q].pc
    BY <1>1, LaterStill
  <2>. QED
    BY <1>1, <2>1, OtherFileWritten DEF ProcInv
<1>4. ProcsOK'
  BY <1>1 DEF WorkspaceInv, ProcsOK
<1>. QED
  BY <1>2, <1>3, <1>4 DEF WorkspaceInv

(* Removing the project removes the binary and what a run began with.       *)
LEMMA InitBeginsKnown ==
  ASSUME WorkspaceInv, NEW p \in Procs, NEW force, InitBegins(p, force)
  PROVE  WorkspaceInv'
<1>1. /\ At(p, "idle") /\ ProcInv(p) /\ ProcsOK /\ IsProc(proc[p]) /\ TimesOK
      /\ UNCHANGED <<now, code>>
  BY DEF InitBegins, WorkspaceInv, ProcsOK
<1>2. CASE ~manifest \/ (ProjectExists /\ ~force)
  <2>1. Turn(p, "failed") /\ Quiet
    BY <1>2 DEF InitBegins, Quiet
  <2>. QED
    BY <1>1, <2>1, EndsQuietly
<1>3. CASE ~(~manifest \/ (ProjectExists /\ ~force))
  <2>1. /\ proc' = [proc EXCEPT ![p].pc = "init", ![p].todo = WriteOrder]
        /\ files' = [NoFiles EXCEPT !["root"] = 1] /\ binary' = {}
    BY <1>3 DEF InitBegins
  <2>2. PICK r : /\ r = [proc[p] EXCEPT !.pc = "init", !.todo = WriteOrder]
                 /\ proc' = [q \in Procs |-> IF q = p THEN r ELSE proc[q]]
    BY <1>1, <2>1 DEF ProcsOK
  <2>3. /\ IsProc(r) /\ r.pc = "init" /\ r.since = proc[p].since
        /\ r.started = proc[p].started /\ r.todo = WriteOrder
        /\ r.ran = proc[p].ran
    BY <1>1, <2>2 DEF IsProc
  <2>4. ProcsOK' /\ proc'[p] = r /\ \A q \in Procs \ {p} : proc'[q] = proc[q]
    BY <1>1, <2>2, <2>3, OneMoves
  <2>5. /\ files' \in [ProjectFiles -> Nat] /\ \A f \in ProjectFiles : files'[f] <= 1
        /\ files'["lib"] = 0 /\ files'["cargo"] = 0
    BY <2>1, TheFiles
  <2>6. TimesOK' /\ BinaryKnown'
    BY <1>1, <2>1, <2>5 DEF TimesOK, BinaryKnown
  <2>7. WriteOrder \in Seq(ProjectFiles) /\ WriteOrder # << >>
    BY TheFiles DEF WriteOrder
  <2>8. ASSUME NEW q \in Procs PROVE ProcOK(q)'
    <3>1. CASE q = p
      BY <1>1, <2>3, <2>4, <2>7, <3>1 DEF ProcInv, ProcOK, At
    <3>2. CASE q # p
      BY <1>1, <2>4, <3>2 DEF WorkspaceInv, ProcInv, ProcOK, At
    <3>. QED
      BY <3>1, <3>2
  <2>9. \A q \in Procs : ~Untouched(q)' /\ BuildKnown(q)'
    BY <2>5 DEF Untouched, BuildKnown
  <2>. QED
    BY <2>4, <2>6, <2>8, <2>9 DEF WorkspaceInv, ProcInv
<1>. QED
  BY <1>2, <1>3

LEMMA HeadAndTail ==
  ASSUME NEW S, NEW s \in Seq(S), s # << >>
  PROVE  Head(s) \in S /\ Tail(s) \in Seq(S) /\ (Len(s) # 1 => Tail(s) # << >>)
<1>1. Head(s) \in S /\ Tail(s) \in Seq(S) /\ Len(Tail(s)) = Len(s) - 1
  BY HeadTailProperties
<1>2. ASSUME Tail(s) = << >> PROVE Len(s) = 1
  <2>1. Len(Tail(s)) = 0
    BY <1>2, EmptySeq
  <2>2. Len(s) \in Nat
    BY LenProperties
  <2>3. Len(s) - 1 = 0
    BY <1>1, <2>1
  <2>. QED
    BY <2>2, <2>3
<1>. QED
  BY <1>1, <1>2

(* The scaffold is written file by file; one of them is the strategy.       *)
LEMMA InitWritesKnown ==
  ASSUME WorkspaceInv, NEW p \in Procs, InitWrites(p)
  PROVE  WorkspaceInv'
<1>1. /\ At(p, "init") /\ ProcOK(p) /\ ProcsOK /\ IsProc(proc[p]) /\ TimesOK
      /\ proc[p].ran = {} /\ UNCHANGED binary
  BY DEF InitWrites, WorkspaceInv, ProcInv, ProcOK, ProcsOK, At
<1>2. PICK f \in ProjectFiles :
        /\ f = Head(proc[p].todo) /\ Tail(proc[p].todo) \in Seq(ProjectFiles)
        /\ Len(proc[p].todo) # 1 => Tail(proc[p].todo) # << >>
  <2>1. proc[p].todo \in Seq(ProjectFiles) /\ proc[p].todo # << >>
    BY <1>1 DEF ProcOK
  <2>. QED
    BY <2>1, HeadAndTail
<1>3. /\ now' = now + 1 /\ files' = [files EXCEPT ![f] = now']
      /\ f # "lib" => UNCHANGED code
  BY <1>2 DEF InitWrites
<1>4. PICK pc \in {"ok", "init"} :
        /\ pc = IF Len(proc[p].todo) = 1 THEN "ok" ELSE "init"
        /\ proc' = [proc EXCEPT ![p].todo = Tail(@), ![p].pc = pc]
  BY DEF InitWrites
<1>5. PICK r : /\ r = [proc[p] EXCEPT !.todo = Tail(@), !.pc = pc]
               /\ proc' = [q \in Procs |-> IF q = p THEN r ELSE proc[q]]
  BY <1>1, <1>4 DEF ProcsOK
<1>6. /\ IsProc(r) /\ r.pc = pc /\ r.since = proc[p].since
      /\ r.cli = proc[p].cli /\ r.toml = proc[p].toml
      /\ r.strategy = proc[p].strategy /\ r.ids = proc[p].ids
      /\ r.params = proc[p].params /\ r.building = proc[p].building
      /\ r.started = proc[p].started /\ r.ran = proc[p].ran
      /\ r.todo = Tail(proc[p].todo)
  BY <1>1, <1>5 DEF IsProc
<1>7. ProcsOK' /\ proc'[p] = r /\ \A q \in Procs \ {p} : proc'[q] = proc[q]
  BY <1>1, <1>5, <1>6, OneMoves
<1>8. TimesOK' /\ BinaryKnown'
  BY <1>1, <1>3, FileWritten
<1>9. ASSUME NEW q \in Procs PROVE ProcOK(q)'
  <2>1. CASE q = p
    <3>1. r.since \in Nat /\ r.since <= now + 1 /\ r.started \in Nat /\ r.started <= now + 1
      BY <1>1, <1>6 DEF TimesOK, ProcOK
    <3>2. r.todo \in Seq(ProjectFiles) /\ (r.pc = "init" => r.todo # << >>) /\ r.ran = {}
      BY <1>1, <1>2, <1>4, <1>6
    <3>. QED
      BY <1>3, <1>7, <2>1, <3>1, <3>2 DEF ProcOK, At
  <2>2. CASE q # p
    BY <1>3, <1>7, <2>2, LaterStill
  <2>. QED
    BY <2>1, <2>2
<1>10. ASSUME NEW q \in Procs
       PROVE  BuildKnown(q)' /\ (Untouched(q)' => Checked(q)')
  <2>1. CASE q # p
    <3>1. SameKnowledge(q) /\ proc'[q].pc = proc[q].pc
      BY <1>3, <1>7, <2>1, LaterStill
    <3>. QED
      BY <1>1, <1>2, <1>3, <3>1, SourceWritten, OtherFileWritten
  <2>2. CASE q = p
    BY <1>1, <1>4, <1>6, <1>7, <2>2 DEF BuildKnown, Checked, At, Launching
  <2>. QED
    BY <2>1, <2>2
<1>. QED
  BY <1>7, <1>8, <1>9, <1>10 DEF WorkspaceInv, ProcInv

(* cargo leaves a binary newer than the source, and built of it unless that *)
(* was saved meanwhile.                                                     *)
LEMMA CargoEndsKnown ==
  ASSUME WorkspaceInv, NEW p \in Procs, CargoEnds(p)
  PROVE  WorkspaceInv'
<1>1. /\ At(p, "building") /\ ProcInv(p) /\ ProcsOK /\ IsProc(proc[p]) /\ TimesOK
      /\ UNCHANGED <<files, code>>
  BY DEF CargoEnds, WorkspaceInv, ProcsOK
<1>2. CASE files["cargo"] = 0 \/ files["cargo"] > proc[p].started
  <2>1. Turn(p, "failed") /\ Quiet
    BY <1>2 DEF CargoEnds, Quiet
  <2>. QED
    BY <1>1, <2>1, EndsQuietly
<1>3. CASE ~(files["cargo"] = 0 \/ files["cargo"] > proc[p].started)
  <2>1. /\ now' = now + 1
        /\ binary' = {[code |-> c, started |-> proc[p].started, at |-> now'] :
                          c \in proc[p].building}
        /\ proc' = [proc EXCEPT ![p].pc = "execute", ![p].building = {}]
    BY <1>3 DEF CargoEnds
  <2>2. PICK r : /\ r = [proc[p] EXCEPT !.pc = "execute", !.building = {}]
                 /\ proc' = [q \in Procs |-> IF q = p THEN r ELSE proc[q]]
    BY <1>1, <2>1 DEF ProcsOK
  <2>3. /\ IsProc(r) /\ r.pc = "execute" /\ r.since = proc[p].since
        /\ r.strategy = proc[p].strategy /\ r.params = proc[p].params
        /\ r.started = proc[p].started /\ r.todo = proc[p].todo
        /\ r.ran = proc[p].ran
    BY <1>1, <2>2 DEF IsProc
  <2>4. ProcsOK' /\ proc'[p] = r /\ \A q \in Procs \ {p} : proc'[q] = proc[q]
    BY <1>1, <2>2, <2>3, OneMoves
  <2>5. /\ now \in Nat /\ files["lib"] \in Nat /\ files["lib"] <= now
        /\ proc[p].started \in Nat /\ proc[p].started <= now
    BY <1>1, TheFiles DEF TimesOK, ProcInv, ProcOK
  <2>6. ASSUME NEW b \in binary'
        PROVE  /\ b.started = proc[p].started /\ b.at = now + 1
               /\ b.code \in proc[p].building
    BY <2>1
  <2>7. files["lib"] # 0 /\ (files["lib"] > proc[p].started \/ proc[p].building = {code})
    BY <1>1, <1>3 DEF ProcInv, BuildKnown
  <2>8. TimesOK'
    BY <1>1, <2>1, <2>5, <2>6 DEF TimesOK
  <2>9. BinaryKnown'
    BY <1>1, <2>5, <2>6, <2>7 DEF BinaryKnown, BuiltOf
  <2>10. \A b \in binary' : files["lib"] <= b.at
    BY <2>5, <2>6
  <2>11. ProcInv(p)'
    <3>1. ProcOK(p) /\ proc[p].ran = {}
      BY <1>1 DEF ProcInv, ProcOK, At
    <3>2. ProcOK(p)'
      <4>1. now' = now + 1
        BY <2>1
      <4>2. proc'[p].since = proc[p].since /\ proc'[p].todo = proc[p].todo
        BY <2>3, <2>4
      <4>3. /\ proc'[p].pc = "execute" /\ proc'[p].ran = {}
            /\ proc'[p].started = proc[p].started
        BY <2>3, <2>4, <3>1
      <4>. QED
        BY <2>5, <3>1, <4>1, <4>2, <4>3 DEF ProcOK, At
    <3>3. BuildKnown(p)'
      BY <2>3, <2>4 DEF BuildKnown, At
    <3>4. Untouched(p)' => ParamsDeclared(p)'
      BY <1>1, <2>3, <2>4 DEF ProcInv, Untouched, Checked, ParamsDeclared, At, Launching
    <3>5. ASSUME Untouched(p)' PROVE Checked(p)'
      <4>1. ParamsDeclared(p)' /\ proc'[p].pc = "execute" /\ proc'[p].ran = {}
        BY <2>3, <2>4, <3>1, <3>4, <3>5
      <4>. QED
        BY <1>1, <2>10, <4>1 DEF Checked, At
    <3>. QED
      BY <3>2, <3>3, <3>5 DEF ProcInv
  <2>12. ASSUME NEW q \in Procs, q # p PROVE ProcInv(q)'
    <3>1. ProcInv(q) /\ ProcOK(q)' /\ proc'[q] = proc[q]
      BY <2>1, <2>4, <2>12, LaterStill DEF WorkspaceInv
    <3>. QED
      BY <1>1, <3>1, <2>10 DEF ProcInv, BuildKnown, Untouched, Checked, IdDeclared,
           ParamsDeclared, BuiltOf, At
  <2>. QED
    BY <2>4, <2>8, <2>9, <2>11, <2>12 DEF WorkspaceInv
<1>. QED
  BY <1>2, <1>3

-----------------------------------------------------------------------------
(* What a run executes is what it checked.                                  *)

LEMMA CommandKnown ==
  ASSUME WorkspaceInv, NEW p \in Procs, Command(p)
  PROVE  WorkspaceInv'
<1>1. ProcOK(p)
  BY DEF WorkspaceInv, ProcInv
<1>2. CASE \E force \in BOOLEAN : WorkspaceInit(p, force)
  <2>1. Quiet /\ (Turn(p, "failed") \/ Turn(p, "ok"))
    BY <1>2 DEF WorkspaceInit, Quiet
  <2>. QED
    BY <2>1, EndsQuietly
<1>3. CASE \E force \in BOOLEAN : InitBegins(p, force)
  BY <1>3, InitBeginsKnown
<1>4. CASE InitWrites(p)
  BY <1>4, InitWritesKnown
<1>5. CASE RunBegins(p) \/ SweepCommand(p)
  BY <1>5, BeginsKnown DEF RunBegins, SweepCommand
<1>6. CASE LoadsToml(p) \/ DiscoversIds(p) \/ ChecksRun(p)
  BY <1>6, LoadsTomlKnown, DiscoversIdsKnown, ChecksRunKnown
<1>7. CASE ChecksSweep(p)
  <2>1. /\ Quiet /\ (Turn(p, "failed") \/ Turn(p, "sweeping")) /\ proc[p].ran = {}
    BY <1>1, <1>7 DEF ChecksSweep, Quiet, project, ProcOK, At
  <2>. QED
    BY <2>1, EndsQuietly
<1>8. CASE LaunchesBuiltin(p) \/ LaunchesProject(p)
  BY <1>8, LaunchesBuiltinKnown, LaunchesProjectKnown
<1>9. CASE CargoBegins(p) \/ CargoEnds(p) \/ Executes(p)
  BY <1>9, CargoBeginsKnown, CargoEndsKnown, ExecutesKnown
<1>10. CASE ExecutableGone(p) \/ SweepEnds(p) \/ Killed(p) \/ EngineEnds(p)
  <2>1. Quiet /\ (Turn(p, "failed") \/ Turn(p, "ok"))
    BY <1>10 DEF ExecutableGone, SweepEnds, Killed, EngineEnds, Quiet, project
  <2>. QED
    BY <2>1, EndsQuietly
<1>. QED
  BY <1>2, <1>3, <1>4, <1>5, <1>6, <1>7, <1>8, <1>9, <1>10 DEF Command

LEMMA StepKnown == WorkspaceInv /\ [Next]_vars => WorkspaceInv'
<1>. SUFFICES ASSUME WorkspaceInv, [Next]_vars PROVE WorkspaceInv'
  OBVIOUS
<1>1. CASE EditCode \/ EditToml
  BY <1>1, EditCodeKnown, EditTomlKnown
<1>2. CASE SweepRuns \/ UNCHANGED vars
  <2>1. Quiet /\ UNCHANGED proc
    BY <1>2 DEF SweepRuns, Quiet, project, vars
  <2>2. TimesOK' /\ BinaryKnown' /\ ProcsOK'
    BY <2>1 DEF WorkspaceInv, Quiet, TimesOK, BinaryKnown, BuiltOf, ProcsOK
  <2>3. \A q \in Procs : ProcInv(q)'
    BY <2>1, OthersKeep DEF WorkspaceInv
  <2>. QED
    BY <2>2, <2>3 DEF WorkspaceInv
<1>3. CASE \E p \in Procs : Command(p)
  BY <1>3, CommandKnown
<1>. QED
  BY <1>1, <1>2, <1>3 DEF Next

LEMMA KnownIsRunsWhatItChecked == WorkspaceInv => RunsWhatItChecked
<1>. SUFFICES ASSUME WorkspaceInv, NEW p \in Procs,
                     files["lib"] \in 1 .. proc[p].since, NEW b \in proc[p].ran
              PROVE  \/ b.started < files["lib"] /\ files["lib"] < b.at
                     \/ /\ b.code = code
                        /\ proc[p].strategy \in DOMAIN Declares[code]
                        /\ ValidParams(proc[p].strategy, proc[p].params, Declares[code])
  BY DEF RunsWhatItChecked
<1>. QED
  BY DEF WorkspaceInv, ProcInv, Untouched, Checked, BuiltOf, ParamsDeclared

(* Whatever is saved, removed, built, started or killed meanwhile, a run    *)
(* whose strategy is as it was when it began executes a binary built from   *)
(* it (or built while it was saved), with an id and parameters that it      *)
(* declares.                                                                *)
THEOREM RunsItsStrategy == Spec => []RunsWhatItChecked
<1>1. Init => WorkspaceInv
  BY InitKnown
<1>2. WorkspaceInv /\ [Next]_vars => WorkspaceInv'
  BY StepKnown
<1>3. WorkspaceInv => RunsWhatItChecked
  BY KnownIsRunsWhatItChecked
<1>. QED
  BY <1>1, <1>2, <1>3, PTL DEF Spec

-----------------------------------------------------------------------------
(* Induction up to a number, over a set.                                    *)

LEMMA SmallestSet ==
  ASSUME NEW S, IsFiniteSet(S), NEW Sets, Sets \subseteq SUBSET S, Sets # {}
  PROVE  \E T \in Sets : \A U \in Sets : U \subseteq T => U = T
<1>1. Sets \subseteq FiniteSubsetsOf(S)
  BY FS_Subset DEF FiniteSubsetsOf
<1>2. PICK T \in Sets : \A U \in Sets : ~(<<U, T>> \in StrictSubsetOrdering(S))
  BY <1>1, FS_StrictSubsetOrderingWellFounded, WFMin, Zenon
<1>. QED
  BY <1>1, <1>2 DEF StrictSubsetOrdering, FiniteSubsetsOf

LEMMA UpTo ==
  ASSUME NEW N \in Nat, NEW S, 0 \in S, \A n \in 1 .. N : n - 1 \in S => n \in S
  PROVE  0 .. N \subseteq S
<1>. DEFINE I == 0 .. N
            Bad == {n \in I : n \notin S}
            Sets == {0 .. n : n \in Bad}
<1>1. SUFFICES ASSUME Bad # {} PROVE FALSE
  OBVIOUS
<1>2. IsFiniteSet(I)
  BY FS_Interval
<1>3. Sets \subseteq SUBSET I /\ Sets # {}
  <2>1. \A n \in Bad : 0 .. n \subseteq I
    OBVIOUS
  <2>. HIDE DEF I, Bad
  <2>. QED
    BY <1>1, <2>1
<1>. HIDE DEF I, Sets
<1>4. PICK T \in Sets : \A U \in Sets : U \subseteq T => U = T
  BY <1>2, <1>3, SmallestSet
<1>. USE DEF I, Sets
<1>5. PICK n \in Bad : T = 0 .. n
  BY <1>4
<1>6. n \in 1 .. N /\ n - 1 \notin S
  BY <1>5
<1>7. 0 .. n - 1 \in Sets /\ 0 .. n - 1 \subseteq T /\ n \in T /\ n \notin 0 .. n - 1
  BY <1>5, <1>6
<1>. QED
  BY <1>4, <1>7

-----------------------------------------------------------------------------
(* The grid.                                                                *)

(* One more list: the products so far, each with each of its values.        *)
Extended(list, values) ==
  [i \in 1 .. Len(list) * Len(values) |->
     Append(list[((i - 1) \div Len(values)) + 1], values[((i - 1) % Len(values)) + 1])]

Products(p, ranges, N) ==
  p = [n \in 0 .. N |-> IF n = 0 THEN << << >> >> ELSE Extended(p[n - 1], ranges[n])]

LEMMA ProductExists ==
  ASSUME NEW ranges, NEW N \in Nat
  PROVE  \E p : Products(p, ranges, N)
<1>. DEFINE S == {n \in 0 .. N : \E p : Products(p, ranges, n)}
<1>1. 0 \in S
  <2>. DEFINE p == [n \in 0 .. 0 |-> << << >> >>]
  <2>1. Products(p, ranges, 0)
    BY DEF Products
  <2>. QED
    BY <2>1
<1>2. ASSUME NEW n \in 1 .. N, n - 1 \in S PROVE n \in S
  <2>1. PICK p : Products(p, ranges, n - 1)
    BY <1>2
  <2>. DEFINE q == [k \in 0 .. n |-> IF k < n THEN p[k] ELSE Extended(p[n - 1], ranges[n])]
  <2>2. \A k \in 0 .. n - 1 : p[k] = IF k = 0 THEN << << >> >> ELSE Extended(p[k - 1], ranges[k])
    BY <2>1 DEF Products
  <2>3. \A k \in 0 .. n : q[k] = IF k = 0 THEN << << >> >> ELSE Extended(q[k - 1], ranges[k])
    <3>. TAKE k \in 0 .. n
    <3>1. CASE k = n
      BY <3>1
    <3>2. CASE k < n
      BY <3>2, <2>2
    <3>. QED
      BY <3>1, <3>2
  <2>4. q = [k \in 0 .. n |-> q[k]]
    OBVIOUS
  <2>. HIDE DEF q
  <2>5. Products(q, ranges, n)
    BY <2>3, <2>4 DEF Products
  <2>. QED
    BY <2>5
<1>. HIDE DEF S
<1>3. 0 .. N \subseteq S
  BY <1>1, <1>2, UpTo
<1>. QED
  BY <1>3 DEF S

LEMMA ProductIs ==
  ASSUME NEW ranges, Len(ranges) \in Nat
  PROVE  \E p : /\ Products(p, ranges, Len(ranges))
                /\ MultiCartesianProduct(ranges) = p[Len(ranges)]
<1>. DEFINE p == CHOOSE q : Products(q, ranges, Len(ranges))
<1>1. Products(p, ranges, Len(ranges))
  <2>1. \E q : Products(q, ranges, Len(ranges))
    BY ProductExists
  <2>. QED
    BY <2>1
<1>2. MultiCartesianProduct(ranges) = p[Len(ranges)]
  BY DEF MultiCartesianProduct, Products, Extended
<1>. QED
  BY <1>1, <1>2

(* Place and value of an index in a list of M times s elements.             *)
LEMMA Digits ==
  ASSUME NEW M \in Nat, NEW s \in Nat \ {0}, NEW i \in 1 .. M * s
  PROVE  /\ ((i - 1) \div s) + 1 \in 1 .. M
         /\ ((i - 1) % s) + 1 \in 1 .. s
         /\ i = ((i - 1) \div s) * s + ((i - 1) % s) + 1
<1>. DEFINE q == (i - 1) \div s
            r == (i - 1) % s
<1>1. q \in Int /\ r \in 0 .. s - 1 /\ i - 1 = s * q + r
  OBVIOUS
<1>. HIDE DEF q, r
<1>2. i - 1 >= 0 /\ i - 1 < M * s
  OBVIOUS
<1>3. q >= 0
  <2>1. ASSUME q < 0 PROVE FALSE
    <3>1. s * q <= s * (-1)
      BY <1>1, <2>1
    <3>. QED
      BY <1>1, <1>2, <3>1
  <2>. QED
    BY <1>1, <2>1
<1>4. q < M
  <2>1. ASSUME q >= M PROVE FALSE
    <3>1. s * q >= s * M
      BY <1>1, <2>1
    <3>. QED
      BY <1>1, <1>2, <3>1
  <2>. QED
    BY <1>1, <2>1
<1>. QED
  BY <1>1, <1>3, <1>4 DEF q, r

AllDigits(M, s) ==
  \A q \in 1 .. M, r \in 1 .. s :
    \E i \in 1 .. M * s : ((i - 1) \div s) + 1 = q /\ ((i - 1) % s) + 1 = r

LEMMA Undigits ==
  ASSUME NEW M \in Nat, NEW s \in Nat \ {0}
  PROVE  AllDigits(M, s)
<1>. USE DEF AllDigits
<1>. TAKE q \in 1 .. M, r \in 1 .. s
<1>. DEFINE i == (q - 1) * s + r
<1>1. (q - 1) * s >= 0 /\ (q - 1) * s \in Int
  OBVIOUS
<1>2. (q - 1) * s <= (M - 1) * s
  OBVIOUS
<1>3. (M - 1) * s = M * s - s
  OBVIOUS
<1>4. i \in 1 .. M * s
  BY <1>1, <1>2, <1>3
<1>5. i - 1 = s * (q - 1) + (r - 1) /\ r - 1 \in 0 .. s - 1
  OBVIOUS
<1>. DEFINE d == (i - 1) \div s
            m == (i - 1) % s
<1>6. d \in Int /\ m \in 0 .. s - 1 /\ i - 1 = s * d + m
  BY <1>4
<1>. HIDE DEF d, m, i
<1>7. d = q - 1
  <2>1. ASSUME d < q - 1 PROVE FALSE
    <3>1. s * d + s <= s * (q - 1)
      BY <1>6, <2>1
    <3>. QED
      BY <1>5, <1>6, <3>1
  <2>2. ASSUME d > q - 1 PROVE FALSE
    <3>1. s * (q - 1) + s <= s * d
      BY <1>6, <2>2
    <3>. QED
      BY <1>5, <1>6, <3>1
  <2>. QED
    BY <1>6, <2>1, <2>2
<1>8. m = r - 1
  BY <1>5, <1>6, <1>7
<1>. QED
  <2>1. ((i - 1) \div s) + 1 = q /\ ((i - 1) % s) + 1 = r
    BY <1>7, <1>8 DEF d, m
  <2>. QED
    BY <1>4, <2>1

FirstGrid(ranges, n) ==
  {f \in [1 .. n -> ParamValues] : \A k \in 1 .. n : f[k] \in Range(ranges[k])}

Covers(list, G) ==
  /\ list \in Seq(G)
  /\ \A f \in G : \E i \in 1 .. Len(list) : list[i] = f

Differ(list) == \A i, j \in 1 .. Len(list) : list[i] = list[j] => i = j

LEMMA AppendIs ==
  ASSUME NEW n \in Nat, n # 0
  PROVE  \A f \in [1 .. n - 1 -> ParamValues], v \in ParamValues :
            /\ Append(f, v) \in [1 .. n -> ParamValues]
            /\ \A k \in 1 .. n - 1 : Append(f, v)[k] = f[k]
            /\ Append(f, v)[n] = v
<1>. TAKE f \in [1 .. n - 1 -> ParamValues], v \in ParamValues
<1>. DEFINE g == Append(f, v)
<1>1. f \in Seq(ParamValues) /\ Len(f) = n - 1
  BY LenProperties
<1>2. /\ g \in Seq(ParamValues) /\ Len(g) = Len(f) + 1
      /\ \A k \in 1 .. Len(f) : g[k] = f[k]
      /\ g[Len(f) + 1] = v
  BY <1>1, AppendProperties
<1>3. Len(f) + 1 = n
  BY <1>1
<1>. HIDE DEF g
<1>4. g \in [1 .. n -> ParamValues]
  BY <1>2, <1>3, LenProperties
<1>. QED
  BY <1>1, <1>2, <1>3, <1>4 DEF g

LEMMA ExtendedCovers ==
  ASSUME NEW ranges \in Seq(Seq(ParamValues)), NEW n \in 1 .. Len(ranges),
         NEW list, Covers(list, FirstGrid(ranges, n - 1))
  PROVE  /\ Covers(Extended(list, ranges[n]), FirstGrid(ranges, n))
         /\ Differ(list) /\ Differ(ranges[n]) => Differ(Extended(list, ranges[n]))
<1>. DEFINE values == ranges[n]
            M == Len(list)
            s == Len(values)
            F == FirstGrid(ranges, n - 1)
            G == FirstGrid(ranges, n)
            Q(i) == ((i - 1) \div s) + 1
            R(i) == ((i - 1) % s) + 1
            new == Extended(list, values)
<1>1. /\ list \in Seq(F) /\ M \in Nat /\ DOMAIN list = 1 .. M /\ \A q \in 1 .. M : list[q] \in F
      /\ \A f \in F : \E q \in 1 .. M : list[q] = f
  BY LenProperties, ElementOfSeq DEF Covers
<1>2. /\ values \in Seq(ParamValues) /\ s \in Nat /\ n \in Nat /\ n # 0
      /\ DOMAIN values = 1 .. s /\ \A r \in 1 .. s : values[r] \in ParamValues
  <2>1. values \in Seq(ParamValues)
    BY ElementOfSeq
  <2>2. n \in Nat /\ n # 0
    BY LenProperties
  <2>. QED
    BY <2>1, <2>2, LenProperties, ElementOfSeq
<1>a. \A f \in [1 .. n - 1 -> ParamValues], v \in ParamValues :
         /\ Append(f, v) \in [1 .. n -> ParamValues]
         /\ \A k \in 1 .. n - 1 : Append(f, v)[k] = f[k]
         /\ Append(f, v)[n] = v
  BY <1>2, AppendIs, Zenon
<1>3. new = [i \in 1 .. M * s |-> Append(list[Q(i)], values[R(i)])] /\ M * s \in Nat
  BY <1>1, <1>2 DEF Extended
<1>4. \A i \in 1 .. M * s : Q(i) \in 1 .. M /\ R(i) \in 1 .. s /\ i = (Q(i) - 1) * s + R(i)
  <2>. TAKE i \in 1 .. M * s
  <2>1. s # 0
    <3>1. s = 0 => M * s = 0
      BY <1>1
    <3>. QED
      BY <1>1, <1>2, <3>1
  <2>. HIDE DEF M, s
  <2>2. /\ ((i - 1) \div s) + 1 \in 1 .. M
        /\ ((i - 1) % s) + 1 \in 1 .. s
        /\ i = ((i - 1) \div s) * s + ((i - 1) % s) + 1
    BY <1>1, <1>2, <2>1, Digits
  <2>3. (i - 1) \div s \in Int /\ (i - 1) % s \in Int /\ ((i - 1) \div s) * s \in Int
    BY <1>1, <1>2, <2>1
  <2>. QED
    BY <2>2, <2>3
<1>5. \A f \in F : f \in [1 .. n - 1 -> ParamValues] /\ \A k \in 1 .. n - 1 : f[k] \in Range(ranges[k])
  BY DEF FirstGrid
<1>6. \A r \in 1 .. s : values[r] \in Range(values)
  BY <1>2 DEF Range
<1>7. \A f \in F, r \in 1 .. s : Append(f, values[r]) \in G
  <2>. TAKE f \in F, r \in 1 .. s
  <2>. DEFINE g == Append(f, values[r])
  <2>1. /\ g \in [1 .. n -> ParamValues] /\ g[n] = values[r]
        /\ \A k \in 1 .. n - 1 : g[k] = f[k]
    BY <1>2, <1>5, <1>a, Zenon
  <2>. HIDE DEF g
  <2>2. \A k \in 1 .. n : g[k] \in Range(ranges[k])
    <3>. TAKE k \in 1 .. n
    <3>1. CASE k = n
      BY <1>6, <2>1, <3>1
    <3>2. CASE k # n
      <4>1. k \in 1 .. n - 1
        BY <3>2
      <4>. QED
        BY <1>5, <2>1, <4>1
    <3>. QED
      BY <3>1, <3>2
  <2>3. g \in G
    BY <2>1, <2>2 DEF FirstGrid
  <2>. QED
    BY <2>3 DEF g
<1>. HIDE DEF F, G, M, s, Q, R, new, values
<1>8. new \in Seq(G) /\ Len(new) = M * s
  <2>1. \A i \in 1 .. M * s : Append(list[Q(i)], values[R(i)]) \in G
    BY <1>1, <1>4, <1>7
  <2>2. new \in [1 .. M * s -> G]
    BY <1>3, <2>1
  <2>. DEFINE m == M * s
  <2>3. m \in Nat /\ new \in [1 .. m -> G]
    BY <1>3, <2>2
  <2>. HIDE DEF m
  <2>4. new \in Seq(G) /\ Len(new) = m
    BY <2>3, LenProperties, SeqDef
  <2>. QED
    BY <2>4 DEF m
<1>9. ASSUME NEW g \in G PROVE \E i \in 1 .. Len(new) : new[i] = g
  <2>. DEFINE f == [k \in 1 .. n - 1 |-> g[k]]
  <2>1. g \in [1 .. n -> ParamValues] /\ \A k \in 1 .. n : g[k] \in Range(ranges[k])
    BY <1>9 DEF G, FirstGrid
  <2>2. f \in F
    <3>1. \A k \in 1 .. n - 1 : k \in 1 .. n /\ f[k] = g[k]
      OBVIOUS
    <3>2. f \in [1 .. n - 1 -> ParamValues]
      BY <2>1, <3>1
    <3>. HIDE DEF f
    <3>. QED
      BY <2>1, <3>1, <3>2 DEF F, FirstGrid
  <2>3. PICK q \in 1 .. M : list[q] = f
    BY <1>1, <2>2
  <2>4. PICK r \in 1 .. s : values[r] = g[n]
    <3>1. g[n] \in Range(values)
      BY <1>2, <2>1 DEF values
    <3>. QED
      BY <1>2, <3>1 DEF Range
  <2>5. s # 0
    BY <1>2, <2>4
  <2>6. \E i \in 1 .. M * s : Q(i) = q /\ R(i) = r
    <3>1. M \in Nat /\ s \in Nat \ {0}
      BY <1>1, <1>2, <2>5
    <3>2. AllDigits(M, s)
      BY <3>1, Undigits
    <3>. QED
      BY <3>2, Zenon DEF AllDigits, Q, R
  <2>i. PICK i \in 1 .. M * s : Q(i) = q /\ R(i) = r
    BY <2>6
  <2>7. new[i] = Append(f, values[r])
    BY <1>3, <2>3, <2>i
  <2>8. f \in [1 .. n - 1 -> ParamValues] /\ values[r] \in ParamValues
    BY <1>2, <1>5, <2>2
  <2>9. Append(f, values[r]) = g
    <3>. DEFINE h == Append(f, values[r])
    <3>1. /\ h \in [1 .. n -> ParamValues] /\ h[n] = values[r]
          /\ \A k \in 1 .. n - 1 : h[k] = f[k]
      BY <2>8, <1>a, Zenon
    <3>2. \A k \in 1 .. n : h[k] = g[k]
      <4>. HIDE DEF h
      <4>. TAKE k \in 1 .. n
      <4>1. CASE k = n
        BY <2>4, <3>1, <4>1
      <4>2. CASE k # n
        BY <1>2, <3>1, <4>2
      <4>. QED
        BY <4>1, <4>2
    <3>. HIDE DEF h
    <3>3. h = g
      BY <2>1, <3>1, <3>2
    <3>. QED
      BY <3>3 DEF h
  <2>. QED
    BY <1>8, <2>i, <2>7, <2>9
<1>10. ASSUME Differ(list), Differ(values) PROVE Differ(new)
  <2>. SUFFICES ASSUME NEW i \in 1 .. M * s, NEW j \in 1 .. M * s, new[i] = new[j]
                PROVE  i = j
    BY <1>8 DEF Differ
  <2>. DEFINE f(k) == list[Q(k)]
              v(k) == values[R(k)]
  <2>1. \A k \in 1 .. M * s :
          /\ f(k) \in [1 .. n - 1 -> ParamValues] /\ v(k) \in ParamValues
          /\ new[k] = Append(f(k), v(k))
    BY <1>1, <1>2, <1>3, <1>4, <1>5
  <2>. HIDE DEF f, v
  <2>2. ASSUME NEW k \in 1 .. M * s
        PROVE  (\A l \in 1 .. n - 1 : new[k][l] = f(k)[l]) /\ new[k][n] = v(k)
    <3>. DEFINE a == f(k)
                V == v(k)
    <3>1. a \in [1 .. n - 1 -> ParamValues] /\ V \in ParamValues /\ new[k] = Append(a, V)
      BY <2>1
    <3>. HIDE DEF a, V
    <3>2. (\A l \in 1 .. n - 1 : new[k][l] = a[l]) /\ new[k][n] = V
      BY <3>1, <1>a
    <3>. QED
      BY <3>2 DEF a, V
  <2>3. /\ \A l \in 1 .. n - 1 : f(i)[l] = f(j)[l]
        /\ v(i) = v(j)
    BY <2>2
  <2>4. f(i) = f(j)
    BY <2>1, <2>3
  <2>5. Q(i) = Q(j)
    BY <1>4, <1>10, <2>4 DEF Differ, M, f
  <2>6. R(i) = R(j)
    <3>1. values[R(i)] = values[R(j)]
      BY <2>3 DEF v
    <3>. QED
      BY <1>4, <1>10, <3>1 DEF Differ, s
  <2>. QED
    BY <1>4, <2>5, <2>6
<1>. QED
  BY <1>8, <1>9, <1>10 DEF Covers, new, values, G

LEMMA ProductCovers ==
  ASSUME NEW ranges \in Seq(Seq(ParamValues))
  PROVE  LET list == MultiCartesianProduct(ranges)
         IN  /\ Covers(list, FirstGrid(ranges, Len(ranges)))
             /\ (\A k \in 1 .. Len(ranges) : Differ(ranges[k])) => Differ(list)
<1>. DEFINE N == Len(ranges)
            Apart == \A k \in 1 .. N : Differ(ranges[k])
<1>1. N \in Nat
  BY LenProperties
<1>2. PICK p : Products(p, ranges, N) /\ MultiCartesianProduct(ranges) = p[N]
  BY <1>1, ProductIs
<1>3. \A n \in 0 .. N : p[n] = IF n = 0 THEN << << >> >> ELSE Extended(p[n - 1], ranges[n])
  BY <1>2 DEF Products
<1>. DEFINE S == {n \in 0 .. N : Covers(p[n], FirstGrid(ranges, n)) /\ (Apart => Differ(p[n]))}
<1>4. 0 \in S
  <2>. DEFINE list == << << >> >>
              G == FirstGrid(ranges, 0)
  <2>1. p[0] = list
    BY <1>1, <1>3
  <2>2. << >> \in G /\ \A f \in G : f = << >>
    BY DEF FirstGrid
  <2>3. Len(list) = 1 /\ list[1] = << >>
    OBVIOUS
  <2>4. list \in Seq(G)
    BY <2>2
  <2>. HIDE DEF list, G
  <2>5. Covers(list, G)
    BY <2>2, <2>3, <2>4 DEF Covers
  <2>6. Differ(list)
    BY <2>3 DEF Differ
  <2>. QED
    BY <1>1, <2>1, <2>5, <2>6 DEF G
<1>5. ASSUME NEW n \in 1 .. N, n - 1 \in S PROVE n \in S
  <2>1. n - 1 \in 0 .. N /\ n \in 0 .. N /\ n # 0
    BY <1>1
  <2>2. Covers(p[n - 1], FirstGrid(ranges, n - 1)) /\ (Apart => Differ(p[n - 1]))
    BY <1>5
  <2>3. p[n] = Extended(p[n - 1], ranges[n])
    BY <1>3, <2>1
  <2>4. /\ Covers(Extended(p[n - 1], ranges[n]), FirstGrid(ranges, n))
        /\ Differ(p[n - 1]) /\ Differ(ranges[n]) => Differ(Extended(p[n - 1], ranges[n]))
    BY <2>2, ExtendedCovers
  <2>. QED
    BY <2>1, <2>2, <2>3, <2>4
<1>. HIDE DEF S, N
<1>6. 0 .. N \subseteq S
  BY <1>1, <1>4, <1>5, UpTo
<1>7. N \in S
  BY <1>1, <1>6
<1>. QED
  BY <1>2, <1>7 DEF S, N

(* The configurations of a sweep are its grid; they are all different when  *)
(* no list of values holds one twice.                                       *)
LEMMA GridIsRun ==
  ASSUME NEW ranges \in Seq(Seq(ParamValues))
  PROVE  /\ Covers(GeneratePermutations(ranges), Grid(ranges))
         /\ (\A k \in 1 .. Len(ranges) : Differ(ranges[k]))
              => Differ(GeneratePermutations(ranges))
<1>1. Len(ranges) \in Nat /\ DOMAIN ranges = 1 .. Len(ranges)
  BY LenProperties
<1>2. GeneratePermutations(ranges) = MultiCartesianProduct(ranges)
  <2>1. CASE ranges = << >>
    <3>1. PICK p : Products(p, ranges, Len(ranges)) /\ MultiCartesianProduct(ranges) = p[Len(ranges)]
      BY <1>1, ProductIs
    <3>2. Len(ranges) = 0
      BY <2>1
    <3>. QED
      BY <2>1, <3>1, <3>2 DEF Products, GeneratePermutations
  <2>. QED
    BY <2>1 DEF GeneratePermutations
<1>3. Grid(ranges) = FirstGrid(ranges, Len(ranges))
  BY <1>1 DEF Grid, FirstGrid
<1>. QED
  BY <1>2, <1>3, ProductCovers

LEMMA CountOfCovered ==
  ASSUME NEW list, NEW G, Covers(list, G), Differ(list)
  PROVE  IsFiniteSet(G) /\ Cardinality(G) = Len(list)
<1>1. Len(list) \in Nat /\ list \in [1 .. Len(list) -> G]
  BY LenProperties DEF Covers
<1>2. list \in Bijection(1 .. Len(list), G)
  BY <1>1 DEF Covers, Differ, Bijection, Injection, Surjection, IsInjective
<1>3. IsFiniteSet(1 .. Len(list)) /\ Cardinality(1 .. Len(list)) = Len(list)
  BY <1>1, FS_Interval
<1>4. ExistsBijection(1 .. Len(list), G)
  BY <1>2 DEF ExistsBijection
<1>. HIDE DEF Bijection
<1>. QED
  BY <1>3, <1>4, FS_Bijection

-----------------------------------------------------------------------------
(* The summary of the results.                                              *)

Before(returns, i) ==
  {j \in DOMAIN returns : returns[j] < returns[i] \/ (returns[j] = returns[i] /\ j <= i)}

(* The sort gives every result a place of its own, the smaller one first.   *)
LEMMA BeforeIs ==
  ASSUME NEW N \in Nat, NEW returns \in [1 .. N -> Int], NEW i \in 1 .. N
  PROVE  /\ i \in Before(returns, i) /\ Before(returns, i) \in SUBSET (1 .. N)
         /\ IsFiniteSet(Before(returns, i))
         /\ Place(returns, i) = Cardinality(Before(returns, i))
         /\ Place(returns, i) \in 1 .. N
<1>. DEFINE B == Before(returns, i)
<1>1. i \in B /\ B \in SUBSET (1 .. N)
  BY DEF Before
<1>2. IsFiniteSet(1 .. N) /\ Cardinality(1 .. N) = N
  BY FS_Interval
<1>3. Place(returns, i) = Cardinality(B)
  BY DEF Place, Before
<1>. HIDE DEF B
<1>4. IsFiniteSet(B) /\ Cardinality(B) <= N
  <2>. DEFINE I == 1 .. N
  <2>1. IsFiniteSet(I) /\ Cardinality(I) = N /\ B \in SUBSET I
    BY <1>1, <1>2
  <2>. HIDE DEF I
  <2>2. IsFiniteSet(B) /\ Cardinality(B) <= Cardinality(I)
    BY <2>1, FS_Subset
  <2>. QED
    BY <2>1, <2>2
<1>5. Cardinality(B) \in Nat /\ Cardinality(B) # 0
  BY <1>1, <1>4, FS_CardinalityType, FS_EmptySet
<1>6. Place(returns, i) \in 1 .. N
  BY <1>3, <1>4, <1>5
<1>. QED
  BY <1>1, <1>3, <1>4, <1>6 DEF B

LEMMA PlacesGrow ==
  ASSUME NEW N \in Nat, NEW returns \in [1 .. N -> Int],
         NEW i \in 1 .. N, NEW j \in 1 .. N,
         returns[i] < returns[j] \/ (returns[i] = returns[j] /\ i < j)
  PROVE  Place(returns, i) < Place(returns, j)
<1>. DEFINE B == Before(returns, i)
            C == Before(returns, j)
<1>1. B \in SUBSET C /\ j \notin B
  BY DEF Before
<1>2. /\ j \in C /\ IsFiniteSet(C)
      /\ Place(returns, i) = Cardinality(B) /\ Place(returns, j) = Cardinality(C)
      /\ Place(returns, i) \in 1 .. N /\ Place(returns, j) \in 1 .. N
  BY BeforeIs
<1>. HIDE DEF B, C
<1>3. Cardinality(B) <= Cardinality(C) /\ (Cardinality(C) = Cardinality(B) => C = B)
  BY <1>1, <1>2, FS_Subset
<1>. QED
  BY <1>1, <1>2, <1>3

LEMMA PlacesTaken ==
  ASSUME NEW N \in Nat, NEW returns \in [1 .. N -> Int], NEW n \in 1 .. N
  PROVE  \E i \in 1 .. N : Place(returns, i) = n
<1>. DEFINE p == [i \in 1 .. N |-> Place(returns, i)]
<1>1. p \in [1 .. N -> 1 .. N]
  BY BeforeIs
<1>2. ASSUME NEW i \in 1 .. N, NEW j \in 1 .. N, i # j PROVE p[i] # p[j]
  <2>1. returns[i] \in Int /\ returns[j] \in Int
    OBVIOUS
  <2>2. p[i] < p[j] \/ p[j] < p[i]
    BY <1>2, <2>1, PlacesGrow
  <2>3. p[i] \in 1 .. N /\ p[j] \in 1 .. N
    BY <1>1
  <2>. QED
    BY <2>2, <2>3
<1>. HIDE DEF p
<1>3. p \in Injection(1 .. N, 1 .. N)
  BY <1>1, <1>2 DEF Injection, IsInjective
<1>4. p \in Surjection(1 .. N, 1 .. N)
  <2>1. IsFiniteSet(1 .. N)
    BY FS_Interval
  <2>. QED
    BY <1>3, <2>1, FS_Injection
<1>5. PICK i \in 1 .. N : p[i] = n
  BY <1>4 DEF Surjection
<1>. QED
  BY <1>5 DEF p

LEMMA SortedIs ==
  ASSUME NEW N \in Nat, NEW returns \in [1 .. N -> Int], NEW n \in 1 .. N
  PROVE  \E i \in 1 .. N : Place(returns, i) = n /\ SortBy(returns, returns)[n] = returns[i]
<1>. DEFINE i == CHOOSE i \in 1 .. N : Place(returns, i) = n
<1>1. i \in 1 .. N /\ Place(returns, i) = n
  BY PlacesTaken
<1>2. SortBy(returns, returns)[n] = returns[i]
  BY DEF SortBy
<1>. QED
  BY <1>1, <1>2

LEMMA SummaryIs ==
  ASSUME NEW N \in Nat, N # 0, NEW R, DOMAIN R = 1 .. N, Len(R) = N,
         \A i \in 1 .. N : R[i].return \in Int
  PROVE  LET s == Summary(R)
             NoBetter == {i \in 1 .. N : R[i].return <= s.median}
             NoWorse == {i \in 1 .. N : R[i].return >= s.median}
         IN  /\ s.runs = N
             /\ \A i \in 1 .. N : s.worst <= R[i].return /\ R[i].return <= s.best
             /\ \E i \in 1 .. N : /\ R[i].params = s.bestParams /\ R[i].return = s.best
                                  /\ \A j \in 1 .. N : j > i => R[j].return < s.best
             /\ 2 * Cardinality(NoBetter) >= N /\ 2 * Cardinality(NoWorse) >= N
<1>. DEFINE returns == [i \in DOMAIN R |-> R[i].return]
            s == Summary(R)
            m == (N \div 2) + 1
            NoBetter == {i \in 1 .. N : R[i].return <= s.median}
            NoWorse == {i \in 1 .. N : R[i].return >= s.median}
            I == 1 .. N
<1>1. returns \in [1 .. N -> Int] /\ \A i \in 1 .. N : returns[i] = R[i].return
  OBVIOUS
<1>3. /\ s.runs = N /\ s.worst = SortBy(returns, returns)[1] /\ s.best = SortBy(returns, returns)[N]
      /\ s.median = SortBy(returns, returns)[m] /\ s.bestParams = LastBest(R).params
  BY DEF Summary
<1>4. 1 \in 1 .. N /\ N \in 1 .. N /\ m \in 1 .. N /\ 2 * m >= N /\ 2 * (N - m + 1) >= N
  OBVIOUS
<1>5. IsFiniteSet(I) /\ Cardinality(I) = N
  BY FS_Interval
<1>. HIDE DEF s, returns
<1>6. \A n \in 1 .. N : \E i \in 1 .. N : Place(returns, i) = n /\ SortBy(returns, returns)[n] = returns[i]
  BY <1>1, SortedIs
<1>7. \A i \in 1 .. N : Place(returns, i) \in 1 .. N
  BY <1>1, BeforeIs
<1>8. \A i, j \in 1 .. N : returns[i] < returns[j] \/ (returns[i] = returns[j] /\ i < j)
                              => Place(returns, i) < Place(returns, j)
  BY <1>1, PlacesGrow
<1>9. \A i \in 1 .. N : s.worst <= R[i].return
  <2>1. PICK a \in 1 .. N : Place(returns, a) = 1 /\ s.worst = returns[a]
    BY <1>3, <1>4, <1>6
  <2>2. ASSUME NEW i \in 1 .. N, returns[i] < returns[a] PROVE FALSE
    BY <1>7, <1>8, <2>1, <2>2
  <2>. QED
    BY <1>1, <2>1, <2>2
<1>10. PICK b \in 1 .. N : Place(returns, b) = N /\ s.best = returns[b]
  BY <1>3, <1>4, <1>6
<1>11. \A j \in 1 .. N : returns[j] < returns[b] \/ (returns[j] = returns[b] /\ j <= b)
  <2>1. ASSUME NEW j \in 1 .. N,
               returns[b] < returns[j] \/ (returns[b] = returns[j] /\ b < j)
        PROVE  FALSE
    <3>1. Place(returns, b) < Place(returns, j)
      BY <1>8, <1>10, <2>1
    <3>2. Place(returns, b) = N /\ Place(returns, j) \in 1 .. N
      BY <1>7, <1>10, <2>1
    <3>. HIDE DEF Place
    <3>. QED
      BY <3>1, <3>2
  <2>2. ASSUME NEW j \in 1 .. N
        PROVE  returns[j] < returns[b] \/ (returns[j] = returns[b] /\ j <= b)
    <3>1. returns[j] \in Int /\ returns[b] \in Int
      BY <1>1
    <3>. QED
      BY <2>1, <3>1
  <2>. QED
    BY <2>2
<1>12. s.bestParams = R[b].params
  <2>. DEFINE Best(i) == \A j \in DOMAIN R : \/ R[j].return < R[i].return
                                             \/ (R[j].return = R[i].return /\ j <= i)
              l == CHOOSE i \in DOMAIN R : Best(i)
  <2>1. b \in DOMAIN R /\ Best(b)
    BY <1>1, <1>11
  <2>2. l \in DOMAIN R /\ Best(l)
    <3>. HIDE DEF Best
    <3>. QED
      BY <2>1
  <2>3. l = b
    <3>. HIDE DEF l
    <3>1. b \in 1 .. N /\ l \in 1 .. N /\ R[b].return \in Int /\ R[l].return \in Int
      BY <2>1, <2>2
    <3>2. /\ R[b].return < R[l].return \/ (R[b].return = R[l].return /\ b <= l)
          /\ R[l].return < R[b].return \/ (R[l].return = R[b].return /\ l <= b)
      BY <2>1, <2>2
    <3>. QED
      BY <3>1, <3>2
  <2>4. LastBest(R) = R[l]
    BY DEF LastBest
  <2>. QED
    BY <1>3, <2>3, <2>4
<1>13. \E i \in 1 .. N : /\ R[i].params = s.bestParams /\ R[i].return = s.best
                         /\ \A j \in 1 .. N : j > i => R[j].return < s.best
  <2>1. R[b].return = s.best /\ \A j \in 1 .. N : j > b => R[j].return < s.best
    BY <1>1, <1>10, <1>11
  <2>. QED
    BY <1>12, <2>1
<1>14. PICK c \in 1 .. N : Place(returns, c) = m /\ s.median = returns[c]
  BY <1>3, <1>4, <1>6
<1>. DEFINE B == Before(returns, c)
<1>15. /\ c \in B /\ B \in SUBSET I /\ IsFiniteSet(B) /\ Cardinality(B) = m
  BY <1>1, <1>14, BeforeIs
<1>16. 2 * Cardinality(NoBetter) >= N
  <2>1. B \in SUBSET NoBetter /\ NoBetter \in SUBSET I
    BY <1>1, <1>14 DEF Before
  <2>. HIDE DEF B, NoBetter, I, m
  <2>2. IsFiniteSet(NoBetter)
    BY <1>5, <2>1, FS_Subset
  <2>3. Cardinality(B) <= Cardinality(NoBetter) /\ Cardinality(NoBetter) \in Nat
    BY <2>1, <2>2, FS_Subset, FS_CardinalityType
  <2>4. m \in Nat /\ 2 * m >= N
    BY <1>4 DEF m
  <2>. QED
    BY <1>15, <2>3, <2>4
<1>17. 2 * Cardinality(NoWorse) >= N
  <2>. DEFINE A == I \ B
              C == A \cup {c}
  <2>1. C \in SUBSET NoWorse /\ NoWorse \in SUBSET I
    <3>1. ASSUME NEW j \in A PROVE returns[j] >= returns[c]
      BY <1>1 DEF Before
    <3>2. C \subseteq I /\ \A j \in C : returns[j] >= returns[c]
      BY <1>1, <3>1
    <3>. HIDE DEF A, C
    <3>3. C \subseteq NoWorse
      BY <1>1, <1>14, <3>2
    <3>. QED
      BY <3>3
  <2>. HIDE DEF B, NoWorse, I, m
  <2>2. A \cap {c} = {} /\ I \cap B = B
    BY <1>15
  <2>3. IsFiniteSet(A) /\ Cardinality(A) = N - m
    <3>1. IsFiniteSet(A) /\ Cardinality(A) = Cardinality(I) - Cardinality(I \cap B)
      BY <1>5, FS_Difference
    <3>. HIDE DEF A
    <3>. QED
      BY <1>5, <1>15, <2>2, <3>1
  <2>4. c \notin A
    BY <2>2
  <2>. HIDE DEF A
  <2>5. IsFiniteSet(C) /\ Cardinality(C) = Cardinality(A) + 1
    BY <2>3, <2>4, FS_AddElement
  <2>6. IsFiniteSet(NoWorse)
    BY <1>5, <2>1, FS_Subset
  <2>. HIDE DEF C
  <2>7. Cardinality(C) <= Cardinality(NoWorse) /\ Cardinality(NoWorse) \in Nat
    BY <2>1, <2>6, FS_Subset, FS_CardinalityType
  <2>8. m \in Nat /\ 2 * (N - m + 1) >= N
    BY <1>4 DEF m
  <2>. QED
    BY <2>3, <2>5, <2>7, <2>8
<1>18. s.runs = N /\ \A i \in 1 .. N : s.worst <= R[i].return /\ R[i].return <= s.best
  BY <1>1, <1>3, <1>9, <1>10, <1>11
<1>. HIDE DEF NoBetter, NoWorse
<1>. QED
  BY <1>13, <1>16, <1>17, <1>18 DEF s, NoBetter, NoWorse

-----------------------------------------------------------------------------
(* A sweep under way.                                                       *)

SweepFields == DOMAIN sweep = {"stage", "file", "results", "finished", "summary"}

(* Swept(given): the results stand beside their parameters, in the order of *)
(* the configurations, whatever the order in which the threads finish.      *)
Swept(given) ==
  LET Configs == GeneratePermutations(given.ranges)
      N == Len(Configs)
  IN  /\ sweep.file = {given}
      /\ sweep.results \in [1 .. N -> [params : Grid(given.ranges), return : Int]]
      /\ sweep.finished \subseteq 1 .. N
      /\ \A i \in 1 .. N : sweep.results[i].params = Configs[i]
      /\ \A i \in sweep.finished : sweep.results[i].return = Return[BuiltWith(given, Configs[i])]
      /\ sweep.stage = "summarised" =>
            /\ sweep.finished = 1 .. N /\ N # 0
            /\ sweep.summary = {Summary(sweep.results)}

SweepInv ==
  /\ SweepFields
  /\ sweep.stage \in {"running", "summarised"} => \E given \in SweepFiles : Swept(given)

LEMMA ConfigsAre ==
  ASSUME NEW given \in SweepFiles
  PROVE  LET Configs == GeneratePermutations(given.ranges)
         IN  /\ Configs \in Seq(Grid(given.ranges))
             /\ Len(Configs) \in Nat /\ DOMAIN Configs = 1 .. Len(Configs)
             /\ \A i \in 1 .. Len(Configs) :
                  /\ Configs[i] \in Grid(given.ranges)
                  /\ Return[BuiltWith(given, Configs[i])] \in Int
<1>. DEFINE Configs == GeneratePermutations(given.ranges)
<1>1. given.ranges \in Seq(Seq(ParamValues))
  BY SweepAssumption
<1>2. Configs \in Seq(Grid(given.ranges))
  BY <1>1, GridIsRun DEF Covers
<1>3. \A config \in Grid(given.ranges) : Return[BuiltWith(given, config)] \in Int
  BY SweepAssumption
<1>. HIDE DEF Configs
<1>4. \A i \in 1 .. Len(Configs) : Configs[i] \in Grid(given.ranges)
  BY <1>2, ElementOfSeq
<1>5. Len(Configs) \in Nat /\ DOMAIN Configs = 1 .. Len(Configs)
  BY <1>2, LenProperties
<1>. QED
  BY <1>2, <1>3, <1>4, <1>5 DEF Configs

LEMMA SweepBeginsWhole ==
  ASSUME NEW given \in SweepFiles, SweepBegins(given)
  PROVE  SweepInv'
<1>. DEFINE Configs == GeneratePermutations(given.ranges)
            N == Len(Configs)
            blank == [i \in DOMAIN Configs |-> [params |-> Configs[i], return |-> 0]]
<1>1. /\ Configs \in Seq(Grid(given.ranges)) /\ N \in Nat /\ DOMAIN Configs = 1 .. N
      /\ \A i \in 1 .. N : Configs[i] \in Grid(given.ranges)
  BY ConfigsAre
<1>2. CASE given.dates
  <2>1. sweep' = [stage |-> "running", file |-> {given}, results |-> blank,
                  finished |-> {}, summary |-> {}]
    BY <1>2 DEF SweepBegins, NoSweep
  <2>. HIDE DEF Configs
  <2>2. /\ blank \in [1 .. N -> [params : Grid(given.ranges), return : Int]]
        /\ \A i \in 1 .. N : blank[i].params = Configs[i]
    BY <1>1
  <2>. HIDE DEF blank, N
  <2>3. Swept(given)'
    BY <2>1, <2>2 DEF Swept, N, Configs
  <2>4. SweepFields'
    BY <2>1 DEF SweepFields
  <2>. QED
    BY <2>3, <2>4 DEF SweepInv
<1>3. CASE ~given.dates
  <2>1. sweep' = [stage |-> "refused", file |-> {}, results |-> << >>,
                  finished |-> {}, summary |-> {}]
    BY <1>3 DEF SweepBegins, NoSweep
  <2>. QED
    BY <2>1 DEF SweepInv, SweepFields
<1>. QED
  BY <1>2, <1>3

LEMMA OneRunWhole ==
  ASSUME SweepInv, OneRun
  PROVE  SweepInv'
<1>1. SweepFields /\ sweep.stage = "running"
  BY DEF SweepInv, OneRun
<1>2. PICK given \in SweepFiles : Swept(given)
  BY <1>1 DEF SweepInv
<1>. DEFINE Configs == GeneratePermutations(given.ranges)
            N == Len(Configs)
            R == sweep.results
<1>3. /\ sweep.file = {given}
      /\ R \in [1 .. N -> [params : Grid(given.ranges), return : Int]]
      /\ sweep.finished \subseteq 1 .. N
      /\ \A i \in 1 .. N : R[i].params = Configs[i]
      /\ \A i \in sweep.finished : R[i].return = Return[BuiltWith(given, Configs[i])]
  BY <1>2 DEF Swept
<1>4. PICK i \in Pending :
        sweep' = [sweep EXCEPT
           !.finished = @ \cup {i},
           !.results = Collect(@, i, [params |-> Configs[i],
                                      return |-> Return[BuiltWith(given, Configs[i])]])]
  BY <1>3 DEF OneRun
<1>. DEFINE r == [params |-> Configs[i], return |-> Return[BuiltWith(given, Configs[i])]]
<1>5. /\ sweep'.stage = "running" /\ sweep'.file = {given}
      /\ sweep'.finished = sweep.finished \cup {i}
      /\ sweep'.results = [R EXCEPT ![i] = r]
      /\ SweepFields'
  BY <1>1, <1>3, <1>4 DEF SweepFields, Collect
<1>6. i \in 1 .. N
  BY <1>3 DEF Pending
<1>7. r \in [params : Grid(given.ranges), return : Int]
  BY <1>6, ConfigsAre
<1>. HIDE DEF Configs, N, R
<1>8. /\ sweep'.results \in [1 .. N -> [params : Grid(given.ranges), return : Int]]
      /\ \A j \in 1 .. N : sweep'.results[j].params = Configs[j]
  BY <1>3, <1>5, <1>6, <1>7
<1>9. \A j \in sweep'.finished : sweep'.results[j].return = Return[BuiltWith(given, Configs[j])]
  BY <1>3, <1>5, <1>6
<1>10. sweep'.finished \subseteq 1 .. N
  BY <1>3, <1>5, <1>6
<1>11. Swept(given)'
  BY <1>5, <1>8, <1>9, <1>10 DEF Swept, N, Configs
<1>. QED
  BY <1>5, <1>11 DEF SweepInv

LEMMA SummariseWhole ==
  ASSUME SweepInv, Summarise
  PROVE  SweepInv'
<1>1. SweepFields /\ sweep.stage = "running" /\ Pending = {}
  BY DEF SweepInv, Summarise
<1>2. PICK given \in SweepFiles : Swept(given)
  BY <1>1 DEF SweepInv
<1>3. CASE sweep.results = << >>
  <2>1. sweep' = [sweep EXCEPT !.stage = "panicked"]
    BY <1>3 DEF Summarise
  <2>. QED
    BY <1>1, <2>1 DEF SweepInv, SweepFields
<1>4. CASE sweep.results # << >>
  <2>. DEFINE N == Len(GeneratePermutations(given.ranges))
              new == {Summary(sweep.results)}
  <2>1. sweep' = [sweep EXCEPT !.stage = "summarised", !.summary = new]
    BY <1>4 DEF Summarise
  <2>2. N \in Nat /\ DOMAIN sweep.results = 1 .. N /\ sweep.finished \subseteq 1 .. N
    BY <1>2, ConfigsAre DEF Swept
  <2>3. sweep.finished = 1 .. N
    BY <1>1, <2>2 DEF Pending
  <2>4. N # 0
    <3>1. ASSUME N = 0 PROVE sweep.results = << >>
      <4>1. DOMAIN sweep.results = {}
        BY <2>2, <3>1
      <4>. QED
        BY <1>2, <4>1 DEF Swept
    <3>. QED
      BY <1>4, <3>1
  <2>. HIDE DEF N, new
  <2>5. /\ UNCHANGED <<sweep.file, sweep.results, sweep.finished>>
        /\ sweep'.summary = new /\ SweepFields'
    BY <1>1, <2>1 DEF SweepFields
  <2>6. Swept(given)'
    BY <1>2, <2>3, <2>4, <2>5 DEF Swept, N, new
  <2>. QED
    BY <2>5, <2>6 DEF SweepInv
<1>. QED
  BY <1>3, <1>4

LEMMA StepWhole == SweepInv /\ [Next]_vars => SweepInv'
<1>. SUFFICES ASSUME SweepInv, [Next]_vars PROVE SweepInv'
  OBVIOUS
<1>1. CASE UNCHANGED sweep
  BY <1>1 DEF SweepInv, SweepFields, Swept
<1>2. CASE \E p \in Procs : ChecksSweep(p)
  <2>1. UNCHANGED sweep \/ \E given \in SweepFiles : SweepBegins(given)
    BY <1>2 DEF ChecksSweep
  <2>. QED
    BY <1>1, <2>1, SweepBeginsWhole
<1>3. CASE SweepRuns
  BY <1>3, OneRunWhole, SummariseWhole DEF SweepRuns
<1>4. CASE EditCode \/ EditToml \/ UNCHANGED vars
  BY <1>1, <1>4 DEF EditCode, EditToml, vars
<1>5. CASE \E p \in Procs : Command(p) /\ ~ChecksSweep(p)
  <2>1. PICK p \in Procs : Command(p) /\ ~ChecksSweep(p)
    BY <1>5
  <2>2. UNCHANGED sweep
    BY <2>1 DEF Command, WorkspaceInit, InitBegins, InitWrites, RunBegins, SweepCommand,
      Begins, LoadsToml, DiscoversIds, ChecksRun, LaunchesBuiltin, LaunchesProject,
      CargoBegins, CargoEnds, Executes, ExecutableGone, EngineEnds, SweepEnds, Killed
  <2>. QED
    BY <1>1, <2>2
<1>. QED
  BY <1>2, <1>3, <1>4, <1>5 DEF Next

(* ListsDiffer: no list of the swept file holds a value twice (it would be  *)
(* run twice).                                                              *)
ListsDiffer ==
  \A given \in sweep.file : \A k \in DOMAIN given.ranges :
    \A i, j \in DOMAIN given.ranges[k] : given.ranges[k][i] = given.ranges[k][j] => i = j

LEMMA WholeCovers == SweepInv => (ListsDiffer => SweepCoversGrid)
<1>. DEFINE Whole(f, t) ==
       LET R == sweep.results
           Configs == GeneratePermutations(f.ranges)
           NoBetter == {i \in DOMAIN R : R[i].return <= t.median}
           NoWorse == {i \in DOMAIN R : R[i].return >= t.median}
       IN  /\ {R[i].params : i \in DOMAIN R} = Grid(f.ranges)
           /\ Len(R) = Cardinality(Grid(f.ranges)) /\ t.runs = Len(R)
           /\ \A i \in DOMAIN R : R[i].return = Return[BuiltWith(f, R[i].params)]
           /\ \A i \in DOMAIN R : t.worst <= R[i].return /\ R[i].return <= t.best
           /\ \E i \in DOMAIN R :
                 /\ R[i].params = t.bestParams /\ R[i].return = t.best
                 /\ \A j \in DOMAIN R : Configs[j] = R[i].params =>
                       \A l \in DOMAIN R : l > j =>
                          Return[BuiltWith(f, Configs[l])] < t.best
           /\ 2 * Cardinality(NoBetter) >= Len(R) /\ 2 * Cardinality(NoWorse) >= Len(R)
<1>0. (\A f \in sweep.file, t \in sweep.summary : Whole(f, t)) => SweepCoversGrid
  BY DEF SweepCoversGrid
<1>. HIDE DEF Whole
<1>. SUFFICES ASSUME SweepInv, ListsDiffer, sweep.stage = "summarised"
              PROVE  \A f \in sweep.file, t \in sweep.summary : Whole(f, t)
  BY <1>0 DEF SweepCoversGrid
<1>1. PICK given \in SweepFiles : Swept(given)
  BY DEF SweepInv
<1>. DEFINE Configs == GeneratePermutations(given.ranges)
            N == Len(Configs)
            R == sweep.results
            G == Grid(given.ranges)
            s == Summary(R)
            NoBetter == {i \in DOMAIN R : R[i].return <= s.median}
            NoWorse == {i \in DOMAIN R : R[i].return >= s.median}
<1>2. given.ranges \in Seq(Seq(ParamValues))
  BY SweepAssumption
<1>3. Covers(Configs, G) /\ Differ(Configs)
  <2>1. \A k \in 1 .. Len(given.ranges) : Differ(given.ranges[k])
    <3>. TAKE k \in 1 .. Len(given.ranges)
    <3>1. k \in DOMAIN given.ranges /\ given.ranges[k] \in Seq(ParamValues)
      BY <1>2, LenProperties, ElementOfSeq
    <3>2. DOMAIN given.ranges[k] = 1 .. Len(given.ranges[k])
      BY <3>1, LenProperties
    <3>3. given \in sweep.file
      BY <1>1 DEF Swept
    <3>. QED
      BY <3>1, <3>2, <3>3 DEF Differ, ListsDiffer
  <2>. QED
    BY <1>2, <2>1, GridIsRun
<1>4. /\ sweep.file = {given} /\ sweep.summary = {s}
      /\ R \in [1 .. N -> [params : G, return : Int]]
      /\ N # 0 /\ \A i \in 1 .. N : R[i].params = Configs[i]
      /\ \A i \in 1 .. N : R[i].return = Return[BuiltWith(given, Configs[i])]
  BY <1>1 DEF Swept
<1>5. N \in Nat /\ DOMAIN Configs = 1 .. N
  BY ConfigsAre
<1>6. Cardinality(G) = N
  BY <1>3, CountOfCovered
<1>. HIDE DEF Configs, N, R, G, s, NoBetter, NoWorse
<1>7. DOMAIN R = 1 .. N /\ Len(R) = N /\ \A i \in 1 .. N : R[i].return \in Int /\ R[i].params \in G
  <2>. DEFINE S == [params : G, return : Int]
  <2>1. Len(R) = N
    <3>1. R \in [1 .. N -> S]
      BY <1>4
    <3>. HIDE DEF S
    <3>2. R \in Seq(S)
      BY <1>5, <3>1, SeqDef
    <3>. QED
      BY <1>5, <3>1, <3>2, LenProperties
  <2>. QED
    BY <1>4, <2>1
<1>8. {R[i].params : i \in DOMAIN R} = G
  BY <1>3, <1>4, <1>7 DEF Covers, N
<1>9. \A i, j \in 1 .. N : Configs[i] = Configs[j] => i = j
  BY <1>3 DEF Differ, N
<1>10. /\ s.runs = N
       /\ \A i \in 1 .. N : s.worst <= R[i].return /\ R[i].return <= s.best
       /\ \E i \in 1 .. N : /\ R[i].params = s.bestParams /\ R[i].return = s.best
                            /\ \A j \in 1 .. N : j > i => R[j].return < s.best
       /\ 2 * Cardinality(NoBetter) >= N /\ 2 * Cardinality(NoWorse) >= N
  <2>1. NoBetter = {i \in 1 .. N : R[i].return <= s.median}
    BY <1>7 DEF NoBetter
  <2>2. NoWorse = {i \in 1 .. N : R[i].return >= s.median}
    BY <1>7 DEF NoWorse
  <2>. QED
    BY <1>4, <1>5, <1>7, <2>1, <2>2, SummaryIs DEF s
<1>11. \E i \in DOMAIN R :
          /\ R[i].params = s.bestParams /\ R[i].return = s.best
          /\ \A j \in DOMAIN R : Configs[j] = R[i].params =>
                \A l \in DOMAIN R : l > j => Return[BuiltWith(given, Configs[l])] < s.best
  <2>1. PICK i \in 1 .. N : /\ R[i].params = s.bestParams /\ R[i].return = s.best
                            /\ \A j \in 1 .. N : j > i => R[j].return < s.best
    BY <1>10
  <2>2. \A j \in 1 .. N : Configs[j] = R[i].params => j = i
    BY <1>4, <1>9
  <2>. QED
    BY <1>4, <1>7, <2>1, <2>2
<1>12. \A i \in DOMAIN R : R[i].return = Return[BuiltWith(given, R[i].params)]
  BY <1>4, <1>7
<1>13. Whole(given, s)
  <2>1. /\ Len(R) = Cardinality(G) /\ s.runs = Len(R)
        /\ \A i \in DOMAIN R : s.worst <= R[i].return /\ R[i].return <= s.best
        /\ 2 * Cardinality(NoBetter) >= Len(R) /\ 2 * Cardinality(NoWorse) >= Len(R)
    BY <1>6, <1>7, <1>10
  <2>. QED
    BY <1>8, <1>11, <1>12, <2>1 DEF Whole, Configs, R, G, NoBetter, NoWorse
<1>. QED
  BY <1>4, <1>13

(* In whatever order the threads finish, a summarised sweep has run every   *)
(* combination of the value lists once, each result stands beside the       *)
(* parameters that made it, and the summary's extremes, median and best     *)
(* parameters are those of all of them.                                     *)
THEOREM SweepIsWhole == Spec => [](ListsDiffer => SweepCoversGrid)
<1>1. Init => SweepInv
  BY DEF Init, NoSweep, SweepInv, SweepFields
<1>2. SweepInv /\ [Next]_vars => SweepInv'
  BY StepWhole
<1>3. SweepInv => (ListsDiffer => SweepCoversGrid)
  BY WholeCovers
<1>. QED
  BY <1>1, <1>2, <1>3, PTL DEF Spec

-----------------------------------------------------------------------------
(* Sorting and searching.                                                   *)

Arranges(from, list, keys, N) ==
  /\ from \in [1 .. N -> 1 .. N]
  /\ SortBy(list, keys) = [n \in 1 .. N |-> list[from[n]]]
  /\ \A i \in 1 .. N : \E n \in 1 .. N : from[n] = i
  /\ \A m, n \in 1 .. N : m < n =>
       \/ keys[from[m]] < keys[from[n]]
       \/ keys[from[m]] = keys[from[n]] /\ from[m] < from[n]

LEMMA SortIs ==
  ASSUME NEW N \in Nat, NEW keys \in [1 .. N -> Int], NEW list, DOMAIN list = 1 .. N
  PROVE  \E from : Arranges(from, list, keys, N)
<1>. DEFINE from == [n \in 1 .. N |-> CHOOSE i \in 1 .. N : Place(keys, i) = n]
<1>1. ASSUME NEW n \in 1 .. N PROVE from[n] \in 1 .. N /\ Place(keys, from[n]) = n
  BY PlacesTaken
<1>2. SortBy(list, keys) = [n \in 1 .. N |-> list[from[n]]]
  BY DEF SortBy
<1>3. \A n \in 1 .. N : from[n] \in 1 .. N /\ Place(keys, from[n]) = n
  BY <1>1
<1>4. from \in [1 .. N -> 1 .. N]
  BY <1>3
<1>. HIDE DEF from
<1>5. ASSUME NEW i \in 1 .. N, NEW j \in 1 .. N, Place(keys, i) <= Place(keys, j), i # j
      PROVE  keys[i] < keys[j] \/ (keys[i] = keys[j] /\ i < j)
  <2>1. keys[i] \in Int /\ keys[j] \in Int
    OBVIOUS
  <2>2. Place(keys, i) \in 1 .. N /\ Place(keys, j) \in 1 .. N
    BY BeforeIs
  <2>3. ASSUME keys[j] < keys[i] \/ (keys[j] = keys[i] /\ j < i)
        PROVE  Place(keys, j) < Place(keys, i)
    BY <2>3, PlacesGrow
  <2>. QED
    BY <1>5, <2>1, <2>2, <2>3
<1>6. ASSUME NEW i \in 1 .. N PROVE \E n \in 1 .. N : from[n] = i
  <2>. DEFINE n == Place(keys, i)
  <2>1. n \in 1 .. N
    BY BeforeIs
  <2>2. from[n] \in 1 .. N /\ Place(keys, from[n]) = n
    BY <1>3, <2>1
  <2>3. ASSUME from[n] # i PROVE FALSE
    <3>. DEFINE j == from[n]
    <3>1. j \in 1 .. N /\ Place(keys, j) = Place(keys, i) /\ Place(keys, i) \in Nat
      BY <2>1, <2>2
    <3>2. j # i
      BY <2>3
    <3>. HIDE DEF j, n
    <3>3. keys[i] < keys[j] \/ (keys[i] = keys[j] /\ i < j)
      BY <1>5, <3>1, <3>2
    <3>4. keys[j] < keys[i] \/ (keys[j] = keys[i] /\ j < i)
      BY <1>5, <3>1, <3>2
    <3>5. keys[i] \in Int /\ keys[j] \in Int
      BY <3>1
    <3>. QED
      BY <3>1, <3>3, <3>4, <3>5
  <2>. QED
    BY <2>1, <2>3
<1>7. ASSUME NEW m \in 1 .. N, NEW n \in 1 .. N, m < n
      PROVE  \/ keys[from[m]] < keys[from[n]]
             \/ keys[from[m]] = keys[from[n]] /\ from[m] < from[n]
  <2>1. /\ from[m] \in 1 .. N /\ from[n] \in 1 .. N
        /\ Place(keys, from[m]) = m /\ Place(keys, from[n]) = n
    BY <1>3
  <2>2. Place(keys, from[m]) <= Place(keys, from[n]) /\ from[m] # from[n]
    BY <1>7, <2>1
  <2>. QED
    BY <1>5, <2>1, <2>2
<1>8. Arranges(from, list, keys, N)
  BY <1>2, <1>4, <1>6, <1>7 DEF Arranges
<1>. QED
  BY <1>8

(* The first ones of a list are those up to their number.                   *)
LEMMA Cut ==
  ASSUME NEW L \in Nat, NEW first \in SUBSET (1 .. L),
         \A n \in first : \A m \in 1 .. n : m \in first
  PROVE  /\ Cardinality(first) \in 0 .. L
         /\ first = 1 .. Cardinality(first)
<1>. DEFINE S == {n \in 0 .. L : 1 .. n \subseteq first}
<1>1. PICK k \in S : k = L \/ k + 1 \notin first
  <2>1. SUFFICES ASSUME \A k \in S : k # L /\ k + 1 \in first PROVE FALSE
    OBVIOUS
  <2>2. 0 \in S
    OBVIOUS
  <2>3. ASSUME NEW n \in 1 .. L, n - 1 \in S PROVE n \in S
    <3>1. n \in first
      BY <2>1, <2>3
    <3>2. 1 .. n \subseteq first
      BY <3>1
    <3>. QED
      BY <3>2
  <2>. HIDE DEF S
  <2>4. 0 .. L \subseteq S
    BY <2>2, <2>3, UpTo
  <2>. QED
    BY <2>1, <2>4
<1>2. k \in 0 .. L /\ 1 .. k \subseteq first
  OBVIOUS
<1>3. first = 1 .. k
  <2>1. ASSUME NEW n \in first, n > k PROVE FALSE
    <3>1. k + 1 \in 1 .. n /\ k # L
      BY <1>2, <2>1
    <3>. QED
      BY <1>1, <2>1, <3>1
  <2>2. ASSUME NEW n \in first PROVE n \in 1 .. k
    <3>1. n \in 1 .. L /\ k \in Nat
      BY <1>2
    <3>. QED
      BY <2>1, <3>1
  <2>. QED
    BY <1>2, <2>2
<1>4. Cardinality(1 .. k) = k
  BY <1>2, FS_Interval
<1>. QED
  BY <1>2, <1>3, <1>4

(* The bounds of a search in L bars, round by round.                        *)
NextBounds(b, first) ==
  LET mid == b.low + (b.high - b.low) \div 2
  IN  CASE b.low >= b.high -> b
        [] b.low < b.high /\ mid + 1 \in first -> [low |-> mid + 1, high |-> b.high]
        [] b.low < b.high /\ mid + 1 \notin first -> [low |-> b.low, high |-> mid]

Bounds(p, L, from, first, N) ==
  p = [r \in 0 .. N |-> IF r = 0 THEN [low |-> from, high |-> L]
                        ELSE NextBounds(p[r - 1], first)]

LEMMA BoundsExist ==
  ASSUME NEW L, NEW from, NEW first, NEW N \in Nat
  PROVE  \E p : Bounds(p, L, from, first, N)
<1>. DEFINE S == {n \in 0 .. N : \E p : Bounds(p, L, from, first, n)}
            Start == [low |-> from, high |-> L]
<1>1. 0 \in S
  <2>. DEFINE p == [n \in 0 .. 0 |-> Start]
  <2>1. Bounds(p, L, from, first, 0)
    BY DEF Bounds
  <2>. QED
    BY <2>1
<1>2. ASSUME NEW n \in 1 .. N, n - 1 \in S PROVE n \in S
  <2>1. PICK p : Bounds(p, L, from, first, n - 1)
    BY <1>2
  <2>. DEFINE q == [k \in 0 .. n |-> IF k < n THEN p[k] ELSE NextBounds(p[n - 1], first)]
  <2>2. \A k \in 0 .. n - 1 : p[k] = IF k = 0 THEN Start ELSE NextBounds(p[k - 1], first)
    BY <2>1 DEF Bounds
  <2>3. \A k \in 0 .. n : q[k] = IF k = 0 THEN Start ELSE NextBounds(q[k - 1], first)
    <3>. TAKE k \in 0 .. n
    <3>1. CASE k = n
      BY <3>1
    <3>2. CASE k < n
      BY <3>2, <2>2
    <3>. QED
      BY <3>1, <3>2
  <2>4. q = [k \in 0 .. n |-> q[k]]
    OBVIOUS
  <2>. HIDE DEF q
  <2>5. Bounds(q, L, from, first, n)
    BY <2>3, <2>4 DEF Bounds
  <2>. QED
    BY <2>5
<1>. HIDE DEF S
<1>3. 0 .. N \subseteq S
  BY <1>1, <1>2, UpTo
<1>. QED
  BY <1>3 DEF S

(* A search ends where the first ones do.                                   *)
LEMMA NextBoundsIs ==
  ASSUME NEW k \in Nat, NEW low \in 0 .. k, NEW high \in Nat, k <= high
  PROVE  LET b == NextBounds([low |-> low, high |-> high], 1 .. k)
         IN  /\ b = [low |-> b.low, high |-> b.high]
             /\ b.low \in 0 .. k /\ b.high \in Nat /\ k <= b.high /\ b.high <= high
             /\ low < high => b.high - b.low < high - low
             /\ low >= high => b.high - b.low = high - low
<1>. DEFINE old == [low |-> low, high |-> high]
            half == (high - low) \div 2
            b == NextBounds(old, 1 .. k)
<1>1. CASE low >= high
  BY <1>1 DEF NextBounds
<1>2. CASE low < high
  <2>1. half \in Nat /\ half < high - low
    BY <1>2
  <2>2. b = IF low + half + 1 \in 1 .. k THEN [low |-> low + half + 1, high |-> high]
            ELSE [low |-> low, high |-> low + half]
    BY <1>2, <2>1 DEF NextBounds
  <2>. HIDE DEF half
  <2>3. CASE low + half + 1 \in 1 .. k
    BY <2>1, <2>2, <2>3
  <2>4. CASE low + half + 1 \notin 1 .. k
    BY <2>1, <2>2, <2>4
  <2>. QED
    BY <2>3, <2>4
<1>. QED
  BY <1>1, <1>2

LEMMA SearchIs ==
  ASSUME NEW bars, Len(bars) \in Nat, NEW k \in 0 .. Len(bars), NEW from \in 0 .. k
  PROVE  Search(bars, from, 1 .. k) = k
<1>. DEFINE L == Len(bars)
            first == 1 .. k
            p == CHOOSE q : Bounds(q, L, from, first, L)
<1>1. Bounds(p, L, from, first, L)
  <2>1. \E q : Bounds(q, L, from, first, L)
    BY BoundsExist
  <2>. QED
    BY <2>1
<1>2. Search(bars, from, first) = p[L].low
  BY DEF Search, Bounds, NextBounds
<1>. DEFINE S == {r \in 0 .. L : /\ p[r] = [low |-> p[r].low, high |-> p[r].high]
                                 /\ p[r].low \in 0 .. k /\ p[r].high \in Nat
                                 /\ k <= p[r].high /\ p[r].high <= L
                                 /\ p[r].high - p[r].low <= L - r}
<1>. HIDE DEF p
<1>3. \A r \in 0 .. L : p[r] = IF r = 0 THEN [low |-> from, high |-> L]
                                ELSE NextBounds(p[r - 1], first)
  BY <1>1 DEF Bounds
<1>4. 0 \in S
  BY <1>3
<1>5. ASSUME NEW r \in 1 .. L, r - 1 \in S PROVE r \in S
  <2>. DEFINE low == p[r - 1].low
              high == p[r - 1].high
  <2>1. /\ p[r - 1] = [low |-> low, high |-> high]
        /\ low \in 0 .. k /\ high \in Nat /\ k <= high /\ high <= L
        /\ high - low <= L - (r - 1)
    BY <1>5
  <2>2. r \in 0 .. L /\ r # 0
    OBVIOUS
  <2>3. p[r] = NextBounds([low |-> low, high |-> high], first)
    BY <1>3, <2>1, <2>2
  <2>. HIDE DEF low, high
  <2>. DEFINE a == p[r].low
              c == p[r].high
  <2>4. /\ p[r] = [low |-> a, high |-> c]
        /\ a \in 0 .. k /\ c \in Nat /\ k <= c /\ c <= high
        /\ low < high => c - a < high - low
        /\ low >= high => c - a = high - low
    BY <2>1, <2>3, NextBoundsIs
  <2>5. c <= L /\ c - a <= L - r
    <3>. HIDE DEF a, c
    <3>. QED
      BY <2>1, <2>4
  <2>. QED
    BY <2>2, <2>4, <2>5
<1>. HIDE DEF S
<1>6. L \in S
  <2>1. 0 .. L \subseteq S
    BY <1>4, <1>5, UpTo
  <2>. QED
    BY <2>1
<1>7. p[L].low = k
  BY <1>6 DEF S
<1>. QED
  BY <1>2, <1>7

-----------------------------------------------------------------------------
(* Reading a file, row by row.                                              *)

AnyBar == [ts : Nat, row : Nat]
BarOf(rows, m) == [ts |-> rows[m].ts, row |-> m]
Seen(rows, n, s) == {m \in 1 .. n : rows[m].symbol = s}

ReadRow(md, rows, n) == AddBar(md, rows[n].symbol, [ts |-> rows[n].ts, row |-> n])

Reads(p, rows, N) ==
  p = [n \in 0 .. N |-> IF n = 0 THEN Empty ELSE ReadRow(p[n - 1], rows, n)]

LEMMA ReadsExist ==
  ASSUME NEW rows, NEW N \in Nat
  PROVE  \E p : Reads(p, rows, N)
<1>. DEFINE S == {n \in 0 .. N : \E p : Reads(p, rows, n)}
<1>1. 0 \in S
  <2>. DEFINE p == [n \in 0 .. 0 |-> Empty]
  <2>1. Reads(p, rows, 0)
    BY DEF Reads
  <2>. QED
    BY <2>1
<1>2. ASSUME NEW n \in 1 .. N, n - 1 \in S PROVE n \in S
  <2>1. PICK p : Reads(p, rows, n - 1)
    BY <1>2
  <2>. DEFINE q == [k \in 0 .. n |-> IF k < n THEN p[k] ELSE ReadRow(p[n - 1], rows, n)]
  <2>2. \A k \in 0 .. n - 1 : p[k] = IF k = 0 THEN Empty ELSE ReadRow(p[k - 1], rows, k)
    BY <2>1 DEF Reads
  <2>3. \A k \in 0 .. n : q[k] = IF k = 0 THEN Empty ELSE ReadRow(q[k - 1], rows, k)
    <3>. TAKE k \in 0 .. n
    <3>1. CASE k = n
      BY <3>1
    <3>2. CASE k < n
      BY <3>2, <2>2
    <3>. QED
      BY <3>1, <3>2
  <2>4. q = [k \in 0 .. n |-> q[k]]
    OBVIOUS
  <2>. HIDE DEF q
  <2>5. Reads(q, rows, n)
    BY <2>3, <2>4 DEF Reads
  <2>. QED
    BY <2>5
<1>. HIDE DEF S
<1>3. 0 .. N \subseteq S
  BY <1>1, <1>2, UpTo
<1>. QED
  BY <1>3 DEF S

(* What a MarketData of the first n rows is.                                *)
Ids(md) == {md.instruments[s] : s \in DOMAIN md.instruments}

IdsOK(rows, n, md) ==
  /\ md = [instruments |-> md.instruments, bars |-> md.bars, bars_by_time |-> md.bars_by_time]
  /\ IsFiniteSet(DOMAIN md.instruments)
  /\ DOMAIN md.instruments = {rows[m].symbol : m \in 1 .. n}
  /\ md.instruments \in [DOMAIN md.instruments -> 1 .. Cardinality(DOMAIN md.instruments)]
  /\ \A r, s \in DOMAIN md.instruments : md.instruments[r] = md.instruments[s] => r = s
  /\ DOMAIN md.bars = Ids(md)
  /\ \A t \in DOMAIN md.bars_by_time : DOMAIN md.bars_by_time[t] \subseteq Ids(md)

(* The bars of an instrument, in the order of the file.                     *)
InFileOrder(rows, n, s, bars) ==
  /\ bars \in Seq(AnyBar)
  /\ \A k \in 1 .. Len(bars) : bars[k].row \in Seen(rows, n, s) /\ bars[k] = BarOf(rows, bars[k].row)
  /\ \A m \in Seen(rows, n, s) : \E k \in 1 .. Len(bars) : bars[k].row = m
  /\ \A j, k \in 1 .. Len(bars) : j < k => bars[j].row < bars[k].row

BarsKept(rows, n, md) ==
  \A s \in DOMAIN md.instruments : InFileOrder(rows, n, s, md.bars[md.instruments[s]])

(* The bar of an instrument at a time is that of its last row then.         *)
LastAt(rows, n, s, t, bar) ==
  \/ bar = NoBar /\ \A m \in Seen(rows, n, s) : rows[m].ts # t
  \/ \E m \in Seen(rows, n, s) :
        /\ rows[m].ts = t /\ bar = BarOf(rows, m)
        /\ \A l \in Seen(rows, n, s) : rows[l].ts = t => l <= m

TimesKept(rows, n, md) ==
  \A s \in DOMAIN md.instruments, t \in Int :
    LastAt(rows, n, s, t, Lookup(Lookup(md.bars_by_time, t, <<>>), md.instruments[s], NoBar))

ReadInv(rows, n, md) == IdsOK(rows, n, md) /\ BarsKept(rows, n, md) /\ TimesKept(rows, n, md)

LEMMA ReadRowIs ==
  ASSUME NEW rows, NEW n \in Nat \ {0}, NEW md, IdsOK(rows, n - 1, md)
  PROVE  LET s0 == rows[n].symbol
             new == ReadRow(md, rows, n)
             id == new.instruments[s0]
         IN  /\ IdsOK(rows, n, new)
             /\ DOMAIN new.instruments = DOMAIN md.instruments \cup {s0}
             /\ \A s \in DOMAIN md.instruments : new.instruments[s] = md.instruments[s]
             /\ s0 \notin DOMAIN md.instruments => id \notin Ids(md)
             /\ new.bars = With(md.bars, id, Append(Lookup(md.bars, id, <<>>), BarOf(rows, n)))
             /\ new.bars_by_time =
                  With(md.bars_by_time, rows[n].ts,
                       With(Lookup(md.bars_by_time, rows[n].ts, <<>>), id, BarOf(rows, n)))
<1>. DEFINE s0 == rows[n].symbol
            t0 == rows[n].ts
            new == ReadRow(md, rows, n)
            ins == md.instruments
            D == DOMAIN ins
            id == Lookup(ins, s0, NextId(md))
<1>1. /\ new = [instruments |-> With(ins, s0, id),
                bars |-> With(md.bars, id, Append(Lookup(md.bars, id, <<>>), BarOf(rows, n))),
                bars_by_time |-> With(md.bars_by_time, t0,
                                   With(Lookup(md.bars_by_time, t0, <<>>), id, BarOf(rows, n)))]
  BY DEF ReadRow, AddBar, AtTime, BarOf
<1>2. /\ IsFiniteSet(D) /\ D = {rows[m].symbol : m \in 1 .. n - 1}
      /\ ins \in [D -> 1 .. Cardinality(D)]
      /\ \A r, s \in D : ins[r] = ins[s] => r = s
      /\ DOMAIN md.bars = Ids(md)
      /\ \A t \in DOMAIN md.bars_by_time : DOMAIN md.bars_by_time[t] \subseteq Ids(md)
  BY DEF IdsOK
<1>3. Cardinality(D) \in Nat
  BY <1>2, FS_CardinalityType
<1>. HIDE DEF new, s0, t0
<1>4. s0 \in D => id = ins[s0]
  BY DEF Lookup
<1>5. s0 \notin D => id = Cardinality(D) + 1 /\ id \notin Ids(md)
  <2>1. s0 \notin D => id = Cardinality(D) + 1
    BY DEF Lookup, NextId
  <2>2. \A i \in Ids(md) : i \in 1 .. Cardinality(D)
    BY <1>2 DEF Ids
  <2>. HIDE DEF id, D
  <2>. QED
    BY <1>3, <2>1, <2>2
<1>. HIDE DEF id
<1>. DEFINE now_ == With(ins, s0, id)
            E == D \cup {s0}
<1>6. /\ DOMAIN now_ = E /\ now_[s0] = id
      /\ \A s \in D : now_[s] = ins[s]
  BY <1>4 DEF With
<1>7. IsFiniteSet(E) /\ Cardinality(E) = IF s0 \in D THEN Cardinality(D) ELSE Cardinality(D) + 1
  BY <1>2, FS_AddElement
<1>8. E = {rows[m].symbol : m \in 1 .. n}
  <2>1. 1 .. n = 1 .. n - 1 \cup {n}
    OBVIOUS
  <2>. QED
    BY <1>2, <2>1 DEF s0
<1>9. now_ = [s \in E |-> now_[s]]
  BY DEF With
<1>. HIDE DEF now_, E
<1>10. \A s \in E : now_[s] \in 1 .. Cardinality(E)
  <2>. TAKE s \in E
  <2>1. CASE s \in D
    <3>1. now_[s] \in 1 .. Cardinality(D)
      BY <1>2, <1>6, <2>1
    <3>. HIDE DEF D
    <3>. QED
      BY <1>3, <1>7, <3>1
  <2>2. CASE s = s0 /\ s0 \notin D
    BY <1>3, <1>5, <1>6, <1>7, <2>2
  <2>. QED
    BY <2>1, <2>2 DEF E
<1>11. \A r, s \in E : now_[r] = now_[s] => r = s
  <2>. SUFFICES ASSUME NEW r \in E, NEW s \in E, now_[r] = now_[s] PROVE r = s
    OBVIOUS
  <2>1. CASE r \in D /\ s \in D
    BY <1>2, <1>6, <2>1
  <2>2. ASSUME NEW q \in D, s0 \notin D PROVE now_[q] # now_[s0]
    <3>1. now_[q] \in Ids(md)
      BY <1>6, <2>2 DEF Ids
    <3>. QED
      BY <1>5, <1>6, <2>2, <3>1
  <2>. QED
    BY <2>1, <2>2 DEF E
<1>12. {now_[s] : s \in E} = Ids(md) \cup {id}
  <2>1. \A s \in E : now_[s] \in Ids(md) \cup {id}
    BY <1>6 DEF Ids, E
  <2>2. \A i \in Ids(md) \cup {id} : \E s \in E : now_[s] = i
    BY <1>6 DEF Ids, E
  <2>. QED
    BY <2>1, <2>2
<1>13. new.instruments = now_ /\ DOMAIN new.instruments = E
  BY <1>1, <1>6 DEF now_
<1>14. Ids(new) = Ids(md) \cup {id}
  BY <1>12, <1>13 DEF Ids
<1>15. DOMAIN new.bars = Ids(new)
  BY <1>1, <1>2, <1>14 DEF With
<1>16. \A t \in DOMAIN new.bars_by_time : DOMAIN new.bars_by_time[t] \subseteq Ids(new)
  <2>. DEFINE old == Lookup(md.bars_by_time, t0, <<>>)
              at == With(old, id, BarOf(rows, n))
              bbt == new.bars_by_time
  <2>1. bbt = With(md.bars_by_time, t0, at)
    BY <1>1
  <2>2. DOMAIN old \subseteq Ids(md)
    BY <1>2 DEF Lookup
  <2>. HIDE DEF old
  <2>3. DOMAIN at \subseteq Ids(new)
    BY <1>14, <2>2 DEF With
  <2>. HIDE DEF at, bbt
  <2>4. \A t \in DOMAIN bbt : t = t0 \/ (t \in DOMAIN md.bars_by_time /\ bbt[t] = md.bars_by_time[t])
    BY <2>1 DEF With
  <2>5. bbt[t0] = at
    BY <2>1 DEF With
  <2>6. ASSUME NEW t \in DOMAIN bbt PROVE DOMAIN bbt[t] \subseteq Ids(new)
    BY <1>2, <1>14, <2>3, <2>4, <2>5
  <2>. QED
    BY <2>6 DEF bbt
<1>17. IdsOK(rows, n, new)
  <2>1. new = [instruments |-> new.instruments, bars |-> new.bars,
               bars_by_time |-> new.bars_by_time]
    BY <1>1
  <2>2. new.instruments \in [E -> 1 .. Cardinality(E)]
    BY <1>9, <1>10, <1>13
  <2>. QED
    BY <1>7, <1>8, <1>11, <1>13, <1>15, <1>16, <2>1, <2>2 DEF IdsOK
<1>18. new.instruments[s0] = id
  BY <1>6, <1>13
<1>19. /\ new.bars = With(md.bars, id, Append(Lookup(md.bars, id, <<>>), BarOf(rows, n)))
       /\ new.bars_by_time = With(md.bars_by_time, t0,
            With(Lookup(md.bars_by_time, t0, <<>>), id, BarOf(rows, n)))
  BY <1>1
<1>. QED
  BY <1>5, <1>6, <1>13, <1>17, <1>18, <1>19 DEF s0, t0, new, E

LEMMA SeenIs ==
  ASSUME NEW rows, NEW n \in Nat \ {0}, NEW s
  PROVE  Seen(rows, n, s) = IF rows[n].symbol = s THEN Seen(rows, n - 1, s) \cup {n}
                            ELSE Seen(rows, n - 1, s)
<1>1. \A m : m \in 1 .. n <=> m \in 1 .. n - 1 \/ m = n
  OBVIOUS
<1>. QED
  BY <1>1 DEF Seen

LEMMA AppendedOrder ==
  ASSUME NEW rows, NEW n \in Nat \ {0}, NEW s, NEW bars, InFileOrder(rows, n - 1, s, bars),
         rows[n].symbol = s, rows[n].ts \in Nat
  PROVE  InFileOrder(rows, n, s, Append(bars, BarOf(rows, n)))
<1>. DEFINE bar == BarOf(rows, n)
            new == Append(bars, bar)
            L == Len(bars)
            A == Seen(rows, n - 1, s)
<1>1. /\ bars \in Seq(AnyBar) /\ L \in Nat
      /\ \A k \in 1 .. L : bars[k].row \in A /\ bars[k] = BarOf(rows, bars[k].row)
      /\ \A m \in A : \E k \in 1 .. L : bars[k].row = m
      /\ \A j, k \in 1 .. L : j < k => bars[j].row < bars[k].row
  BY LenProperties DEF InFileOrder
<1>2. bar \in AnyBar /\ bar.row = n
  BY DEF BarOf, AnyBar
<1>3. /\ new \in Seq(AnyBar) /\ Len(new) = L + 1
      /\ \A k \in 1 .. L : new[k] = bars[k]
      /\ new[L + 1] = bar
  BY <1>1, <1>2, AppendProperties
<1>4. Seen(rows, n, s) = A \cup {n}
  BY SeenIs
<1>5. \A m \in A : m \in Nat /\ m < n
  BY DEF Seen
<1>6. \A k \in 1 .. L + 1 : k \in 1 .. L \/ k = L + 1
  BY <1>1
<1>7. bar = BarOf(rows, bar.row)
  BY <1>2
<1>. HIDE DEF new, bar, L, A
<1>8. \A k \in 1 .. L + 1 : new[k].row \in A \cup {n} /\ new[k] = BarOf(rows, new[k].row)
  BY <1>1, <1>2, <1>3, <1>6, <1>7
<1>9. \A m \in A \cup {n} : \E k \in 1 .. L + 1 : new[k].row = m
  <2>1. L + 1 \in 1 .. L + 1 /\ \A k \in 1 .. L : k \in 1 .. L + 1
    BY <1>1
  <2>. QED
    BY <1>1, <1>2, <1>3, <2>1
<1>10. ASSUME NEW j \in 1 .. L + 1, NEW k \in 1 .. L + 1, j < k PROVE new[j].row < new[k].row
  <2>1. j \in 1 .. L
    BY <1>1, <1>10
  <2>2. CASE k \in 1 .. L
    BY <1>1, <1>3, <1>10, <2>1, <2>2
  <2>3. CASE k = L + 1
    BY <1>1, <1>2, <1>3, <1>5, <2>1, <2>3
  <2>. QED
    BY <1>6, <2>2, <2>3
<1>. QED
  BY <1>3, <1>4, <1>8, <1>9, <1>10 DEF InFileOrder, new, bar

LEMMA UnseenBefore ==
  ASSUME NEW rows, NEW n \in Nat \ {0}, NEW md, IdsOK(rows, n - 1, md),
         NEW s, s \notin DOMAIN md.instruments
  PROVE  Seen(rows, n - 1, s) = {}
  BY DEF IdsOK, Seen

LEMMA ReadRowBars ==
  ASSUME NEW rows, NEW n \in Nat \ {0}, NEW md, rows[n].ts \in Nat,
         IdsOK(rows, n - 1, md), BarsKept(rows, n - 1, md)
  PROVE  BarsKept(rows, n, ReadRow(md, rows, n))
<1>. DEFINE s0 == rows[n].symbol
            new == ReadRow(md, rows, n)
            id == new.instruments[s0]
            D == DOMAIN md.instruments
            old == Lookup(md.bars, id, <<>>)
<1>1. /\ IdsOK(rows, n, new)
      /\ DOMAIN new.instruments = D \cup {s0}
      /\ \A s \in D : new.instruments[s] = md.instruments[s]
      /\ s0 \notin D => id \notin Ids(md)
      /\ new.bars = With(md.bars, id, Append(old, BarOf(rows, n)))
  BY ReadRowIs
<1>2. DOMAIN md.bars = Ids(md) /\ \A s \in D : md.instruments[s] \in Ids(md)
  BY DEF IdsOK, Ids
<1>3. \A r, s \in DOMAIN new.instruments : new.instruments[r] = new.instruments[s] => r = s
  BY <1>1 DEF IdsOK
<1>. HIDE DEF new, old
<1>4. InFileOrder(rows, n - 1, s0, old)
  <2>1. CASE s0 \in D
    BY <1>1, <1>2, <2>1 DEF old, Lookup, BarsKept
  <2>2. CASE s0 \notin D
    <3>1. old = <<>>
      BY <1>1, <1>2, <2>2 DEF old, Lookup
    <3>2. Seen(rows, n - 1, s0) = {}
      BY <2>2, UnseenBefore
    <3>3. <<>> \in Seq(AnyBar) /\ Len(<<>>) = 0
      OBVIOUS
    <3>. QED
      BY <3>1, <3>2, <3>3 DEF InFileOrder
  <2>. QED
    BY <2>1, <2>2
<1>5. InFileOrder(rows, n, s0, new.bars[id])
  BY <1>1, <1>4, AppendedOrder DEF With
<1>6. ASSUME NEW s \in D, s # s0 PROVE InFileOrder(rows, n, s, new.bars[new.instruments[s]])
  <2>1. new.instruments[s] = md.instruments[s] /\ new.instruments[s] # id
    BY <1>1, <1>3, <1>6
  <2>2. new.bars[new.instruments[s]] = md.bars[md.instruments[s]]
    BY <1>1, <1>2, <2>1 DEF With
  <2>3. Seen(rows, n, s) = Seen(rows, n - 1, s)
    BY <1>6, SeenIs
  <2>4. InFileOrder(rows, n - 1, s, md.bars[md.instruments[s]])
    BY <1>6 DEF BarsKept
  <2>. QED
    BY <2>2, <2>3, <2>4 DEF InFileOrder
<1>. QED
  BY <1>1, <1>5, <1>6 DEF BarsKept, new

LEMMA ReadRowTimes ==
  ASSUME NEW rows, NEW n \in Nat \ {0}, NEW md, rows[n].ts \in Nat,
         IdsOK(rows, n - 1, md), TimesKept(rows, n - 1, md)
  PROVE  TimesKept(rows, n, ReadRow(md, rows, n))
<1>. DEFINE s0 == rows[n].symbol
            t0 == rows[n].ts
            new == ReadRow(md, rows, n)
            id == new.instruments[s0]
            D == DOMAIN md.instruments
            bbt == md.bars_by_time
            old == Lookup(bbt, t0, <<>>)
<1>1. /\ IdsOK(rows, n, new)
      /\ DOMAIN new.instruments = D \cup {s0}
      /\ \A s \in D : new.instruments[s] = md.instruments[s]
      /\ s0 \notin D => id \notin Ids(md)
      /\ new.bars_by_time = With(bbt, t0, With(old, id, BarOf(rows, n)))
  BY ReadRowIs
<1>2. \A t : DOMAIN Lookup(bbt, t, <<>>) \subseteq Ids(md)
  BY DEF IdsOK, Lookup
<1>3. \A r, s \in DOMAIN new.instruments : new.instruments[r] = new.instruments[s] => r = s
  BY <1>1 DEF IdsOK
<1>. HIDE DEF new, bbt
<1>. DEFINE was(s, t) == Lookup(Lookup(bbt, t, <<>>), new.instruments[s], NoBar)
            is(s, t) == Lookup(Lookup(new.bars_by_time, t, <<>>), new.instruments[s], NoBar)
<1>4. is(s0, t0) = BarOf(rows, n)
  BY <1>1 DEF With, Lookup
<1>5. ASSUME NEW s \in DOMAIN new.instruments, NEW t \in Int, s # s0 \/ t # t0
      PROVE  is(s, t) = was(s, t)
  <2>1. CASE t # t0
    BY <1>1, <2>1 DEF With, Lookup
  <2>2. CASE t = t0 /\ s # s0
    <3>1. new.instruments[s] # id
      BY <1>1, <1>3, <2>2
    <3>2. Lookup(new.bars_by_time, t, <<>>) = With(old, id, BarOf(rows, n))
      BY <1>1, <2>2 DEF With, Lookup
    <3>. HIDE DEF old, id
    <3>3. Lookup(With(old, id, BarOf(rows, n)), new.instruments[s], NoBar)
            = Lookup(old, new.instruments[s], NoBar)
      BY <3>1 DEF With, Lookup
    <3>. QED
      BY <2>2, <3>2, <3>3 DEF old
  <2>. QED
    BY <1>5, <2>1, <2>2
<1>6. ASSUME NEW s \in DOMAIN new.instruments, NEW t \in Int
      PROVE  LastAt(rows, n - 1, s, t, was(s, t))
  <2>1. CASE s \in D
    BY <1>1, <2>1 DEF TimesKept, bbt
  <2>2. CASE s = s0 /\ s0 \notin D
    <3>1. was(s, t) = NoBar
      BY <1>1, <1>2, <2>2 DEF Lookup
    <3>2. Seen(rows, n - 1, s) = {}
      BY <2>2, UnseenBefore
    <3>. QED
      BY <3>1, <3>2 DEF LastAt
  <2>. QED
    BY <1>1, <2>1, <2>2
<1>. HIDE DEF is, was
<1>7. ASSUME NEW s \in DOMAIN new.instruments, NEW t \in Int
      PROVE  LastAt(rows, n, s, t, is(s, t))
  <2>. DEFINE A == Seen(rows, n - 1, s)
              B == Seen(rows, n, s)
  <2>1. CASE s = s0 /\ t = t0
    <3>1. n \in B /\ \A l \in B : l <= n
      BY <2>1 DEF Seen
    <3>. QED
      BY <1>4, <2>1, <3>1 DEF LastAt
  <2>2. CASE s # s0 \/ t # t0
    <3>1. LastAt(rows, n - 1, s, t, is(s, t))
      BY <1>5, <1>6, <2>2
    <3>2. A \subseteq B /\ \A m \in B : m \notin A => m = n /\ rows[n].symbol = s
      BY SeenIs
    <3>3. \A m \in B : rows[m].ts = t => m \in A
      BY <2>2, <3>2
    <3>. HIDE DEF A, B
    <3>. QED
      BY <3>1, <3>2, <3>3 DEF LastAt, A, B
  <2>. QED
    BY <2>1, <2>2
<1>. QED
  BY <1>7 DEF TimesKept, is, new

(* The bars of an instrument, once sorted.                                  *)
InTimeOrder(rows, s, bars) ==
  LET A == Seen(rows, Len(rows), s)
  IN  /\ bars \in Seq(AnyBar)
      /\ \A k \in 1 .. Len(bars) : bars[k].row \in A /\ bars[k] = BarOf(rows, bars[k].row)
      /\ \A m \in A : \E k \in 1 .. Len(bars) : bars[k].row = m
      /\ \A j, k \in 1 .. Len(bars) : j < k =>
            \/ bars[j].ts < bars[k].ts
            \/ bars[j].ts = bars[k].ts /\ bars[j].row < bars[k].row

LEMMA SortByTimeIs ==
  ASSUME NEW rows, NEW s, NEW bars, InFileOrder(rows, Len(rows), s, bars)
  PROVE  InTimeOrder(rows, s, SortByTime(bars))
<1>. DEFINE A == Seen(rows, Len(rows), s)
            L == Len(bars)
            keys == [n \in DOMAIN bars |-> bars[n].ts]
            new == SortByTime(bars)
<1>1. /\ bars \in Seq(AnyBar) /\ L \in Nat /\ DOMAIN bars = 1 .. L
      /\ \A k \in 1 .. L : bars[k] \in AnyBar
      /\ \A k \in 1 .. L : bars[k].row \in A /\ bars[k] = BarOf(rows, bars[k].row)
      /\ \A m \in A : \E k \in 1 .. L : bars[k].row = m
      /\ \A j, k \in 1 .. L : j < k => bars[j].row < bars[k].row
  BY LenProperties, ElementOfSeq DEF InFileOrder
<1>2. keys \in [1 .. L -> Int] /\ \A k \in 1 .. L : keys[k] = bars[k].ts
  BY <1>1 DEF AnyBar
<1>3. new = SortBy(bars, keys)
  BY DEF SortByTime
<1>. HIDE DEF L, new, keys, A
<1>0. PICK from : Arranges(from, bars, keys, L)
  <2>1. L \in Nat /\ keys \in [1 .. L -> Int] /\ DOMAIN bars = 1 .. L
    BY <1>1, <1>2
  <2>. QED
    BY <2>1, SortIs
<1>4. /\ from \in [1 .. L -> 1 .. L]
      /\ SortBy(bars, keys) = [n \in 1 .. L |-> bars[from[n]]]
      /\ \A i \in 1 .. L : \E n \in 1 .. L : from[n] = i
      /\ \A m, n \in 1 .. L : m < n =>
           \/ keys[from[m]] < keys[from[n]]
           \/ keys[from[m]] = keys[from[n]] /\ from[m] < from[n]
  BY <1>0 DEF Arranges
<1>5. /\ new = [n \in 1 .. L |-> bars[from[n]]]
      /\ \A n \in 1 .. L : from[n] \in 1 .. L /\ new[n] = bars[from[n]]
  BY <1>3, <1>4
<1>6. new \in Seq(AnyBar) /\ Len(new) = L
  <2>1. new \in [1 .. L -> AnyBar]
    BY <1>1, <1>5
  <2>2. new \in Seq(AnyBar)
    BY <1>1, <2>1, SeqDef
  <2>. QED
    BY <1>1, <2>1, <2>2, LenProperties
<1>7. \A k \in 1 .. L : new[k].row \in A /\ new[k] = BarOf(rows, new[k].row)
  BY <1>1, <1>5
<1>8. \A m \in A : \E k \in 1 .. L : new[k].row = m
  <2>. TAKE m \in A
  <2>1. PICK i \in 1 .. L : bars[i].row = m
    BY <1>1
  <2>2. PICK n \in 1 .. L : from[n] = i
    BY <1>4
  <2>. QED
    BY <1>5, <2>1, <2>2
<1>9. ASSUME NEW j \in 1 .. L, NEW k \in 1 .. L, j < k
      PROVE  \/ new[j].ts < new[k].ts
             \/ new[j].ts = new[k].ts /\ new[j].row < new[k].row
  <2>1. /\ from[j] \in 1 .. L /\ from[k] \in 1 .. L
        /\ new[j] = bars[from[j]] /\ new[k] = bars[from[k]]
    BY <1>5
  <2>2. \/ keys[from[j]] < keys[from[k]]
        \/ keys[from[j]] = keys[from[k]] /\ from[j] < from[k]
    BY <1>4, <1>9
  <2>3. keys[from[j]] = new[j].ts /\ keys[from[k]] = new[k].ts
    BY <1>2, <2>1
  <2>4. from[j] < from[k] => new[j].row < new[k].row
    BY <1>1, <2>1
  <2>. QED
    BY <2>2, <2>3, <2>4
<1>. QED
  BY <1>6, <1>7, <1>8, <1>9 DEF InTimeOrder, A, new

(* What the store holds of the file it was made of.                         *)
StoreIs(rows, md) ==
  /\ \A r, s \in DOMAIN md.instruments : md.instruments[r] = md.instruments[s] => r = s
  /\ DOMAIN md.instruments = {rows[m].symbol : m \in 1 .. Len(rows)}
  /\ \A s \in DOMAIN md.instruments :
       md.instruments[s] \in DOMAIN md.bars /\ InTimeOrder(rows, s, md.bars[md.instruments[s]])
  /\ TimesKept(rows, Len(rows), md)

LEMMA NoRowRead == ASSUME NEW rows PROVE ReadInv(rows, 0, Empty)
<1>1. DOMAIN Empty.instruments = {} /\ DOMAIN Empty.bars = {} /\ DOMAIN Empty.bars_by_time = {}
  BY DEF Empty
<1>2. IsFiniteSet({}) /\ Cardinality({}) = 0
  BY FS_EmptySet
<1>3. {rows[m].symbol : m \in 1 .. 0} = {}
  OBVIOUS
<1>4. Empty.instruments \in [{} -> 1 .. 0]
  BY DEF Empty
<1>5. Empty = [instruments |-> Empty.instruments, bars |-> Empty.bars,
               bars_by_time |-> Empty.bars_by_time]
  BY DEF Empty
<1>. QED
  BY <1>1, <1>2, <1>3, <1>4, <1>5 DEF ReadInv, IdsOK, BarsKept, TimesKept, Ids

LEMMA LoadIs ==
  ASSUME NEW rows \in Seq(Rows)
  PROVE  StoreIs(rows, LoadParquet(rows))
<1>. DEFINE N == Len(rows)
            p == CHOOSE q : Reads(q, rows, N)
            md == p[N]
            new == LoadParquet(rows)
<1>1. N \in Nat /\ \A n \in 1 .. N : rows[n].ts \in Nat
  <2>1. \A n \in 1 .. N : rows[n] \in Rows
    BY ElementOfSeq
  <2>. QED
    BY <2>1, LenProperties, StoreAssumption DEF Rows
<1>2. Reads(p, rows, N)
  <2>1. \E q : Reads(q, rows, N)
    BY <1>1, ReadsExist
  <2>. QED
    BY <2>1
<1>3. new = [md EXCEPT !.bars = [id \in DOMAIN @ |-> SortByTime(@[id])]]
  BY DEF LoadParquet, Reads, ReadRow
<1>. DEFINE S == {n \in 0 .. N : ReadInv(rows, n, p[n])}
<1>. HIDE DEF p, new, N
<1>4. \A n \in 0 .. N : p[n] = IF n = 0 THEN Empty ELSE ReadRow(p[n - 1], rows, n)
  BY <1>2 DEF Reads
<1>5. 0 \in S
  BY <1>1, <1>4, NoRowRead
<1>6. ASSUME NEW n \in 1 .. N, n - 1 \in S PROVE n \in S
  <2>1. /\ n \in 0 .. N /\ n \in Nat \ {0} /\ rows[n].ts \in Nat
        /\ ReadInv(rows, n - 1, p[n - 1]) /\ p[n] = ReadRow(p[n - 1], rows, n)
    BY <1>1, <1>4, <1>6
  <2>2. IdsOK(rows, n, p[n])
    BY <2>1, ReadRowIs DEF ReadInv
  <2>3. BarsKept(rows, n, p[n]) /\ TimesKept(rows, n, p[n])
    BY <2>1, ReadRowBars, ReadRowTimes DEF ReadInv
  <2>. QED
    BY <2>1, <2>2, <2>3 DEF ReadInv
<1>. HIDE DEF S
<1>7. N \in S
  <2>1. 0 .. N \subseteq S
    BY <1>1, <1>5, <1>6, UpTo
  <2>. QED
    BY <1>1, <2>1
<1>8. IdsOK(rows, N, md) /\ BarsKept(rows, N, md) /\ TimesKept(rows, N, md)
  BY <1>7 DEF S, ReadInv
<1>. HIDE DEF md
<1>9. md = [instruments |-> md.instruments, bars |-> md.bars, bars_by_time |-> md.bars_by_time]
  BY <1>8 DEF IdsOK
<1>10. /\ new.instruments = md.instruments /\ new.bars_by_time = md.bars_by_time
       /\ new.bars = [id \in DOMAIN md.bars |-> SortByTime(md.bars[id])]
  BY <1>3, <1>9
<1>11. ASSUME NEW s \in DOMAIN md.instruments
       PROVE  /\ md.instruments[s] \in DOMAIN new.bars
              /\ InTimeOrder(rows, s, new.bars[md.instruments[s]])
  <2>1. md.instruments[s] \in DOMAIN md.bars
    BY <1>8 DEF IdsOK, Ids
  <2>2. InFileOrder(rows, N, s, md.bars[md.instruments[s]])
    BY <1>8 DEF BarsKept
  <2>3. InTimeOrder(rows, s, SortByTime(md.bars[md.instruments[s]]))
    BY <2>2, SortByTimeIs DEF N
  <2>. QED
    BY <1>10, <2>1, <2>3
<1>12. TimesKept(rows, N, new)
  BY <1>8, <1>10 DEF TimesKept
<1>. QED
  BY <1>8, <1>10, <1>11, <1>12 DEF StoreIs, IdsOK, new, N

-----------------------------------------------------------------------------
(* What the views answer.                                                   *)

LEMMA FirstOnes ==
  ASSUME NEW rows, NEW s, NEW bars, InTimeOrder(rows, s, bars), NEW t \in Int
  PROVE  /\ Len(bars) \in Nat /\ DOMAIN bars = 1 .. Len(bars)
         /\ \A k \in 1 .. Len(bars) : bars[k].ts \in Nat /\ bars[k].row \in Nat
         /\ Cardinality(Earlier(bars, t)) \in 0 .. Len(bars)
         /\ Earlier(bars, t) = 1 .. Cardinality(Earlier(bars, t))
         /\ Cardinality(NotAfter(bars, t)) \in 0 .. Len(bars)
         /\ NotAfter(bars, t) = 1 .. Cardinality(NotAfter(bars, t))
<1>. DEFINE L == Len(bars)
            E == Earlier(bars, t)
            U == NotAfter(bars, t)
<1>1. /\ L \in Nat /\ DOMAIN bars = 1 .. L
      /\ \A k \in 1 .. L : bars[k] \in AnyBar
      /\ \A j, k \in 1 .. L : j < k => bars[j].ts < bars[k].ts \/ bars[j].ts = bars[k].ts
  BY LenProperties, ElementOfSeq DEF InTimeOrder
<1>2. \A k \in 1 .. L : bars[k].ts \in Nat /\ bars[k].row \in Nat
  BY <1>1 DEF AnyBar
<1>. HIDE DEF L
<1>3. \A j, k \in 1 .. L : j <= k => bars[j].ts <= bars[k].ts
  <2>. TAKE j \in 1 .. L, k \in 1 .. L
  <2>1. CASE j = k
    BY <1>2, <2>1
  <2>2. CASE j < k
    BY <1>1, <1>2, <2>2
  <2>. QED
    BY <2>1, <2>2
<1>4. E \in SUBSET (1 .. L) /\ \A n \in E : \A m \in 1 .. n : m \in E
  <2>1. E = {n \in 1 .. L : bars[n].ts < t}
    BY <1>1 DEF Earlier
  <2>2. ASSUME NEW n \in E, NEW m \in 1 .. n PROVE m \in E
    <3>1. n \in 1 .. L /\ m \in 1 .. L /\ m <= n /\ bars[n].ts < t
      BY <1>1, <2>1
    <3>2. bars[m].ts <= bars[n].ts /\ bars[m].ts \in Int /\ bars[n].ts \in Int
      BY <1>2, <1>3, <3>1
    <3>. QED
      BY <2>1, <3>1, <3>2
  <2>. QED
    BY <2>1, <2>2
<1>5. U \in SUBSET (1 .. L) /\ \A n \in U : \A m \in 1 .. n : m \in U
  <2>1. U = {n \in 1 .. L : bars[n].ts <= t}
    BY <1>1 DEF NotAfter
  <2>2. ASSUME NEW n \in U, NEW m \in 1 .. n PROVE m \in U
    <3>1. n \in 1 .. L /\ m \in 1 .. L /\ m <= n /\ bars[n].ts <= t
      BY <1>1, <2>1
    <3>2. bars[m].ts <= bars[n].ts /\ bars[m].ts \in Int /\ bars[n].ts \in Int
      BY <1>2, <1>3, <3>1
    <3>. QED
      BY <2>1, <3>1, <3>2
  <2>. QED
    BY <2>1, <2>2
<1>. HIDE DEF E, U
<1>6. Cardinality(E) \in 0 .. L /\ E = 1 .. Cardinality(E)
  BY <1>1, <1>4, Cut
<1>7. Cardinality(U) \in 0 .. L /\ U = 1 .. Cardinality(U)
  BY <1>1, <1>5, Cut
<1>. QED
  BY <1>1, <1>2, <1>6, <1>7 DEF E, U, L

LEMMA RowsAre ==
  ASSUME file \in Seq(Rows)
  PROVE  /\ Len(file) \in Nat /\ DOMAIN file = 1 .. Len(file)
         /\ \A n \in 1 .. Len(file) : file[n].ts \in Nat
         /\ \A s, t, u : RowsOf(s, t, u) =
              {m \in Seen(file, Len(file), s) : file[m].ts \in t .. u}
<1>1. Len(file) \in Nat /\ DOMAIN file = 1 .. Len(file)
  BY LenProperties
<1>2. \A n \in 1 .. Len(file) : file[n] \in Rows
  BY ElementOfSeq
<1>3. \A n \in 1 .. Len(file) : file[n].ts \in Nat
  BY <1>2, StoreAssumption DEF Rows
<1>4. \A s, t, u : RowsOf(s, t, u) = {m \in Seen(file, Len(file), s) : file[m].ts \in t .. u}
  BY <1>1 DEF RowsOf, Seen
<1>. QED
  BY <1>1, <1>3, <1>4

LEMMA LatestIs ==
  ASSUME file \in Seq(Rows), NEW s, NEW t \in Int, NEW m \in RowsOf(s, 0, t),
         \A l \in RowsOf(s, 0, t) :
           file[l].ts < file[m].ts \/ (file[l].ts = file[m].ts /\ l <= m)
  PROVE  Latest(s, t) = BarOf(file, m)
<1>. DEFINE R == RowsOf(s, 0, t)
            newest == {n \in R : \A l \in R : file[l].ts <= file[n].ts}
<1>1. \A l \in R : l \in Nat /\ file[l].ts \in Nat
  BY RowsAre DEF Seen
<1>2. m \in newest
  BY <1>1
<1>3. \A n \in newest : n <= m
  BY <1>1
<1>. HIDE DEF newest
<1>4. Max(newest) = m
  <2>. DEFINE x == Max(newest)
  <2>1. \A n \in newest : n \in Nat
    BY <1>1 DEF newest
  <2>2. x \in newest /\ \A y \in newest : x >= y
    BY <1>2, <1>3, <2>1 DEF Max
  <2>. HIDE DEF x
  <2>3. x >= m /\ x <= m /\ x \in Nat /\ m \in Nat
    BY <1>2, <1>3, <2>1, <2>2
  <2>4. x = m
    BY <2>3
  <2>. QED
    BY <2>4 DEF x
<1>5. Latest(s, t) = [ts |-> file[Max(newest)].ts, row |-> Max(newest)]
  BY DEF Latest, newest
<1>. QED
  BY <1>4, <1>5 DEF BarOf

LEMMA NoneLatest ==
  ASSUME NEW s, NEW t, RowsOf(s, 0, t) = {}
  PROVE  Latest(s, t) = NoBar
  BY DEF Latest

(* A bar of the last row of a symbol up to a time.                          *)
IsLatest(s, t, bar) ==
  \/ bar = NoBar /\ RowsOf(s, 0, t) = {}
  \/ \E m \in RowsOf(s, 0, t) :
        /\ bar = BarOf(file, m)
        /\ \A l \in RowsOf(s, 0, t) :
             file[l].ts < file[m].ts \/ (file[l].ts = file[m].ts /\ l <= m)

LEMMA BarsAre ==
  ASSUME file \in Seq(Rows), StoreIs(file, store), NEW s \in DOMAIN store.instruments
  PROVE  LET bars == Lookup(store.bars, store.instruments[s], <<>>)
             L == Len(bars)
             A == Seen(file, Len(file), s)
         IN  /\ InTimeOrder(file, s, bars)
             /\ \A k \in 1 .. L : /\ bars[k].row \in A /\ bars[k] = BarOf(file, bars[k].row)
                                  /\ bars[k].ts = file[bars[k].row].ts
             /\ \A m \in A : \E k \in 1 .. L : bars[k].row = m /\ bars[k].ts = file[m].ts
             /\ \A j, k \in 1 .. L : j < k =>
                  \/ bars[j].ts < bars[k].ts
                  \/ bars[j].ts = bars[k].ts /\ bars[j].row < bars[k].row
<1>. DEFINE bars == Lookup(store.bars, store.instruments[s], <<>>)
            L == Len(bars)
            A == Seen(file, Len(file), s)
<1>1. InTimeOrder(file, s, bars)
  BY DEF StoreIs, Lookup
<1>. HIDE DEF bars
<1>2. /\ \A k \in 1 .. L : bars[k].row \in A /\ bars[k] = BarOf(file, bars[k].row)
      /\ \A m \in A : \E k \in 1 .. L : bars[k].row = m
      /\ \A j, k \in 1 .. L : j < k =>
            \/ bars[j].ts < bars[k].ts
            \/ bars[j].ts = bars[k].ts /\ bars[j].row < bars[k].row
  BY <1>1 DEF InTimeOrder
<1>. HIDE DEF L, A
<1>3. \A k \in 1 .. L : bars[k].ts = file[bars[k].row].ts
  <2>. TAKE k \in 1 .. L
  <2>1. bars[k] = BarOf(file, bars[k].row)
    BY <1>2
  <2>2. \A m : BarOf(file, m).ts = file[m].ts
    BY DEF BarOf
  <2>. QED
    BY <2>1, <2>2
<1>. QED
  BY <1>1, <1>2, <1>3 DEF bars, L, A

LEMMA AtOrBeforeIs ==
  ASSUME file \in Seq(Rows), StoreIs(file, store), NEW s \in DOMAIN store.instruments,
         NEW t \in Nat
  PROVE  LET id == store.instruments[s]
         IN  /\ BarAt(id, t) = IF Latest(s, t).ts = t THEN Latest(s, t) ELSE NoBar
             /\ BarAtOrBefore(id, t) = Latest(s, t)
             /\ ArchivedBarAtOrBefore(id, t) = Latest(s, t)
             /\ IsLatest(s, t, Latest(s, t))
<1>. DEFINE id == store.instruments[s]
            bars == Lookup(store.bars, id, <<>>)
            L == Len(bars)
            A == Seen(file, Len(file), s)
            R == RowsOf(s, 0, t)
            at == BarAt(id, t)
            U == NotAfter(bars, t)
            k == Cardinality(U)
<1>1. /\ InTimeOrder(file, s, bars)
      /\ \A n \in 1 .. L : /\ bars[n].row \in A /\ bars[n] = BarOf(file, bars[n].row)
                           /\ bars[n].ts = file[bars[n].row].ts
      /\ \A m \in A : \E n \in 1 .. L : bars[n].row = m /\ bars[n].ts = file[m].ts
      /\ \A i, j \in 1 .. L : i < j =>
           \/ bars[i].ts < bars[j].ts
           \/ bars[i].ts = bars[j].ts /\ bars[i].row < bars[j].row
  BY BarsAre
<1>2. \A m \in A : m \in Nat \ {0} /\ file[m].ts \in Nat
  BY RowsAre DEF Seen
<1>3. R = {m \in A : file[m].ts <= t}
  BY RowsAre, <1>2
<1>4. LastAt(file, Len(file), s, t, at)
  BY DEF StoreIs, TimesKept, BarAt
<1>5. BarAtOrBefore(id, t) = IF at # NoBar THEN at ELSE IF k > 0 THEN bars[k] ELSE NoBar
  BY DEF BarAtOrBefore, PartitionPoint
<1>6. ArchivedBarAtOrBefore(id, t) =
        IF at # NoBar THEN at
        ELSE IF Search(bars, 0, U) > 0 THEN bars[Search(bars, 0, U)] ELSE NoBar
  BY DEF ArchivedBarAtOrBefore
<1>. HIDE DEF id, bars, at
<1>7. L \in Nat /\ DOMAIN bars = 1 .. L /\ k \in 0 .. L /\ U = 1 .. k
  <2>1. InTimeOrder(file, s, bars) /\ t \in Int
    BY <1>1
  <2>. QED
    BY <2>1, FirstOnes, Zenon
<1>8. \A n : n \in U <=> n \in 1 .. L /\ bars[n].ts <= t
  BY <1>7 DEF NotAfter
<1>. HIDE DEF k, U, R
<1>9. Search(bars, 0, U) = k
  BY <1>7, SearchIs
<1>10. ASSUME NEW m \in R, \A l \in R : file[l].ts < file[m].ts \/ (file[l].ts = file[m].ts /\ l <= m)
       PROVE  Latest(s, t) = BarOf(file, m) /\ IsLatest(s, t, Latest(s, t))
  <2>1. Latest(s, t) = BarOf(file, m)
    BY <1>10, LatestIs DEF R
  <2>. QED
    BY <1>10, <2>1 DEF IsLatest, R
<1>11. \A m : BarOf(file, m).ts = file[m].ts /\ BarOf(file, m).row = m
  BY DEF BarOf
<1>12. NoBar.ts = -1
  BY DEF NoBar
<1>13. CASE at # NoBar
  <2>1. PICK m \in A : /\ file[m].ts = t /\ at = BarOf(file, m)
                       /\ \A l \in A : file[l].ts = t => l <= m
    BY <1>4, <1>13 DEF LastAt
  <2>2. m \in R /\ \A l \in R : file[l].ts < file[m].ts \/ (file[l].ts = file[m].ts /\ l <= m)
    BY <1>2, <1>3, <2>1
  <2>3. Latest(s, t) = at /\ IsLatest(s, t, Latest(s, t))
    BY <1>10, <2>1, <2>2
  <2>4. at.ts = t
    BY <1>11, <2>1
  <2>. QED
    BY <1>5, <1>6, <1>13, <2>3, <2>4 DEF id, at
<1>14. CASE at = NoBar
  <2>1. \A m \in A : file[m].ts # t
    <3>1. \A m \in A : BarOf(file, m) # NoBar
      BY <1>2, <1>11, <1>12
    <3>. QED
      BY <1>4, <1>14, <3>1 DEF LastAt
  <2>2. /\ BarAtOrBefore(id, t) = IF k > 0 THEN bars[k] ELSE NoBar
        /\ ArchivedBarAtOrBefore(id, t) = IF k > 0 THEN bars[k] ELSE NoBar
    BY <1>5, <1>6, <1>9, <1>14
  <2>3. CASE k = 0
    <3>1. R = {}
      <4>1. SUFFICES ASSUME NEW m \in R PROVE FALSE
        OBVIOUS
      <4>2. PICK n \in 1 .. L : bars[n].ts = file[m].ts
        BY <1>1, <1>3
      <4>3. n \in U
        BY <1>3, <1>8, <4>2
      <4>. QED
        BY <1>7, <2>3, <4>3
    <3>2. Latest(s, t) = NoBar /\ IsLatest(s, t, Latest(s, t))
      BY <3>1, NoneLatest DEF R, IsLatest
    <3>3. NoBar.ts # t
      BY <1>12
    <3>. QED
      BY <1>14, <2>2, <2>3, <3>2, <3>3 DEF id, at
  <2>4. CASE k > 0
    <3>. DEFINE m == bars[k].row
    <3>1. k \in 1 .. L /\ k \in U
      BY <1>7, <2>4
    <3>2. m \in A /\ bars[k] = BarOf(file, m) /\ bars[k].ts = file[m].ts /\ bars[k].ts <= t
      BY <1>1, <1>8, <3>1
    <3>3. m \in R
      BY <1>3, <3>2
    <3>4. ASSUME NEW l \in R
          PROVE  file[l].ts < file[m].ts \/ (file[l].ts = file[m].ts /\ l <= m)
      <4>1. PICK n \in 1 .. L : bars[n].row = l /\ bars[n].ts = file[l].ts
        BY <1>1, <1>3
      <4>2. n \in U
        BY <1>3, <1>8, <4>1
      <4>3. n <= k /\ n \in Int /\ k \in Int
        BY <1>7, <4>2
      <4>4. l \in Nat /\ file[l].ts \in Nat /\ m \in Nat /\ file[m].ts \in Nat
        BY <1>2, <1>3, <3>2
      <4>5. CASE n = k
        BY <3>2, <4>1, <4>4, <4>5
      <4>6. CASE n < k
        <5>1. bars[n].ts < bars[k].ts \/ (bars[n].ts = bars[k].ts /\ bars[n].row < bars[k].row)
          BY <1>1, <3>1, <4>6
        <5>. QED
          BY <3>2, <4>1, <4>4, <5>1
      <4>. QED
        BY <4>3, <4>5, <4>6
    <3>5. Latest(s, t) = BarOf(file, m) /\ IsLatest(s, t, Latest(s, t))
      BY <1>10, <3>3, <3>4
    <3>6. Latest(s, t) = bars[k] /\ Latest(s, t).ts # t
      BY <2>1, <3>2, <3>5
    <3>. QED
      BY <1>14, <2>2, <2>4, <3>5, <3>6 DEF id, at
  <2>. QED
    BY <1>7, <2>3, <2>4
<1>. QED
  BY <1>13, <1>14

(* The rows of a range of times, from both views.                           *)
RangeIsOf(id, s, t, u) ==
  LET rows == BarsInRange(id, t, u)
  IN  /\ ArchivedBarsInRange(id, t, u) = rows
      /\ {rows[n].row : n \in DOMAIN rows} = RowsOf(s, t, u)
      /\ \A m, n \in DOMAIN rows : m < n =>
           \/ rows[m].ts < rows[n].ts
           \/ rows[m].ts = rows[n].ts /\ rows[m].row < rows[n].row

LEMMA RangeIs ==
  ASSUME file \in Seq(Rows), StoreIs(file, store), NEW s \in DOMAIN store.instruments,
         NEW t \in Nat, NEW u \in Nat, u >= t
  PROVE  RangeIsOf(store.instruments[s], s, t, u)
<1>. DEFINE id == store.instruments[s]
            bars == Lookup(store.bars, id, <<>>)
            L == Len(bars)
            A == Seen(file, Len(file), s)
            R == RowsOf(s, t, u)
            E == Earlier(bars, t)
            U == NotAfter(bars, u)
            a == Cardinality(E)
            b == Cardinality(U)
            rows == BarsInRange(id, t, u)
<1>1. /\ InTimeOrder(file, s, bars)
      /\ \A n \in 1 .. L : /\ bars[n].row \in A /\ bars[n] = BarOf(file, bars[n].row)
                           /\ bars[n].ts = file[bars[n].row].ts
      /\ \A m \in A : \E n \in 1 .. L : bars[n].row = m /\ bars[n].ts = file[m].ts
      /\ \A i, j \in 1 .. L : i < j =>
           \/ bars[i].ts < bars[j].ts
           \/ bars[i].ts = bars[j].ts /\ bars[i].row < bars[j].row
  BY BarsAre
<1>2. \A m \in A : m \in Nat \ {0} /\ file[m].ts \in Nat
  BY RowsAre DEF Seen
<1>3. R = {m \in A : t <= file[m].ts /\ file[m].ts <= u}
  BY RowsAre, <1>2
<1>4. rows = SubSeq(bars, a + 1, b)
  BY DEF BarsInRange, PartitionPoint
<1>5. ArchivedBarsInRange(id, t, u)
        = SubSeq(bars, Search(bars, 0, E) + 1, Search(bars, Search(bars, 0, E), U))
  BY DEF ArchivedBarsInRange
<1>. HIDE DEF id, bars, rows
<1>6. L \in Nat /\ DOMAIN bars = 1 .. L /\ a \in 0 .. L /\ E = 1 .. a
  <2>1. InTimeOrder(file, s, bars) /\ t \in Int
    BY <1>1
  <2>. QED
    BY <2>1, FirstOnes, Zenon
<1>7. b \in 0 .. L /\ U = 1 .. b
  <2>1. InTimeOrder(file, s, bars) /\ u \in Int
    BY <1>1
  <2>. QED
    BY <2>1, FirstOnes, Zenon
<1>8. \A n \in 1 .. L : bars[n].ts \in Nat /\ bars[n].row \in Nat
  BY <1>1, <1>2
<1>9. \A n : n \in E <=> n \in 1 .. L /\ bars[n].ts < t
  BY <1>6 DEF Earlier
<1>10. \A n : n \in U <=> n \in 1 .. L /\ bars[n].ts <= u
  BY <1>6 DEF NotAfter
<1>. HIDE DEF a, b, E, U, R, L, A
<1>11. a <= b
  <2>1. \A n \in E : n \in U
    BY <1>8, <1>9, <1>10
  <2>2. CASE a = 0
    BY <1>7, <2>2
  <2>3. CASE a # 0
    <3>1. a \in E
      BY <1>6, <2>3
    <3>. QED
      BY <1>6, <1>7, <2>1, <3>1
  <2>. QED
    BY <2>2, <2>3
<1>12. ArchivedBarsInRange(id, t, u) = rows
  <2>1. Search(bars, 0, E) = a
    BY <1>6, SearchIs DEF L
  <2>2. Search(bars, a, U) = b
    <3>1. a \in 0 .. b
      BY <1>6, <1>7, <1>11
    <3>2. Search(bars, a, 1 .. b) = b
      BY <1>6, <1>7, <3>1, SearchIs DEF L
    <3>. QED
      BY <1>7, <3>2
  <2>. QED
    BY <1>4, <1>5, <2>1, <2>2
<1>13. /\ DOMAIN rows = 1 .. b - a
       /\ \A n \in 1 .. b - a : a + n \in 1 .. L /\ rows[n] = bars[a + n]
  <2>1. a \in Nat /\ b \in Nat /\ L \in Nat /\ b <= L
    BY <1>6, <1>7
  <2>2. rows \in Seq({bars[n] : n \in 1 .. L}) /\ Len(rows) = b - a
        /\ \A n \in 1 .. b - a : rows[n] = bars[a + n]
    <3>. DEFINE S == {bars[n] : n \in 1 .. L}
    <3>1. \A n \in a + 1 .. b : bars[n] \in S
      BY <2>1
    <3>. HIDE DEF S
    <3>. DEFINE p == a + 1
                x == SubSeq(bars, p, b)
    <3>2. p \in Int /\ b \in Int
      BY <2>1
    <3>3. \A n \in p .. b : bars[n] \in S
      BY <3>1
    <3>. HIDE DEF p
    <3>4. /\ x \in Seq(S) /\ Len(x) = IF p <= b THEN b - p + 1 ELSE 0
          /\ \A i \in 1 .. b - p + 1 : x[i] = bars[p + i - 1]
      BY <3>2, <3>3, SubSeqProperties
    <3>5. x = rows
      BY <1>4 DEF p
    <3>. HIDE DEF x
    <3>6. Len(x) = b - a
      BY <1>11, <2>1, <3>4 DEF p
    <3>7. \A i \in 1 .. b - a : x[i] = bars[a + i]
      <4>. TAKE i \in 1 .. b - a
      <4>1. b - p + 1 = b - a /\ p + i - 1 = a + i
        BY <2>1 DEF p
      <4>. QED
        BY <3>4, <4>1
    <3>. QED
      BY <3>4, <3>5, <3>6, <3>7 DEF S
  <2>3. DOMAIN rows = 1 .. b - a
    BY <2>2, LenProperties
  <2>4. \A n \in 1 .. b - a : a + n \in 1 .. L
    BY <2>1
  <2>. QED
    BY <2>2, <2>3, <2>4
<1>14. ASSUME NEW n \in 1 .. b - a PROVE rows[n].row \in R
  <2>1. /\ rows[n] = bars[a + n] /\ a + n \in 1 .. L
        /\ bars[a + n].row \in A /\ bars[a + n].ts = file[bars[a + n].row].ts
    BY <1>1, <1>13
  <2>2. a + n \in U /\ a + n \notin E
    BY <1>6, <1>7, <1>11
  <2>3. bars[a + n].ts <= u /\ t <= bars[a + n].ts
    BY <1>8, <1>9, <1>10, <2>1, <2>2
  <2>. QED
    BY <1>3, <2>1, <2>3
<1>15. ASSUME NEW m \in R PROVE \E n \in 1 .. b - a : rows[n].row = m
  <2>1. PICK k \in 1 .. L : bars[k].row = m /\ bars[k].ts = file[m].ts
    BY <1>1, <1>3
  <2>2. k \in U /\ k \notin E
    BY <1>2, <1>3, <1>9, <1>10, <2>1
  <2>3. k - a \in 1 .. b - a /\ a + (k - a) = k
    BY <1>6, <1>7, <2>2
  <2>. DEFINE n == k - a
  <2>4. n \in 1 .. b - a /\ a + n = k
    BY <2>3
  <2>. HIDE DEF n
  <2>5. rows[n] = bars[k]
    BY <1>13, <2>4
  <2>. QED
    BY <2>1, <2>4, <2>5
<1>16. {rows[n].row : n \in DOMAIN rows} = R
  BY <1>13, <1>14, <1>15
<1>17. ASSUME NEW m \in DOMAIN rows, NEW n \in DOMAIN rows, m < n
       PROVE  \/ rows[m].ts < rows[n].ts
              \/ rows[m].ts = rows[n].ts /\ rows[m].row < rows[n].row
  <2>1. /\ a + m \in 1 .. L /\ rows[m] = bars[a + m]
        /\ a + n \in 1 .. L /\ rows[n] = bars[a + n]
    BY <1>13
  <2>2. a + m < a + n
    BY <1>6, <1>13, <1>17
  <2>. QED
    BY <1>1, <2>1, <2>2
<1>. QED
  BY <1>12, <1>16, <1>17 DEF RangeIsOf, id, rows, R

LEMMA LatestSays ==
  ASSUME file \in Seq(Rows), StoreIs(file, store), NEW s \in DOMAIN store.instruments,
         NEW t \in Nat, NEW x \in Nat
  PROVE  LET bar == Latest(s, t)
         IN  /\ bar.ts \in Int /\ bar.ts <= t
             /\ bar = NoBar <=> bar.ts < 0
             /\ bar.ts >= x <=> RowsOf(s, x, t) # {}
             /\ bar.ts >= x => bar.row \in RowsOf(s, x, t)
             /\ bar # NoBar => bar = Latest(s, bar.ts)
<1>. DEFINE A == Seen(file, Len(file), s)
            R == RowsOf(s, 0, t)
            X == RowsOf(s, x, t)
            bar == Latest(s, t)
<1>1. \A m \in A : m \in Nat \ {0} /\ file[m].ts \in Nat
  BY RowsAre DEF Seen
<1>2. /\ R = {m \in A : file[m].ts <= t}
      /\ X = {m \in A : x <= file[m].ts /\ file[m].ts <= t}
  BY RowsAre, <1>1
<1>3. NoBar.ts = -1
  BY DEF NoBar
<1>4. \A m : BarOf(file, m).ts = file[m].ts /\ BarOf(file, m).row = m
  BY DEF BarOf
<1>5. IsLatest(s, t, bar)
  BY AtOrBeforeIs
<1>. HIDE DEF R, X, A, bar
<1>6. CASE bar = NoBar /\ R = {}
  BY <1>1, <1>2, <1>3, <1>6 DEF bar, X
<1>7. CASE \E m \in R : /\ bar = BarOf(file, m)
                        /\ \A l \in R : file[l].ts < file[m].ts \/ (file[l].ts = file[m].ts /\ l <= m)
  <2>1. PICK m \in R :
          /\ bar = BarOf(file, m)
          /\ \A l \in R : file[l].ts < file[m].ts \/ (file[l].ts = file[m].ts /\ l <= m)
    BY <1>7
  <2>2. bar.ts = file[m].ts /\ bar.row = m /\ m \in A /\ bar.ts \in Nat /\ bar.ts <= t
    BY <1>1, <1>2, <1>4, <2>1
  <2>3. bar # NoBar
    BY <1>3, <2>2
  <2>4. bar.ts >= x => m \in X
    BY <1>2, <2>2
  <2>5. X # {} => bar.ts >= x
    <3>1. ASSUME NEW l \in X PROVE bar.ts >= x
      BY <1>1, <1>2, <2>1, <2>2
    <3>. QED
      BY <3>1
  <2>6. bar = Latest(s, bar.ts)
    <3>. DEFINE v == bar.ts
                V == RowsOf(s, 0, v)
    <3>1. v \in Nat
      BY <2>2
    <3>2. V = {l \in A : file[l].ts <= v}
      BY RowsAre, <1>1, <3>1 DEF A
    <3>3. m \in V /\ \A l \in V : l \in R
      BY <1>1, <1>2, <2>2, <3>2
    <3>. HIDE DEF v
    <3>4. Latest(s, v) = BarOf(file, m)
      BY <2>1, <3>1, <3>3, LatestIs
    <3>. QED
      BY <2>1, <3>4 DEF v
  <2>. QED
    BY <2>2, <2>3, <2>4, <2>5, <2>6 DEF bar, X
<1>. QED
  BY <1>5, <1>6, <1>7 DEF IsLatest, R

-----------------------------------------------------------------------------
(* A line of a slice, and the store's invariant.                            *)

LineShows(s, t, fill, line) ==
  LET inMinute == RowsOf(s, t, t + Minute - 1)
  IN  /\ line.bar # NoBar => line.bar = Latest(s, line.bar.ts)
      /\ line.status = "exact" <=> RowsOf(s, t, t) # {}
      /\ line.status \in {"exact", "minute"} <=> inMinute # {}
      /\ inMinute # {} => line.bar.row \in inMinute
      /\ line.status = "minute" => line.bar = Latest(s, t + Minute - 1)
      /\ line.status = "ffill" => fill /\ line.bar = Latest(s, t)
      /\ line.status = "missing" => inMinute = {} /\ (fill => Latest(s, t) = NoBar)

LEMMA LineIs ==
  ASSUME file \in Seq(Rows), StoreIs(file, store), NEW s \in DOMAIN store.instruments,
         NEW t \in Nat, NEW fill \in BOOLEAN
  PROVE  LineShows(s, t, fill, Line(store.instruments[s], t, fill))
<1>. DEFINE id == store.instruments[s]
            u == t + Minute - 1
            l == Latest(s, t)
            m == Latest(s, u)
            line == Line(id, t, fill)
            inMinute == RowsOf(s, t, u)
            exactly == RowsOf(s, t, t)
            filled == IF fill THEN l ELSE NoBar
<1>1. u \in Nat /\ u >= t
  BY StoreAssumption
<1>2. /\ BarAt(id, t) = IF l.ts = t THEN l ELSE NoBar
      /\ ArchivedBarAtOrBefore(id, t) = l
  BY AtOrBeforeIs
<1>3. MinuteMatch(id, t) = IF m.ts >= t THEN m ELSE NoBar
  <2>1. ArchivedBarAtOrBefore(id, u) = m
    BY <1>1, AtOrBeforeIs
  <2>. QED
    BY <2>1 DEF MinuteMatch
<1>4. /\ l.ts \in Int /\ l.ts <= t
      /\ l = NoBar <=> l.ts < 0
      /\ l.ts >= t <=> exactly # {}
      /\ l.ts >= t => l.row \in exactly
      /\ l # NoBar => l = Latest(s, l.ts)
  <2>. HIDE DEF l
  <2>. QED
    BY LatestSays DEF l
<1>5. /\ m.ts \in Int
      /\ m = NoBar <=> m.ts < 0
      /\ m.ts >= t <=> inMinute # {}
      /\ m.ts >= t => m.row \in inMinute
      /\ m # NoBar => m = Latest(s, m.ts)
  <2>1. u \in Nat /\ t \in Nat
    BY <1>1
  <2>. HIDE DEF u
  <2>. QED
    BY <2>1, LatestSays
<1>6. \A n \in exactly : n \in inMinute
  <2>1. \A n \in Seen(file, Len(file), s) : file[n].ts \in Nat
    BY RowsAre DEF Seen
  <2>2. \A x, y : RowsOf(s, x, y) = {n \in Seen(file, Len(file), s) : file[n].ts \in x .. y}
    BY RowsAre
  <2>. QED
    BY <1>1, <2>1, <2>2
<1>7. line = IF BarAt(id, t) # NoBar THEN [status |-> "exact", bar |-> BarAt(id, t)]
             ELSE IF MinuteMatch(id, t) # NoBar THEN [status |-> "minute", bar |-> MinuteMatch(id, t)]
             ELSE [status |-> IF filled = NoBar THEN "missing" ELSE "ffill", bar |-> filled]
  BY <1>2 DEF Line
<1>. HIDE DEF l, m, id, line, inMinute, exactly, u
<1>8. CASE exactly # {}
  <2>1. l.ts = t /\ l # NoBar /\ l.row \in inMinute
    <3>1. l.ts >= t /\ l.row \in exactly
      BY <1>4, <1>8
    <3>2. l.ts = t /\ ~ (l.ts < 0)
      BY <1>4, <3>1
    <3>3. l # NoBar
      BY <1>4, <3>2
    <3>. QED
      BY <1>6, <3>1, <3>2, <3>3
  <2>2. line = [status |-> "exact", bar |-> l]
    BY <1>2, <1>7, <2>1
  <2>3. line.status = "exact" /\ line.bar = l
    BY <2>2
  <2>. QED
    BY <1>4, <1>8, <2>1, <2>3 DEF LineShows, line, id, l, inMinute, exactly, u
<1>9. CASE exactly = {} /\ inMinute # {}
  <2>1. l.ts # t /\ m.ts >= t /\ m # NoBar /\ m.row \in inMinute
    <3>1. ~ (l.ts >= t) /\ m.ts >= t /\ m.row \in inMinute
      BY <1>4, <1>5, <1>9
    <3>2. l.ts # t /\ ~ (m.ts < 0)
      BY <1>4, <1>5, <3>1
    <3>3. m # NoBar
      BY <1>5, <3>2
    <3>. QED
      BY <3>1, <3>2, <3>3
  <2>2. line = [status |-> "minute", bar |-> m]
    BY <1>2, <1>3, <1>7, <2>1
  <2>3. line.status = "minute" /\ line.bar = m
    BY <2>2
  <2>. QED
    BY <1>5, <1>9, <2>1, <2>3 DEF LineShows, line, id, m, inMinute, exactly, u
<1>10. CASE exactly = {} /\ inMinute = {}
  <2>1. l.ts # t /\ ~ (m.ts >= t)
    BY <1>4, <1>5, <1>10
  <2>2. line = [status |-> IF filled = NoBar THEN "missing" ELSE "ffill", bar |-> filled]
    BY <1>2, <1>3, <1>7, <2>1
  <2>3. line.status = (IF filled = NoBar THEN "missing" ELSE "ffill") /\ line.bar = filled
    BY <2>2
  <2>. QED
    BY <1>4, <1>10, <2>3 DEF LineShows, line, id, l, inMinute, exactly, u
<1>. QED
  BY <1>8, <1>9, <1>10 DEF line, id

LEMMA LoadedViews ==
  ASSUME file \in Seq(Rows), store = LoadParquet(file)
  PROVE  StoreIs(file, store) /\ ViewsAgreeWithFile
<1>1. StoreIs(file, store)
  BY LoadIs
<1>2. IsInjective(store.instruments)
  BY <1>1 DEF StoreIs, IsInjective
<1>3. ASSUME NEW s \in DOMAIN store.instruments, NEW t \in Stamps
      PROVE  LET id == store.instruments[s]
             IN  /\ BarAtOrBefore(id, t) = Latest(s, t)
                 /\ ArchivedBarAtOrBefore(id, t) = Latest(s, t)
                 /\ BarAt(id, t) = IF Latest(s, t).ts = t THEN Latest(s, t) ELSE NoBar
  BY <1>1, StoreAssumption, AtOrBeforeIs
<1>4. ASSUME NEW s \in DOMAIN store.instruments, NEW t \in Stamps, NEW u \in Stamps, u >= t
      PROVE  RangeIsOf(store.instruments[s], s, t, u)
  <2>1. t \in Nat /\ u \in Nat
    BY StoreAssumption
  <2>. QED
    BY <1>1, <1>4, <2>1, RangeIs
<1>5. ViewsAgreeWithFile
  <2>. SUFFICES ASSUME NEW s \in DOMAIN store.instruments, NEW t \in Stamps
                PROVE  LET id == store.instruments[s]
                       IN  /\ BarAtOrBefore(id, t) = Latest(s, t)
                           /\ ArchivedBarAtOrBefore(id, t) = Latest(s, t)
                           /\ BarAt(id, t) = IF Latest(s, t).ts = t THEN Latest(s, t) ELSE NoBar
                           /\ \A u \in Stamps : u >= t => RangeIsOf(id, s, t, u)
    BY <1>2, Zenon DEF ViewsAgreeWithFile, RangeIsOf
  <2>. QED
    BY <1>3, <1>4
<1>. QED
  BY <1>1, <1>5

(* StoreInv: the store is the file it was read from, and a slice was taken  *)
(* of it.  What a slice shows is kept as a fact of the file alone.          *)
StoreInv ==
  /\ file \in Seq(Rows)
  /\ loaded = "yes" => store = LoadParquet(file)
  /\ loaded # "yes" => slice = NoSlice
  /\ SliceShowsTheMinute

LEMMA SliceStays ==
  ASSUME UNCHANGED <<file, slice>>, SliceShowsTheMinute
  PROVE  SliceShowsTheMinute'
<1>1. ASSUME NEW s \in DOMAIN slice.lines
      PROVE  LineShows(s, slice.time, slice.fill, slice.lines[s])'
  <2>1. LineShows(s, slice.time, slice.fill, slice.lines[s])
    BY DEF SliceShowsTheMinute, LineShows
  <2>. QED
    BY <2>1 DEF LineShows, Latest, RowsOf
<1>. QED
  BY <1>1 DEF SliceShowsTheMinute, LineShows

LEMMA LineStays ==
  ASSUME NEW s, NEW t, NEW fill, NEW line, file' = file, LineShows(s, t, fill, line)
  PROVE  LineShows(s, t, fill, line)'
  BY DEF LineShows, Latest, RowsOf

LEMMA SliceShows ==
  ASSUME StoreInv, NEW t \in Stamps, NEW underlying, NEW expiry, NEW low, NEW high,
         NEW fill \in BOOLEAN, Slice(t, underlying, expiry, low, high, fill)
  PROVE  SliceShowsTheMinute'
<1>. DEFINE C == Contracts(underlying, expiry, low, high)
            lines == [s \in C |-> Line(store.instruments[s], t, fill)]
<1>1. /\ loaded = "yes" /\ file' = file
      /\ slice' = [time |-> t, fill |-> fill, lines |-> lines]
  BY DEF Slice
<1>2. file \in Seq(Rows) /\ StoreIs(file, store) /\ t \in Nat
  BY <1>1, LoadedViews, StoreAssumption DEF StoreInv
<1>3. C \subseteq DOMAIN store.instruments
  BY DEF Contracts, Chain
<1>. HIDE DEF C
<1>4. ASSUME NEW s \in C PROVE LineShows(s, t, fill, lines[s])
  <2>1. LineShows(s, t, fill, Line(store.instruments[s], t, fill))
    BY <1>2, <1>3, LineIs
  <2>. QED
    BY <2>1
<1>5. slice'.time = t /\ slice'.fill = fill /\ slice'.lines = lines /\ DOMAIN lines = C
  BY <1>1
<1>. HIDE DEF lines
<1>6. ASSUME NEW s \in C
      PROVE  LineShows(s, slice.time, slice.fill, slice.lines[s])'
  <2>1. PICK line : line = lines[s]
    OBVIOUS
  <2>2. LineShows(s, t, fill, line)
    BY <1>4, <2>1
  <2>3. LineShows(s, t, fill, line)'
    BY <1>1, <2>2, LineStays
  <2>4. slice'.time = t /\ slice'.fill = fill /\ slice'.lines[s] = line
    BY <1>5, <2>1
  <2>. QED
    BY <2>3, <2>4
<1>. QED
  BY <1>5, <1>6 DEF SliceShowsTheMinute, LineShows

LEMMA StoreInvStarts == StoreInit => StoreInv
<1>. SUFFICES ASSUME StoreInit PROVE StoreInv
  OBVIOUS
<1>1. file \in Seq(Rows)
  <2>1. PICK n \in 0 .. MaxRows : file \in [1 .. n -> Rows]
    BY DEF StoreInit, BoundedSeq, SeqOf
  <2>. QED
    BY <2>1, SeqDef, StoreAssumption
<1>2. SliceShowsTheMinute
  <2>1. DOMAIN slice.lines = {}
    BY DEF StoreInit, NoSlice
  <2>. QED
    BY <2>1 DEF SliceShowsTheMinute
<1>. QED
  BY <1>1, <1>2 DEF StoreInit, StoreInv

LEMMA StoreInvStays == StoreInv /\ [StoreNext]_storeVars => StoreInv'
<1>. SUFFICES ASSUME StoreInv, [StoreNext]_storeVars PROVE StoreInv'
  OBVIOUS
<1>1. CASE Load
  <2>1. UNCHANGED <<file, slice>> /\ loaded = "no"
    BY <1>1 DEF Load
  <2>2. SliceShowsTheMinute'
    BY <2>1, SliceStays DEF StoreInv
  <2>3. loaded' = "yes" => store' = LoadParquet(file)
    BY <1>1 DEF Load
  <2>. QED
    BY <2>1, <2>2, <2>3 DEF StoreInv
<1>2. ASSUME NEW t \in Stamps, NEW underlying, NEW expiry, NEW low, NEW high,
             NEW fill \in BOOLEAN, Slice(t, underlying, expiry, low, high, fill)
      PROVE  StoreInv'
  <2>1. UNCHANGED <<file, loaded, store>> /\ loaded = "yes"
    BY <1>2 DEF Slice
  <2>2. SliceShowsTheMinute'
    BY <1>2, SliceShows
  <2>. QED
    BY <2>1, <2>2 DEF StoreInv
<1>3. CASE UNCHANGED storeVars
  <2>1. UNCHANGED <<file, loaded, store, slice>>
    BY <1>3 DEF storeVars
  <2>2. SliceShowsTheMinute'
    BY <2>1, SliceStays DEF StoreInv
  <2>. QED
    BY <2>1, <2>2 DEF StoreInv
<1>4. CASE \E t \in Stamps, underlying \in DOMAIN Matches, low, high \in Strikes,
              fill \in BOOLEAN :
              \/ SliceNearest(t, underlying, low, high, fill)
              \/ \E expiry \in {Options[s].expiry : s \in DOMAIN Options} :
                   Slice(t, underlying, expiry, low, high, fill)
  <2>1. PICK t \in Stamps, underlying \in DOMAIN Matches, low \in Strikes, high \in Strikes,
             fill \in BOOLEAN :
             \/ SliceNearest(t, underlying, low, high, fill)
             \/ \E expiry \in {Options[s].expiry : s \in DOMAIN Options} :
                  Slice(t, underlying, expiry, low, high, fill)
    BY <1>4
  <2>2. CASE SliceNearest(t, underlying, low, high, fill)
    BY <1>2, <2>2 DEF SliceNearest
  <2>3. CASE \E expiry \in {Options[s].expiry : s \in DOMAIN Options} :
               Slice(t, underlying, expiry, low, high, fill)
    BY <1>2, <2>3
  <2>. QED
    BY <2>1, <2>2, <2>3
<1>. QED
  BY <1>1, <1>3, <1>4 DEF StoreNext

LEMMA StoreInvHolds == StoreSpec => []StoreInv
  BY StoreInvStarts, StoreInvStays, PTL DEF StoreSpec

(* Once a file is loaded, both views of it (get_bar_at_or_before and        *)
(* bars_for_instrument_range of MarketData and of ArchivedMarketDataView)   *)
(* answer what its rows say, at every time and over every range: whatever   *)
(* the order of the file, however many its rows, and with rows of the same  *)
(* instrument and time, which add_bar's two indexes treat differently.      *)
THEOREM ViewsAgree == StoreSpec => []ViewsAgreeWithFile
<1>1. StoreInv => ViewsAgreeWithFile
  <2>1. CASE loaded = "yes"
    BY <2>1, LoadedViews DEF StoreInv
  <2>2. CASE loaded # "yes"
    BY <2>2 DEF ViewsAgreeWithFile
  <2>. QED
    BY <2>1, <2>2
<1>. QED
  BY <1>1, StoreInvHolds, PTL

(* What bt data slice prints of a contract is what the file says of it: the *)
(* latest row of the minute if there is one, an older one only when asked   *)
(* for and there is none, and never one of a later minute.                  *)
THEOREM SlicesShow == StoreSpec => []SliceShowsTheMinute
<1>1. StoreInv => SliceShowsTheMinute
  BY DEF StoreInv
<1>. QED
  BY <1>1, StoreInvHolds, PTL
=============================================================================
