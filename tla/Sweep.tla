------------------------------- MODULE Sweep -------------------------------
(***************************************************************************)
(* The engine's `sweep` command (main.rs): the grid of configurations that *)
(* SweepConfig::generate_permutations makes of the value lists, one run of *)
(* the engine per configuration on the threads of rayon's pool, the        *)
(* results collected in the order of the configurations, and the summary   *)
(* that AggregatedSummary::compute makes of them.                          *)
(*                                                                         *)
(* The lists of values stand in the order of their parameters' names, and  *)
(* a configuration has its values in that order.  The backtest of a        *)
(* configuration is deterministic: its return is Return[its parameters].   *)
(***************************************************************************)
EXTENDS Integers, FiniteSets, SequencesExt, StableSort

CONSTANTS
    ParamValues,  \* what a list of values may hold
    SweepFiles,   \* configurations a user may sweep: [dates, portfolio, ranges]
    Return,       \* total_return_pct of the parameters a strategy is built with
    OwnParams     \* the parameters the strategies of a portfolio are given

VARIABLE sweep    \* the sweep under way: its configurations and their results

NoSweep == [stage |-> "none", file |-> {}, results |-> << >>, finished |-> {}, summary |-> {}]

-----------------------------------------------------------------------------
(* The grid.                                                               *)

\* MultiCartesianProduct(ranges): one value of each list in every combination,
\* the last list running fastest; no list at all leaves one combination.
MultiCartesianProduct(ranges) ==
    LET product[n \in 0 .. Len(ranges)] ==
            IF n = 0 THEN << << >> >>
            ELSE LET size == Len(ranges[n])
                 IN  [i \in 1 .. Len(product[n - 1]) * size |->
                        Append(product[n - 1][((i - 1) \div size) + 1],
                               ranges[n][((i - 1) % size) + 1])]
    IN  product[Len(ranges)]

\* GeneratePermutations(ranges): the configurations, in order; a file without
\* ranges is run once as it stands.
GeneratePermutations(ranges) ==
    IF ranges = << >> THEN << << >> >> ELSE MultiCartesianProduct(ranges)

\* BuiltWith(file, config): the parameters that reach the strategies; those
\* of a portfolio are built with their own, whatever the grid says.
BuiltWith(file, config) == IF file.portfolio THEN OwnParams ELSE config

-----------------------------------------------------------------------------
(* The runs.                                                               *)

\* Pending(sweep): the slots of the configurations not yet run.
Pending == {i \in DOMAIN sweep.results : i \notin sweep.finished}

\* CollectAsFinished(results, i, r): a result put behind those already there.
CollectAsFinished(results, i, r) ==
    LET n == Cardinality(sweep.finished) + 1
    IN  IF n = i THEN [results EXCEPT ![i] = r]
        ELSE [results EXCEPT ![n] = r, ![i] = results[n]]

\* Collect(results, i, r): the indexed collect of the parallel iterator.
Collect(results, i, r) == [results EXCEPT ![i] = r]

\* SweepBegins(file): the file is read and its grid laid out.
SweepBegins(file) ==
    /\ sweep.stage = "none"
    /\ sweep' = IF file.dates
                THEN [NoSweep EXCEPT !.stage = "running", !.file = {file},
                                     !.results = [i \in DOMAIN GeneratePermutations(file.ranges) |->
                                                    [params |-> GeneratePermutations(file.ranges)[i],
                                                     return |-> 0]]]
                ELSE [NoSweep EXCEPT !.stage = "refused"]

\* OneRun: a thread finishes the run of some configuration.
OneRun ==
    /\ sweep.stage = "running"
    /\ \E i \in Pending : \E file \in sweep.file :
          LET config == GeneratePermutations(file.ranges)[i]
          IN  sweep' = [sweep EXCEPT
                 !.finished = @ \cup {i},
                 !.results = Collect(@, i, [params |-> config,
                                            return |-> Return[BuiltWith(file, config)]])]

\* LastBest(results): Iterator::max_by keeps the last of equal elements.
LastBest(results) ==
    results[CHOOSE i \in DOMAIN results :
              \A j \in DOMAIN results :
                 \/ results[j].return < results[i].return
                 \/ (results[j].return = results[i].return /\ j <= i)]

\* Summary(results): the summary of a sweep's results.
Summary(results) ==
    LET n == Len(results)
        asRun == [i \in DOMAIN results |-> results[i].return]
        returns == SortBy(asRun, asRun)
    IN  [runs |-> n, worst |-> returns[1], best |-> returns[n],
         median |-> returns[(n \div 2) + 1],
         bestParams |-> LastBest(results).params]

\* Summarise: all runs are back; a summary of no run panics.
Summarise ==
    /\ sweep.stage = "running" /\ Pending = {}
    /\ sweep' = IF sweep.results = << >> THEN [sweep EXCEPT !.stage = "panicked"]
                ELSE [sweep EXCEPT !.stage = "summarised", !.summary = {Summary(sweep.results)}]

-----------------------------------------------------------------------------
\* Grid(ranges): what a sweep is asked to run.
Grid(ranges) ==
    {f \in [DOMAIN ranges -> ParamValues] : \A k \in DOMAIN ranges : f[k] \in Range(ranges[k])}

ASSUME SweepAssumption ==
    \A file \in SweepFiles :
        /\ file.ranges \in Seq(Seq(ParamValues))
        /\ \A config \in Grid(file.ranges) : Return[BuiltWith(file, config)] \in Int

\* SweepCoversGrid: every combination of the value lists is run exactly once
\* whatever the order in which the threads finish, each result stands beside
\* the parameters that made it, and the summary is that of the whole grid:
\* its best run is the last best in the order of the configurations, at least
\* half of the runs are no better than the median and at least half no worse.
SweepCoversGrid ==
    sweep.stage = "summarised" =>
        \A file \in sweep.file, s \in sweep.summary :
            LET R == sweep.results
                Configs == GeneratePermutations(file.ranges)
                NoBetter == {i \in DOMAIN R : R[i].return <= s.median}
                NoWorse == {i \in DOMAIN R : R[i].return >= s.median}
            IN  /\ {R[i].params : i \in DOMAIN R} = Grid(file.ranges)
                /\ Len(R) = Cardinality(Grid(file.ranges)) /\ s.runs = Len(R)
                /\ \A i \in DOMAIN R : R[i].return = Return[BuiltWith(file, R[i].params)]
                /\ \A i \in DOMAIN R : s.worst <= R[i].return /\ R[i].return <= s.best
                /\ \E i \in DOMAIN R :
                      /\ R[i].params = s.bestParams /\ R[i].return = s.best
                      /\ \A j \in DOMAIN R : Configs[j] = R[i].params =>
                            \A l \in DOMAIN R : l > j =>
                               Return[BuiltWith(file, Configs[l])] < s.best
                /\ 2 * Cardinality(NoBetter) >= Len(R) /\ 2 * Cardinality(NoWorse) >= Len(R)
=============================================================================
