---------------------------- MODULE MCWorkspace ----------------------------
(***************************************************************************)
(* Two bt processes on one project whose source can be the scaffold, a     *)
(* text that declares a required parameter, one that declares nothing (so  *)
(* that the engine's own strategies are offered) or one that does not      *)
(* compile.                                                                *)
(***************************************************************************)
EXTENDS Workspace

CONSTANTS p1, p2

MCProcs == {p1, p2}
Symmetry == Permutations(MCProcs)
MCCodes == {"scaffold", "tuned", "bare", "broken"}
BareCodes == {"scaffold", "bare"}
MCCompiles == {"scaffold", "tuned", "bare"}
Qty == [values |-> {"1", "2"}, required |-> TRUE]
MCDeclares == [c \in {"scaffold", "tuned", "bare", "broken"} |->
                 CASE c = "scaffold" -> [own |-> << >>]
                   [] c = "tuned" -> [own |-> [qty |-> Qty]]
                   [] OTHER -> << >>]
MCBuiltins == {"random"}
NoParams == << >>
MCTemplateToml == [strategy |-> "own", data |-> None, start |-> None, end |-> None,
                   params |-> [qty |-> "1", prob |-> "half"], fallback |-> TRUE]
MCTomls == {MCTemplateToml,
            [MCTemplateToml EXCEPT !.params = [qty |-> "1"], !.fallback = FALSE]}
Plain == [strategy |-> None, data |-> None, start |-> None, end |-> "d2", params |-> << >>]
BuiltinCommands == {[Plain EXCEPT !.strategy = "random"]}
MCCommands == {Plain, [Plain EXCEPT !.params = [qty |-> "x"]], [Plain EXCEPT !.end = "blank"]}
    \cup BuiltinCommands
MCEnvironment == [force |-> FALSE, strategy |-> None, data |-> None, start |-> "d1", end |-> None, params |-> << >>]

TwoByTwo == << <<1, 2>>, <<1, 2>> >>
MCSweepFiles == {[dates |-> TRUE, portfolio |-> FALSE, ranges |-> TwoByTwo],
                 [dates |-> TRUE, portfolio |-> TRUE, ranges |-> << <<1, 2, 3>> >>],
                 [dates |-> TRUE, portfolio |-> FALSE, ranges |-> Append(TwoByTwo, << >>)],
                 [dates |-> FALSE, portfolio |-> FALSE, ranges |-> TwoByTwo]}
\* Two configurations of the grid are the best, with different parameters.
MCReturn == [f \in [{1, 2} -> 1 .. 2] |-> (f[1] + f[2]) % 2]
MCOwnParams == <<1, 2>>
=============================================================================
