SPECIFICATION Spec
CONSTANTS
    p1 = p1
    p2 = p2
    None = None
    Procs <- MCProcs
    Codes <- BareCodes
    Template = "scaffold"
    Compiles <- MCCompiles
    Declares <- MCDeclares
    Builtins <- MCBuiltins
    Tomls <- MCTomls
    TemplateToml <- MCTemplateToml
    Commands <- BuiltinCommands
    Environment <- MCEnvironment
    DataFiles = {"sample"}
    MaxTime = 4
    ParamValues = {1, 2, 3}
    SweepFiles <- MCSweepFiles
    Return <- MCReturn
    OwnParams <- MCOwnParams
SYMMETRY Symmetry
CHECK_DEADLOCK FALSE
INVARIANT
    AcceptedRunsReport
