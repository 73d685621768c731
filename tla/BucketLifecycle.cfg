\* Two modules, two calls.
SPECIFICATION Spec
CONSTANTS
    a = a
    b = b
    r = r
    f = f
    Module = {a, b}
    RawPrefix <- MCRawPrefix
    RuleId = {r, f}
    BadId = BadId
    NoRule = NoRule
    Unset = Unset
    Setting = {"default", "varies"}
    Default = "default"
    InitialConfigs <- MCInitialConfigs
    Ask <- MCAsk
    Call = {c1, c2}
    RefusedErrors <- MCRefusedErrors
    FailedErrors <- MCFailedErrors
INVARIANTS TypeOK ForeignRulesKept RefusedWroteNothing AnswersHold ViewsCanBeWritten
PROPERTIES ImplementsRuleStore
CHECK_DEADLOCK FALSE
