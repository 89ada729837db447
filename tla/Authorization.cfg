CONSTANTS
    Callers = {"a", "b"}
    Settings <- MCSettings
    Suite = "a"
    Margin = 1
    Timeout = 1
    Requests = {"p", "q"}
    Deployments <- MCDeployments
    Refresh = 2
    Interval = 1
    Leeway = 1
    HttpTimeout = 1
SPECIFICATION AuthorizationSpec
INVARIANTS CacheAlive  StepUpCovers WithdrawnExpires ClientFindsDocument
CHECK_DEADLOCK FALSE
