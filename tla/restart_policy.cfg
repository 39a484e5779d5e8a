CONSTANTS
    Policies <- MCPolicies
    DefaultBase = 1
    DefaultMax = 8
    MaxClock = 14
SPECIFICATION Spec
INVARIANTS RestartsBounded BackoffIsExponential
PROPERTIES NotBeforeBackoff ImplementsAbstractRestart
