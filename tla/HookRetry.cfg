SPECIFICATION HooksSpec
CONSTANTS
    HookRunners = {c1}
    NoAnnotation = NoAnnotation
    PhaseTokens = {{"PreSync"}}
    PolicyTokens = {{"BeforeHookCreation"}}
    MaxIncarnations = 1
    MaxPods = 1
INVARIANT OutcomeTerminal
CHECK_DEADLOCK FALSE
