CONSTANTS
    Depth = 4
    MaxPresses = 2
SPECIFICATION Spec
INVARIANTS
    TypeOK
    QuitKept
    CleanupUndisturbed
    HandlersScoped
