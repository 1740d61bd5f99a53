SPECIFICATION Spec
CONSTANTS
    None = None
    NotAllowed = NotAllowed
    CannotRead = CannotRead
    NotYet = NotYet
    Crashed = Crashed
    DockerfileNames = {"Dockerfile", "Dockerfile.dev"}
    Repositories <- MCRepositories
    FallbackQuery = FallbackQuery
    MaxFileBytes = 4
    MaxTfReadBytes = 2
    MaxDepth = 5
INVARIANT
    NoScannerRaises
CHECK_DEADLOCK FALSE
