SPECIFICATION Spec
CONSTANTS
    app = app
    infra = infra
    ac6 = ac6
    si2 = si2
    None = None
    Malformed = Malformed
    Invalid = Invalid
    NoDirectory = NoDirectory
    RaisedError = RaisedError
    Fixture = {app, infra}
    ControlIds = {ac6, si2}
    GoldenSets <- MCGoldenSets
    Thresholds <- MCThresholds
    Unit = 100800
INVARIANTS
    NoCaseIsLost
    PredictionIsItsOwn
    GateIsHonest
    ScoreIsFair
CHECK_DEADLOCK FALSE
