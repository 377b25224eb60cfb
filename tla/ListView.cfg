CONSTANTS
    Items = {1, 2}
    Texts = {{2}, {1, 2}}
    Kinds = {"pods", "deployments"}
    Empty = Empty
    None = None
    MaxInFlight = 2
SPECIFICATION Spec
INVARIANTS
    TypeOK
    OneModeAtATime
    MatchesAreVisibleRows
    OperatesOnChosen
