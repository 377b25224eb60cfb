CONSTANTS
    Items = {1, 2}
    Texts = {{1}, {2}}
    Kinds = {"pods", "deployments"}
    Empty = Empty
    None = None
    MaxInFlight = 2
SPECIFICATION Spec
INVARIANTS
    EmptyMeansNoMatch
