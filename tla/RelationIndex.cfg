CONSTANTS
    Contexts = {c1}
    Namespaces = {n1}
    Resources = {"pods", "services"}
    Sources = {"workloads"}
    ListTTL = 1
    CallTime = 1
    RelTTL = 2
    None = None
    MaxNow = 4
SPECIFICATION FairRelSpec
INVARIANTS
    RelTypeOK
    CallsPerLookup
PROPERTIES
    AsksOnlyForMissing
    LookupEnds
