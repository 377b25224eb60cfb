SPECIFICATION Spec
SYMMETRY NamespacesAlike
CONSTANTS
    Contexts = {c1}
    Namespaces = {n1, n2}
    AllNamespaces = all
    Resources = {workloads, pods}
    Workloads = workloads
    Pods = pods
    Nil = Nil
    Slots = {1}
    MaxDepth = 3
    MaxMarked = 2
    MaxInFlight = 1
INVARIANTS TypeOK CrumbsNameViews RootIsOfStoreScope OneTakesKeys
PROPERTY ZeroComesBack
CHECK_DEADLOCK FALSE
