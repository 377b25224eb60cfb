CONSTANTS
    Catalogue <- MCCatalogue
    RegistryPods <- MCRegistryPods
    Initially <- MCInitially
    Changing <- MCChanging
    Failing <- MCFailing
    Namespaces = {"n1", "n2"}
    AllNamespaces = "all"
    NoNamespace = ""
    Roots = {"workloads", "pods", "services", "ingresses", "nodes", "persistentvolumeclaims"}
    Commanded = {"pods", "deployments"}
    None = None
    MaxChanges = 2
    MaxStack = 3
    MaxBelow = 1
SPECIFICATION Spec
INVARIANTS
    TypeOK
    RelationsAgree
    OwnerIsFound
    
    EnterAgreesWithPicker
    
    ListsAreOfScope
