CONSTANTS
    Contexts = {c1, c2}
    Namespaces = {n1}
    Resources = {"services"}
    Sources = {"ingresses"}
    ListTTL = 1
    CallTime = 1
    RelTTL = 2
    None = None
    MaxNow = 3
SPECIFICATION RelSpec
INVARIANTS
    AnswerIsOfScope
    LookupUsesOwnScope

    
    
