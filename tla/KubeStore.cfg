CONSTANTS
    Contexts = {c1, c2}
    Namespaces = {n1}
    DefaultNamespace = n1
    Reads = {b1}
    Errors = {"forbidden", "canceled"}
    MaxNow = 2
    Loop = Loop
    NoScope = NoScope
    Blank = Blank
SPECIFICATION Spec
INVARIANTS
    TypeOK
    LoopStatusIsOfCurrentScope
    RealErrorIsShown
    

    
