CONSTANTS
    Resources = {"pods", "secrets"}
    Workloads = "pods"
    TableColumns <- MCTableColumns
    TableColumnsWide <- MCTableColumnsWide
    Labels = {"app"}
    CellWidth <- MCCellWidth
    ColumnWidth <- MCColumnWidth
    BrowserRows <- MCBrowserRows
    BrowserCellWidths <- MCBrowserCellWidths
    Namespaces = {"n1"}
    AllNamespaces = "all"
    Windows <- MCWindows
    None = None
    MaxStack = 3
    MaxMessages = 1
    MaxTurns = 2
SPECIFICATION Spec
INVARIANTS
    TypeOK
    TablesFit
PROPERTIES
    ListsShowChoices
    EventsAreShown
