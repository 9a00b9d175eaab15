SPECIFICATION Spec
CONSTANTS
    o1 = o1
    o2 = o2
    Onu = {o1}
    Onus <- MCOne
    OnuId = {1, 2}
    Assign <- MCOneId
    Mode = "default"
    Handler = {h1, h2}
    OltLoop = loop
    NoOnu = none
    Requests <- AllRequests
INVARIANTS
    IdDiscipline
    NoOnuLeftBehind
