SPECIFICATION MCSpec
CONSTANTS
    Onu = {1, 2}
    FlowId = {"f1", "f2", "f3", "f4"}
    Catalog <- MCFlows
    Handler = {h1, h2}
    NoFlow = NoFlow
    enablePerf = FALSE
    MaxDup = 2
    Flow = {f1}
    Flowless = Flowless
    Sender = {s1}
    Driver = {d1}
    Loop = {1, 2, 3}
    MaxChannel = 2
    Capacity = 2
    Requests = {"PowerOn", "Shutdown", "DeleteOnu", "ActivateOnu",
                "DisablePonIf", "EnablePonIf", "Reconnect"}
    OmciTypes = {"uni"}
INVARIANTS
    ResourcesExclusive
    ReferencesExact
    OneReceiver
    
    FlowIdsExact
CHECK_DEADLOCK FALSE
SYMMETRY Symmetry
