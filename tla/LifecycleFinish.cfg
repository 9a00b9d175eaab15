SPECIFICATION FairSpec
CONSTANTS
    o1 = o1
    o2 = o2
    Onu = {o1, o2}
    Onus <- MCTwo
    OnuId = {1, 2}
    Assign <- MCTwoIds
    Mode = "default"
    Handler = {h1, h2}
    OltLoop = loop
    NoOnu = none
    Requests = {"Enable", "ActivateOnu", "ShutdownONU", "DisablePonIf"}
PROPERTY HandlersFinish
