SPECIFICATION Spec
CONSTANTS
    Protocols = {"eapol", "dhcp"}
    Retry = TRUE
    MaxStart = 2
    MaxEpoch = 2
INVARIANTS
    ExchangeComplete
    DisabledForgets
    StartsReceived
CHECK_DEADLOCK FALSE
