SPECIFICATION MCSpec
CONSTANTS
  Transceivers = {t1, t2}
  Callers = {c1, c2}
  MaxTrees = 2
  Metrics = {"cpu"}
  Defaults = {"cpu"}
  MaxSessions = 2
  MaxBuses = 2
  MaxUpdates = 1
  Events = {"FAN_FAILURE", "TRANSCEIVER_PLUG_IN", "DYING_GASP"}
  MaxEvents = 2
  Capacity = 1
INVARIANTS
  
  ConfigKept
  
  EventsInOrder
CHECK_DEADLOCK FALSE
