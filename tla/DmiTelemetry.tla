---------------------------- MODULE DmiTelemetry ----------------------------
(* The metrics and events of the Device Management Interface
   (src/internal/bbsim/dmiserver).  Each StartManagingDevice makes two channels and
   starts a goroutine that copies the configuration of the metrics under a lock, and
   for each metric that is due writes its entry of the copy back, with the time of the
   next report, and reports the components of the inventory.  SetMsgBusEndpoint starts
   the goroutines that forward what is on the channels of that moment to Kafka.
   Management calls come one at a time; the goroutines and the calls that create an
   event run beside them.  The inventory is only there or not, see DmiInventory.   *)
EXTENDS Integers, Sequences, FiniteSets

CONSTANTS
  Metrics,      \* the supported metrics
  Defaults,     \* those that are configured when management starts
  MaxSessions,  \* bound on StartManagingDevice
  MaxBuses,     \* bound on SetMsgBusEndpoint
  MaxUpdates,   \* bound on UpdateMetricConfig
  Events,       \* the events that CreateEvent is asked for
  MaxEvents,    \* bound on the events
  Capacity      \* kafkaChannelSize, 100 in the code

BoundsAssumption ==
  {MaxSessions, MaxBuses, MaxUpdates, MaxEvents, Capacity} \subseteq Nat

Sessions == 1..MaxSessions
Buses == 1..MaxBuses

VARIABLES
  nilMap,            \* configuredMetrics is nil
  configuredMetrics, \* the metrics in the map: configured or not, due or not
  wanted,            \* history: what the calls have configured
  inventory,         \* whether root is set
  managed,           \* management was started and not stopped since
  session,           \* the last session, whose cancel function dmiMG has
  metricChannel, eventChannel, \* the session that made them, 0 for nil
  handler,           \* the management call that is half done
  generator,         \* the goroutine of each session
  updates,           \* the updates so far
  endpoint,          \* whether kafkaEndpoint is set
  bus,               \* the last SetMsgBusEndpoint, whose cancel function dms has
  publisher,         \* the goroutines of each SetMsgBusEndpoint
  creator,           \* the class of the event that is being created, or "idle"
  queue,             \* the events on the channel of each session
  created, dropped,  \* history: how many events were created, and those dropped
  kafka,             \* the events that the producer has taken
  panic,             \* a goroutine has panicked
  disorder           \* history: what did not wait for its turn, see Disorders

config == <<nilMap, configuredMetrics, wanted, updates>>
session_ == <<inventory, managed, session, metricChannel, eventChannel, handler>>
message == <<endpoint, bus, publisher>>
event == <<creator, queue, created, dropped, kafka>>
vars == <<config, session_, generator, message, event, panic, disorder>>

\* "update": a configuration changes while a generator is in a round; "stop": management
\* stops while a goroutine uses the inventory; "restart": it starts when it was not
\* stopped; "early": a configuration changes before there is one; "order": the endpoint
\* is set for a device that is not managed; "again": it is set a second time; "failed":
\* its producer cannot be made.
Disorders == {"update", "stop", "restart", "early", "order", "again", "failed"}

\* The bound: one of them in a behaviour.
Disturbs(how, happens) ==
  /\ ~happens \/ disorder \subseteq {how}
  /\ disorder' = IF happens THEN {how} ELSE disorder

Empty == [m \in {} |-> FALSE]
With(f, m, v) == [x \in DOMAIN f \cup {m} |-> IF x = m THEN v ELSE f[x]]

Init ==
  /\ nilMap = TRUE /\ configuredMetrics = Empty /\ wanted = Empty /\ updates = 0
  /\ inventory = FALSE /\ managed = FALSE /\ session = 0 /\ handler = "none"
  /\ metricChannel = 0 /\ eventChannel = 0
  /\ generator = [s \in Sessions |->
       [at |-> "none", metric |-> "none", cancelled |-> FALSE, copy |-> Empty, todo |-> {}]]
  /\ endpoint = FALSE /\ bus = 0
  /\ publisher = [b \in Buses |->
       [at |-> "none", cancelled |-> FALSE, metrics |-> 0, events |-> 0, holds |-> <<>>]]
  /\ creator = "idle" /\ queue = [s \in Sessions |-> <<>>]
  /\ created = 0 /\ dropped = {} /\ kafka = <<>>
  /\ panic = FALSE /\ disorder = {}

InRound(s) == generator[s].at \notin {"none", "asleep", "ended"}
MayCall == handler = "none"
----------------------------------------------------------------------------
(* StartManagingDevice and StopManagingDevice.                               *)

\* Up to StartEventsGenerator: the channels, the default configuration, and a
\* generator whose cancel function replaces the one of the last session.
StartManagingDevice ==
  /\ MayCall /\ session < MaxSessions
  /\ Disturbs("restart", managed)
  /\ session' = session + 1 /\ managed' = TRUE /\ handler' = "start"
  /\ metricChannel' = session + 1 /\ eventChannel' = session + 1
  /\ nilMap' = FALSE
  /\ configuredMetrics' = [m \in Metrics |-> [on |-> m \in Defaults, due |-> TRUE]]
  /\ wanted' = [m \in Metrics |-> m \in Defaults]
  /\ generator' = [generator EXCEPT ![session + 1].at = "asleep"]
  /\ UNCHANGED <<updates, inventory, message, event, panic>>

CreateInventory ==
  /\ handler = "start"
  /\ inventory' = TRUE /\ handler' = "none"
  /\ UNCHANGED <<config, managed, session, metricChannel, eventChannel, generator,
                 message, event, panic, disorder>>

\* The cancel functions, if there are any.
CancelGenerator == [s \in Sessions |->
  IF s = session THEN [generator[s] EXCEPT !.cancelled = TRUE] ELSE generator[s]]
CancelPublisher == [b \in Buses |->
  IF b = bus THEN [publisher[b] EXCEPT !.cancelled = TRUE] ELSE publisher[b]]

\* StopManagingDevice asks for no state; StopMetricGenerator makes an empty map.
StopMetricGenerator ==
  /\ MayCall
  /\ Disturbs("stop", creator # "idle" \/ \E s \in Sessions : InRound(s))
  /\ managed' = FALSE /\ handler' = "stop"
  /\ generator' = CancelGenerator
  /\ nilMap' = FALSE /\ configuredMetrics' = Empty /\ wanted' = Empty
  /\ UNCHANGED <<updates, inventory, session, metricChannel, eventChannel,
                 message, event, panic>>

\* Mutant: the publisher goes on.
KeepPublisher ==
  /\ handler = "stop"
  /\ endpoint' = FALSE /\ inventory' = FALSE /\ metricChannel' = 0 /\ handler' = "none"
  /\ UNCHANGED <<config, managed, session, eventChannel, generator, bus, publisher, event,
                 panic, disorder>>

\* The rest of it.  The channel of the events and the generator of the events stay.
StopManagingDevice ==
  /\ handler = "stop"
  /\ publisher' = CancelPublisher
  /\ endpoint' = FALSE /\ inventory' = FALSE /\ metricChannel' = 0 /\ handler' = "none"
  /\ UNCHANGED <<config, managed, session, eventChannel, generator, bus, event, panic,
                 disorder>>
----------------------------------------------------------------------------
(* generateMetrics.                                                          *)

\* UpdateMetricsConfiguration: the metric is due at once; a nil map cannot be written.
UpdateMetricConfig(m, on) ==
  /\ MayCall /\ updates < MaxUpdates
  /\ updates' = updates + 1
  /\ IF nilMap
     THEN /\ Disturbs("early", TRUE)
          /\ panic' = TRUE
          /\ UNCHANGED <<configuredMetrics, wanted>>
     ELSE /\ Disturbs("update", \E s \in Sessions : InRound(s))
          /\ configuredMetrics' = With(configuredMetrics, m, [on |-> on, due |-> TRUE])
          /\ wanted' = With(wanted, m, on)
          /\ UNCHANGED panic
  /\ UNCHANGED <<nilMap, session_, generator, message, event>>

UpdateMetricsConfiguration == \E m \in Metrics, on \in BOOLEAN : UpdateMetricConfig(m, on)

\* What ListMetrics answers.
getMetricsList == configuredMetrics

\* The poll interval of a metric passes.
Elapse(m) ==
  /\ m \in DOMAIN configuredMetrics
  /\ ~configuredMetrics[m].due
  /\ configuredMetrics' = [configuredMetrics EXCEPT ![m].due = TRUE]
  /\ UNCHANGED <<nilMap, wanted, updates, session_, generator, message, event, panic,
                 disorder>>

Goto(s, at, metric, todo) ==
  generator' = [generator EXCEPT ![s] = [@ EXCEPT !.at = at, !.metric = metric, !.todo = todo]]

\* A round begins with a copy of the configuration.  A generator between the two
\* steps of a stop counts as one that the stop disturbs.
CopyConfig(s) ==
  /\ generator[s].at = "asleep" /\ ~generator[s].cancelled
  /\ Disturbs("stop", handler = "stop")
  /\ generator' = [generator EXCEPT ![s] = [@ EXCEPT !.at = "round", !.copy = configuredMetrics,
                                                     !.todo = DOMAIN configuredMetrics]]
  /\ UNCHANGED <<config, session_, message, event, panic>>

Stopped(s) ==
  /\ generator[s].at = "asleep" /\ generator[s].cancelled
  /\ Goto(s, "ended", "none", {})
  /\ UNCHANGED <<config, session_, message, event, panic, disorder>>

\* All metrics were looked at, or there is no inventory; the copy is not used again.
EndRound(s) ==
  /\ generator[s].at = "round"
  /\ generator[s].todo = {} \/ ~inventory
  /\ generator' = [generator EXCEPT ![s] = [@ EXCEPT !.at = "asleep", !.metric = "none",
                                                     !.copy = Empty, !.todo = {}]]
  /\ UNCHANGED <<config, session_, message, event, panic, disorder>>

\* One metric of the copy: is there an inventory, is it configured, is it due?
CheckMetric(s, m) ==
  /\ generator[s].at = "round" /\ inventory
  /\ m \in generator[s].todo
  /\ Goto(s, IF generator[s].copy[m].on /\ generator[s].copy[m].due THEN "due" ELSE "round",
          m, generator[s].todo \ {m})
  /\ UNCHANGED <<config, session_, message, event, panic, disorder>>

\* Mutant: the metric that is put back is off.
WriteOff(s) == LET m == generator[s].metric IN
  /\ generator[s].at = "due"
  /\ configuredMetrics' = With(configuredMetrics, m, [on |-> FALSE, due |-> FALSE])
  /\ Goto(s, "report", m, generator[s].todo)
  /\ UNCHANGED <<nilMap, wanted, updates, session_, message, event, panic, disorder>>

\* Not due before the poll interval has passed: the entry of the copy is put back.
updateConfiguredMetrics(s) == LET m == generator[s].metric IN
  /\ generator[s].at = "due"
  /\ configuredMetrics' =
       With(configuredMetrics, m, [on |-> generator[s].copy[m].on, due |-> FALSE])
  /\ Goto(s, "report", m, generator[s].todo)
  /\ UNCHANGED <<nilMap, wanted, updates, session_, message, event, panic, disorder>>

\* One metric for each component of its class, which findComponentsOfType looks up in
\* the children of root: the process panics when that is gone by now.  A metric is
\* dropped when the channel is nil or full.
Report(s) ==
  /\ generator[s].at = "report"
  /\ panic' = (panic \/ ~inventory)
  /\ Goto(s, IF inventory THEN "round" ELSE "ended", "none", generator[s].todo)
  /\ UNCHANGED <<config, session_, message, event, disorder>>
----------------------------------------------------------------------------
(* The message bus.                                                          *)

\* The publishers of the last endpoint are cancelled.
SetMsgBusEndpoint ==
  /\ MayCall /\ bus < MaxBuses
  /\ \/ Disturbs("order", ~managed) /\ ~endpoint
     \/ Disturbs("again", TRUE) /\ endpoint
  /\ publisher' = CancelPublisher
  /\ endpoint' = TRUE /\ bus' = bus + 1 /\ handler' = "bus"
  /\ UNCHANGED <<config, inventory, managed, session, metricChannel, eventChannel,
                 generator, event, panic>>

\* There is a producer, and two goroutines with the channels of this moment.
StartPublishers ==
  /\ handler = "bus" /\ handler' = "none"
  /\ publisher' = [publisher EXCEPT ![bus] = [@ EXCEPT !.at = "reading", !.metrics = metricChannel,
                                                       !.events = eventChannel]]
  /\ UNCHANGED <<config, inventory, managed, session, metricChannel, eventChannel,
                 generator, endpoint, bus, event, panic, disorder>>

\* There is none: the endpoint stays set.
NoProducer ==
  /\ handler = "bus" /\ handler' = "none"
  /\ Disturbs("failed", TRUE)
  /\ UNCHANGED <<config, inventory, managed, session, metricChannel, eventChannel,
                 generator, message, event, panic>>

\* DMKafkaPublisher on the events.  When there is an event and the context is done,
\* select takes either.  A receive from a nil channel waits.
Take(b) == LET s == publisher[b].events IN
  /\ publisher[b].at = "reading" /\ s # 0
  /\ queue[s] # <<>>
  /\ publisher' = [publisher EXCEPT ![b] = [@ EXCEPT !.at = "sending", !.holds = <<Head(queue[s])>>]]
  /\ queue' = [queue EXCEPT ![s] = Tail(@)]
  /\ UNCHANGED <<config, session_, generator, endpoint, bus, creator, created, dropped,
                 kafka, panic, disorder>>

\* Mutant: the producer does not wait, and may not take the event.
SendOrLose(b) ==
  /\ publisher[b].at = "sending"
  /\ publisher' = [publisher EXCEPT ![b] = [@ EXCEPT !.at = "reading", !.holds = <<>>]]
  /\ kafka' \in {kafka, kafka \o publisher[b].holds}
  /\ UNCHANGED <<config, session_, generator, endpoint, bus, creator, queue, created,
                 dropped, panic, disorder>>

SendOut(b) ==
  /\ publisher[b].at = "sending"
  /\ publisher' = [publisher EXCEPT ![b] = [@ EXCEPT !.at = "reading", !.holds = <<>>]]
  /\ kafka' = kafka \o publisher[b].holds
  /\ UNCHANGED <<config, session_, generator, endpoint, bus, creator, queue, created,
                 dropped, panic, disorder>>

EndPublisher(b) ==
  /\ publisher[b].at = "reading" /\ publisher[b].cancelled
  /\ publisher' = [publisher EXCEPT ![b].at = "ended"]
  /\ UNCHANGED <<config, session_, generator, endpoint, bus, event, panic, disorder>>
----------------------------------------------------------------------------
(* Events.                                                                   *)

\* StartEventsGenerator makes the map of the events, and nothing ever removes it.
UpdateEventConfig ==
  /\ session = 0 /\ updates < MaxUpdates
  /\ Disturbs("early", TRUE)
  /\ updates' = updates + 1 /\ panic' = TRUE
  /\ UNCHANGED <<nilMap, configuredMetrics, wanted, session_, generator, message, event>>

\* The events that can be created, and the class of the component they are about.
eventGenMap ==
  [FAN_FAILURE |-> "FAN", FAN_FAILURE_RECOVERED |-> "FAN",
   TRANSCEIVER_PLUG_IN |-> "TRANSCEIVER", TRANSCEIVER_PLUG_OUT |-> "TRANSCEIVER",
   PSU_FAILURE |-> "POWER_SUPPLY", PSU_FAILURE_RECOVERED |-> "POWER_SUPPLY",
   HW_DEVICE_TEMPERATURE_ABOVE_CRITICAL |-> "SENSOR",
   HW_DEVICE_TEMPERATURE_ABOVE_CRITICAL_RECOVERED |-> "SENSOR"]

\* The call goes on only when there is an inventory.
CreateEvent(e) ==
  /\ creator = "idle" /\ created < MaxEvents
  /\ inventory
  /\ e \in DOMAIN eventGenMap
  /\ Disturbs("stop", handler = "stop")
  /\ creator' = eventGenMap[e]
  /\ UNCHANGED <<config, session_, generator, message, queue, created, dropped, kafka, panic>>

\* The events are numbered, and carry the session whose channel they are put on.
NewEvent == [session |-> eventChannel, number |-> created + 1]

\* The first component of the class, looked up in root again; the plug-out and the
\* plug-in of a transceiver end with the same send.  It does not wait for room.
sendOutEventOnKafka ==
  /\ creator # "idle" /\ inventory
  /\ creator' = "idle" /\ created' = created + 1
  /\ IF Len(queue[eventChannel]) < Capacity
     THEN /\ queue' = [queue EXCEPT ![eventChannel] = Append(@, NewEvent)]
          /\ UNCHANGED dropped
     ELSE /\ dropped' = dropped \cup {created + 1}
          /\ UNCHANGED queue
  /\ UNCHANGED <<config, session_, generator, message, kafka, panic, disorder>>

\* There is no component of that class when every transceiver is plugged out; or root
\* itself is gone.
NoComponent ==
  /\ creator # "idle"
  /\ creator = "TRANSCEIVER" \/ ~inventory
  /\ creator' = "idle"
  /\ panic' = (panic \/ ~inventory)
  /\ UNCHANGED <<config, session_, generator, message, queue, created, dropped, kafka,
                 disorder>>
----------------------------------------------------------------------------
ManagerStep ==
  \/ StartManagingDevice \/ CreateInventory
  \/ StopMetricGenerator \/ StopManagingDevice
  \/ UpdateMetricsConfiguration
  \/ SetMsgBusEndpoint \/ StartPublishers \/ NoProducer
EventStep ==
  \/ UpdateEventConfig \/ (\E e \in Events : CreateEvent(e)) \/ sendOutEventOnKafka \/ NoComponent
GeneratorStep(s) ==
  \/ CopyConfig(s) \/ Stopped(s) \/ EndRound(s)
  \/ \E m \in Metrics : CheckMetric(s, m)
  \/ updateConfiguredMetrics(s) \/ Report(s)
PublisherStep(b) == Take(b) \/ SendOut(b) \/ EndPublisher(b)

\* A panic ends the process.
Next ==
  /\ ~panic
  /\ \/ ManagerStep \/ EventStep
     \/ \E m \in Metrics : Elapse(m)
     \/ \E s \in Sessions : GeneratorStep(s)
     \/ \E b \in Buses : PublisherStep(b)

Spec == Init /\ [][Next]_vars
----------------------------------------------------------------------------
TypeOK ==
  /\ nilMap \in BOOLEAN /\ inventory \in BOOLEAN /\ managed \in BOOLEAN
  /\ session \in 0..MaxSessions /\ bus \in 0..MaxBuses
  /\ {metricChannel, eventChannel} \subseteq 0..session
  /\ handler \in {"none", "start", "stop", "bus"}
  /\ DOMAIN configuredMetrics \subseteq Metrics
  /\ \A m \in DOMAIN configuredMetrics : configuredMetrics[m] \in [on : BOOLEAN, due : BOOLEAN]
  /\ creator \in {"idle", "FAN", "TRANSCEIVER", "POWER_SUPPLY", "SENSOR"} /\ created \in 0..MaxEvents
  /\ \A s \in Sessions : Len(queue[s]) <= Capacity
  /\ disorder \subseteq Disorders

\* The metrics in force, which ListMetrics answers, are those that the calls have
\* configured: no round undoes an update or puts a metric into a map that was emptied -
\* unless the update, the stop or a second start came in the middle of a round, whose
\* copy is then put back over it.
ConfigKept ==
  /\ TypeOK
  /\ disorder \cap {"update", "stop", "restart"} = {} =>
       /\ DOMAIN getMetricsList = DOMAIN wanted
       /\ \A m \in DOMAIN wanted : getMetricsList[m].on = wanted[m]

Alive(r) == r.at \notin {"none", "ended"} /\ ~r.cancelled

\* While a device is managed exactly one generator is left to run, and publishers read
\* the channels that the generators write when GetMsgBusEndpoint answers an endpoint;
\* once management has stopped no goroutine is left to run on.  This needs every start
\* to follow a stop, the endpoint to be set after the start, and its producer.  The process
\* panics only when a configuration is changed before the first start, or when management
\* stops while a round or the creation of an event is under way.
Connected ==
  /\ panic => disorder \cap {"early", "stop"} # {}
  /\ handler = "none" /\ ~panic /\ disorder \cap {"restart", "order", "failed"} = {} =>
    /\ Cardinality({s \in Sessions : Alive(generator[s])}) = IF managed THEN 1 ELSE 0
    /\ endpoint <=> \E b \in Buses : /\ Alive(publisher[b])
                                     /\ publisher[b].metrics = metricChannel
                                     /\ publisher[b].events = eventChannel
    /\ Cardinality({b \in Buses : Alive(publisher[b])}) = IF endpoint THEN 1 ELSE 0

\* Where an event that was put on a channel can be: taken by the producer, held by the
\* publisher of an endpoint, or on the channel of a session.
Places == {<<"kafka", 0>>} \cup ({"held"} \X Buses) \cup ({"queue"} \X Sessions)
EventsAt == [p \in Places |->
  CASE p[1] = "kafka" -> kafka [] p[1] = "held" -> publisher[p[2]].holds [] p[1] = "queue" -> queue[p[2]]]

Numbers(events) == {events[i].number : i \in 1..Len(events)}
Once(events) == \A i, j \in 1..Len(events) : events[i].number = events[j].number => i = j

\* Each event that was put on a channel is in one place, once; and the producer gets the
\* events of a session in their order - unless the endpoint was set again, or set after a
\* stop, which leaves the channel of the events: two publishers then read the same channel
\* for a while.
EventsInOrder ==
  /\ UNION {Numbers(EventsAt[p]) : p \in Places} = 1..created \ dropped
  /\ \A p \in Places : Once(EventsAt[p])
  /\ \A p, q \in Places : p # q => Numbers(EventsAt[p]) \cap Numbers(EventsAt[q]) = {}
  /\ disorder \cap {"again", "order"} = {} =>
       \A i, j \in 1..Len(kafka) :
         i < j /\ kafka[i].session = kafka[j].session => kafka[i].number < kafka[j].number
=============================================================================
