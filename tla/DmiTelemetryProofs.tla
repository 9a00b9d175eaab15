------------------------- MODULE DmiTelemetryProofs -------------------------
(***************************************************************************)
(* Proofs about DmiTelemetry, for any metrics and any number of sessions.  *)
(***************************************************************************)
EXTENDS DmiTelemetry, FiniteSetTheorems, TLAPS

Entries == [on : BOOLEAN, due : BOOLEAN]
Configs == UNION {[D -> Entries] : D \in SUBSET Metrics}
Generators ==
  [at : {"none", "asleep", "round", "due", "report", "ended"}, metric : Metrics \cup {"none"},
   cancelled : BOOLEAN, copy : Configs, todo : SUBSET Metrics]
Publishers ==
  [at : {"none", "reading", "sending", "ended"}, cancelled : BOOLEAN, metrics : 0..MaxSessions,
   events : 0..MaxSessions, holds : Seq([session : 0..MaxSessions, number : Nat])]
Channels == Seq([session : 0..MaxSessions, number : Nat])

\* The types, with those of the goroutines; and an inventory has a channel for events.
TypeInv ==
  /\ TypeOK
  /\ configuredMetrics \in Configs
  /\ generator \in [Sessions -> Generators]
  /\ publisher \in [Buses -> Publishers]
  /\ queue \in [Sessions -> Channels]
  /\ handler = "bus" => bus \in Buses
  /\ inventory \/ handler = "start" => eventChannel \in Sessions
  /\ creator # "idle" => created < MaxEvents

Orderly == disorder \cap {"update", "stop", "restart"} = {}

\* A configuration that the calls have asked for.
Asked(config_) == /\ DOMAIN config_ = DOMAIN wanted
                  /\ \A m \in DOMAIN wanted : config_[m].on = wanted[m]

\* The goroutine of a session can begin a round.
Ready(s) == generator[s].at \notin {"none", "ended"} /\ ~generator[s].cancelled

\* A round looks at metrics of its copy.
CopyInv ==
  \A s \in Sessions :
    /\ generator[s].todo \subseteq DOMAIN generator[s].copy
    /\ generator[s].at = "due" => generator[s].metric \in DOMAIN generator[s].copy

\* In order, a generator is in a round only while the device is managed, which has one
\* that can begin a round, and the copy of the round is what the calls have asked for.
RoundInv ==
  Orderly =>
    /\ Asked(configuredMetrics)
    /\ \A s \in Sessions : InRound(s) =>
         /\ managed
         /\ Asked(generator[s].copy)
    /\ \A s \in Sessions : Ready(s) => managed /\ s = session

\* What a round or the creation of an event has found is still there, unless management
\* stops meanwhile; so only such a stop, or a change of a configuration before there is
\* one, makes a goroutine panic.
StopInv ==
  "stop" \notin disorder =>
    /\ \A s \in Sessions : generator[s].at \in {"due", "report"} => inventory
    /\ creator # "idle" => inventory
    /\ handler = "stop" => creator = "idle" /\ \A s \in Sessions : ~InRound(s)
PanicInv == panic => disorder \cap {"early", "stop"} # {}

\* Each session so far has a generator; the last one is cancelled when the device is not
\* managed, and those before it are when each start has followed a stop.
GeneratorInv ==
  /\ managed => session # 0
  /\ \A s \in Sessions :
       /\ s > session => generator[s].at = "none" /\ ~generator[s].cancelled
       /\ s <= session => generator[s].at # "none"
       /\ generator[s].at = "ended" => generator[s].cancelled \/ panic
       /\ s = session /\ managed => ~generator[s].cancelled
       /\ "restart" \notin disorder /\ s <= session =>
            generator[s].cancelled \/ (s = session /\ managed)

\* Each endpoint so far has publishers, which are cancelled but for those of the last
\* one, while it is set.
PublisherInv ==
  /\ endpoint \in BOOLEAN /\ (endpoint => bus # 0)
  /\ handler = "bus" => endpoint
  /\ \A b \in Buses :
       /\ b > bus => publisher[b].at = "none" /\ ~publisher[b].cancelled
       /\ b <= bus => publisher[b].cancelled \/ (b = bus /\ endpoint)
       /\ publisher[b].at = "ended" => publisher[b].cancelled
       /\ b = bus /\ handler = "bus" => publisher[b].at = "none"
       /\ b = bus /\ endpoint => ~publisher[b].cancelled

\* In order, an endpoint is that of a device which is managed, and the publishers have
\* the channels of its session.
InOrder == disorder \cap {"restart", "order", "failed"} = {}
EndpointInv ==
  InOrder =>
    /\ endpoint => managed \/ handler = "stop"
    /\ endpoint /\ handler # "bus" =>
         \A b \in Buses : b = bus =>
           /\ publisher[b].at # "none"
           /\ publisher[b].metrics = metricChannel /\ publisher[b].events = eventChannel

\* A publisher that is about to send has one event, of the channel it reads, and the others
\* have none; the events on a channel are those of its session.
HoldInv ==
  /\ kafka \in Channels
  /\ \A b \in Buses :
       /\ publisher[b].at # "sending" => publisher[b].holds = <<>>
       /\ publisher[b].at = "sending" =>
            \E x \in [session : 0..MaxSessions, number : Nat] :
              publisher[b].holds = <<x>> /\ x.session = publisher[b].events
  /\ \A s \in Sessions : \A j \in 1..Len(queue[s]) : queue[s][j].session = s

\* Each event that was put on a channel is in one place, once.
Exact(at, numbers) ==
  /\ \A n : n \in numbers <=> \E p \in Places : n \in Numbers(at[p])
  /\ \A p \in Places : Once(at[p])
  /\ \A p, q \in Places : p # q => Numbers(at[p]) \cap Numbers(at[q]) = {}
PlaceInv ==
  /\ dropped \subseteq 1..created
  /\ Exact(EventsAt, 1..created \ dropped)

\* The endpoint was set once in a session, and while the device was managed: no two
\* publishers then read one channel, and an endpoint that is yet to be set finds a channel
\* that none reads.
Alone == disorder \cap {"again", "order"} = {}
Reads(b) == publisher[b].at # "none"
ReaderInv ==
  /\ eventChannel = session
  /\ handler = "stop" => ~managed
  /\ \A b \in Buses : Reads(b) => publisher[b].events <= session
  /\ Alone =>
       /\ \A b, c \in Buses : Reads(b) /\ Reads(c) /\ b # c => publisher[b].events # publisher[c].events
       /\ handler = "bus" \/ (managed /\ ~endpoint) =>
            \A b \in Buses : Reads(b) => publisher[b].events # session

\* The events of a session go to the producer in their order: first those it has, then the
\* one that a publisher holds, then those on the channel.
OfSession(events, s) ==
  {n \in Numbers(events) : \E i \in 1..Len(events) : events[i].session = s /\ events[i].number = n}
Below(lower, upper) == \A m \in lower, n \in upper : m < n
Rising(events) == \A i, j \in 1..Len(events) : i < j => events[i].number < events[j].number
InTurn(events) ==
  \A i, j \in 1..Len(events) :
    i < j /\ events[i].session = events[j].session => events[i].number < events[j].number
OrderInv ==
  Alone =>
    /\ InTurn(kafka)
    /\ \A s \in Sessions : Rising(queue[s]) /\ Below(OfSession(kafka, s), Numbers(queue[s]))
    /\ \A b \in Buses : publisher[b].at = "sending" =>
         /\ Below(OfSession(kafka, publisher[b].events), Numbers(publisher[b].holds))
         /\ \A s \in Sessions : publisher[b].events = s =>
              Below(Numbers(publisher[b].holds), Numbers(queue[s]))
----------------------------------------------------------------------------
(* Configurations.                                                           *)

LEMMA ConfigType ==
  ASSUME NEW f \in Configs
  PROVE  /\ DOMAIN f \subseteq Metrics
         /\ \A m \in DOMAIN f : f[m] \in Entries
BY Zenon DEF Configs

LEMMA WithType ==
  ASSUME NEW f \in Configs, NEW m \in Metrics, NEW v \in Entries
  PROVE  /\ With(f, m, v) \in Configs
         /\ DOMAIN With(f, m, v) = DOMAIN f \cup {m}
         /\ With(f, m, v)[m] = v
         /\ \A x \in DOMAIN f : x # m => With(f, m, v)[x] = f[x]
<1>1. DOMAIN f \cup {m} \in SUBSET Metrics
  BY ConfigType, Zenon
<1>2. With(f, m, v) \in [DOMAIN f \cup {m} -> Entries]
  BY ConfigType, Zenon DEF With
<1> QED
  BY <1>1, <1>2, Zenon DEF With, Configs

LEMMA ElapsedType ==
  ASSUME NEW f \in Configs, NEW m \in DOMAIN f
  PROVE  /\ [f EXCEPT ![m].due = TRUE] \in Configs
         /\ DOMAIN [f EXCEPT ![m].due = TRUE] = DOMAIN f
         /\ \A x \in DOMAIN f : [f EXCEPT ![m].due = TRUE][x].on = f[x].on
<1>1. PICK D \in SUBSET Metrics : f \in [D -> Entries]
  BY Zenon DEF Configs
<1>2. [f EXCEPT ![m].due = TRUE] \in [D -> Entries]
  BY <1>1, Zenon DEF Entries
<1>3. \A x \in D : [f EXCEPT ![m].due = TRUE][x].on = f[x].on
  BY <1>1, Zenon DEF Entries
<1> QED
  BY <1>1, <1>2, <1>3, Zenon DEF Configs

LEMMA FixedTypes ==
  /\ Empty \in Configs /\ DOMAIN Empty = {}
  /\ [m \in Metrics |-> [on |-> m \in Defaults, due |-> TRUE]] \in Configs
<1>1. Empty \in [{} -> Entries]
  BY Zenon DEF Empty
<1>2. [m \in Metrics |-> [on |-> m \in Defaults, due |-> TRUE]] \in [Metrics -> Entries]
  BY DEF Entries
<1> QED
  BY <1>1, <1>2, Zenon DEF Configs, Empty
----------------------------------------------------------------------------
(* Goroutines.                                                               *)

Ats == {"none", "asleep", "round", "due", "report", "ended"}

LEMMA Moved ==
  ASSUME TypeInv, NEW s \in Sessions, NEW at \in Ats, NEW metric \in Metrics \cup {"none"},
         NEW todo \in SUBSET Metrics, Goto(s, at, metric, todo)
  PROVE  /\ generator' \in [Sessions -> Generators]
         /\ \A r \in Sessions : r # s => generator'[r] = generator[r]
         /\ generator'[s].at = at /\ generator'[s].metric = metric /\ generator'[s].todo = todo
         /\ generator'[s].copy = generator[s].copy
         /\ generator'[s].cancelled = generator[s].cancelled
<1> DEFINE g == [generator[s] EXCEPT !.at = at, !.metric = metric, !.todo = todo]
<1>1. generator[s] \in Generators /\ generator \in [Sessions -> Generators]
  BY Zenon DEF TypeInv
<1>2. /\ g \in Generators /\ g.at = at /\ g.metric = metric /\ g.todo = todo
      /\ g.copy = generator[s].copy /\ g.cancelled = generator[s].cancelled
  BY <1>1, Zenon DEF Generators, Ats
<1>3. generator' = [generator EXCEPT ![s] = g]
  BY Zenon DEF Goto
<1> HIDE DEF g
<1> QED
  BY <1>1, <1>2, <1>3, Zenon

LEMMA Copied ==
  ASSUME TypeInv, NEW s \in Sessions, CopyConfig(s)
  PROVE  /\ generator' \in [Sessions -> Generators]
         /\ \A r \in Sessions : r # s => generator'[r] = generator[r]
         /\ generator'[s].at = "round"
         /\ generator'[s].copy = configuredMetrics
         /\ generator'[s].todo = DOMAIN configuredMetrics
         /\ generator'[s].cancelled = generator[s].cancelled
<1> DEFINE todo == DOMAIN configuredMetrics
           g == [generator[s] EXCEPT !.at = "round", !.copy = configuredMetrics, !.todo = todo]
<1>1. /\ generator[s] \in Generators /\ generator \in [Sessions -> Generators]
      /\ configuredMetrics \in Configs
  BY Zenon DEF TypeInv
<1>2. todo \in SUBSET Metrics
  BY <1>1, ConfigType, Zenon
<1>3. generator' = [generator EXCEPT ![s] = g]
  BY Zenon DEF CopyConfig
<1> HIDE DEF todo
<1>4. /\ g \in Generators /\ g.at = "round" /\ g.copy = configuredMetrics /\ g.todo = todo
      /\ g.cancelled = generator[s].cancelled
  BY <1>1, <1>2, Zenon DEF Generators
<1> HIDE DEF g
<1> QED
  BY <1>1, <1>3, <1>4, Zenon DEF todo

LEMMA Ended ==
  ASSUME TypeInv, NEW s \in Sessions, EndRound(s)
  PROVE  /\ generator' \in [Sessions -> Generators]
         /\ \A r \in Sessions : r # s => generator'[r] = generator[r]
         /\ generator[s].at = "round" /\ generator'[s].at = "asleep" /\ generator'[s].todo = {}
         /\ generator'[s].cancelled = generator[s].cancelled
<1> DEFINE g == [generator[s] EXCEPT !.at = "asleep", !.metric = "none", !.copy = Empty, !.todo = {}]
<1>1. generator[s] \in Generators /\ generator \in [Sessions -> Generators]
  BY Zenon DEF TypeInv
<1>2. g \in Generators /\ g.at = "asleep" /\ g.todo = {} /\ g.cancelled = generator[s].cancelled
  BY <1>1, FixedTypes, Zenon DEF Generators
<1>3. generator[s].at = "round" /\ generator' = [generator EXCEPT ![s] = g]
  BY Zenon DEF EndRound
<1> HIDE DEF g
<1> QED
  BY <1>1, <1>2, <1>3, Zenon

LEMMA Started ==
  ASSUME BoundsAssumption, TypeInv, StartManagingDevice
  PROVE  /\ session + 1 \in Sessions /\ session' = session + 1
         /\ generator' \in [Sessions -> Generators]
         /\ \A r \in Sessions : r # session + 1 => generator'[r] = generator[r]
         /\ generator'[session + 1].at = "asleep"
         /\ generator'[session + 1].todo = generator[session + 1].todo
         /\ generator'[session + 1].copy = generator[session + 1].copy
         /\ generator'[session + 1].cancelled = generator[session + 1].cancelled
<1>1. session + 1 \in Sessions /\ session' = session + 1
  BY SMTT(30) DEF StartManagingDevice, TypeInv, TypeOK, Sessions, BoundsAssumption
<1> DEFINE g == [generator[session + 1] EXCEPT !.at = "asleep"]
<1>2. generator' = [generator EXCEPT ![session + 1] = g]
  BY Zenon DEF StartManagingDevice
<1>3. /\ g \in Generators /\ g.at = "asleep"
      /\ g.todo = generator[session + 1].todo /\ g.copy = generator[session + 1].copy
      /\ g.cancelled = generator[session + 1].cancelled
  BY <1>1 DEF TypeInv, Generators
<1> HIDE DEF g
<1> QED
  BY <1>1, <1>2, <1>3, Zenon DEF TypeInv

LEMMA Cancelled ==
  ASSUME TypeInv, generator' = CancelGenerator
  PROVE  /\ generator' \in [Sessions -> Generators]
         /\ \A r \in Sessions : /\ generator'[r].at = generator[r].at
                                /\ generator'[r].todo = generator[r].todo
                                /\ generator'[r].copy = generator[r].copy
                                /\ generator'[r].metric = generator[r].metric
                                /\ r # session => generator'[r] = generator[r]
                                /\ r = session => generator'[r].cancelled = TRUE
<1>1. ASSUME NEW r \in Sessions
      PROVE  /\ [generator[r] EXCEPT !.cancelled = TRUE] \in Generators
             /\ [generator[r] EXCEPT !.cancelled = TRUE].at = generator[r].at
             /\ [generator[r] EXCEPT !.cancelled = TRUE].todo = generator[r].todo
             /\ [generator[r] EXCEPT !.cancelled = TRUE].copy = generator[r].copy
             /\ [generator[r] EXCEPT !.cancelled = TRUE].metric = generator[r].metric
             /\ [generator[r] EXCEPT !.cancelled = TRUE].cancelled = TRUE
  BY Zenon DEF TypeInv, Generators
<1> QED
  BY <1>1, Zenon DEF TypeInv, CancelGenerator

LEMMA PublishersKept ==
  ASSUME TypeInv, publisher' = CancelPublisher
  PROVE  publisher' \in [Buses -> Publishers]
BY ZenonT(30) DEF TypeInv, CancelPublisher, Publishers
----------------------------------------------------------------------------
(* Types.                                                                    *)

LEMMA DisturbsType ==
  ASSUME disorder \subseteq Disorders, NEW how \in Disorders, NEW happens, Disturbs(how, happens)
  PROVE  disorder' \subseteq Disorders /\ disorder \subseteq disorder'
BY Zenon DEF Disturbs

LEMMA ManagerTypeStep ==
  ASSUME BoundsAssumption, TypeInv, ManagerStep
  PROVE  TypeInv'
<1> USE DEF TypeOK
<1>1. ASSUME StartManagingDevice PROVE TypeInv'
  <2>1. disorder' \subseteq Disorders
    BY <1>1, DisturbsType, Zenon DEF StartManagingDevice, TypeInv, Disorders
  <2>2. configuredMetrics' \in Configs
    BY <1>1, FixedTypes, Zenon DEF StartManagingDevice
  <2>3. /\ DOMAIN configuredMetrics' \subseteq Metrics
        /\ \A m \in DOMAIN configuredMetrics' : configuredMetrics'[m] \in Entries
    BY <2>2, ConfigType, Zenon
  <2>4. /\ session + 1 \in Sessions /\ session' = session + 1
        /\ generator' \in [Sessions -> Generators]
    BY <1>1, Started, Zenon
  <2>5. session' \in 0..MaxSessions /\ {metricChannel', eventChannel'} \subseteq 0..session'
        /\ eventChannel' \in Sessions
    BY <1>1, <2>4 DEF StartManagingDevice, Sessions, TypeInv
  <2> QED
    BY <1>1, <2>1, <2>2, <2>3, <2>4, <2>5, Zenon DEF StartManagingDevice, TypeInv, Entries, message, event
<1>2. ASSUME CreateInventory PROVE TypeInv'
  BY <1>2, Zenon DEF CreateInventory, TypeInv, config, message, event
<1>3. ASSUME StopMetricGenerator PROVE TypeInv'
  <2>1. disorder' \subseteq Disorders
    BY <1>3, DisturbsType, Zenon DEF StopMetricGenerator, TypeInv, Disorders
  <2>2. configuredMetrics' \in Configs /\ DOMAIN configuredMetrics' = {}
    BY <1>3, FixedTypes, Zenon DEF StopMetricGenerator
  <2>3. generator' \in [Sessions -> Generators]
    BY <1>3, Cancelled, Zenon DEF StopMetricGenerator
  <2> QED
    BY <1>3, <2>1, <2>2, <2>3, Zenon DEF StopMetricGenerator, TypeInv, message, event
<1>4. ASSUME StopManagingDevice PROVE TypeInv'
  <2>1. publisher' \in [Buses -> Publishers]
    BY <1>4, PublishersKept, Zenon DEF StopManagingDevice
  <2>2. {metricChannel', eventChannel'} \subseteq 0..session'
    BY <1>4 DEF StopManagingDevice, TypeInv
  <2> QED
    BY <1>4, <2>1, <2>2, Zenon DEF StopManagingDevice, TypeInv, config, event
<1>5. ASSUME UpdateMetricsConfiguration PROVE TypeInv'
  <2>1. PICK m \in Metrics, on \in BOOLEAN : UpdateMetricConfig(m, on)
    BY <1>5, Zenon DEF UpdateMetricsConfiguration
  <2>2. disorder' \subseteq Disorders
    BY <2>1, DisturbsType, Zenon DEF UpdateMetricConfig, TypeInv, Disorders
  <2>3. configuredMetrics' \in Configs
    <3> DEFINE entry == [on |-> on, due |-> TRUE]
    <3>1. entry \in Entries
      BY Zenon DEF Entries
    <3>2. configuredMetrics' \in {configuredMetrics, With(configuredMetrics, m, entry)}
      BY <2>1, Zenon DEF UpdateMetricConfig
    <3>3. configuredMetrics \in Configs
      BY Zenon DEF TypeInv
    <3> HIDE DEF entry
    <3>4. With(configuredMetrics, m, entry) \in Configs
      BY <3>1, <3>3, WithType, Zenon
    <3> QED
      BY <3>2, <3>3, <3>4, Zenon
  <2>4. /\ DOMAIN configuredMetrics' \subseteq Metrics
        /\ \A x \in DOMAIN configuredMetrics' : configuredMetrics'[x] \in Entries
    BY <2>3, ConfigType, Zenon
  <2> QED
    BY <2>1, <2>2, <2>3, <2>4, Zenon DEF UpdateMetricConfig, TypeInv, Entries, session_, message, event
<1>6. ASSUME SetMsgBusEndpoint PROVE TypeInv'
  <2>1. publisher' \in [Buses -> Publishers]
    BY <1>6, PublishersKept, Zenon DEF SetMsgBusEndpoint
  <2>2. disorder' \subseteq Disorders
    BY <1>6, Zenon DEF SetMsgBusEndpoint, Disturbs, TypeInv, Disorders
  <2>3. bus' \in Buses /\ bus' \in 0..MaxBuses
    BY <1>6 DEF SetMsgBusEndpoint, TypeInv, Buses, BoundsAssumption
  <2> QED
    BY <1>6, <2>1, <2>2, <2>3, Zenon DEF SetMsgBusEndpoint, TypeInv, config, event
<1>7. ASSUME StartPublishers PROVE TypeInv'
  <2>1. bus \in Buses /\ publisher[bus] \in Publishers
        /\ metricChannel \in 0..MaxSessions /\ eventChannel \in 0..MaxSessions
    BY <1>7 DEF StartPublishers, TypeInv, BoundsAssumption
  <2>2. [publisher[bus] EXCEPT !.at = "reading", !.metrics = metricChannel,
                               !.events = eventChannel] \in Publishers
    BY <2>1, Zenon DEF Publishers
  <2>3. publisher' \in [Buses -> Publishers]
    BY <1>7, <2>1, <2>2, Zenon DEF StartPublishers, TypeInv
  <2> QED
    BY <1>7, <2>3, Zenon DEF StartPublishers, TypeInv, config, event
<1>8. ASSUME NoProducer PROVE TypeInv'
  <2>1. disorder' \subseteq Disorders
    BY <1>8, DisturbsType, Zenon DEF NoProducer, TypeInv, Disorders
  <2> QED
    BY <1>8, <2>1, Zenon DEF NoProducer, TypeInv, config, message, event
<1> QED
  BY <1>1, <1>2, <1>3, <1>4, <1>5, <1>6, <1>7, <1>8, Zenon DEF ManagerStep

LEMMA GeneratorTypeStep ==
  ASSUME TypeInv, CopyInv, NEW s \in Sessions, GeneratorStep(s)
  PROVE  TypeInv'
<1> USE DEF TypeOK
<1>g. generator[s] \in Generators
  BY Zenon DEF TypeInv
<1>1. ASSUME CopyConfig(s) PROVE TypeInv'
  <2>1. disorder' \subseteq Disorders
    BY <1>1, DisturbsType, Zenon DEF CopyConfig, TypeInv, Disorders
  <2>2. generator' \in [Sessions -> Generators]
    BY <1>1, Copied, Zenon
  <2> QED
    BY <1>1, <2>1, <2>2 DEF CopyConfig, TypeInv, config, session_, message, event
<1>2. ASSUME Stopped(s) \/ Report(s) PROVE TypeInv'
  <2>1. generator' \in [Sessions -> Generators]
    BY <1>g, <1>2, Moved, SMTT(30) DEF Stopped, Report, Ats, Generators
  <2> QED
    BY <1>2, <2>1, SMTT(30) DEF Stopped, Report, TypeInv, config, session_, message, event
<1>3. ASSUME EndRound(s) PROVE TypeInv'
  <2>1. generator' \in [Sessions -> Generators]
    BY <1>3, Ended, Zenon
  <2> QED
    BY <1>3, <2>1 DEF EndRound, TypeInv, config, session_, message, event
<1>4. ASSUME NEW m \in Metrics, CheckMetric(s, m) PROVE TypeInv'
  <2>1. generator' \in [Sessions -> Generators]
    <3>1. generator[s].todo \ {m} \in SUBSET Metrics
      BY <1>g, Zenon DEF Generators
    <3> QED
      BY <1>4, <3>1, Moved, Zenon DEF CheckMetric, Ats
  <2> QED
    BY <1>4, <2>1, Zenon DEF CheckMetric, TypeInv, config, session_, message, event
<1>5. ASSUME updateConfiguredMetrics(s) PROVE TypeInv'
  <2> DEFINE m == generator[s].metric
             entry == [on |-> generator[s].copy[m].on, due |-> FALSE]
  <2>1. generator[s].copy \in Configs /\ generator[s].todo \in SUBSET Metrics
    BY <1>g, Zenon DEF Generators
  <2>2. m \in Metrics /\ generator[s].copy[m] \in Entries
    <3>1. m \in DOMAIN generator[s].copy
      BY <1>5, Zenon DEF updateConfiguredMetrics, CopyInv
    <3> QED
      BY <2>1, <3>1, ConfigType, Zenon
  <2>3. entry \in Entries
    BY <2>2, Zenon DEF Entries
  <2>4. configuredMetrics' = With(configuredMetrics, m, entry) /\ Goto(s, "report", m, generator[s].todo)
    BY <1>5, Zenon DEF updateConfiguredMetrics
  <2> HIDE DEF entry, m
  <2>5. configuredMetrics' \in Configs
    BY <2>2, <2>3, <2>4, WithType, Zenon DEF TypeInv
  <2>6. /\ DOMAIN configuredMetrics' \subseteq Metrics
        /\ \A x \in DOMAIN configuredMetrics' : configuredMetrics'[x] \in Entries
    BY <2>5, ConfigType, Zenon
  <2>7. generator' \in [Sessions -> Generators]
    BY <2>1, <2>2, <2>4, Moved, Zenon DEF Ats
  <2> QED
    BY <1>5, <2>5, <2>6, <2>7, Zenon
    DEF updateConfiguredMetrics, TypeInv, Entries, session_, message, event
<1> QED
  BY <1>1, <1>2, <1>3, <1>4, <1>5, Zenon DEF GeneratorStep

\* What Append and Head and Tail make of a channel.
LEMMA Put ==
  ASSUME NEW S, NEW q \in Seq(S), NEW x \in S
  PROVE  Append(q, x) \in Seq(S) /\ Len(Append(q, x)) = Len(q) + 1 /\ Len(q) \in Nat
OBVIOUS

LEMMA Taken ==
  ASSUME NEW S, NEW q \in Seq(S), q # <<>>
  PROVE  /\ Head(q) \in S /\ Tail(q) \in Seq(S)
         /\ Len(Tail(q)) = Len(q) - 1 /\ Len(q) \in Nat
OBVIOUS

LEMMA Single ==
  ASSUME NEW S, NEW x \in S
  PROVE  <<x>> \in Seq(S)
OBVIOUS

LEMMA PublisherType ==
  ASSUME NEW p \in Publishers, NEW h \in Channels
  PROVE  /\ [p EXCEPT !.at = "sending", !.holds = h] \in Publishers
         /\ [p EXCEPT !.at = "reading", !.holds = h] \in Publishers
         /\ [p EXCEPT !.at = "ended"] \in Publishers
BY Zenon DEF Publishers, Channels

LEMMA OtherTypeStep ==
  ASSUME BoundsAssumption, TypeInv,
         \/ EventStep
         \/ \E m \in Metrics : Elapse(m)
         \/ \E b \in Buses : PublisherStep(b)
         \/ UNCHANGED vars
  PROVE  TypeInv'
<1> USE DEF TypeOK
<1>1. ASSUME UpdateEventConfig PROVE TypeInv'
  <2>1. disorder' \subseteq Disorders
    BY <1>1, DisturbsType, Zenon DEF UpdateEventConfig, TypeInv, Disorders
  <2> QED
    BY <1>1, <2>1 DEF UpdateEventConfig, TypeInv, session_, message, event
<1>2. ASSUME NEW e \in Events, CreateEvent(e) PROVE TypeInv'
  <2>1. disorder' \subseteq Disorders
    BY <1>2, DisturbsType, Zenon DEF CreateEvent, TypeInv, Disorders
  <2>2. creator' \in {"FAN", "TRANSCEIVER", "POWER_SUPPLY", "SENSOR"}
    BY <1>2 DEF CreateEvent, eventGenMap
  <2> QED
    BY <1>2, <2>1, <2>2, Zenon DEF CreateEvent, TypeInv, config, session_, message
<1>3. ASSUME sendOutEventOnKafka PROVE TypeInv'
  <2>1. created' \in 0..MaxEvents
    BY <1>3, SMTT(30) DEF sendOutEventOnKafka, TypeInv, BoundsAssumption
  <2>2. eventChannel \in Sessions /\ queue[eventChannel] \in Channels
    BY <1>3, Zenon DEF sendOutEventOnKafka, TypeInv
  <2>3. NewEvent \in [session : 0..MaxSessions, number : Nat]
    <3>1. eventChannel \in 0..MaxSessions /\ created + 1 \in Nat
      BY <2>2 DEF TypeInv, Sessions
    <3> QED
      BY <3>1, Zenon DEF NewEvent
  <2> DEFINE q == Append(queue[eventChannel], NewEvent)
  <2>4. q \in Channels /\ Len(q) = Len(queue[eventChannel]) + 1 /\ Len(queue[eventChannel]) \in Nat
    BY <2>2, <2>3, Put, Zenon DEF Channels
  <2>5. queue' \in [Sessions -> Channels] /\ \A s \in Sessions : Len(queue'[s]) <= Capacity
    <3>1. queue' = queue \/ (Len(queue[eventChannel]) < Capacity /\ queue' = [queue EXCEPT ![eventChannel] = q])
      BY <1>3, Zenon DEF sendOutEventOnKafka
    <3>2. Capacity \in Nat
      BY Zenon DEF BoundsAssumption
    <3>3. queue \in [Sessions -> Channels] /\ \A s \in Sessions : Len(queue[s]) <= Capacity
      BY Zenon DEF TypeInv
    <3> HIDE DEF q
    <3>4. Len(queue[eventChannel]) < Capacity => Len(q) <= Capacity
      BY <2>4, <3>2
    <3> QED
      BY <2>2, <2>4, <3>1, <3>3, <3>4, Zenon
  <2> QED
    BY <1>3, <2>1, <2>5, Zenon DEF sendOutEventOnKafka, TypeInv, config, session_, message
<1>4. ASSUME NoComponent PROVE TypeInv'
  BY <1>4, Zenon DEF NoComponent, TypeInv, config, session_, message
<1>5. ASSUME NEW m \in Metrics, Elapse(m) PROVE TypeInv'
  <2>1. configuredMetrics' \in Configs
    BY <1>5, ElapsedType, Zenon DEF Elapse, TypeInv
  <2>2. /\ DOMAIN configuredMetrics' \subseteq Metrics
        /\ \A x \in DOMAIN configuredMetrics' : configuredMetrics'[x] \in Entries
    BY <2>1, ConfigType, Zenon
  <2> QED
    BY <1>5, <2>1, <2>2, Zenon DEF Elapse, TypeInv, Entries, session_, message, event
<1>6. ASSUME NEW b \in Buses, Take(b) PROVE TypeInv'
  <2> DEFINE s == publisher[b].events
             p == [publisher[b] EXCEPT !.at = "sending", !.holds = <<Head(queue[s])>>]
  <2>1. publisher[b] \in Publishers
    BY Zenon DEF TypeInv
  <2>2. s \in Sessions /\ queue[s] \in Channels /\ queue[s] # <<>>
    <3>1. s \in 0..MaxSessions
      BY <2>1, Zenon DEF Publishers
    <3>2. s # 0 /\ queue[s] # <<>>
      BY <1>6, Zenon DEF Take
    <3>3. s \in Sessions
      BY <3>1, <3>2 DEF Sessions, BoundsAssumption
    <3> QED
      BY <3>2, <3>3, Zenon DEF TypeInv
  <2> DEFINE e == Head(queue[s])
             q == Tail(queue[s])
  <2>3. /\ e \in [session : 0..MaxSessions, number : Nat] /\ q \in Channels
        /\ Len(q) = Len(queue[s]) - 1 /\ Len(queue[s]) \in Nat
    BY <2>2, Taken, Zenon DEF Channels
  <2>4. p \in Publishers
    <3>1. <<e>> \in Channels
      BY <2>3, Single, Zenon DEF Channels
    <3> QED
      BY <2>1, <3>1, PublisherType, Zenon
  <2>5. publisher' \in [Buses -> Publishers]
    BY <1>6, <2>4, Zenon DEF Take, TypeInv
  <2>6. queue' \in [Sessions -> Channels] /\ \A r \in Sessions : Len(queue'[r]) <= Capacity
    <3>1. queue' = [queue EXCEPT ![s] = q]
      BY <1>6, Zenon DEF Take
    <3>2. Capacity \in Nat
      BY Zenon DEF BoundsAssumption
    <3>3. queue \in [Sessions -> Channels] /\ \A r \in Sessions : Len(queue[r]) <= Capacity
      BY Zenon DEF TypeInv
    <3> HIDE DEF q, s
    <3>4. Len(q) <= Capacity
      BY <2>2, <2>3, <3>2, <3>3
    <3> QED
      BY <2>2, <2>3, <3>1, <3>3, <3>4, Zenon
  <2> QED
    BY <1>6, <2>5, <2>6 DEF Take, TypeInv, config, session_
<1>7. ASSUME NEW b \in Buses, SendOut(b) \/ EndPublisher(b) PROVE TypeInv'
  <2>1. /\ [publisher[b] EXCEPT !.at = "reading", !.holds = <<>>] \in Publishers
        /\ [publisher[b] EXCEPT !.at = "ended"] \in Publishers
    <3>1. publisher[b] \in Publishers
      BY Zenon DEF TypeInv
    <3>2. <<>> \in Channels
      BY DEF Channels
    <3> QED
      BY <3>1, <3>2, PublisherType, Zenon
  <2>2. publisher' \in [Buses -> Publishers]
    BY <1>7, <2>1, Zenon DEF SendOut, EndPublisher, TypeInv
  <2> QED
    BY <1>7, <2>2 DEF SendOut, EndPublisher, TypeInv, config, session_, event
<1>8. ASSUME UNCHANGED vars PROVE TypeInv'
  BY <1>8, Zenon DEF vars, TypeInv, config, session_, message, event
<1> QED
  BY <1>1, <1>2, <1>3, <1>4, <1>5, <1>6, <1>7, <1>8, Zenon DEF EventStep, PublisherStep
LEMMA TypeInit ==
  ASSUME BoundsAssumption, Init
  PROVE  TypeInv
<1>1. /\ [at |-> "none", metric |-> "none", cancelled |-> FALSE, copy |-> Empty, todo |-> {}]
           \in Generators
      /\ configuredMetrics \in Configs /\ DOMAIN configuredMetrics = {}
  BY FixedTypes, Zenon DEF Init, Generators
<1>2. /\ [at |-> "none", cancelled |-> FALSE, metrics |-> 0, events |-> 0, holds |-> <<>>]
           \in Publishers
      /\ <<>> \in Channels /\ Len(<<>>) <= Capacity
  BY SMTT(30) DEF Publishers, Channels, BoundsAssumption
<1>3. /\ generator \in [Sessions -> Generators] /\ publisher \in [Buses -> Publishers]
      /\ queue \in [Sessions -> Channels] /\ \A s \in Sessions : Len(queue[s]) <= Capacity
  BY <1>1, <1>2, Zenon DEF Init
<1>4. /\ session \in 0..MaxSessions /\ bus \in 0..MaxBuses /\ created \in 0..MaxEvents
      /\ {metricChannel, eventChannel} \subseteq 0..session
  BY DEF Init, BoundsAssumption
<1> QED
  BY <1>1, <1>3, <1>4, Zenon DEF Init, TypeInv, TypeOK

LEMMA TypeStep ==
  ASSUME BoundsAssumption, TypeInv, CopyInv, [Next]_vars
  PROVE  TypeInv'
<1>1. \/ ManagerStep
      \/ \E s \in Sessions : GeneratorStep(s)
      \/ EventStep \/ (\E m \in Metrics : Elapse(m)) \/ (\E b \in Buses : PublisherStep(b))
      \/ UNCHANGED vars
  BY Zenon DEF Next
<1> QED
  BY <1>1, ManagerTypeStep, GeneratorTypeStep, OtherTypeStep, Zenon
----------------------------------------------------------------------------
(* Rounds.                                                                   *)

\* No step leaves a round with a metric that its copy does not have.
LEMMA CopyStep ==
  ASSUME BoundsAssumption, TypeInv, CopyInv, [Next]_vars
  PROVE  CopyInv'
<1> USE DEF config, session_, message, event
<1>1. ASSUME StartManagingDevice PROVE CopyInv'
  BY <1>1, Started, Zenon DEF CopyInv
<1>2. ASSUME StopMetricGenerator PROVE CopyInv'
  <2>1. generator' = CancelGenerator
    BY <1>2, Zenon DEF StopMetricGenerator
  <2>2. \A r \in Sessions : /\ generator'[r].at = generator[r].at
                            /\ generator'[r].todo = generator[r].todo
                            /\ generator'[r].copy = generator[r].copy
                            /\ generator'[r].metric = generator[r].metric
    BY <2>1, Cancelled, Zenon
  <2> QED
    BY <2>2, Zenon DEF CopyInv
<1>3. ASSUME NEW s \in Sessions, GeneratorStep(s) PROVE CopyInv'
  <2>g. generator[s] \in Generators /\ generator[s].todo \in SUBSET Metrics
    BY Zenon DEF TypeInv, Generators
  <2>1. CASE CopyConfig(s)
    BY <2>1, Copied, Zenon DEF CopyInv
  <2>2. CASE EndRound(s)
    BY <2>2, Ended, Zenon DEF CopyInv
  <2>3. CASE Stopped(s)
    BY <2>3, Moved DEF Stopped, CopyInv, Ats
  <2>4. CASE Report(s)
    BY <2>g, <2>4, Moved DEF Report, CopyInv, Ats
  <2>5. ASSUME NEW m \in Metrics, CheckMetric(s, m) PROVE CopyInv'
    <3>1. PICK at \in Ats : Goto(s, at, m, generator[s].todo \ {m})
      BY <2>5, Zenon DEF CheckMetric, Ats
    <3>2. generator[s].todo \ {m} \in SUBSET Metrics
      BY <2>g, Zenon
    <3>3. m \in generator[s].todo
      BY <2>5, Zenon DEF CheckMetric
    <3>4. /\ \A r \in Sessions : r # s => generator'[r] = generator[r]
          /\ generator'[s].metric = m /\ generator'[s].todo = generator[s].todo \ {m}
          /\ generator'[s].copy = generator[s].copy
      BY <3>1, <3>2, Moved
    <3> QED
      BY <3>3, <3>4, Zenon DEF CopyInv
  <2>6. CASE updateConfiguredMetrics(s)
    <3>1. Goto(s, "report", generator[s].metric, generator[s].todo)
      BY <2>6, Zenon DEF updateConfiguredMetrics
    <3>2. generator[s].metric \in Metrics \cup {"none"}
      BY <2>g, Zenon DEF Generators
    <3> QED
      BY <2>g, <3>1, <3>2, Moved DEF CopyInv, Ats
  <2> QED
    BY <1>3, <2>1, <2>2, <2>3, <2>4, <2>5, <2>6, Zenon DEF GeneratorStep
<1>4. ASSUME UNCHANGED generator PROVE CopyInv'
  BY <1>4, Zenon DEF CopyInv
<1>5. ASSUME \/ CreateInventory \/ StopManagingDevice \/ UpdateMetricsConfiguration
             \/ SetMsgBusEndpoint \/ StartPublishers \/ NoProducer
      PROVE  UNCHANGED generator
  BY <1>5, Zenon DEF CreateInventory, StopManagingDevice, UpdateMetricsConfiguration,
    UpdateMetricConfig, SetMsgBusEndpoint, StartPublishers, NoProducer, Disturbs
<1>6. ASSUME EventStep \/ \E m \in Metrics : Elapse(m) PROVE UNCHANGED generator
  <2>1. ASSUME NEW e \in Events, CreateEvent(e) PROVE UNCHANGED generator
    BY <2>1, Zenon DEF CreateEvent
  <2>2. ASSUME NEW m \in Metrics, Elapse(m) PROVE UNCHANGED generator
    BY <2>2, Zenon DEF Elapse
  <2>3. ASSUME UpdateEventConfig \/ sendOutEventOnKafka \/ NoComponent PROVE UNCHANGED generator
    BY <2>3, Zenon DEF UpdateEventConfig, sendOutEventOnKafka, NoComponent
  <2> QED
    BY <1>6, <2>1, <2>2, <2>3, Zenon DEF EventStep
<1>7. ASSUME NEW b \in Buses, PublisherStep(b) PROVE UNCHANGED generator
  BY <1>7, Zenon DEF PublisherStep, Take, SendOut, EndPublisher
<1>8. ASSUME UNCHANGED vars PROVE UNCHANGED generator
  BY <1>8, Zenon DEF vars
<1> QED
  BY <1>1, <1>2, <1>3, <1>4, <1>5, <1>6, <1>7, <1>8, Zenon DEF Next, ManagerStep

\* What has been out of order stays on record.
LEMMA OnRecord ==
  ASSUME [Next]_vars
  PROVE  disorder \subseteq disorder'
<1> USE DEF config, session_, message, event
<1> USE DEF Disturbs
<1>1. ASSUME StartManagingDevice \/ CreateInventory \/ StopMetricGenerator \/ StopManagingDevice
      PROVE  disorder \subseteq disorder'
  BY <1>1, Zenon DEF StartManagingDevice, CreateInventory, StopMetricGenerator, StopManagingDevice
<1>2. ASSUME UpdateMetricsConfiguration \/ SetMsgBusEndpoint \/ StartPublishers \/ NoProducer
      PROVE  disorder \subseteq disorder'
  BY <1>2, Zenon DEF UpdateMetricsConfiguration, UpdateMetricConfig, SetMsgBusEndpoint, StartPublishers,
    NoProducer
<1>3. ASSUME EventStep \/ \E m \in Metrics : Elapse(m) PROVE disorder \subseteq disorder'
  <2>1. ASSUME NEW e \in Events, CreateEvent(e) PROVE disorder \subseteq disorder'
    BY <2>1, Zenon DEF CreateEvent
  <2>2. ASSUME NEW m \in Metrics, Elapse(m) PROVE disorder \subseteq disorder'
    BY <2>2, Zenon DEF Elapse
  <2>3. ASSUME UpdateEventConfig \/ sendOutEventOnKafka \/ NoComponent PROVE disorder \subseteq disorder'
    BY <2>3, Zenon DEF UpdateEventConfig, sendOutEventOnKafka, NoComponent
  <2> QED
    BY <1>3, <2>1, <2>2, <2>3, Zenon DEF EventStep
<1>4. ASSUME NEW s \in Sessions, GeneratorStep(s) PROVE disorder \subseteq disorder'
  <2>1. CASE CopyConfig(s)
    BY <2>1, Zenon DEF CopyConfig
  <2>2. CASE Stopped(s) \/ EndRound(s) \/ Report(s)
    BY <2>2, Zenon DEF Stopped, EndRound, Report
  <2>3. CASE updateConfiguredMetrics(s)
    BY <2>3, Zenon DEF updateConfiguredMetrics
  <2>4. ASSUME NEW m \in Metrics, CheckMetric(s, m) PROVE disorder \subseteq disorder'
    BY <2>4, Zenon DEF CheckMetric
  <2> QED
    BY <1>4, <2>1, <2>2, <2>3, <2>4, Zenon DEF GeneratorStep
<1>5. ASSUME NEW b \in Buses, PublisherStep(b) PROVE disorder \subseteq disorder'
  BY <1>5, Zenon DEF PublisherStep, Take, SendOut, EndPublisher
<1> QED
  BY <1>1, <1>2, <1>3, <1>4, <1>5, Zenon DEF Next, ManagerStep, vars

LEMMA OrderStep ==
  ASSUME [Next]_vars, Orderly'
  PROVE  Orderly
BY OnRecord, Zenon DEF Orderly

LEMMA ManagerRound ==
  ASSUME BoundsAssumption, TypeInv, RoundInv, Orderly, Orderly', ManagerStep
  PROVE  RoundInv'
<1> USE DEF config, session_, message, event
<1>1. ASSUME StartManagingDevice PROVE RoundInv'
  <2>1. ~managed
    BY <1>1, Zenon DEF StartManagingDevice, Disturbs, Orderly
  <2>2. \A s \in Sessions : ~InRound(s) /\ ~Ready(s)
    BY <2>1, Zenon DEF RoundInv
  <2>3. /\ session' = session + 1
        /\ \A r \in Sessions : r # session + 1 => generator'[r] = generator[r]
        /\ generator'[session + 1].at = "asleep"
    BY <1>1, Started, Zenon
  <2>4. managed' /\ Asked(configuredMetrics)'
    BY <1>1, Zenon DEF StartManagingDevice, Asked
  <2>5. \A s \in Sessions : ~InRound(s)'
    BY <2>2, <2>3, Zenon DEF InRound
  <2>6. \A s \in Sessions : Ready(s)' => s = session'
    BY <2>2, <2>3, Zenon DEF Ready
  <2> QED
    BY <2>4, <2>5, <2>6, Zenon DEF RoundInv
<1>2. ASSUME StopMetricGenerator PROVE RoundInv'
  <2>1. generator' = CancelGenerator /\ session' = session
    BY <1>2, Zenon DEF StopMetricGenerator
  <2>2. \A r \in Sessions : /\ generator'[r].at = generator[r].at
                            /\ r # session => generator'[r] = generator[r]
                            /\ r = session => generator'[r].cancelled = TRUE
    BY <2>1, Cancelled, Zenon
  <2>3. \A s \in Sessions : ~InRound(s)
    BY <1>2, Zenon DEF StopMetricGenerator, Disturbs, Orderly
  <2>4. \A s \in Sessions : ~InRound(s)'
    BY <2>2, <2>3, Zenon DEF InRound
  <2>5. \A s \in Sessions : ~Ready(s)'
    BY <2>2, Zenon DEF Ready, RoundInv
  <2>6. Asked(configuredMetrics)'
    BY <1>2, Zenon DEF StopMetricGenerator, Asked, Empty
  <2> QED
    BY <2>4, <2>5, <2>6, Zenon DEF RoundInv
<1>3. ASSUME UpdateMetricsConfiguration PROVE RoundInv'
  <2>1. PICK m \in Metrics, on \in BOOLEAN : UpdateMetricConfig(m, on)
    BY <1>3, Zenon DEF UpdateMetricsConfiguration
  <2>2. UNCHANGED <<generator, managed, session>>
    BY <2>1, Zenon DEF UpdateMetricConfig
  <2>3. CASE nilMap
    <3>1. UNCHANGED <<configuredMetrics, wanted>>
      BY <2>1, <2>3, Zenon DEF UpdateMetricConfig
    <3> QED
      BY <2>2, <3>1, Zenon DEF RoundInv, Asked, InRound, Ready
  <2>4. CASE ~nilMap
    <3>1. \A s \in Sessions : ~InRound(s)
      BY <2>1, <2>4, Zenon DEF UpdateMetricConfig, Disturbs, Orderly
    <3> DEFINE entry == [on |-> on, due |-> TRUE]
    <3>2. /\ configuredMetrics' = With(configuredMetrics, m, entry)
          /\ wanted' = With(wanted, m, on)
      BY <2>1, <2>4, Zenon DEF UpdateMetricConfig
    <3>3. entry.on = on
      BY Zenon
    <3> HIDE DEF entry
    <3>4. Asked(configuredMetrics)'
      BY <3>2, <3>3, Zenon DEF RoundInv, Asked, With
    <3> QED
      BY <2>2, <3>1, <3>4, Zenon DEF RoundInv, InRound, Ready
  <2> QED
    BY <2>3, <2>4, Zenon
<1>4. ASSUME UNCHANGED <<generator, configuredMetrics, wanted, managed, session>> PROVE RoundInv'
  BY <1>4, Zenon DEF RoundInv, Asked, InRound, Ready
<1>5. ASSUME CreateInventory \/ StopManagingDevice \/ SetMsgBusEndpoint \/ StartPublishers \/ NoProducer
      PROVE  UNCHANGED <<generator, configuredMetrics, wanted, managed, session>>
  BY <1>5, Zenon DEF CreateInventory, StopManagingDevice, SetMsgBusEndpoint, StartPublishers, NoProducer,
    Disturbs
<1> QED
  BY <1>1, <1>2, <1>3, <1>4, <1>5, Zenon DEF ManagerStep

LEMMA GeneratorRound ==
  ASSUME TypeInv, CopyInv, RoundInv, Orderly, Orderly', NEW s \in Sessions, GeneratorStep(s)
  PROVE  RoundInv'
<1> USE DEF config, session_
<1>g. /\ generator[s].at \in Ats /\ generator[s].metric \in Metrics \cup {"none"}
      /\ generator[s].todo \in SUBSET Metrics
  BY Zenon DEF TypeInv, Generators, Ats
<1>1. ASSUME CopyConfig(s) PROVE RoundInv'
  <2>1. UNCHANGED <<configuredMetrics, wanted, managed, session>> /\ Ready(s)
    BY <1>1, Zenon DEF CopyConfig, Ready
  <2>2. /\ \A r \in Sessions : r # s => generator'[r] = generator[r]
        /\ generator'[s].copy = configuredMetrics
    BY <1>1, Copied, Zenon
  <2> QED
    BY <2>1, <2>2 DEF RoundInv, Asked, InRound, Ready
\* The other steps leave the copy, unless they end the round.
<1>2. ASSUME UNCHANGED <<configuredMetrics, wanted, managed, session>>,
             \A r \in Sessions : r # s => generator'[r] = generator[r],
             generator'[s].cancelled = generator[s].cancelled,
             generator[s].at # "none" /\ (generator'[s].at # "ended" => generator[s].at # "ended"),
             \/ generator'[s].at \in {"asleep", "ended"}
             \/ InRound(s) /\ generator'[s].copy = generator[s].copy
      PROVE  RoundInv'
  BY <1>2, SMTT(30) DEF RoundInv, Asked, InRound, Ready
<1>3. ASSUME Stopped(s) PROVE RoundInv'
  <2>1. Goto(s, "ended", "none", {}) /\ UNCHANGED <<configuredMetrics, wanted, managed, session>>
        /\ generator[s].at = "asleep"
    BY <1>3, Zenon DEF Stopped
  <2>2. /\ \A r \in Sessions : r # s => generator'[r] = generator[r]
        /\ generator'[s].at = "ended" /\ generator'[s].cancelled = generator[s].cancelled
    BY <2>1, Moved DEF Ats
  <2> QED
    BY <1>2, <2>1, <2>2, Zenon
<1>4. ASSUME EndRound(s) PROVE RoundInv'
  <2>1. UNCHANGED <<configuredMetrics, wanted, managed, session>>
    BY <1>4, Zenon DEF EndRound
  <2>2. /\ \A r \in Sessions : r # s => generator'[r] = generator[r]
        /\ generator[s].at = "round" /\ generator'[s].at = "asleep"
        /\ generator'[s].cancelled = generator[s].cancelled
    BY <1>4, Ended, Zenon
  <2> QED
    BY <1>2, <2>1, <2>2, Zenon
<1>5. ASSUME (\E m \in Metrics : CheckMetric(s, m)) \/ Report(s) PROVE RoundInv'
  <2>1. /\ UNCHANGED <<configuredMetrics, wanted, managed, session>>
        /\ generator[s].at \in {"round", "report"}
        /\ \E at \in Ats, metric \in Metrics \cup {"none"}, todo \in SUBSET Metrics :
             Goto(s, at, metric, todo)
    BY <1>g, <1>5, Zenon DEF CheckMetric, Report, Ats
  <2>2. /\ \A r \in Sessions : r # s => generator'[r] = generator[r]
        /\ generator'[s].copy = generator[s].copy
        /\ generator'[s].cancelled = generator[s].cancelled
    BY <2>1, Moved, Zenon
  <2>3. InRound(s) /\ generator[s].at \notin {"none", "ended"}
    BY <2>1, Zenon DEF InRound
  <2> QED
    BY <1>2, <2>1, <2>2, <2>3, Zenon
<1>6. ASSUME updateConfiguredMetrics(s) PROVE RoundInv'
  <2> DEFINE m == generator[s].metric
             entry == [on |-> generator[s].copy[m].on, due |-> FALSE]
  <2>1. /\ generator[s].at = "due" /\ UNCHANGED <<wanted, managed, session>>
        /\ configuredMetrics' = With(configuredMetrics, m, entry)
        /\ Goto(s, "report", m, generator[s].todo)
    BY <1>6, Zenon DEF updateConfiguredMetrics
  <2>2. /\ \A r \in Sessions : r # s => generator'[r] = generator[r]
        /\ generator'[s].at = "report"
        /\ generator'[s].copy = generator[s].copy
        /\ generator'[s].cancelled = generator[s].cancelled
    BY <1>g, <2>1, Moved DEF Ats
  <2>3. InRound(s) /\ m \in DOMAIN generator[s].copy
    BY <2>1, Zenon DEF InRound, CopyInv
  <2>4. m \in DOMAIN wanted /\ entry.on = wanted[m]
    BY <2>3, Zenon DEF RoundInv, Asked
  <2> HIDE DEF m, entry
  <2>5. Asked(configuredMetrics)'
    BY <2>1, <2>4, Zenon DEF RoundInv, Asked, With
  <2> QED
    BY <2>1, <2>2, <2>3, <2>5, SMTT(30) DEF RoundInv, Asked, InRound, Ready
<1> QED
  BY <1>1, <1>3, <1>4, <1>5, <1>6, Zenon DEF GeneratorStep

LEMMA OtherRound ==
  ASSUME TypeInv, RoundInv, Orderly,
         \/ EventStep
         \/ \E m \in Metrics : Elapse(m)
         \/ \E b \in Buses : PublisherStep(b)
         \/ UNCHANGED vars
  PROVE  RoundInv'
<1> USE DEF config, session_, message, event
<1>1. ASSUME NEW m \in Metrics, Elapse(m) PROVE RoundInv'
  <2>1. /\ configuredMetrics \in Configs /\ m \in DOMAIN configuredMetrics
        /\ configuredMetrics' = [configuredMetrics EXCEPT ![m].due = TRUE]
        /\ UNCHANGED <<generator, wanted, managed, session>>
    BY <1>1, Zenon DEF Elapse, TypeInv
  <2>2. /\ DOMAIN configuredMetrics' = DOMAIN configuredMetrics
        /\ \A x \in DOMAIN configuredMetrics : configuredMetrics'[x].on = configuredMetrics[x].on
    BY <2>1, ElapsedType, Zenon
  <2> QED
    BY <2>1, <2>2, Zenon DEF RoundInv, Asked, InRound, Ready
<1>2. ASSUME UNCHANGED <<generator, configuredMetrics, wanted, managed, session>> PROVE RoundInv'
  BY <1>2, Zenon DEF RoundInv, Asked, InRound, Ready
<1>3. ASSUME EventStep PROVE UNCHANGED <<generator, configuredMetrics, wanted, managed, session>>
  <2>1. ASSUME NEW e \in Events, CreateEvent(e)
        PROVE  UNCHANGED <<generator, configuredMetrics, wanted, managed, session>>
    BY <2>1, Zenon DEF CreateEvent
  <2>2. ASSUME UpdateEventConfig \/ sendOutEventOnKafka \/ NoComponent
        PROVE  UNCHANGED <<generator, configuredMetrics, wanted, managed, session>>
    BY <2>2, Zenon DEF UpdateEventConfig, sendOutEventOnKafka, NoComponent
  <2> QED
    BY <1>3, <2>1, <2>2, Zenon DEF EventStep
<1>4. ASSUME NEW b \in Buses, PublisherStep(b)
      PROVE  UNCHANGED <<generator, configuredMetrics, wanted, managed, session>>
  BY <1>4, Zenon DEF PublisherStep, Take, SendOut, EndPublisher
<1>5. ASSUME UNCHANGED vars PROVE UNCHANGED <<generator, configuredMetrics, wanted, managed, session>>
  BY <1>5, Zenon DEF vars
<1> QED
  BY <1>1, <1>2, <1>3, <1>4, <1>5, Zenon
----------------------------------------------------------------------------
\* The metrics in force are those that the calls have configured, whatever the rounds of
\* the generators write back (updateConfiguredMetrics), for any metrics, defaults, number
\* of sessions, buses, updates and events - unless an update, a stop or a second start
\* came in the middle of a round.
THEOREM ConfigIsKept ==
  ASSUME BoundsAssumption
  PROVE  Spec => []ConfigKept
<1> DEFINE Inv == TypeInv /\ CopyInv /\ RoundInv
<1>1. Init => Inv
  <2> SUFFICES ASSUME Init PROVE Inv
    BY Zenon
  <2>1. TypeInv
    BY TypeInit, Zenon
  <2>2. \A s \in Sessions : generator[s].at = "none" /\ generator[s].todo = {}
    BY Zenon DEF Init
  <2>3. CopyInv
    BY <2>2, Zenon DEF CopyInv
  <2>4. RoundInv
    BY <2>2, Zenon DEF Init, RoundInv, Asked, InRound, Ready, Empty
  <2> QED
    BY <2>1, <2>3, <2>4, Zenon
<1>2. Inv /\ [Next]_vars => Inv'
  <2> SUFFICES ASSUME TypeInv, CopyInv, RoundInv, [Next]_vars PROVE Inv'
    BY Zenon
  <2>1. \/ ManagerStep
        \/ \E s \in Sessions : GeneratorStep(s)
        \/ EventStep \/ (\E m \in Metrics : Elapse(m)) \/ (\E b \in Buses : PublisherStep(b))
        \/ UNCHANGED vars
    BY Zenon DEF Next
  <2>2. TypeInv'
    BY TypeStep, Zenon
  <2>3. CopyInv'
    BY CopyStep, Zenon
  <2>4. RoundInv'
    <3>1. CASE Orderly'
      <4>1. Orderly
        BY <3>1, OrderStep, Zenon
      <4> QED
        BY <2>1, <3>1, <4>1, ManagerRound, GeneratorRound, OtherRound, Zenon
    <3>2. CASE ~Orderly'
      BY <3>2, Zenon DEF RoundInv
    <3> QED
      BY <3>1, <3>2, Zenon
  <2> QED
    BY <2>2, <2>3, <2>4, Zenon
<1>3. Inv => ConfigKept
  BY Zenon DEF TypeInv, RoundInv, Asked, ConfigKept, Orderly, getMetricsList
<1> QED
  BY <1>1, <1>2, <1>3, PTL DEF Spec
----------------------------------------------------------------------------
(* Who is left to run.                                                       *)

\* A step of a generator: which generators are left, and what it finds of the inventory.
LEMMA GeneratorMoves ==
  ASSUME TypeInv, NEW s \in Sessions, GeneratorStep(s)
  PROVE  /\ UNCHANGED <<session_, message, creator>>
         /\ \A r \in Sessions : r # s => generator'[r] = generator[r]
         /\ generator'[s].cancelled = generator[s].cancelled
         /\ generator[s].at \notin {"none", "ended"} /\ generator'[s].at # "none"
         /\ generator'[s].at = "ended" => generator[s].cancelled \/ panic'
         /\ generator'[s].at \in {"due", "report"} => inventory \/ generator[s].at = "due"
         /\ InRound(s)' => InRound(s) \/ handler # "stop" \/ "stop" \in disorder'
         /\ panic' => panic \/ (generator[s].at = "report" /\ ~inventory)
<1>g. /\ generator[s].at \in Ats /\ generator[s].metric \in Metrics \cup {"none"}
      /\ generator[s].todo \in SUBSET Metrics
  BY Zenon DEF TypeInv, Generators, Ats
<1>a. {"none", "asleep", "round", "due", "report", "ended"} \subseteq Ats
  BY Zenon DEF Ats
<1>1. CASE CopyConfig(s)
  <2>1. /\ \A r \in Sessions : r # s => generator'[r] = generator[r]
        /\ generator'[s].at = "round" /\ generator'[s].cancelled = generator[s].cancelled
    BY <1>1, Copied, Zenon
  <2>2. /\ generator[s].at = "asleep" /\ UNCHANGED <<session_, message, creator, panic>>
        /\ handler = "stop" => "stop" \in disorder'
    BY <1>1, Zenon DEF CopyConfig, Disturbs, event
  <2> QED
    BY <2>1, <2>2, Zenon
<1>2. CASE Stopped(s)
  <2>1. /\ UNCHANGED <<session_, message, creator, panic>>
        /\ generator[s].at = "asleep" /\ generator[s].cancelled
    BY <1>2, Zenon DEF Stopped, event
  <2>g. Goto(s, "ended", "none", {}) /\ "ended" \in Ats /\ "none" \in Metrics \cup {"none"}
        /\ {} \in SUBSET Metrics
    BY <1>2, Zenon DEF Stopped, Ats
  <2>2. /\ \A r \in Sessions : r # s => generator'[r] = generator[r]
        /\ generator'[s].at = "ended" /\ generator'[s].cancelled = generator[s].cancelled
    BY <2>g, Moved, Zenon
  <2> QED
    BY <2>1, <2>2, ZenonT(30) DEF InRound
<1>3. CASE EndRound(s)
  <2>1. /\ \A r \in Sessions : r # s => generator'[r] = generator[r]
        /\ generator[s].at = "round" /\ generator'[s].at = "asleep"
        /\ generator'[s].cancelled = generator[s].cancelled
    BY <1>3, Ended, Zenon
  <2>2. UNCHANGED <<session_, message, creator, panic>>
    BY <1>3, Zenon DEF EndRound, event
  <2> QED
    BY <2>1, <2>2, Zenon DEF InRound
<1>4. ASSUME NEW m \in Metrics, CheckMetric(s, m)
      PROVE  /\ UNCHANGED <<session_, message, creator, panic>> /\ inventory
             /\ \A r \in Sessions : r # s => generator'[r] = generator[r]
             /\ generator'[s].cancelled = generator[s].cancelled
             /\ generator[s].at = "round" /\ generator'[s].at \in {"due", "round"}
  <2>1. /\ UNCHANGED <<session_, message, creator, panic>> /\ inventory /\ generator[s].at = "round"
        /\ \E at \in {"due", "round"} : Goto(s, at, m, generator[s].todo \ {m})
    BY <1>4, Zenon DEF CheckMetric, event
  <2>2. PICK at \in {"due", "round"} : Goto(s, at, m, generator[s].todo \ {m})
    BY <2>1, Zenon
  <2>3. generator[s].todo \ {m} \in SUBSET Metrics /\ at \in Ats /\ m \in Metrics \cup {"none"}
    BY <1>a, <1>g, Zenon
  <2>4. /\ \A r \in Sessions : r # s => generator'[r] = generator[r]
        /\ generator'[s].at = at /\ generator'[s].cancelled = generator[s].cancelled
    BY <2>2, <2>3, Moved, ZenonT(60)
  <2> QED
    BY <2>1, <2>4, Zenon
<1>5. CASE updateConfiguredMetrics(s)
  <2>1. /\ UNCHANGED <<session_, message, creator, panic>> /\ generator[s].at = "due"
        /\ Goto(s, "report", generator[s].metric, generator[s].todo)
    BY <1>5, Zenon DEF updateConfiguredMetrics, event
  <2>2. /\ \A r \in Sessions : r # s => generator'[r] = generator[r]
        /\ generator'[s].at = "report" /\ generator'[s].cancelled = generator[s].cancelled
    BY <1>a, <1>g, <2>1, Moved, ZenonT(60)
  <2> QED
    BY <2>1, <2>2, Zenon DEF InRound
<1>6. CASE Report(s)
  <2>1. /\ UNCHANGED <<session_, message, creator>> /\ generator[s].at = "report"
        /\ panic' = (panic \/ ~inventory)
        /\ inventory => Goto(s, "round", "none", generator[s].todo)
        /\ ~inventory => Goto(s, "ended", "none", generator[s].todo)
    BY <1>6, Zenon DEF Report, event
  <2>2. /\ \A r \in Sessions : r # s => generator'[r] = generator[r]
        /\ generator'[s].cancelled = generator[s].cancelled
        /\ inventory => generator'[s].at = "round"
        /\ ~inventory => generator'[s].at = "ended"
    BY <1>a, <1>g, <2>1, Moved, Zenon
  <2> QED
    BY <2>1, <2>2, Zenon DEF InRound
<1> QED
  BY <1>1, <1>2, <1>3, <1>4, <1>5, <1>6, Zenon DEF GeneratorStep, InRound

\* A step of the publishers of an endpoint.
LEMMA PublisherMoves ==
  ASSUME TypeInv, NEW b \in Buses, PublisherStep(b)
  PROVE  /\ UNCHANGED <<session_, generator, endpoint, bus, creator, panic, disorder>>
         /\ \A c \in Buses : c # b => publisher'[c] = publisher[c]
         /\ publisher'[b].cancelled = publisher[b].cancelled
         /\ publisher'[b].metrics = publisher[b].metrics
         /\ publisher'[b].events = publisher[b].events
         /\ publisher[b].at \notin {"none", "ended"} /\ publisher'[b].at # "none"
         /\ publisher'[b].at = "ended" => publisher[b].cancelled
<1>1. publisher \in [Buses -> Publishers] /\ publisher[b] \in Publishers
  BY Zenon DEF TypeInv
<1>2. UNCHANGED <<session_, generator, endpoint, bus, creator, panic, disorder>>
  BY Zenon DEF PublisherStep, Take, SendOut, EndPublisher, event
<1>3. CASE Take(b)
  <2> DEFINE held == <<Head(queue[publisher[b].events])>>
  <2>1. /\ publisher[b].at = "reading"
        /\ publisher' = [publisher EXCEPT ![b] = [publisher[b] EXCEPT !.at = "sending", !.holds = held]]
    BY <1>3, Zenon DEF Take
  <2> HIDE DEF held
  <2> QED
    BY <1>1, <1>2, <2>1, Zenon DEF Publishers
<1>4. CASE SendOut(b)
  <2>1. /\ publisher[b].at = "sending"
        /\ publisher' = [publisher EXCEPT ![b] = [publisher[b] EXCEPT !.at = "reading", !.holds = <<>>]]
    BY <1>4, Zenon DEF SendOut
  <2> QED
    BY <1>1, <1>2, <2>1, Zenon DEF Publishers
<1>5. CASE EndPublisher(b)
  <2>1. /\ publisher[b].at = "reading" /\ publisher[b].cancelled
        /\ publisher' = [publisher EXCEPT ![b] = [publisher[b] EXCEPT !.at = "ended"]]
    BY <1>5, Zenon DEF EndPublisher
  <2> QED
    BY <1>1, <1>2, <2>1, Zenon DEF Publishers
<1> QED
  BY <1>3, <1>4, <1>5, Zenon DEF PublisherStep

LEMMA PublishersCancelled ==
  ASSUME TypeInv, publisher' = CancelPublisher
  PROVE  \A b \in Buses : /\ publisher'[b].at = publisher[b].at
                          /\ b # bus => publisher'[b] = publisher[b]
                          /\ b = bus => publisher'[b].cancelled
<1>1. ASSUME NEW b \in Buses
      PROVE  /\ [publisher[b] EXCEPT !.cancelled = TRUE].at = publisher[b].at
             /\ [publisher[b] EXCEPT !.cancelled = TRUE].cancelled
  BY Zenon DEF TypeInv, Publishers
<1> QED
  BY <1>1, Zenon DEF CancelPublisher

\* The creation of an event, and the changes of a configuration.
LEMMA OthersMove ==
  ASSUME EventStep \/ UpdateMetricsConfiguration \/ (\E m \in Metrics : Elapse(m)) \/ UNCHANGED vars
  PROVE  /\ UNCHANGED <<session_, generator, message>>
         /\ creator' # "idle" => creator # "idle" \/ inventory
         /\ creator' # "idle" /\ creator = "idle" => handler # "stop" \/ "stop" \in disorder'
         /\ panic' => \/ panic \/ "early" \in disorder'
                      \/ creator # "idle" /\ ~inventory
<1> USE DEF event
<1>1. ASSUME NEW e \in Events, CreateEvent(e)
      PROVE  /\ UNCHANGED <<session_, generator, message>> /\ UNCHANGED panic /\ creator = "idle" /\ inventory
             /\ handler # "stop" \/ "stop" \in disorder'
  BY <1>1, Zenon DEF CreateEvent, Disturbs
<1>2. ASSUME UpdateEventConfig
      PROVE  UNCHANGED <<session_, generator, message>> /\ UNCHANGED creator /\ "early" \in disorder'
  BY <1>2, Zenon DEF UpdateEventConfig, Disturbs
<1>3. ASSUME sendOutEventOnKafka
      PROVE  UNCHANGED <<session_, generator, message>> /\ (panic' => panic) /\ creator' = "idle"
  BY <1>3, Zenon DEF sendOutEventOnKafka
<1>4. ASSUME NoComponent
      PROVE  /\ UNCHANGED <<session_, generator, message>> /\ creator' = "idle"
             /\ panic' => panic \/ (creator # "idle" /\ ~inventory)
  BY <1>4, Zenon DEF NoComponent
<1>5. ASSUME NEW m \in Metrics, NEW on \in BOOLEAN, UpdateMetricConfig(m, on)
      PROVE  /\ UNCHANGED <<session_, generator, message>> /\ UNCHANGED creator
             /\ panic' => panic \/ "early" \in disorder'
  BY <1>5, Zenon DEF UpdateMetricConfig, Disturbs
<1>6. ASSUME NEW m \in Metrics, Elapse(m)
      PROVE  UNCHANGED <<session_, generator, message>> /\ UNCHANGED creator /\ (panic' => panic)
  BY <1>6, Zenon DEF Elapse
<1>7. ASSUME UNCHANGED vars
      PROVE  UNCHANGED <<session_, generator, message>> /\ UNCHANGED creator /\ (panic' => panic)
  BY <1>7, Zenon DEF vars
<1> QED
  <2> DEFINE Goal ==
        /\ UNCHANGED <<session_, generator, message>>
        /\ creator' # "idle" => creator # "idle" \/ inventory
        /\ creator' # "idle" /\ creator = "idle" => handler # "stop" \/ "stop" \in disorder'
        /\ panic' => panic \/ "early" \in disorder' \/ (creator # "idle" /\ ~inventory)
  <2>1. ASSUME EventStep PROVE Goal
    <3>1. ASSUME NEW e \in Events, CreateEvent(e) PROVE Goal
      BY <1>1, <3>1, Zenon
    <3>2. ASSUME UpdateEventConfig PROVE Goal
      BY <1>2, <3>2, Zenon
    <3>3. ASSUME sendOutEventOnKafka PROVE Goal
      BY <1>3, <3>3, Zenon
    <3>4. ASSUME NoComponent PROVE Goal
      BY <1>4, <3>4, Zenon
    <3> HIDE DEF Goal
    <3> QED
      BY <2>1, <3>1, <3>2, <3>3, <3>4, Zenon DEF EventStep
  <2>2. ASSUME UpdateMetricsConfiguration PROVE Goal
    <3>1. PICK m \in Metrics, on \in BOOLEAN : UpdateMetricConfig(m, on)
      BY <2>2, Zenon DEF UpdateMetricsConfiguration
    <3> QED
      BY <1>5, <3>1, Zenon
  <2>3. ASSUME NEW m \in Metrics, Elapse(m) PROVE Goal
    BY <1>6, <2>3, Zenon
  <2>4. ASSUME UNCHANGED vars PROVE Goal
    BY <1>7, <2>4, Zenon
  <2>5. Goal
    <3> HIDE DEF Goal
    <3> QED
      BY <2>1, <2>2, <2>3, <2>4, Zenon
  <2> QED
    BY <2>5, Zenon
\* The steps, as the proofs below take them.
LEMMA Cases ==
  ASSUME [Next]_vars
  PROVE  \/ StartManagingDevice \/ CreateInventory
         \/ StopMetricGenerator \/ StopManagingDevice
         \/ SetMsgBusEndpoint \/ StartPublishers \/ NoProducer
         \/ \E s \in Sessions : GeneratorStep(s)
         \/ \E b \in Buses : PublisherStep(b)
         \/ EventStep \/ UpdateMetricsConfiguration \/ (\E m \in Metrics : Elapse(m)) \/ UNCHANGED vars
BY Zenon DEF Next, ManagerStep

LEMMA StopStep ==
  ASSUME BoundsAssumption, TypeInv, StopInv, [Next]_vars
  PROVE  StopInv'
<1> SUFFICES ASSUME "stop" \notin disorder' PROVE StopInv'
  BY Zenon DEF StopInv
<1>d. "stop" \notin disorder
  BY OnRecord, Zenon
<1>s. /\ \A s \in Sessions : generator[s].at \in {"due", "report"} => inventory
      /\ creator # "idle" => inventory
      /\ handler = "stop" => creator = "idle" /\ \A s \in Sessions : ~InRound(s)
  BY <1>d, Zenon DEF StopInv
<1> USE DEF event
<1>1. CASE StartManagingDevice
  <2>1. /\ \A r \in Sessions : r # session + 1 => generator'[r] = generator[r]
        /\ generator'[session + 1].at = "asleep"
    BY <1>1, Started, Zenon
  <2>2. handler' = "start" /\ UNCHANGED <<creator, inventory>>
    BY <1>1, Zenon DEF StartManagingDevice
  <2> QED
    BY <1>s, <2>1, <2>2, Zenon DEF StopInv
<1>2. CASE CreateInventory
  BY <1>2, <1>s, Zenon DEF CreateInventory, StopInv
<1>3. CASE StopMetricGenerator
  <2>1. \A r \in Sessions : generator'[r].at = generator[r].at
    BY <1>3, Cancelled, Zenon DEF StopMetricGenerator
  <2>2. /\ creator = "idle" /\ \A s \in Sessions : ~InRound(s)
        /\ UNCHANGED <<creator, inventory>>
    BY <1>3, Zenon DEF StopMetricGenerator, Disturbs
  <2> QED
    BY <1>s, <2>1, <2>2, Zenon DEF StopInv, InRound
<1>4. CASE StopManagingDevice
  <2>1. handler = "stop" /\ handler' = "none" /\ UNCHANGED <<creator, generator>>
    BY <1>4, Zenon DEF StopManagingDevice
  <2> QED
    BY <1>s, <2>1, Zenon DEF StopInv, InRound
<1>5. CASE SetMsgBusEndpoint \/ StartPublishers \/ NoProducer
  <2>1. handler' # "stop" /\ UNCHANGED <<creator, generator, inventory>>
    BY <1>5, Zenon DEF SetMsgBusEndpoint, StartPublishers, NoProducer
  <2> QED
    BY <1>s, <2>1, Zenon DEF StopInv
<1>6. ASSUME NEW s \in Sessions, GeneratorStep(s) PROVE StopInv'
  <2>1. UNCHANGED <<inventory, handler, creator>>
    BY <1>6, GeneratorMoves, Zenon DEF session_
  <2>2. \A r \in Sessions : generator'[r].at \in {"due", "report"} => inventory
    BY <1>6, <1>s, GeneratorMoves, Zenon
  <2>3. handler = "stop" => \A r \in Sessions : ~InRound(r)'
    BY <1>6, <1>s, GeneratorMoves, Zenon DEF InRound
  <2> QED
    BY <1>s, <2>1, <2>2, <2>3, Zenon DEF StopInv
<1>7. ASSUME NEW b \in Buses, PublisherStep(b) PROVE StopInv'
  <2>1. UNCHANGED <<inventory, handler, creator, generator>>
    BY <1>7, PublisherMoves, Zenon DEF session_
  <2> QED
    BY <1>s, <2>1, Zenon DEF StopInv, InRound
<1>8. CASE EventStep \/ UpdateMetricsConfiguration \/ (\E m \in Metrics : Elapse(m)) \/ UNCHANGED vars
  <2>1. UNCHANGED <<inventory, handler, generator>>
    BY <1>8, OthersMove, Zenon DEF session_
  <2>2. creator' # "idle" => inventory /\ handler # "stop"
    BY <1>8, <1>s, OthersMove, Zenon
  <2> QED
    BY <1>s, <2>1, <2>2, Zenon DEF StopInv, InRound
<1> QED
  BY <1>1, <1>2, <1>3, <1>4, <1>5, <1>6, <1>7, <1>8, Cases, Zenon

LEMMA PanicStep ==
  ASSUME TypeInv, StopInv, PanicInv, [Next]_vars
  PROVE  PanicInv'
<1>1. panic => PanicInv'
  BY OnRecord, Zenon DEF PanicInv
<1>2. "stop" \in disorder => PanicInv'
  BY OnRecord, Zenon DEF PanicInv
<1>3. CASE \/ StartManagingDevice \/ CreateInventory \/ StopMetricGenerator \/ StopManagingDevice
           \/ SetMsgBusEndpoint \/ StartPublishers \/ NoProducer
  <2>1. UNCHANGED panic
    BY <1>3, Zenon DEF StartManagingDevice, CreateInventory, StopMetricGenerator, StopManagingDevice,
      SetMsgBusEndpoint, StartPublishers, NoProducer
  <2> QED
    BY <1>1, <2>1, Zenon DEF PanicInv
<1>4. ASSUME NEW s \in Sessions, GeneratorStep(s) PROVE PanicInv'
  <2>1. panic' => panic \/ (generator[s].at = "report" /\ ~inventory)
    BY <1>4, GeneratorMoves, Zenon
  <2> QED
    BY <1>1, <1>2, <2>1, Zenon DEF PanicInv, StopInv
<1>5. ASSUME NEW b \in Buses, PublisherStep(b) PROVE PanicInv'
  <2>1. UNCHANGED panic
    BY <1>5, PublisherMoves, Zenon
  <2> QED
    BY <1>1, <2>1, Zenon DEF PanicInv
<1>6. CASE EventStep \/ UpdateMetricsConfiguration \/ (\E m \in Metrics : Elapse(m)) \/ UNCHANGED vars
  <2>1. panic' => panic \/ "early" \in disorder' \/ (creator # "idle" /\ ~inventory)
    BY <1>6, OthersMove, Zenon
  <2> QED
    BY <1>1, <1>2, <2>1, Zenon DEF PanicInv, StopInv
<1> QED
  BY <1>3, <1>4, <1>5, <1>6, Cases, Zenon

\* What a step must leave of the generators for the rest to follow.
LEMMA GeneratorsStay ==
  ASSUME GeneratorInv, [Next]_vars, UNCHANGED <<generator, session, managed>>, panic => panic'
  PROVE  GeneratorInv'
<1>1. "restart" \notin disorder' => "restart" \notin disorder
  BY OnRecord, Zenon
<1> QED
  BY <1>1, Zenon DEF GeneratorInv

LEMMA GeneratorInvStep ==
  ASSUME BoundsAssumption, TypeInv, GeneratorInv, [Next]_vars
  PROVE  GeneratorInv'
<1>d. "restart" \notin disorder' => "restart" \notin disorder
  BY OnRecord, Zenon
<1>t. session \in Int /\ Sessions \subseteq Int
  BY DEF TypeInv, TypeOK, Sessions
<1> USE DEF event
<1>1. CASE StartManagingDevice
  <2>1. /\ session' = session + 1
        /\ \A r \in Sessions : r # session + 1 => generator'[r] = generator[r]
        /\ generator'[session + 1].at = "asleep" /\ session + 1 \in Sessions
        /\ generator'[session + 1].cancelled = generator[session + 1].cancelled
    BY <1>1, Started, Zenon
  <2>2. managed' /\ UNCHANGED panic /\ ("restart" \notin disorder' => ~managed)
    BY <1>1, Zenon DEF StartManagingDevice, Disturbs
  <2>3. /\ session + 1 # 0 /\ session + 1 > session
        /\ \A s \in Sessions : /\ s > session + 1 => s > session /\ s # session + 1
                               /\ s <= session + 1 => s <= session \/ s = session + 1
    BY <1>t DEF TypeInv, TypeOK
  <2>4. ~generator[session + 1].cancelled
    BY <2>1, <2>3, Zenon DEF GeneratorInv
  <2> QED
    BY <1>d, <2>1, <2>2, <2>3, <2>4, Zenon DEF GeneratorInv
<1>2. CASE StopMetricGenerator
  <2>1. /\ UNCHANGED <<session, panic>> /\ ~managed'
        /\ \A r \in Sessions : /\ generator'[r].at = generator[r].at
                               /\ r # session => generator'[r] = generator[r]
                               /\ r = session => generator'[r].cancelled = TRUE
    BY <1>2, Cancelled, Zenon DEF StopMetricGenerator
  <2>2. \A r \in Sessions : r > session => r # session
    BY <1>t
  <2>3. ASSUME NEW s \in Sessions
        PROVE  /\ s > session => generator'[s].at = "none" /\ ~generator'[s].cancelled
               /\ s <= session => generator'[s].at # "none"
    <3>1. /\ s > session => generator[s].at = "none" /\ ~generator[s].cancelled
          /\ s <= session => generator[s].at # "none"
      BY Zenon DEF GeneratorInv
    <3> QED
      BY <2>1, <2>2, <3>1, Zenon
  <2>4. ASSUME NEW s \in Sessions
        PROVE  /\ generator'[s].at = "ended" => generator'[s].cancelled \/ panic
               /\ "restart" \notin disorder' /\ s <= session => generator'[s].cancelled
    BY <1>d, <2>1, Zenon DEF GeneratorInv
  <2> QED
    BY <2>1, <2>3, <2>4, Zenon DEF GeneratorInv
<1>3. ASSUME NEW s \in Sessions, GeneratorStep(s) PROVE GeneratorInv'
  <2>1. /\ UNCHANGED <<session, managed>>
        /\ \A r \in Sessions : r # s => generator'[r] = generator[r]
        /\ generator'[s].cancelled = generator[s].cancelled
        /\ generator[s].at \notin {"none", "ended"} /\ generator'[s].at # "none"
        /\ generator'[s].at = "ended" => generator[s].cancelled \/ panic'
    BY <1>3, GeneratorMoves, Zenon DEF session_
  <2>2. panic => panic'
    BY <1>3, Zenon DEF GeneratorStep, CopyConfig, Stopped, EndRound, CheckMetric,
      updateConfiguredMetrics, Report
  <2> QED
    BY <1>d, <2>1, <2>2, Zenon DEF GeneratorInv
<1>4. CASE CreateInventory \/ StopManagingDevice \/ SetMsgBusEndpoint \/ StartPublishers \/ NoProducer
  <2>1. UNCHANGED <<generator, session, managed, panic>>
    BY <1>4, Zenon DEF CreateInventory, StopManagingDevice, SetMsgBusEndpoint, StartPublishers,
      NoProducer
  <2> QED
    BY <2>1, GeneratorsStay, Zenon
<1>5. ASSUME NEW b \in Buses, PublisherStep(b) PROVE GeneratorInv'
  <2>1. UNCHANGED <<generator, session, managed, panic>>
    BY <1>5, PublisherMoves, Zenon DEF session_
  <2> QED
    BY <2>1, GeneratorsStay, Zenon
<1>6. CASE EventStep \/ UpdateMetricsConfiguration \/ (\E m \in Metrics : Elapse(m)) \/ UNCHANGED vars
  <2>1. UNCHANGED <<generator, session, managed>>
    BY <1>6, OthersMove, Zenon DEF session_
  <2>2. panic => panic'
    BY <1>6, Zenon DEF EventStep, UpdateEventConfig, CreateEvent, sendOutEventOnKafka, NoComponent,
      UpdateMetricsConfiguration, UpdateMetricConfig, Elapse, vars
  <2> QED
    BY <2>1, <2>2, GeneratorsStay, Zenon
<1> QED
  BY <1>1, <1>2, <1>3, <1>4, <1>5, <1>6, Cases, Zenon

LEMMA PublisherInvStep ==
  ASSUME BoundsAssumption, TypeInv, PublisherInv, [Next]_vars
  PROVE  PublisherInv'
<1>t. bus \in Nat /\ Buses \subseteq Int
  BY DEF TypeInv, TypeOK, Buses
<1> USE DEF message
<1>1. CASE StopManagingDevice
  <2>1. /\ UNCHANGED bus /\ endpoint' = FALSE /\ handler' = "none"
        /\ \A b \in Buses : /\ publisher'[b].at = publisher[b].at
                            /\ b # bus => publisher'[b] = publisher[b]
                            /\ b = bus => publisher'[b].cancelled
    BY <1>1, PublishersCancelled, Zenon DEF StopManagingDevice
  <2>2. ~(bus > bus)
    BY <1>t
  <2> QED
    BY <2>1, <2>2, Zenon DEF PublisherInv
<1>2. CASE SetMsgBusEndpoint
  <2>1. /\ bus' = bus + 1 /\ endpoint' = TRUE /\ handler' = "bus"
        /\ \A b \in Buses : /\ publisher'[b].at = publisher[b].at
                            /\ b # bus => publisher'[b] = publisher[b]
                            /\ b = bus => publisher'[b].cancelled
    BY <1>2, PublishersCancelled, Zenon DEF SetMsgBusEndpoint
  <2>2. /\ bus + 1 # 0 /\ bus + 1 > bus /\ bus + 1 # bus
        /\ \A b \in Buses : /\ b > bus + 1 => b > bus /\ b # bus
                            /\ b <= bus + 1 => b <= bus \/ b = bus + 1
    BY <1>t
  <2>3. \A b \in Buses : b = bus + 1 => publisher[b].at = "none" /\ ~publisher[b].cancelled
    BY <2>2, Zenon DEF PublisherInv
  <2>4. \A b \in Buses : b <= bus => publisher'[b].cancelled
    BY <2>1, Zenon DEF PublisherInv
  <2>5. \A b \in Buses : b = bus + 1 => publisher'[b].at = "none" /\ ~publisher'[b].cancelled
    BY <2>1, <2>2, <2>3, Zenon
  <2>6. \A b \in Buses : b > bus + 1 => publisher'[b].at = "none" /\ ~publisher'[b].cancelled
    BY <2>1, <2>2, Zenon DEF PublisherInv
  <2>7. \A b \in Buses : publisher'[b].at = "ended" => publisher'[b].cancelled
    BY <2>1, Zenon DEF PublisherInv
  <2> QED
    BY <2>1, <2>2, <2>4, <2>5, <2>6, <2>7, Zenon DEF PublisherInv
<1>3. CASE StartPublishers
  <2> DEFINE p == [publisher[bus] EXCEPT !.at = "reading", !.metrics = metricChannel,
                                         !.events = eventChannel]
  <2>1. bus \in Buses /\ publisher \in [Buses -> Publishers] /\ publisher[bus] \in Publishers
    BY <1>3, Zenon DEF StartPublishers, TypeInv
  <2>2. publisher' = [publisher EXCEPT ![bus] = p] /\ UNCHANGED <<bus, endpoint>>
        /\ handler = "bus" /\ handler' = "none"
    BY <1>3, Zenon DEF StartPublishers
  <2>3. p.at = "reading" /\ p.cancelled = publisher[bus].cancelled
    BY <2>1, Zenon DEF Publishers
  <2> HIDE DEF p
  <2>4. publisher'[bus] = p /\ \A b \in Buses : b # bus => publisher'[b] = publisher[b]
    BY <2>1, <2>2, Zenon
  <2>5. ~(bus > bus)
    BY <1>t
  <2> QED
    BY <2>2, <2>3, <2>4, <2>5, Zenon DEF PublisherInv
<1>4. ASSUME NEW b \in Buses, PublisherStep(b) PROVE PublisherInv'
  <2>1. /\ UNCHANGED <<handler, endpoint, bus>>
        /\ \A c \in Buses : c # b => publisher'[c] = publisher[c]
        /\ publisher'[b].cancelled = publisher[b].cancelled
        /\ publisher[b].at \notin {"none", "ended"}
        /\ publisher'[b].at = "ended" => publisher[b].cancelled
    BY <1>4, PublisherMoves, Zenon DEF session_
  <2> QED
    BY <2>1, Zenon DEF PublisherInv
<1>5. ASSUME UNCHANGED message, handler' = "bus" => handler = "bus" PROVE PublisherInv'
  <2>1. UNCHANGED endpoint /\ UNCHANGED bus /\ UNCHANGED publisher
    BY <1>5, Zenon
  <2> QED
    BY <1>5, <2>1 DEF PublisherInv
<1>6. CASE StartManagingDevice \/ CreateInventory \/ StopMetricGenerator \/ NoProducer
  BY <1>5, <1>6, Zenon DEF StartManagingDevice, CreateInventory, StopMetricGenerator, NoProducer
<1>7. ASSUME NEW s \in Sessions, GeneratorStep(s) PROVE PublisherInv'
  BY <1>5, <1>7, GeneratorMoves, Zenon DEF session_
<1>8. CASE EventStep \/ UpdateMetricsConfiguration \/ (\E m \in Metrics : Elapse(m)) \/ UNCHANGED vars
  BY <1>5, <1>8, OthersMove, Zenon DEF session_
<1> QED
  BY <1>1, <1>2, <1>3, <1>4, <1>6, <1>7, <1>8, Cases, Zenon

LEMMA EndpointStep ==
  ASSUME BoundsAssumption, TypeInv, PublisherInv, EndpointInv, [Next]_vars
  PROVE  EndpointInv'
<1> SUFFICES ASSUME InOrder' PROVE EndpointInv'
  BY Zenon DEF EndpointInv
<1>o. InOrder
  BY OnRecord, Zenon DEF InOrder
<1>e. /\ endpoint => managed \/ handler = "stop"
      /\ endpoint /\ handler # "bus" =>
           \A b \in Buses : b = bus =>
             /\ publisher[b].at # "none"
             /\ publisher[b].metrics = metricChannel /\ publisher[b].events = eventChannel
  BY <1>o, Zenon DEF EndpointInv
<1> USE DEF message
<1>1. CASE StartManagingDevice
  <2>1. handler = "none" /\ ~managed /\ UNCHANGED endpoint
    BY <1>1, Zenon DEF StartManagingDevice, MayCall, Disturbs, InOrder
  <2> QED
    BY <1>e, <2>1, Zenon DEF EndpointInv
<1>2. CASE StopManagingDevice
  BY <1>2, Zenon DEF StopManagingDevice, EndpointInv
<1>3. CASE StopMetricGenerator
  <2>1. handler = "none" /\ handler' = "stop" /\ UNCHANGED <<message, metricChannel, eventChannel>>
    BY <1>3, Zenon DEF StopMetricGenerator, MayCall
  <2> QED
    BY <1>e, <2>1, Zenon DEF EndpointInv
<1>4. CASE SetMsgBusEndpoint
  <2>1. handler = "none" /\ handler' = "bus" /\ UNCHANGED managed /\ (managed \/ endpoint)
    BY <1>4, Zenon DEF SetMsgBusEndpoint, MayCall, Disturbs, InOrder
  <2> QED
    BY <1>e, <2>1, Zenon DEF EndpointInv
<1>5. CASE StartPublishers
  <2> DEFINE p == [publisher[bus] EXCEPT !.at = "reading", !.metrics = metricChannel,
                                         !.events = eventChannel]
  <2>1. bus \in Buses /\ publisher \in [Buses -> Publishers] /\ publisher[bus] \in Publishers
    BY <1>5, Zenon DEF StartPublishers, TypeInv
  <2>2. publisher' = [publisher EXCEPT ![bus] = p]
        /\ UNCHANGED <<bus, endpoint, managed, metricChannel, eventChannel>> /\ handler = "bus"
    BY <1>5, Zenon DEF StartPublishers
  <2>3. p.at = "reading" /\ p.metrics = metricChannel /\ p.events = eventChannel
    BY <2>1, Zenon DEF Publishers
  <2> HIDE DEF p
  <2>4. publisher'[bus] = p
    BY <2>1, <2>2, Zenon
  <2> QED
    BY <1>e, <2>2, <2>3, <2>4, Zenon DEF EndpointInv
<1>6. CASE CreateInventory
  <2>1. handler = "start" /\ UNCHANGED <<message, managed, metricChannel, eventChannel>>
    BY <1>6, Zenon DEF CreateInventory
  <2> QED
    BY <1>e, <2>1, Zenon DEF EndpointInv
<1>7. CASE NoProducer
  BY <1>7, Zenon DEF NoProducer, Disturbs, InOrder
<1>8. ASSUME NEW b \in Buses, PublisherStep(b) PROVE EndpointInv'
  <2>1. /\ UNCHANGED <<managed, metricChannel, eventChannel, handler, endpoint, bus>>
        /\ \A c \in Buses : c # b => publisher'[c] = publisher[c]
        /\ publisher'[b].metrics = publisher[b].metrics
        /\ publisher'[b].events = publisher[b].events
        /\ publisher'[b].at # "none"
    BY <1>8, PublisherMoves, Zenon DEF session_
  <2> QED
    BY <1>e, <2>1, Zenon DEF EndpointInv
<1>9. ASSUME UNCHANGED <<session_, message>> PROVE EndpointInv'
  BY <1>e, <1>9, Zenon DEF EndpointInv, session_
<1>10. ASSUME NEW s \in Sessions, GeneratorStep(s) PROVE EndpointInv'
  BY <1>9, <1>10, GeneratorMoves, Zenon
<1>11. CASE EventStep \/ UpdateMetricsConfiguration \/ (\E m \in Metrics : Elapse(m)) \/ UNCHANGED vars
  BY <1>9, <1>11, OthersMove, Zenon
<1> QED
  BY <1>1, <1>2, <1>3, <1>4, <1>5, <1>6, <1>7, <1>8, <1>10, <1>11, Cases, Zenon

LEMMA OneOrNone ==
  ASSUME NEW T, NEW x, NEW b \in BOOLEAN, b => T = {x}, ~b => T = {}
  PROVE  Cardinality(T) = IF b THEN 1 ELSE 0
BY FS_Singleton, FS_EmptySet, Zenon

\* The generators that are left to run, and the publishers.
LEMMA GeneratorsLeft ==
  ASSUME TypeInv, GeneratorInv, ~panic, InOrder
  PROVE  Cardinality({s \in Sessions : Alive(generator[s])}) = IF managed THEN 1 ELSE 0
<1>1. managed \in BOOLEAN /\ (managed => session \in Sessions) /\ "restart" \notin disorder
  BY DEF TypeInv, TypeOK, GeneratorInv, Sessions, InOrder
<1>2. \A s \in Sessions : s > session \/ s <= session
  BY DEF TypeInv, TypeOK, Sessions
<1>3. ASSUME NEW s \in Sessions, Alive(generator[s]) PROVE s = session /\ managed
  BY <1>1, <1>2, <1>3, Zenon DEF GeneratorInv, Alive
<1>4. ASSUME managed PROVE Alive(generator[session])
  <2>1. session <= session
    BY DEF TypeInv, TypeOK
  <2> QED
    BY <1>1, <1>4, <2>1, Zenon DEF GeneratorInv, Alive
<1> DEFINE T == {s \in Sessions : Alive(generator[s])}
<1>5. managed => T = {session}
  BY <1>1, <1>3, <1>4, Zenon
<1>6. ~managed => T = {}
  BY <1>3, Zenon
<1> HIDE DEF T
<1>7. Cardinality(T) = IF managed THEN 1 ELSE 0
  BY <1>1, <1>5, <1>6, OneOrNone, Zenon
<1> QED
  BY <1>7, Zenon DEF T

LEMMA PublishersLeft ==
  ASSUME TypeInv, PublisherInv, EndpointInv, handler = "none", InOrder
  PROVE  /\ endpoint <=> \E b \in Buses : /\ Alive(publisher[b])
                                          /\ publisher[b].metrics = metricChannel
                                          /\ publisher[b].events = eventChannel
         /\ Cardinality({b \in Buses : Alive(publisher[b])}) = IF endpoint THEN 1 ELSE 0
<1>1. endpoint => bus \in Buses
  BY DEF TypeInv, TypeOK, PublisherInv, Buses
<1>2. \A b \in Buses : b > bus \/ b <= bus
  BY DEF TypeInv, TypeOK, Buses
<1>3. ASSUME NEW b \in Buses, Alive(publisher[b]) PROVE b = bus /\ endpoint
  BY <1>2, <1>3, Zenon DEF PublisherInv, Alive
<1>4. ASSUME endpoint
      PROVE  /\ Alive(publisher[bus])
             /\ publisher[bus].metrics = metricChannel /\ publisher[bus].events = eventChannel
  BY <1>1, <1>4, Zenon DEF PublisherInv, EndpointInv, Alive
<1> DEFINE T == {b \in Buses : Alive(publisher[b])}
<1>5. endpoint => T = {bus}
  BY <1>1, <1>3, <1>4, Zenon
<1>6. ~endpoint => T = {}
  BY <1>3, Zenon
<1>7. endpoint <=> \E b \in Buses : /\ Alive(publisher[b])
                                    /\ publisher[b].metrics = metricChannel
                                    /\ publisher[b].events = eventChannel
  BY <1>1, <1>3, <1>4, Zenon
<1> HIDE DEF T
<1>8. Cardinality(T) = IF endpoint THEN 1 ELSE 0
  BY <1>5, <1>6, OneOrNone, Zenon DEF PublisherInv
<1> QED
  BY <1>7, <1>8, Zenon DEF T

\* While a device is managed exactly one generator is left to run, and exactly one pair of
\* publishers, which read its channels, while an endpoint is set; none once management has
\* stopped (StopManagingDevice).  This is for any number of sessions and endpoints, when
\* each start follows a stop, the endpoint is set for a managed device and its producer is
\* there.  Only a configuration that changes before there is one, or a stop in the middle
\* of a round or of the creation of an event, makes the process panic.
THEOREM StaysConnected ==
  ASSUME BoundsAssumption
  PROVE  Spec => []Connected
<1> DEFINE Inv == /\ TypeInv /\ CopyInv /\ StopInv /\ PanicInv
                  /\ GeneratorInv /\ PublisherInv /\ EndpointInv
<1>1. Init => Inv
  <2> SUFFICES ASSUME Init PROVE Inv
    BY Zenon
  <2>1. TypeInv /\ CopyInv
    <3>1. \A s \in Sessions : generator[s].at = "none" /\ generator[s].todo = {}
      BY Zenon DEF Init
    <3> QED
      BY <3>1, TypeInit, Zenon DEF CopyInv
  <2>2. /\ \A s \in Sessions : generator[s].at = "none" /\ ~generator[s].cancelled
        /\ \A b \in Buses : publisher[b].at = "none" /\ ~publisher[b].cancelled
    BY Zenon DEF Init
  <2>3. /\ session = 0 /\ bus = 0 /\ ~managed /\ ~endpoint /\ handler = "none" /\ ~panic
        /\ creator = "idle" /\ endpoint \in BOOLEAN
    BY Zenon DEF Init
  <2>4. (\A s \in Sessions : ~(s <= 0)) /\ (\A b \in Buses : ~(b <= 0))
    BY DEF Sessions, Buses
  <2>5. StopInv /\ PanicInv
    BY <2>2, <2>3, Zenon DEF StopInv, PanicInv
  <2>6. GeneratorInv
    BY <2>2, <2>3, <2>4, Zenon DEF GeneratorInv
  <2>7. PublisherInv /\ EndpointInv
    BY <2>2, <2>3, <2>4, Zenon DEF PublisherInv, EndpointInv
  <2> QED
    BY <2>1, <2>3, <2>5, <2>6, <2>7, Zenon
<1>2. Inv /\ [Next]_vars => Inv'
  <2> SUFFICES ASSUME Inv, [Next]_vars PROVE Inv'
    BY Zenon
  <2>1. TypeInv' /\ CopyInv'
    BY TypeStep, CopyStep, Zenon
  <2>2. StopInv' /\ PanicInv'
    BY StopStep, PanicStep, Zenon
  <2>3. GeneratorInv' /\ PublisherInv' /\ EndpointInv'
    BY GeneratorInvStep, PublisherInvStep, EndpointStep, Zenon
  <2> QED
    BY <2>1, <2>2, <2>3, Zenon
<1>3. Inv => Connected
  <2> SUFFICES ASSUME Inv PROVE Connected
    BY Zenon
  <2>1. panic => disorder \cap {"early", "stop"} # {}
    BY Zenon DEF PanicInv
  <2>2. ASSUME handler = "none", ~panic, InOrder
        PROVE  /\ Cardinality({s \in Sessions : Alive(generator[s])}) = IF managed THEN 1 ELSE 0
               /\ endpoint <=> \E b \in Buses : /\ Alive(publisher[b])
                                                /\ publisher[b].metrics = metricChannel
                                                /\ publisher[b].events = eventChannel
               /\ Cardinality({b \in Buses : Alive(publisher[b])}) = IF endpoint THEN 1 ELSE 0
    BY <2>2, GeneratorsLeft, PublishersLeft, Zenon
  <2> QED
    BY <2>1, <2>2, Zenon DEF Connected, InOrder
<1> QED
  BY <1>1, <1>2, <1>3, PTL DEF Spec
----------------------------------------------------------------------------
(* The events.                                                               *)

Event == [session : 0..MaxSessions, number : Nat]

\* The places, and what is at them.
LEMMA PlaceCases ==
  /\ <<"kafka", 0>> \in Places
  /\ \A b \in Buses : <<"held", b>> \in Places
  /\ \A s \in Sessions : <<"queue", s>> \in Places
  /\ \A p \in Places : \/ p = <<"kafka", 0>>
                       \/ \E b \in Buses : p = <<"held", b>>
                       \/ \E s \in Sessions : p = <<"queue", s>>
BY DEF Places

LEMMA PlacesNow ==
  /\ EventsAt[<<"kafka", 0>>] = kafka
  /\ \A b \in Buses : EventsAt[<<"held", b>>] = publisher[b].holds
  /\ \A s \in Sessions : EventsAt[<<"queue", s>>] = queue[s]
BY PlaceCases DEF EventsAt

LEMMA PlacesNext ==
  /\ EventsAt'[<<"kafka", 0>>] = kafka'
  /\ \A b \in Buses : EventsAt'[<<"held", b>>] = publisher'[b].holds
  /\ \A s \in Sessions : EventsAt'[<<"queue", s>>] = queue'[s]
BY PlaceCases DEF EventsAt

LEMMA PlacesDiffer ==
  /\ \A b : <<"kafka", 0>> # <<"held", b>>
  /\ \A s : <<"kafka", 0>> # <<"queue", s>>
  /\ \A b, s : <<"held", b>> # <<"queue", s>>
  /\ \A b, c : <<"held", b>> = <<"held", c>> => b = c
  /\ \A s, r : <<"queue", s>> = <<"queue", r>> => s = r
OBVIOUS

\* What is at the end of a channel after an event was put on it, and what is left when
\* its first was taken.
LEMMA PutAt ==
  ASSUME NEW q \in Seq(Event), NEW x \in Event
  PROVE  /\ Append(q, x) \in Seq(Event) /\ Len(Append(q, x)) = Len(q) + 1 /\ Len(q) \in Nat
         /\ Append(q, x)[Len(q) + 1] = x
         /\ \A i \in 1..Len(q) : Append(q, x)[i] = q[i]
         /\ q \o <<x>> = Append(q, x)
OBVIOUS

LEMMA TakenAt ==
  ASSUME NEW q \in Seq(Event), q # <<>>
  PROVE  /\ Head(q) = q[1] /\ q[1] \in Event /\ Tail(q) \in Seq(Event)
         /\ Len(q) \in Nat /\ Len(q) >= 1 /\ Len(Tail(q)) = Len(q) - 1
         /\ \A i \in 1..(Len(q) - 1) : Tail(q)[i] = q[i + 1]
OBVIOUS

LEMMA AlsoPut ==
  ASSUME NEW q \in Seq(Event), NEW x \in Event, Once(q), x.number \notin Numbers(q)
  PROVE  Once(Append(q, x)) /\ Numbers(Append(q, x)) = Numbers(q) \cup {x.number}
<1> DEFINE a == Append(q, x)
           n == Len(q)
<1>1. /\ n \in Nat /\ Len(a) = n + 1 /\ a[n + 1] = x
      /\ \A i \in 1..n : a[i] = q[i]
  BY PutAt, Zenon
<1>2. /\ \A i \in 1..(n + 1) : i \in 1..n \/ i = n + 1
      /\ n + 1 \in 1..(n + 1) /\ \A i \in 1..n : i \in 1..(n + 1)
  BY <1>1
<1> HIDE DEF a
<1>3. Numbers(a) = Numbers(q) \cup {x.number}
  BY <1>1, <1>2, Zenon DEF Numbers
<1>4. \A i \in 1..n : q[i].number # x.number
  BY Zenon DEF Numbers
<1>5. Once(a)
  BY <1>1, <1>2, <1>4, Zenon DEF Once
<1> QED
  BY <1>3, <1>5, Zenon DEF a

LEMMA AlsoTaken ==
  ASSUME NEW q \in Seq(Event), q # <<>>, Once(q)
  PROVE  /\ Once(Tail(q)) /\ Numbers(Tail(q)) = Numbers(q) \ {Head(q).number}
         /\ Head(q).number \in Numbers(q)
<1> DEFINE a == Tail(q)
           n == Len(q)
<1>1. /\ n \in Nat /\ n >= 1 /\ Len(a) = n - 1 /\ Head(q) = q[1]
      /\ \A i \in 1..(n - 1) : a[i] = q[i + 1]
  BY TakenAt, Zenon
<1>2. /\ \A i \in 1..(n - 1) : i + 1 \in 1..n /\ i + 1 # 1
      /\ \A i \in 1..n : i # 1 => \E j \in 1..(n - 1) : i = j + 1
      /\ \A i, j \in 1..(n - 1) : i + 1 = j + 1 => i = j
      /\ 1 \in 1..n
  <2>1. \A i \in 1..n : i # 1 => i - 1 \in 1..(n - 1) /\ i = (i - 1) + 1
    BY <1>1
  <2> QED
    BY <1>1, <2>1
<1> HIDE DEF a
<1>3. Once(a)
  <2> SUFFICES ASSUME NEW i \in 1..(n - 1), NEW j \in 1..(n - 1), a[i].number = a[j].number
               PROVE  i = j
    BY <1>1, Zenon DEF Once
  <2>1. i + 1 \in 1..n /\ j + 1 \in 1..n /\ q[i + 1].number = q[j + 1].number
    BY <1>1, <1>2, Zenon
  <2>2. i + 1 = j + 1
    BY <2>1, Zenon DEF Once
  <2> QED
    BY <1>2, <2>2, Zenon
<1>4. ASSUME NEW m \in Numbers(a) PROVE m \in Numbers(q) /\ m # q[1].number
  <2>1. PICK i \in 1..(n - 1) : m = a[i].number
    BY <1>1, Zenon DEF Numbers
  <2>2. m = q[i + 1].number /\ i + 1 \in 1..n /\ i + 1 # 1
    BY <1>1, <1>2, <2>1, Zenon
  <2> QED
    BY <1>2, <2>2, Zenon DEF Numbers, Once
<1>5. ASSUME NEW m \in Numbers(q), m # q[1].number PROVE m \in Numbers(a)
  <2>1. PICK i \in 1..n : m = q[i].number
    BY Zenon DEF Numbers
  <2>2. PICK j \in 1..(n - 1) : i = j + 1
    BY <1>2, <1>5, <2>1, Zenon
  <2>3. m = a[j].number
    BY <1>1, <2>1, <2>2, Zenon
  <2> QED
    BY <1>1, <2>3, Zenon DEF Numbers
<1>6. q[1].number \in Numbers(q)
  BY <1>2, Zenon DEF Numbers
<1>7. Numbers(a) = Numbers(q) \ {q[1].number}
  BY <1>4, <1>5, Zenon
<1> QED
  BY <1>1, <1>3, <1>6, <1>7, Zenon DEF a

\* An event that goes from one place to another, and a new one.
Goes(E, F, a, b) ==
  /\ a \in Places /\ b \in Places /\ a # b
  /\ E[a] \in Seq(Event) /\ E[a] # <<>> /\ E[b] \in Seq(Event)
  /\ F[a] = Tail(E[a]) /\ F[b] = Append(E[b], Head(E[a]))
  /\ \A p \in Places : p # a /\ p # b => F[p] = E[p]

LEMMA ExactMoved ==
  ASSUME NEW E, NEW F, NEW S, Exact(E, S), NEW a, NEW b, Goes(E, F, a, b)
  PROVE  Exact(F, S)
<1> USE DEF Goes
<1> DEFINE x == Head(E[a])
           n == x.number
           N(p) == Numbers(E[p])
           M(p) == Numbers(F[p])
<1>1. x \in Event
  BY TakenAt, Zenon
<1>2. Once(F[a]) /\ M(a) = N(a) \ {n} /\ n \in N(a)
  <2>1. Once(E[a])
    BY Zenon DEF Exact
  <2>2. /\ Once(Tail(E[a])) /\ Numbers(Tail(E[a])) = Numbers(E[a]) \ {Head(E[a]).number}
        /\ Head(E[a]).number \in Numbers(E[a])
    BY <2>1, AlsoTaken, Zenon
  <2> QED
    BY <2>2, Zenon
<1>3. n \notin N(b)
  BY <1>2, Zenon DEF Exact
<1> HIDE DEF x
<1>4. Once(F[b]) /\ M(b) = N(b) \cup {n}
  <2>1. F[b] = Append(E[b], x)
    BY Zenon DEF x
  <2>2. Once(E[b])
    BY Zenon DEF Exact
  <2>3. Once(Append(E[b], x)) /\ Numbers(Append(E[b], x)) = Numbers(E[b]) \cup {x.number}
    BY <1>1, <1>3, <2>2, AlsoPut, Zenon
  <2> QED
    BY <2>1, <2>3, Zenon
<1>5. \A p \in Places : p # a /\ p # b => M(p) = N(p)
  BY Zenon
<1>6. /\ \A m : m \in S <=> \E p \in Places : m \in N(p)
      /\ \A p, q \in Places : p # q => N(p) \cap N(q) = {}
  BY Zenon DEF Exact
<1>7. \A p \in Places : Once(F[p])
  BY <1>2, <1>4, Zenon DEF Exact
<1> HIDE DEF N, M, n
<1>8. ASSUME NEW m, NEW p \in Places, m \in M(p)
      PROVE  (m # n => m \in N(p)) /\ (m = n => p = b) /\ m \in S
  <2>1. CASE p = a
    BY <1>2, <1>6, <1>8, <2>1, Zenon
  <2>2. CASE p = b
    BY <1>2, <1>4, <1>6, <1>8, <2>2, Zenon
  <2>3. CASE p # a /\ p # b
    <3>1. m \in N(p)
      BY <1>5, <1>8, <2>3, Zenon
    <3>2. m # n
      BY <1>2, <1>6, <2>3, <3>1, Zenon
    <3> QED
      BY <1>6, <3>1, <3>2, Zenon
  <2> QED
    BY <2>1, <2>2, <2>3, Zenon
<1>9. ASSUME NEW m \in S PROVE \E p \in Places : m \in M(p)
  <2>1. PICK p \in Places : m \in N(p)
    BY <1>6, Zenon
  <2>2. CASE m = n
    BY <1>4, <2>2, Zenon
  <2>3. CASE m # n
    BY <1>2, <1>4, <1>5, <2>1, <2>3, Zenon
  <2> QED
    BY <2>2, <2>3, Zenon
<1>10. ASSUME NEW p \in Places, NEW q \in Places, p # q, NEW m, m \in M(p), m \in M(q) PROVE FALSE
  <2>1. CASE m = n
    BY <1>8, <1>10, <2>1, Zenon
  <2>2. CASE m # n
    BY <1>6, <1>8, <1>10, <2>2, Zenon
  <2> QED
    BY <2>1, <2>2, Zenon
<1>11. \A p, q \in Places : p # q => M(p) \cap M(q) = {}
  BY <1>10, Zenon
<1>12. \A m : m \in S <=> \E p \in Places : m \in M(p)
  BY <1>8, <1>9, Zenon
<1> QED
  BY <1>7, <1>11, <1>12, Zenon DEF Exact, M

LEMMA ExactAdded ==
  ASSUME NEW E, NEW F, NEW S, Exact(E, S),
         NEW a \in Places, E[a] \in Seq(Event), NEW x \in Event, x.number \notin S,
         F[a] = Append(E[a], x), \A p \in Places : p # a => F[p] = E[p]
  PROVE  Exact(F, S \cup {x.number})
<1> DEFINE n == x.number
           N(p) == Numbers(E[p])
           M(p) == Numbers(F[p])
<1>1. /\ \A m : m \in S <=> \E p \in Places : m \in N(p)
      /\ \A p, q \in Places : p # q => N(p) \cap N(q) = {}
      /\ \A p \in Places : n \notin N(p)
  BY Zenon DEF Exact
<1>2. Once(F[a]) /\ M(a) = N(a) \cup {n}
  <2>1. Once(E[a]) /\ x.number \notin Numbers(E[a])
    BY <1>1, Zenon DEF Exact
  <2>2. Once(Append(E[a], x)) /\ Numbers(Append(E[a], x)) = Numbers(E[a]) \cup {x.number}
    BY <2>1, AlsoPut, Zenon
  <2> QED
    BY <2>2, Zenon
<1>3. \A p \in Places : p # a => M(p) = N(p)
  BY Zenon
<1>4. \A p \in Places : Once(F[p])
  BY <1>2, Zenon DEF Exact
<1> HIDE DEF N, M
<1>5. ASSUME NEW m, NEW p \in Places, m \in M(p)
      PROVE  (m # n => m \in N(p)) /\ (m = n => p = a)
  <2>1. CASE p = a
    BY <1>2, <1>5, <2>1, Zenon
  <2>2. CASE p # a
    <3>1. m \in N(p)
      BY <1>3, <1>5, <2>2, Zenon
    <3> QED
      BY <1>1, <3>1, Zenon
  <2> QED
    BY <2>1, <2>2, Zenon
<1>6. ASSUME NEW m, NEW p \in Places, m \in N(p) PROVE m \in M(p)
  BY <1>2, <1>3, <1>6, Zenon
<1>7. n \in M(a)
  BY <1>2, Zenon
<1>8. \A p, q \in Places : p # q => M(p) \cap M(q) = {}
  <2> SUFFICES ASSUME NEW p \in Places, NEW q \in Places, p # q, NEW m, m \in M(p), m \in M(q)
               PROVE  FALSE
    BY Zenon
  <2>1. m # n => m \in N(p) /\ m \in N(q)
    BY <1>5, Zenon
  <2>2. m = n => p = a /\ q = a
    BY <1>5, Zenon
  <2> QED
    BY <1>1, <2>1, <2>2, Zenon
<1>9. ASSUME NEW m PROVE m \in S \cup {n} <=> \E p \in Places : m \in M(p)
  <2>1. ASSUME NEW p \in Places, m \in M(p) PROVE m \in S \/ m = n
    BY <1>1, <1>5, <2>1, Zenon
  <2>2. m \in S => \E p \in Places : m \in M(p)
    BY <1>1, <1>6, Zenon
  <2>3. m = n => \E p \in Places : m \in M(p)
    BY <1>7, Zenon
  <2> QED
    BY <2>1, <2>2, <2>3, Zenon
<1> QED
  BY <1>4, <1>8, <1>9, Zenon DEF Exact, M

\* The steps that move an event: it is put on a channel, taken from it, and sent.  No other
\* step does.
Quiet ==
  /\ UNCHANGED <<queue, created, dropped, kafka>>
  /\ \A b \in Buses : /\ publisher'[b].holds = publisher[b].holds
                      /\ publisher'[b].at = "sending" <=> publisher[b].at = "sending"
                      /\ publisher[b].at = "sending" => publisher'[b].events = publisher[b].events

LEMMA CancelKeeps ==
  ASSUME TypeInv, publisher' = CancelPublisher
  PROVE  \A b \in Buses : /\ publisher'[b].holds = publisher[b].holds
                          /\ publisher'[b].at = publisher[b].at
                          /\ publisher'[b].events = publisher[b].events
<1>1. \A b \in Buses :
        LET c == [publisher[b] EXCEPT !.cancelled = TRUE]
        IN  c.holds = publisher[b].holds /\ c.at = publisher[b].at /\ c.events = publisher[b].events
  BY Zenon DEF TypeInv, Publishers
<1>2. \A b \in Buses : \/ publisher'[b] = publisher[b]
                       \/ publisher'[b] = [publisher[b] EXCEPT !.cancelled = TRUE]
  BY Zenon DEF CancelPublisher
<1> QED
  BY <1>1, <1>2, Zenon

LEMMA EventCases ==
  ASSUME BoundsAssumption, TypeInv, PublisherInv, [Next]_vars
  PROVE  \/ Quiet \/ sendOutEventOnKafka
         \/ \E b \in Buses : Take(b) \/ SendOut(b)
<1> USE DEF message, event
<1>p. publisher \in [Buses -> Publishers]
  BY Zenon DEF TypeInv
<1>1. ASSUME UNCHANGED <<queue, created, dropped, kafka, publisher>> PROVE Quiet
  BY <1>1, Zenon DEF Quiet
<1>2. ASSUME UNCHANGED event, publisher' = CancelPublisher PROVE Quiet
  BY <1>2, CancelKeeps, Zenon DEF Quiet
<1>3. CASE StartManagingDevice \/ CreateInventory \/ StopMetricGenerator \/ NoProducer
  BY <1>1, <1>3, Zenon DEF StartManagingDevice, CreateInventory, StopMetricGenerator, NoProducer
<1>4. CASE StopManagingDevice \/ SetMsgBusEndpoint
  BY <1>2, <1>4, Zenon DEF StopManagingDevice, SetMsgBusEndpoint
<1>5. CASE StartPublishers
  <2> DEFINE p == [publisher[bus] EXCEPT !.at = "reading", !.metrics = metricChannel,
                                         !.events = eventChannel]
  <2>1. bus \in Buses /\ publisher[bus].at = "none" /\ publisher[bus] \in Publishers
    BY <1>5, Zenon DEF StartPublishers, TypeInv, PublisherInv
  <2>2. publisher' = [publisher EXCEPT ![bus] = p] /\ UNCHANGED event
    BY <1>5, Zenon DEF StartPublishers
  <2>3. p.at = "reading" /\ p.holds = publisher[bus].holds
    BY <2>1, Zenon DEF Publishers
  <2> HIDE DEF p
  <2>4. publisher'[bus] = p /\ \A b \in Buses : b # bus => publisher'[b] = publisher[b]
    BY <1>p, <2>1, <2>2, Zenon
  <2> QED
    BY <2>1, <2>2, <2>3, <2>4, Zenon DEF Quiet
<1>6. ASSUME NEW s \in Sessions, GeneratorStep(s) PROVE Quiet
  <2>1. UNCHANGED message /\ UNCHANGED event
    BY <1>6, Zenon DEF GeneratorStep, CopyConfig, Stopped, EndRound, CheckMetric,
                       updateConfiguredMetrics, Report
  <2> QED
    BY <1>1, <2>1, Zenon
<1>7. ASSUME NEW b \in Buses, EndPublisher(b) PROVE Quiet
  <2>1. /\ publisher[b].at = "reading" /\ publisher[b] \in Publishers /\ UNCHANGED event
        /\ publisher' = [publisher EXCEPT ![b] = [publisher[b] EXCEPT !.at = "ended"]]
    BY <1>7, <1>p, Zenon DEF EndPublisher
  <2>2. /\ publisher'[b].at = "ended" /\ publisher'[b].holds = publisher[b].holds
        /\ \A c \in Buses : c # b => publisher'[c] = publisher[c]
    BY <1>p, <2>1, Zenon DEF Publishers
  <2> QED
    BY <2>1, <2>2, Zenon DEF Quiet
<1>8. CASE EventStep
  <2>1. \/ sendOutEventOnKafka
        \/ UNCHANGED <<queue, created, dropped, kafka, publisher>>
    BY <1>8, Zenon DEF EventStep, UpdateEventConfig, CreateEvent, NoComponent
  <2> QED
    BY <1>1, <2>1, Zenon
<1>9. CASE UpdateMetricsConfiguration \/ (\E m \in Metrics : Elapse(m)) \/ UNCHANGED vars
  <2>1. UNCHANGED message /\ UNCHANGED event
    BY <1>9, Zenon DEF UpdateMetricsConfiguration, UpdateMetricConfig, Elapse, vars
  <2> QED
    BY <1>1, <2>1, Zenon
<1> QED
  BY <1>3, <1>4, <1>5, <1>6, <1>7, <1>8, <1>9, Cases, Zenon DEF PublisherStep

LEMMA TakeMoves ==
  ASSUME BoundsAssumption, TypeInv, NEW b \in Buses, Take(b)
  PROVE  LET s == publisher[b].events
         IN  /\ s \in Sessions /\ queue[s] \in Seq(Event) /\ queue[s] # <<>>
             /\ queue'[s] = Tail(queue[s]) /\ \A r \in Sessions : r # s => queue'[r] = queue[r]
             /\ publisher[b].at = "reading" /\ publisher'[b].at = "sending"
             /\ publisher'[b].holds = <<Head(queue[s])>> /\ publisher'[b].events = s
             /\ \A c \in Buses : c # b => publisher'[c] = publisher[c]
             /\ UNCHANGED created /\ UNCHANGED dropped /\ UNCHANGED kafka /\ UNCHANGED disorder
<1> DEFINE s == publisher[b].events
           held == <<Head(queue[s])>>
           q == Tail(queue[s])
<1>1. publisher \in [Buses -> Publishers] /\ publisher[b] \in Publishers /\ queue \in [Sessions -> Channels]
  BY Zenon DEF TypeInv
<1>2. /\ s # 0 /\ queue[s] # <<>> /\ publisher[b].at = "reading"
      /\ publisher' = [publisher EXCEPT ![b] = [publisher[b] EXCEPT !.at = "sending", !.holds = held]]
      /\ queue' = [queue EXCEPT ![s] = q]
      /\ UNCHANGED created /\ UNCHANGED dropped /\ UNCHANGED kafka /\ UNCHANGED disorder
  BY Zenon DEF Take
<1>3. s \in Sessions
  <2>1. s \in 0..MaxSessions
    BY <1>1, Zenon DEF Publishers
  <2> QED
    BY <1>2, <2>1 DEF Sessions, BoundsAssumption
<1> HIDE DEF held, q
<1>4. queue'[s] = q /\ \A r \in Sessions : r # s => queue'[r] = queue[r]
  BY <1>1, <1>2, <1>3, Zenon
<1>5. /\ publisher'[b].at = "sending" /\ publisher'[b].holds = held /\ publisher'[b].events = s
      /\ \A c \in Buses : c # b => publisher'[c] = publisher[c]
  BY <1>1, <1>2, Zenon DEF Publishers
<1>6. queue[s] \in Seq(Event)
  BY <1>1, <1>3, Zenon DEF Channels, Event
<1> QED
  BY <1>2, <1>3, <1>4, <1>5, <1>6, Zenon DEF held, q

LEMMA SendMoves ==
  ASSUME TypeInv, HoldInv, NEW b \in Buses, SendOut(b)
  PROVE  /\ \E x \in Event : /\ publisher[b].holds = <<x>> /\ x.session = publisher[b].events
                             /\ kafka' = Append(kafka, x)
         /\ kafka \in Seq(Event) /\ publisher[b].at = "sending"
         /\ publisher'[b].at = "reading" /\ publisher'[b].holds = <<>>
         /\ \A c \in Buses : c # b => publisher'[c] = publisher[c]
         /\ UNCHANGED created /\ UNCHANGED dropped /\ UNCHANGED queue /\ UNCHANGED disorder
<1>1. publisher \in [Buses -> Publishers] /\ publisher[b] \in Publishers /\ kafka \in Seq(Event)
  BY Zenon DEF TypeInv, HoldInv, Channels, Event
<1>2. /\ publisher[b].at = "sending" /\ kafka' = kafka \o publisher[b].holds
      /\ publisher' = [publisher EXCEPT ![b] = [publisher[b] EXCEPT !.at = "reading", !.holds = <<>>]]
      /\ UNCHANGED created /\ UNCHANGED dropped /\ UNCHANGED queue /\ UNCHANGED disorder
  BY Zenon DEF SendOut
<1>3. PICK x \in Event : publisher[b].holds = <<x>> /\ x.session = publisher[b].events
  BY <1>2, Zenon DEF HoldInv, Event
<1>4. kafka' = Append(kafka, x)
  BY <1>1, <1>2, <1>3, PutAt, Zenon
<1>5. /\ publisher'[b].at = "reading" /\ publisher'[b].holds = <<>>
      /\ \A c \in Buses : c # b => publisher'[c] = publisher[c]
  BY <1>1, <1>2, Zenon DEF Publishers
<1> QED
  BY <1>1, <1>2, <1>3, <1>4, <1>5, Zenon

LEMMA PutMoves ==
  ASSUME TypeInv, sendOutEventOnKafka
  PROVE  /\ eventChannel \in Sessions /\ NewEvent \in Event /\ NewEvent.session = eventChannel
         /\ NewEvent.number = created + 1 /\ created \in Nat /\ created' = created + 1
         /\ \A s \in Sessions : queue[s] \in Seq(Event)
         /\ UNCHANGED kafka /\ UNCHANGED publisher /\ UNCHANGED disorder
         /\ \/ /\ queue'[eventChannel] = Append(queue[eventChannel], NewEvent)
               /\ \A r \in Sessions : r # eventChannel => queue'[r] = queue[r]
               /\ UNCHANGED dropped
            \/ UNCHANGED queue /\ dropped' = dropped \cup {created + 1}
<1>1. /\ eventChannel \in Sessions /\ queue \in [Sessions -> Channels]
      /\ UNCHANGED kafka /\ UNCHANGED publisher /\ UNCHANGED disorder /\ created' = created + 1
  BY Zenon DEF sendOutEventOnKafka, TypeInv, message
<1>2. created \in Nat /\ created + 1 \in Nat /\ eventChannel \in 0..MaxSessions
  BY <1>1 DEF TypeInv, TypeOK, Sessions
<1>3. NewEvent \in Event /\ NewEvent.session = eventChannel /\ NewEvent.number = created + 1
  BY <1>2, Zenon DEF NewEvent, Event
<1>4. \A s \in Sessions : queue[s] \in Seq(Event)
  BY <1>1, Zenon DEF Channels, Event
<1>5. \/ queue' = [queue EXCEPT ![eventChannel] = Append(queue[eventChannel], NewEvent)] /\ UNCHANGED dropped
      \/ UNCHANGED queue /\ dropped' = dropped \cup {created + 1}
  BY Zenon DEF sendOutEventOnKafka
<1> QED
  BY <1>1, <1>2, <1>3, <1>4, <1>5, Zenon

LEMMA HoldStep ==
  ASSUME BoundsAssumption, TypeInv, PublisherInv, HoldInv, [Next]_vars
  PROVE  HoldInv'
<1>1. CASE Quiet
  BY <1>1, ZenonT(30) DEF Quiet, HoldInv
<1>2. CASE sendOutEventOnKafka
  <2> DEFINE c == eventChannel
             q == queue[c]
  <2>1. UNCHANGED kafka /\ UNCHANGED publisher
    BY <1>2, PutMoves, Zenon
  <2>2. ASSUME NEW s \in Sessions, NEW j \in 1..Len(queue'[s]) PROVE queue'[s][j].session = s
    <3>1. CASE queue'[s] = queue[s]
      BY <2>2, <3>1, Zenon DEF HoldInv
    <3>2. CASE s = c /\ queue'[s] = Append(queue[s], NewEvent)
      <4>1. queue[s] \in Seq(Event) /\ NewEvent \in Event /\ NewEvent.session = s
        BY <1>2, <3>2, PutMoves, Zenon
      <4> DEFINE n == Len(queue[s])
                 a == Append(queue[s], NewEvent)
      <4>2. /\ Len(a) = n + 1 /\ n \in Nat /\ a[n + 1] = NewEvent
            /\ \A i \in 1..n : a[i] = queue[s][i]
        BY <4>1, PutAt, Zenon
      <4>3. queue'[s] = a
        BY <3>2, Zenon
      <4>4. \A i \in 1..n : queue[s][i].session = s
        BY Zenon DEF HoldInv
      <4> HIDE DEF a, n
      <4>5. j \in 1..(n + 1)
        BY <2>2, <4>2, <4>3, Zenon
      <4>6. j \in 1..n \/ j = n + 1
        BY <4>2, <4>5
      <4>7. a[j].session = s
        BY <4>1, <4>2, <4>4, <4>6, Zenon
      <4> QED
        BY <4>3, <4>7, Zenon
    <3> QED
      BY <1>2, <3>1, <3>2, PutMoves, Zenon
  <2> QED
    BY <2>1, <2>2, Zenon DEF HoldInv
<1>3. ASSUME NEW b \in Buses, Take(b) PROVE HoldInv'
  <2> DEFINE s == publisher[b].events
             q == queue[s]
  <2>1. /\ s \in Sessions /\ q \in Seq(Event) /\ q # <<>>
        /\ queue'[s] = Tail(q) /\ \A r \in Sessions : r # s => queue'[r] = queue[r]
        /\ publisher'[b].at = "sending" /\ publisher'[b].holds = <<Head(q)>>
        /\ publisher'[b].events = s
        /\ \A c \in Buses : c # b => publisher'[c] = publisher[c]
        /\ UNCHANGED kafka
    BY <1>3, TakeMoves, Zenon
  <2> HIDE DEF s
  <2>2. /\ Head(q) = q[1] /\ q[1] \in Event /\ Len(q) \in Nat /\ Len(q) >= 1
        /\ Len(Tail(q)) = Len(q) - 1 /\ \A i \in 1..(Len(q) - 1) : Tail(q)[i] = q[i + 1]
    BY <2>1, TakenAt, Zenon
  <2>3. 1 \in 1..Len(q) /\ \A i \in 1..(Len(q) - 1) : i + 1 \in 1..Len(q)
    BY <2>2
  <2>4. \A i \in 1..Len(q) : q[i].session = s
    BY <2>1, Zenon DEF HoldInv
  <2>5. \A j \in 1..Len(Tail(q)) : Tail(q)[j].session = s
    BY <2>2, <2>3, <2>4, ZenonT(30)
  <2>6. ASSUME NEW r \in Sessions PROVE \A j \in 1..Len(queue'[r]) : queue'[r][j].session = r
    <3>1. CASE r = s
      BY <2>1, <2>5, <3>1, Zenon
    <3>2. CASE r # s
      <4>1. queue'[r] = queue[r]
        BY <2>1, <3>2, Zenon
      <4> QED
        BY <4>1, Zenon DEF HoldInv
    <3> QED
      BY <3>1, <3>2, Zenon
  <2>7. ASSUME NEW c \in Buses
        PROVE  /\ publisher'[c].at # "sending" => publisher'[c].holds = <<>>
               /\ publisher'[c].at = "sending" =>
                    \E x \in Event : publisher'[c].holds = <<x>> /\ x.session = publisher'[c].events
    <3>1. CASE c = b
      <4>1. q[1].session = s
        BY <2>3, <2>4, Zenon
      <4> QED
        BY <2>1, <2>2, <3>1, <4>1, Zenon
    <3>2. CASE c # b
      <4>1. publisher'[c] = publisher[c]
        BY <2>1, <3>2, Zenon
      <4> QED
        BY <4>1, Zenon DEF HoldInv, Event
    <3> QED
      BY <3>1, <3>2, Zenon
  <2> QED
    BY <2>1, <2>6, <2>7, Zenon DEF HoldInv, Event
<1>4. ASSUME NEW b \in Buses, SendOut(b) PROVE HoldInv'
  <2>1. PICK x \in Event : kafka' = Append(kafka, x)
    BY <1>4, SendMoves, Zenon
  <2>2. kafka' \in Channels
    BY <1>4, <2>1, SendMoves, PutAt, Zenon DEF Channels, Event
  <2>3. /\ publisher'[b].at = "reading" /\ publisher'[b].holds = <<>>
        /\ \A c \in Buses : c # b => publisher'[c] = publisher[c]
        /\ UNCHANGED queue
    BY <1>4, SendMoves, Zenon
  <2> QED
    BY <2>2, <2>3, Zenon DEF HoldInv
<1> QED
  BY <1>1, <1>2, <1>3, <1>4, EventCases, Zenon

LEMMA PlaceStep ==
  ASSUME BoundsAssumption, TypeInv, PublisherInv, HoldInv, PlaceInv, [Next]_vars
  PROVE  PlaceInv'
<1> DEFINE k == <<"kafka", 0>>
           h(b) == <<"held", b>>
           c(s) == <<"queue", s>>
           E == EventsAt
           F == EventsAt'
           S == 1..created \ dropped
<1>k. /\ k \in Places /\ E[k] = kafka /\ F[k] = kafka'
      /\ \A b \in Buses : h(b) \in Places /\ E[h(b)] = publisher[b].holds /\ F[h(b)] = publisher'[b].holds
      /\ \A s \in Sessions : c(s) \in Places /\ E[c(s)] = queue[s] /\ F[c(s)] = queue'[s]
      /\ \A p \in Places : p = k \/ (\E b \in Buses : p = h(b)) \/ \E s \in Sessions : p = c(s)
  BY PlaceCases, PlacesNow, PlacesNext, Zenon
<1>d. /\ \A b \in Buses : k # h(b)
      /\ \A b \in Buses, s \in Sessions : h(b) # c(s)
  BY PlacesDiffer, Zenon
<1> HIDE DEF k, h, c
<1>n. dropped \subseteq 1..created /\ Exact(E, S)
  BY Zenon DEF PlaceInv
<1>e. ASSUME dropped' \subseteq 1..created', Exact(F, 1..created' \ dropped') PROVE PlaceInv'
  BY <1>e, Zenon DEF PlaceInv, Exact, Once, Numbers, Places, Buses, Sessions
<1> HIDE DEF E, F
<1>s. ASSUME \A p \in Places : F[p] = E[p] PROVE Exact(F, S)
  BY <1>n, <1>s, Zenon DEF Exact
<1>p. ASSUME NEW p \in Places, p = k => kafka' = kafka,
             \A b \in Buses : p = h(b) => publisher'[b].holds = publisher[b].holds,
             \A s \in Sessions : p = c(s) => queue'[s] = queue[s]
      PROVE  F[p] = E[p]
  <2>1. CASE p = k
    BY <1>k, <1>p, <2>1, Zenon
  <2>2. ASSUME NEW b \in Buses, p = h(b) PROVE F[p] = E[p]
    BY <1>k, <1>p, <2>2, Zenon
  <2>3. ASSUME NEW s \in Sessions, p = c(s) PROVE F[p] = E[p]
    BY <1>k, <1>p, <2>3, Zenon
  <2> QED
    BY <1>k, <2>1, <2>2, <2>3, Zenon
<1>1. CASE Quiet
  <2>1. \A p \in Places : F[p] = E[p]
    BY <1>1, <1>p, Zenon DEF Quiet
  <2>2. UNCHANGED created /\ UNCHANGED dropped
    BY <1>1, Zenon DEF Quiet
  <2> QED
    BY <1>e, <1>n, <1>s, <2>1, <2>2, Zenon
<1>2. CASE sendOutEventOnKafka
  <2> DEFINE s == eventChannel
             x == NewEvent
             n == created + 1
  <2>1. /\ s \in Sessions /\ x \in Event /\ x.number = n /\ created \in Nat /\ created' = n
        /\ queue[s] \in Seq(Event) /\ UNCHANGED kafka /\ UNCHANGED publisher
    BY <1>2, PutMoves, Zenon
  <2> HIDE DEF x
  <2>2. CASE UNCHANGED queue /\ dropped' = dropped \cup {n}
    <3>1. 1..created' \ dropped' = S /\ dropped' \subseteq 1..created'
      BY <1>n, <2>1, <2>2
    <3>2. \A p \in Places : F[p] = E[p]
      BY <1>p, <2>1, <2>2, Zenon
    <3> QED
      BY <1>e, <1>s, <3>1, <3>2, Zenon
  <2>3. CASE /\ queue'[s] = Append(queue[s], x) /\ \A r \in Sessions : r # s => queue'[r] = queue[r]
             /\ UNCHANGED dropped
    <3>1. /\ 1..created' \ dropped' = S \cup {n} /\ dropped' \subseteq 1..created'
          /\ n \notin S
      BY <1>n, <2>1, <2>3
    <3>2. ASSUME NEW p \in Places, p # c(s) PROVE F[p] = E[p]
      <4>1. \A r \in Sessions : p = c(r) => r # s
        BY <3>2, Zenon
      <4> QED
        BY <1>p, <2>1, <2>3, <4>1, Zenon
    <3>4. c(s) \in Places /\ E[c(s)] \in Seq(Event) /\ F[c(s)] = Append(E[c(s)], x)
      BY <1>k, <2>1, <2>3, Zenon
    <3> HIDE DEF S, n
    <3>3. Exact(F, S \cup {n})
      <4>1. x \in Event /\ x.number \notin S
        BY <2>1, <3>1, Zenon
      <4>2. Exact(F, S \cup {x.number})
        BY <1>n, <3>2, <3>4, <4>1, ExactAdded, Zenon
      <4> QED
        BY <2>1, <4>2, Zenon
    <3> QED
      BY <1>e, <3>1, <3>3, Zenon
  <2> QED
    BY <1>2, <2>2, <2>3, PutMoves, Zenon DEF x
<1>3. ASSUME NEW b \in Buses, Take(b) PROVE PlaceInv'
  <2> DEFINE s == publisher[b].events
             q == queue[s]
             x == Head(q)
  <2>1. /\ s \in Sessions /\ q \in Seq(Event) /\ q # <<>> /\ publisher[b].at # "sending"
        /\ queue'[s] = Tail(q) /\ \A r \in Sessions : r # s => queue'[r] = queue[r]
        /\ publisher'[b].holds = <<x>>
        /\ \A e \in Buses : e # b => publisher'[e] = publisher[e]
        /\ UNCHANGED created /\ UNCHANGED dropped /\ UNCHANGED kafka
    BY <1>3, TakeMoves, Zenon
  <2> HIDE DEF s
  <2>2. <<>> \in Seq(Event) /\ <<x>> = Append(<<>>, x)
    OBVIOUS
  <2>3. publisher[b].holds = <<>>
    BY <2>1, Zenon DEF HoldInv
  <2>4. ASSUME NEW p \in Places, p # c(s), p # h(b) PROVE F[p] = E[p]
    <3>1. /\ \A r \in Sessions : p = c(r) => r # s
          /\ \A e \in Buses : p = h(e) => e # b
      BY <2>4, Zenon
    <3> QED
      BY <1>p, <2>1, <3>1, Zenon
  <2>5. c(s) \in Places /\ h(b) \in Places /\ c(s) # h(b)
    BY <1>d, <1>k, <2>1, Zenon
  <2>6. E[c(s)] = q /\ F[c(s)] = Tail(q) /\ E[h(b)] = <<>> /\ F[h(b)] = <<x>>
    BY <1>k, <2>1, <2>3, Zenon
  <2>7. /\ E[c(s)] \in Seq(Event) /\ E[c(s)] # <<>> /\ E[h(b)] \in Seq(Event)
        /\ F[c(s)] = Tail(E[c(s)]) /\ F[h(b)] = Append(E[h(b)], Head(E[c(s)]))
    BY <2>1, <2>2, <2>6, Zenon
  <2>8. Exact(F, S)
    <3> HIDE DEF S, q, x
    <3>1. Goes(E, F, c(s), h(b))
      BY <2>4, <2>5, <2>7, Zenon DEF Goes
    <3> QED
      BY <1>n, <3>1, ExactMoved, Zenon
  <2> QED
    BY <1>e, <1>n, <2>1, <2>8, Zenon
<1>4. ASSUME NEW b \in Buses, SendOut(b) PROVE PlaceInv'
  <2>1. PICK x \in Event : publisher[b].holds = <<x>> /\ kafka' = Append(kafka, x)
    BY <1>4, SendMoves, Zenon
  <2>2. /\ kafka \in Seq(Event) /\ publisher'[b].holds = <<>>
        /\ \A e \in Buses : e # b => publisher'[e] = publisher[e]
        /\ UNCHANGED created /\ UNCHANGED dropped /\ UNCHANGED queue
    BY <1>4, SendMoves, Zenon
  <2>3. <<x>> \in Seq(Event) /\ <<x>> # <<>> /\ Tail(<<x>>) = <<>> /\ Head(<<x>>) = x
    OBVIOUS
  <2>4. ASSUME NEW p \in Places, p # h(b), p # k PROVE F[p] = E[p]
    <3>1. \A e \in Buses : p = h(e) => e # b
      BY <2>4, Zenon
    <3> QED
      BY <1>p, <2>2, <2>4, <3>1, Zenon
  <2>5. h(b) \in Places /\ k \in Places /\ h(b) # k
    BY <1>d, <1>k, Zenon
  <2>6. E[h(b)] = <<x>> /\ F[h(b)] = <<>> /\ E[k] = kafka /\ F[k] = Append(kafka, x)
    BY <1>k, <2>1, <2>2, Zenon
  <2>7. /\ E[h(b)] \in Seq(Event) /\ E[h(b)] # <<>> /\ E[k] \in Seq(Event)
        /\ F[h(b)] = Tail(E[h(b)]) /\ F[k] = Append(E[k], Head(E[h(b)]))
    BY <2>2, <2>3, <2>6, Zenon
  <2>8. Exact(F, S)
    <3> HIDE DEF S
    <3>1. Goes(E, F, h(b), k)
      BY <2>4, <2>5, <2>7, Zenon DEF Goes
    <3> QED
      BY <1>n, <3>1, ExactMoved, Zenon
  <2> QED
    BY <1>e, <1>n, <2>2, <2>8, Zenon
<1> QED
  BY <1>1, <1>2, <1>3, <1>4, EventCases, Zenon

LEMMA ReaderStep ==
  ASSUME BoundsAssumption, TypeInv, PublisherInv, ReaderInv, [Next]_vars
  PROVE  ReaderInv'
<1> USE DEF message, session_, Reads
<1>t. session \in Nat /\ \A b \in Buses : publisher[b].events \in Nat
  <2>1. \A b \in Buses : publisher[b].events \in 0..MaxSessions
    BY Zenon DEF TypeInv, Publishers
  <2> QED
    BY <2>1 DEF TypeInv, TypeOK
<1>o. Alone' => Alone
  BY OnRecord, Zenon DEF Alone
<1>1. CASE StartManagingDevice
  <2>1. /\ session' = session + 1 /\ eventChannel' = session + 1 /\ UNCHANGED message /\ handler' = "start"
    BY <1>1, Zenon DEF StartManagingDevice
  <2>2. \A b \in Buses : publisher[b].events <= session =>
                           publisher[b].events <= session + 1 /\ publisher[b].events # session + 1
    BY <1>t
  <2>3. \A b \in Buses : publisher'[b].at # "none" =>
          publisher'[b].events <= session' /\ publisher'[b].events # session'
    BY <2>1, <2>2, Zenon DEF ReaderInv
  <2> QED
    BY <1>o, <2>1, <2>3, Zenon DEF ReaderInv
<1>2. ASSUME UNCHANGED message, UNCHANGED session, UNCHANGED eventChannel,
             handler' # "bus", handler' = "stop" => ~managed',
             managed' /\ ~endpoint => managed
      PROVE  ReaderInv'
  BY <1>2, <1>o, Zenon DEF ReaderInv
<1>3. CASE CreateInventory \/ StopMetricGenerator \/ NoProducer
  BY <1>2, <1>3, Zenon DEF CreateInventory, StopMetricGenerator, NoProducer
<1>r. ASSUME \A c \in Buses : (Reads(c)' => Reads(c)) /\ publisher'[c].events = publisher[c].events,
             UNCHANGED session, UNCHANGED eventChannel, handler' = "stop" => ~managed',
             Alone' => (handler' = "bus" \/ (managed' /\ ~endpoint') =>
                          handler = "bus" \/ (managed /\ ~endpoint))
      PROVE  ReaderInv'
  <2> HIDE DEF Reads
  <2>1. Alone' => /\ \A b, c \in Buses : Reads(b)' /\ Reads(c)' /\ b # c =>
                       publisher'[b].events # publisher'[c].events
                  /\ handler' = "bus" \/ (managed' /\ ~endpoint') =>
                       \A b \in Buses : Reads(b)' => publisher'[b].events # session'
    BY <1>o, <1>r, Zenon DEF ReaderInv
  <2> QED
    BY <1>r, <2>1, Zenon DEF ReaderInv
<1>4. CASE StopManagingDevice
  <2>1. /\ UNCHANGED session /\ UNCHANGED eventChannel /\ handler' = "none" /\ ~managed'
        /\ publisher' = CancelPublisher
    BY <1>4, Zenon DEF StopManagingDevice, ReaderInv
  <2>2. \A b \in Buses : publisher'[b].at = publisher[b].at /\ publisher'[b].events = publisher[b].events
    BY <2>1, CancelKeeps, Zenon
  <2> QED
    BY <1>r, <2>1, <2>2, Zenon
<1>5. CASE SetMsgBusEndpoint
  <2>1. /\ UNCHANGED session /\ UNCHANGED eventChannel /\ handler' = "bus" /\ endpoint'
        /\ publisher' = CancelPublisher
        /\ Alone' => managed /\ ~endpoint
    BY <1>5, Zenon DEF SetMsgBusEndpoint, Disturbs, Alone
  <2>2. \A b \in Buses : publisher'[b].at = publisher[b].at /\ publisher'[b].events = publisher[b].events
    BY <2>1, CancelKeeps, Zenon
  <2> QED
    BY <1>r, <2>1, <2>2, Zenon
<1>6. CASE StartPublishers
  <2> DEFINE p == [publisher[bus] EXCEPT !.at = "reading", !.metrics = metricChannel,
                                         !.events = eventChannel]
  <2>1. bus \in Buses /\ publisher \in [Buses -> Publishers] /\ publisher[bus] \in Publishers
    BY <1>6, Zenon DEF StartPublishers, TypeInv
  <2>2. /\ publisher' = [publisher EXCEPT ![bus] = p] /\ handler = "bus" /\ handler' = "none"
        /\ UNCHANGED <<bus, endpoint, managed, session, eventChannel, disorder>>
    BY <1>6, Zenon DEF StartPublishers
  <2>3. p.events = session
    BY <2>1, Zenon DEF Publishers, ReaderInv
  <2> HIDE DEF p
  <2>4. publisher'[bus].events = session /\ \A b \in Buses : b # bus => publisher'[b] = publisher[b]
    BY <2>1, <2>2, <2>3, Zenon
  <2>5. endpoint'
    BY <2>2, Zenon DEF PublisherInv
  <2>6. session <= session
    BY <1>t
  <2>7. \A b \in Buses : Reads(b)' => publisher'[b].events <= session'
    BY <2>2, <2>4, <2>6, Zenon DEF ReaderInv
  <2>8. ASSUME Alone', NEW b \in Buses, NEW c \in Buses, Reads(b)', Reads(c)', b # c
        PROVE  publisher'[b].events # publisher'[c].events
    <3>1. \A e \in Buses : e # bus /\ Reads(e)' => publisher'[e].events # session
      BY <1>o, <2>2, <2>4, <2>8, Zenon DEF ReaderInv
    <3>2. CASE b = bus \/ c = bus
      BY <2>4, <2>8, <3>1, <3>2, Zenon
    <3>3. CASE b # bus /\ c # bus
      BY <1>o, <2>4, <2>8, <3>3, Zenon DEF ReaderInv
    <3> QED
      BY <3>2, <3>3, Zenon
  <2> QED
    BY <2>2, <2>5, <2>7, <2>8, Zenon DEF ReaderInv
<1>7. ASSUME NEW b \in Buses, PublisherStep(b) PROVE ReaderInv'
  <2>1. /\ UNCHANGED <<managed, session, eventChannel, handler, endpoint>>
        /\ \A c \in Buses : c # b => publisher'[c] = publisher[c]
        /\ publisher'[b].events = publisher[b].events
        /\ publisher[b].at # "none"
    BY <1>7, PublisherMoves, Zenon
  <2>2. \A c \in Buses : (Reads(c)' => Reads(c)) /\ publisher'[c].events = publisher[c].events
    BY <2>1, Zenon
  <2> QED
    BY <1>r, <2>1, <2>2, Zenon DEF ReaderInv
<1>8. ASSUME UNCHANGED <<session_, message>> PROVE ReaderInv'
  BY <1>8, <1>o, Zenon DEF ReaderInv
<1>9. ASSUME NEW s \in Sessions, GeneratorStep(s) PROVE ReaderInv'
  BY <1>8, <1>9, GeneratorMoves, Zenon
<1>10. CASE EventStep \/ UpdateMetricsConfiguration \/ (\E m \in Metrics : Elapse(m)) \/ UNCHANGED vars
  BY <1>8, <1>10, OthersMove, Zenon
<1> QED
  BY <1>1, <1>3, <1>4, <1>5, <1>6, <1>7, <1>9, <1>10, Cases, Zenon

\* The order of a channel, and of what the producer has.
LEMMA RisingPut ==
  ASSUME NEW q \in Seq(Event), NEW x \in Event, Rising(q), Below(Numbers(q), {x.number})
  PROVE  Rising(Append(q, x))
<1> DEFINE a == Append(q, x)
           n == Len(q)
<1>1. /\ n \in Nat /\ Len(a) = n + 1 /\ a[n + 1] = x
      /\ \A i \in 1..n : a[i] = q[i]
  BY PutAt, Zenon
<1>2. \A i \in 1..n : q[i].number < x.number
  BY Zenon DEF Below, Numbers
<1> HIDE DEF a
<1>3. ASSUME NEW i \in 1..(n + 1), NEW j \in 1..(n + 1), i < j PROVE a[i].number < a[j].number
  <2>1. i \in 1..n /\ (j \in 1..n \/ j = n + 1)
    BY <1>1, <1>3
  <2>2. j \in 1..n => q[i].number < q[j].number
    BY <1>3, <2>1, Zenon DEF Rising
  <2> QED
    BY <1>1, <1>2, <2>1, <2>2, Zenon
<1>4. Rising(a)
  BY <1>1, <1>3, Zenon DEF Rising
<1> QED
  BY <1>4, Zenon DEF a

LEMMA RisingTaken ==
  ASSUME NEW q \in Seq(Event), q # <<>>, Rising(q)
  PROVE  Rising(Tail(q)) /\ Below({Head(q).number}, Numbers(Tail(q)))
<1> DEFINE a == Tail(q)
           n == Len(q)
<1>1. /\ n \in Nat /\ n >= 1 /\ Len(a) = n - 1 /\ Head(q) = q[1]
      /\ \A i \in 1..(n - 1) : a[i] = q[i + 1]
  BY TakenAt, Zenon
<1>2. /\ \A i \in 1..(n - 1) : i + 1 \in 1..n /\ 1 < i + 1
      /\ \A i, j \in 1..(n - 1) : i < j => i + 1 < j + 1
      /\ 1 \in 1..n
  BY <1>1
<1> HIDE DEF a
<1>3. ASSUME NEW i \in 1..(n - 1), NEW j \in 1..(n - 1), i < j PROVE a[i].number < a[j].number
  <2>1. q[i + 1].number < q[j + 1].number
    BY <1>2, <1>3, Zenon DEF Rising
  <2> QED
    BY <1>1, <2>1, Zenon
<1>4. Rising(a)
  BY <1>1, <1>3, Zenon DEF Rising
<1>5. ASSUME NEW m \in Numbers(a) PROVE q[1].number < m
  <2>1. PICK i \in 1..(n - 1) : m = a[i].number
    BY <1>1, Zenon DEF Numbers
  <2>2. q[1].number < q[i + 1].number
    BY <1>2, Zenon DEF Rising
  <2> QED
    BY <1>1, <2>1, <2>2, Zenon
<1>6. Below({q[1].number}, Numbers(a))
  BY <1>5, Zenon DEF Below
<1> QED
  BY <1>1, <1>4, <1>6, Zenon DEF a

LEMMA InTurnPut ==
  ASSUME NEW q \in Seq(Event), NEW x \in Event, InTurn(q),
         Below(OfSession(q, x.session), {x.number})
  PROVE  /\ InTurn(Append(q, x))
         /\ \A s, m : m \in OfSession(Append(q, x), s) =>
              m \in OfSession(q, s) \/ (m = x.number /\ s = x.session)
<1> DEFINE a == Append(q, x)
           n == Len(q)
<1>1. /\ n \in Nat /\ Len(a) = n + 1 /\ a[n + 1] = x
      /\ \A i \in 1..n : a[i] = q[i]
  BY PutAt, Zenon
<1>2. ASSUME NEW i \in 1..n, q[i].session = x.session PROVE q[i].number < x.number
  <2>1. q[i].number \in OfSession(q, x.session)
    BY <1>2, Zenon DEF OfSession, Numbers
  <2> QED
    BY <2>1, Zenon DEF Below
<1>3. \A i \in 1..(n + 1) : i \in 1..n \/ i = n + 1
  BY <1>1
<1> HIDE DEF a
<1>4. ASSUME NEW i \in 1..(n + 1), NEW j \in 1..(n + 1), i < j, a[i].session = a[j].session
      PROVE  a[i].number < a[j].number
  <2>1. i \in 1..n /\ (j \in 1..n \/ j = n + 1)
    BY <1>1, <1>4
  <2>2. CASE j \in 1..n
    <3>1. q[i].session = q[j].session
      BY <1>1, <1>4, <2>1, <2>2, Zenon
    <3>2. q[i].number < q[j].number
      BY <1>4, <2>1, <2>2, <3>1, Zenon DEF InTurn
    <3> QED
      BY <1>1, <2>1, <2>2, <3>2, Zenon
  <2>3. CASE j = n + 1
    <3>1. a[i] = q[i] /\ a[j] = x
      BY <1>1, <2>1, <2>3, Zenon
    <3> QED
      BY <1>2, <1>4, <2>1, <3>1, Zenon
  <2> QED
    BY <2>1, <2>2, <2>3, Zenon
<1>5. InTurn(a)
  BY <1>1, <1>4, Zenon DEF InTurn
<1>6. ASSUME NEW s, NEW m \in OfSession(a, s) PROVE m \in OfSession(q, s) \/ (m = x.number /\ s = x.session)
  <2>1. PICK i \in 1..(n + 1) : a[i].session = s /\ a[i].number = m
    BY <1>1, Zenon DEF OfSession
  <2>2. CASE i \in 1..n
    <3>1. q[i].session = s /\ q[i].number = m
      BY <1>1, <2>1, <2>2, Zenon
    <3> QED
      BY <2>2, <3>1, Zenon DEF OfSession, Numbers
  <2>3. CASE i = n + 1
    BY <1>1, <2>1, <2>3, Zenon
  <2> QED
    BY <1>3, <2>2, <2>3, Zenon
<1> QED
  BY <1>5, <1>6, Zenon DEF a

LEMMA OneOf ==
  ASSUME NEW x
  PROVE  Numbers(<<x>>) = {x.number}
<1> DEFINE q == <<x>>
<1>1. Len(q) = 1 /\ q[1] = x
  OBVIOUS
<1>2. \A i : i \in 1..1 <=> i = 1
  OBVIOUS
<1> HIDE DEF q
<1>3. \A m : m \in Numbers(q) <=> m = x.number
  BY <1>1, <1>2, Zenon DEF Numbers
<1>4. Numbers(q) = {x.number}
  BY <1>3, Zenon
<1> QED
  BY <1>4, Zenon DEF q

\* A new event has a number above those of all others.
LEMMA AllBelow ==
  ASSUME PlaceInv, created \in Nat
  PROVE  /\ \A m \in Numbers(kafka) : m < created + 1
         /\ \A b \in Buses : \A m \in Numbers(publisher[b].holds) : m < created + 1
         /\ \A s \in Sessions : \A m \in Numbers(queue[s]) : m < created + 1
<1>1. ASSUME NEW p \in Places, NEW m \in Numbers(EventsAt[p]) PROVE m < created + 1
  <2>1. m \in 1..created
    BY Zenon DEF PlaceInv, Exact
  <2> QED
    BY <2>1
<1> QED
  BY <1>1, PlaceCases, PlacesNow, Zenon

LEMMA OrderInvStep ==
  ASSUME BoundsAssumption, TypeInv, PublisherInv, HoldInv, PlaceInv, ReaderInv, OrderInv, [Next]_vars
  PROVE  OrderInv'
<1> SUFFICES ASSUME Alone' PROVE OrderInv'
  BY Zenon DEF OrderInv
<1>o. Alone
  BY OnRecord, Zenon DEF Alone
<1>k. InTurn(kafka)
  BY <1>o, Zenon DEF OrderInv
<1>q. \A s \in Sessions : Rising(queue[s]) /\ Below(OfSession(kafka, s), Numbers(queue[s]))
  BY <1>o, Zenon DEF OrderInv
<1>h. \A b \in Buses : publisher[b].at = "sending" =>
        /\ Below(OfSession(kafka, publisher[b].events), Numbers(publisher[b].holds))
        /\ \A s \in Sessions : publisher[b].events = s =>
             Below(Numbers(publisher[b].holds), Numbers(queue[s]))
  BY <1>o, Zenon DEF OrderInv
<1>e. ASSUME InTurn(kafka'),
             \A s \in Sessions : Rising(queue'[s]) /\ Below(OfSession(kafka', s), Numbers(queue'[s])),
             \A b \in Buses : publisher'[b].at = "sending" =>
               /\ Below(OfSession(kafka', publisher'[b].events), Numbers(publisher'[b].holds))
               /\ \A s \in Sessions : publisher'[b].events = s =>
                    Below(Numbers(publisher'[b].holds), Numbers(queue'[s]))
      PROVE  OrderInv'
  BY <1>e, Zenon DEF OrderInv
<1>1. CASE Quiet
  <2>1. /\ kafka' = kafka /\ queue' = queue
        /\ \A b \in Buses : publisher'[b].at = "sending" =>
             /\ publisher[b].at = "sending" /\ publisher'[b].holds = publisher[b].holds
             /\ publisher'[b].events = publisher[b].events
    BY <1>1, Zenon DEF Quiet
  <2>2. ASSUME NEW b \in Buses, publisher'[b].at = "sending"
        PROVE  /\ Below(OfSession(kafka', publisher'[b].events), Numbers(publisher'[b].holds))
               /\ \A s \in Sessions : publisher'[b].events = s =>
                    Below(Numbers(publisher'[b].holds), Numbers(queue'[s]))
    BY <1>h, <2>1, <2>2, Zenon
  <2> QED
    BY <1>e, <1>k, <1>q, <2>1, <2>2, Zenon
<1>2. CASE sendOutEventOnKafka
  <2> DEFINE c == eventChannel
             q == queue[c]
             x == NewEvent
             n == created + 1
  <2>1. /\ c \in Sessions /\ x \in Event /\ x.number = n /\ created \in Nat
        /\ q \in Seq(Event) /\ kafka' = kafka /\ publisher' = publisher
        /\ \/ queue'[c] = Append(q, x) /\ \A r \in Sessions : r # c => queue'[r] = queue[r]
           \/ queue' = queue
    BY <1>2, PutMoves, Zenon
  <2>2. /\ \A m \in Numbers(kafka) : m < n
        /\ \A b \in Buses : \A m \in Numbers(publisher[b].holds) : m < n
        /\ \A s \in Sessions : \A m \in Numbers(queue[s]) : m < n
    BY <2>1, AllBelow, Zenon
  <2> HIDE DEF n, x, c
  <2>3. Below(Numbers(q), {x.number})
    BY <2>1, <2>2, Zenon DEF Below
  <2>4. Rising(Append(q, x))
    BY <1>q, <2>1, <2>3, RisingPut, Zenon
  <2>5. \A m \in Numbers(Append(q, x)) : m \in Numbers(q) \/ m = n
    <3>1. n \notin Numbers(q)
      <4>1. ~(n < n)
        BY <2>1 DEF n
      <4> QED
        BY <2>1, <2>2, <4>1, Zenon
    <3>2. Once(q)
      BY <2>1, PlaceCases, PlacesNow, Zenon DEF PlaceInv, Exact
    <3>3. Numbers(Append(q, x)) = Numbers(q) \cup {x.number}
      BY <2>1, <3>1, <3>2, AlsoPut, Zenon
    <3> QED
      BY <2>1, <3>3, Zenon
  <2>6. ASSUME NEW s \in Sessions PROVE \A m \in Numbers(queue'[s]) : m \in Numbers(queue[s]) \/ m = n
    BY <2>1, <2>5, Zenon
  <2>7. ASSUME NEW s \in Sessions PROVE Rising(queue'[s])
    BY <1>q, <2>1, <2>4, Zenon
  <2>8. ASSUME NEW s \in Sessions PROVE Below(OfSession(kafka', s), Numbers(queue'[s]))
    <3>1. \A m \in OfSession(kafka, s) : m \in Numbers(kafka)
      BY Zenon DEF OfSession
    <3>2. \A m \in OfSession(kafka, s), j \in Numbers(queue[s]) : m < j
      BY <1>q, Zenon DEF Below
    <3>3. \A m \in OfSession(kafka, s), j \in Numbers(queue'[s]) : m < j
      BY <2>2, <2>6, <3>1, <3>2, Zenon
    <3> QED
      BY <2>1, <3>3, Zenon DEF Below
  <2>9. ASSUME NEW b \in Buses, publisher[b].at = "sending", NEW s \in Sessions, publisher[b].events = s
        PROVE  Below(Numbers(publisher[b].holds), Numbers(queue'[s]))
    <3>1. \A m \in Numbers(publisher[b].holds), j \in Numbers(queue[s]) : m < j
      BY <1>h, <2>9, Zenon DEF Below
    <3>2. \A m \in Numbers(publisher[b].holds), j \in Numbers(queue'[s]) : m < j
      BY <2>2, <2>6, <3>1, Zenon
    <3> QED
      BY <3>2, Zenon DEF Below
  <2> QED
    BY <1>e, <1>k, <1>h, <2>1, <2>7, <2>8, <2>9, Zenon
<1>3. ASSUME NEW b \in Buses, Take(b) PROVE OrderInv'
  <2> DEFINE s == publisher[b].events
             q == queue[s]
             x == Head(q)
  <2>1. /\ s \in Sessions /\ q \in Seq(Event) /\ q # <<>>
        /\ queue'[s] = Tail(q) /\ \A r \in Sessions : r # s => queue'[r] = queue[r]
        /\ publisher'[b].holds = <<x>> /\ publisher'[b].events = s
        /\ \A e \in Buses : e # b => publisher'[e] = publisher[e]
        /\ kafka' = kafka
    BY <1>3, TakeMoves, Zenon
  <2> HIDE DEF s
  <2>2. Rising(Tail(q)) /\ Below({x.number}, Numbers(Tail(q)))
    BY <1>q, <2>1, RisingTaken, Zenon
  <2>3. Numbers(Tail(q)) \subseteq Numbers(q) /\ x.number \in Numbers(q)
    <3>1. Once(q)
      BY <2>1, PlaceCases, PlacesNow, Zenon DEF PlaceInv, Exact
    <3>2. Numbers(Tail(q)) = Numbers(q) \ {x.number} /\ x.number \in Numbers(q)
      BY <2>1, <3>1, AlsoTaken, Zenon
    <3> QED
      BY <3>2, Zenon
  <2> HIDE DEF q, x
  <2>4. ASSUME NEW r \in Sessions PROVE Rising(queue'[r]) /\ Numbers(queue'[r]) \subseteq Numbers(queue[r])
    <3>1. CASE r = s
      BY <2>1, <2>2, <2>3, <3>1, Zenon DEF q
    <3>2. CASE r # s
      BY <1>q, <2>1, <3>2, Zenon
    <3> QED
      BY <3>1, <3>2, Zenon
  <2>5. ASSUME NEW r \in Sessions PROVE Below(OfSession(kafka', r), Numbers(queue'[r]))
    <3>1. Below(OfSession(kafka, r), Numbers(queue[r]))
      BY <1>q, Zenon
    <3> QED
      BY <2>1, <2>4, <3>1, Zenon DEF Below
  <2>6. /\ Below(OfSession(kafka', s), Numbers(publisher'[b].holds))
        /\ Below(Numbers(publisher'[b].holds), Numbers(queue'[s]))
    <3>1. Numbers(publisher'[b].holds) = {x.number}
      BY <2>1, OneOf, Zenon
    <3>2. Below(OfSession(kafka, s), Numbers(q))
      BY <1>q, <2>1, Zenon DEF q
    <3>3. Below(OfSession(kafka, s), {x.number})
      BY <2>3, <3>2, Zenon DEF Below
    <3> QED
      BY <2>1, <2>2, <3>1, <3>3, Zenon
  <2>7. ASSUME NEW e \in Buses, publisher'[e].at = "sending"
        PROVE  /\ Below(OfSession(kafka', publisher'[e].events), Numbers(publisher'[e].holds))
               /\ \A r \in Sessions : publisher'[e].events = r =>
                    Below(Numbers(publisher'[e].holds), Numbers(queue'[r]))
    <3>1. CASE e = b
      BY <2>1, <2>6, <3>1, Zenon
    <3>2. CASE e # b
      <4>1. publisher'[e] = publisher[e]
        BY <2>1, <3>2, Zenon
      <4>2. Below(OfSession(kafka, publisher[e].events), Numbers(publisher[e].holds))
        BY <1>h, <2>7, <4>1, Zenon
      <4>3. ASSUME NEW r \in Sessions, publisher[e].events = r
            PROVE  Below(Numbers(publisher[e].holds), Numbers(queue'[r]))
        <5>1. Below(Numbers(publisher[e].holds), Numbers(queue[r]))
          BY <1>h, <2>7, <4>1, <4>3, Zenon
        <5> QED
          BY <2>4, <5>1, Zenon DEF Below
      <4> QED
        BY <2>1, <4>1, <4>2, <4>3, Zenon
    <3> QED
      BY <3>1, <3>2, Zenon
  <2> QED
    BY <1>e, <1>k, <2>1, <2>4, <2>5, <2>7, Zenon
<1>4. ASSUME NEW b \in Buses, SendOut(b) PROVE OrderInv'
  <2>1. PICK x \in Event : /\ publisher[b].holds = <<x>> /\ x.session = publisher[b].events
                           /\ kafka' = Append(kafka, x)
    BY <1>4, SendMoves, Zenon
  <2>2. /\ kafka \in Seq(Event) /\ publisher[b].at = "sending" /\ publisher'[b].at = "reading"
        /\ \A e \in Buses : e # b => publisher'[e] = publisher[e]
        /\ queue' = queue
    BY <1>4, SendMoves, Zenon
  <2>3. Numbers(publisher[b].holds) = {x.number}
    BY <2>1, OneOf, Zenon
  <2>4. Below(OfSession(kafka, x.session), {x.number})
    BY <1>h, <2>1, <2>2, <2>3, Zenon
  <2>5. /\ InTurn(Append(kafka, x))
        /\ \A s, m : m \in OfSession(Append(kafka, x), s) =>
             m \in OfSession(kafka, s) \/ (m = x.number /\ s = x.session)
    BY <1>k, <2>2, <2>4, InTurnPut, Zenon
  <2>6. ASSUME NEW s \in Sessions PROVE Below(OfSession(kafka', s), Numbers(queue'[s]))
    <3>1. \A m \in OfSession(kafka, s), j \in Numbers(queue[s]) : m < j
      BY <1>q, Zenon DEF Below
    <3>2. s = x.session => \A j \in Numbers(queue[s]) : x.number < j
      BY <1>h, <2>1, <2>2, <2>3, Zenon DEF Below
    <3>3. \A m \in OfSession(kafka', s) : m \in OfSession(kafka, s) \/ (m = x.number /\ s = x.session)
      BY <2>1, <2>5, Zenon
    <3>4. \A m \in OfSession(kafka', s), j \in Numbers(queue[s]) : m < j
      BY <3>1, <3>2, <3>3, Zenon
    <3> QED
      BY <2>2, <3>4, Zenon DEF Below
  <2>7. ASSUME NEW e \in Buses, publisher'[e].at = "sending"
        PROVE  /\ Below(OfSession(kafka', publisher'[e].events), Numbers(publisher'[e].holds))
               /\ \A r \in Sessions : publisher'[e].events = r =>
                    Below(Numbers(publisher'[e].holds), Numbers(queue'[r]))
    <3>1. e # b /\ publisher'[e] = publisher[e]
      BY <2>2, <2>7, Zenon
    <3>2. publisher[e].events # x.session
      BY <1>o, <2>1, <2>2, <2>7, <3>1, Zenon DEF ReaderInv, Reads
    <3>3. \A m \in OfSession(kafka', publisher[e].events) : m \in OfSession(kafka, publisher[e].events)
      BY <2>1, <2>5, <3>2, Zenon
    <3>4. Below(OfSession(kafka, publisher[e].events), Numbers(publisher[e].holds))
      BY <1>h, <2>7, <3>1, Zenon
    <3>5. Below(OfSession(kafka', publisher[e].events), Numbers(publisher[e].holds))
      BY <3>3, <3>4, Zenon DEF Below
    <3>6. ASSUME NEW r \in Sessions, publisher[e].events = r
          PROVE  Below(Numbers(publisher[e].holds), Numbers(queue[r]))
      BY <1>h, <2>7, <3>1, <3>6, Zenon
    <3> QED
      BY <2>2, <3>1, <3>5, <3>6, Zenon
  <2>8. InTurn(kafka')
    BY <2>1, <2>5, Zenon
  <2>9. \A s \in Sessions : Rising(queue'[s])
    BY <1>q, <2>2, Zenon
  <2> QED
    BY <1>e, <2>6, <2>7, <2>8, <2>9, Zenon
<1> QED
  BY <1>1, <1>2, <1>3, <1>4, EventCases, Zenon

\* Each event that was put on a channel (sendOutEventOnKafka) is in one place, once: taken
\* by the producer, held by one publisher, or on the channel of its session; none is lost
\* and none is sent twice, whatever the calls do.  And the producer gets the events of each
\* session in their order, when the endpoint is set once in a session and only for a managed
\* device (SetMsgBusEndpoint, DMKafkaPublisher).
THEOREM EventsStayInOrder ==
  ASSUME BoundsAssumption
  PROVE  Spec => []EventsInOrder
<1> DEFINE Inv == /\ TypeInv /\ CopyInv /\ PublisherInv /\ ReaderInv
                  /\ HoldInv /\ PlaceInv /\ OrderInv
<1>1. Init => Inv
  <2> SUFFICES ASSUME Init PROVE Inv
    BY Zenon
  <2>1. /\ \A b \in Buses : /\ publisher[b].at = "none" /\ ~publisher[b].cancelled
                            /\ publisher[b].holds = <<>>
        /\ \A s \in Sessions : queue[s] = <<>>
    BY Zenon DEF Init
  <2>2. /\ session = 0 /\ eventChannel = 0 /\ bus = 0 /\ ~managed /\ ~endpoint /\ handler = "none"
        /\ endpoint \in BOOLEAN /\ kafka = <<>> /\ created = 0 /\ dropped = {}
    BY Zenon DEF Init
  <2>3. \A b \in Buses : ~(b <= 0)
    BY DEF Buses
  <2>4. PublisherInv /\ ReaderInv
    BY <2>1, <2>2, <2>3, Zenon DEF PublisherInv, ReaderInv, Reads
  <2>5. <<>> \in Channels /\ \A i : i \notin 1..Len(<<>>)
    BY DEF Channels
  <2>6. HoldInv
    BY <2>1, <2>2, <2>5, Zenon DEF HoldInv
  <2>7. /\ Once(<<>>) /\ \A n : n \notin Numbers(<<>>)
        /\ Rising(<<>>) /\ InTurn(<<>>)
    BY <2>5, Zenon DEF Once, Numbers, Rising, InTurn
  <2>8. PlaceInv
    <3>1. \A p \in Places : EventsAt[p] = <<>>
      BY <2>1, <2>2, PlaceCases, PlacesNow, Zenon
    <3>2. \A n : n \notin 1..created \ dropped
      BY <2>2
    <3>3. Exact(EventsAt, 1..created \ dropped)
      <4> DEFINE S == 1..created \ dropped
      <4> HIDE DEF S
      <4>1. \A n : n \in S <=> \E p \in Places : n \in Numbers(EventsAt[p])
        BY <2>7, <3>1, <3>2, Zenon DEF S
      <4>2. Exact(EventsAt, S)
        BY <2>7, <3>1, <4>1, Zenon DEF Exact
      <4> QED
        BY <4>2, Zenon DEF S
    <3> QED
      BY <2>2, <3>3, Zenon DEF PlaceInv
  <2>9. OrderInv
    <3>1. \A s : Below(OfSession(kafka, s), Numbers(<<>>))
      BY <2>7, Zenon DEF Below
    <3> QED
      BY <2>1, <2>2, <2>7, <3>1, Zenon DEF OrderInv
  <2>10. CopyInv
    <3>1. \A s \in Sessions : generator[s].at = "none" /\ generator[s].todo = {}
      BY Zenon DEF Init
    <3> QED
      BY <3>1, Zenon DEF CopyInv
  <2> QED
    BY <2>4, <2>6, <2>8, <2>9, <2>10, TypeInit, Zenon
<1>2. Inv /\ [Next]_vars => Inv'
  <2> SUFFICES ASSUME Inv, [Next]_vars PROVE Inv'
    BY Zenon
  <2>1. TypeInv' /\ CopyInv' /\ PublisherInv' /\ ReaderInv'
    BY TypeStep, CopyStep, PublisherInvStep, ReaderStep, Zenon
  <2>2. HoldInv' /\ PlaceInv' /\ OrderInv'
    BY HoldStep, PlaceStep, OrderInvStep, Zenon
  <2> QED
    BY <2>1, <2>2, Zenon
<1>3. Inv => EventsInOrder
  <2> SUFFICES ASSUME Inv PROVE EventsInOrder
    BY Zenon
  <2> DEFINE U == UNION {Numbers(EventsAt[p]) : p \in Places}
             S == 1..created \ dropped
  <2>1. \A n : n \in U <=> \E p \in Places : n \in Numbers(EventsAt[p])
    OBVIOUS
  <2>2. /\ \A n : n \in S <=> \E p \in Places : n \in Numbers(EventsAt[p])
        /\ \A p \in Places : Once(EventsAt[p])
        /\ \A p, q \in Places : p # q => Numbers(EventsAt[p]) \cap Numbers(EventsAt[q]) = {}
    BY Zenon DEF PlaceInv, Exact
  <2> HIDE DEF U, S
  <2>3. U = S
    BY <2>1, <2>2, Zenon
  <2>4. disorder \cap {"again", "order"} = {} => InTurn(kafka)
    BY Zenon DEF OrderInv, Alone
  <2> QED
    BY <2>2, <2>3, <2>4, Zenon DEF EventsInOrder, U, S, InTurn
<1> QED
  BY <1>1, <1>2, <1>3, PTL DEF Spec
=============================================================================
