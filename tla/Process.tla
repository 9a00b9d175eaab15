------------------------------ MODULE Process ------------------------------
(* The BBSim process (src/cmd/bbsim/bbsim.go): the steps of main, the servers that a
   WaitGroup counts and a channel tells to stop, the web server that counts the images it
   serves, and the events that the devices publish through a channel that a goroutine
   forwards to Kafka.  What runs behind the servers is in the other modules.          *)
EXTENDS Integers, Sequences, FiniteSets, SequencesExt

CONSTANTS
  Devices,     \* the goroutines of the OLT and of the ONUs that publish events
  Capacity,    \* of the channel of the events, 100 in the code
  MaxEvents,   \* bound on the events of a goroutine
  Clients      \* the requests for images

VARIABLES
  main,           \* the step main is at
  started,        \* the goroutine of each server: it has ended, with group.Done or without
  listening,      \* the servers that accept requests
  group,          \* the counter of the WaitGroup
  apiDoneChannel, \* "open" or "closed"
  eventChannel,   \* whether it was made, and the events on it
  device,         \* the events of each goroutine, and whether it blocks for ever
  publisher,      \* the goroutine of KafkaPublisher, with the event it holds
  kafka,          \* the events that the producer has taken
  imageRequests,  \* the counter
  image,          \* the request of each client, with the counter it has read
  fault           \* what has gone wrong: "listen", "register", "producer", "early": an
                  \* event before there is a channel, "overlap": two requests for images

servers == <<started, listening, group, apiDoneChannel>>
events == <<eventChannel, device, publisher, kafka>>
images == <<imageRequests, image>>
processVars == <<main, servers, events, images, fault>>

Waiting == {"api", "rest", "legacy", "legacyRest"}
Servers == Waiting \cup {"sadis"}

\* CreateOLT has initialized the OLT, which serves its clients, and has not made the
\* channel of the events yet.
ProcessInit ==
  /\ main = "created"
  /\ started = [s \in Servers |-> "none"]
  /\ listening = {}
  /\ group = 0
  /\ apiDoneChannel = "open"
  /\ eventChannel = [made |-> FALSE, queue |-> <<>>]
  /\ device = [d \in Devices |-> [sent |-> 0, stuck |-> FALSE]]
  /\ publisher = [at |-> "none", holds |-> <<>>]
  /\ kafka = <<>>
  /\ imageRequests = 0
  /\ image = [c \in Clients |-> [at |-> "none", read |-> 0]]
  /\ fault = {}

\* The bound: one fault in a behaviour.
Faulty(what) == fault \subseteq {what} /\ fault' = {what}
----------------------------------------------------------------------------
(* main.                                                                     *)

Goes(from, to) == main = from /\ main' = to

EventChannel ==
  /\ Goes("created", "ready")
  /\ eventChannel' = [eventChannel EXCEPT !.made = TRUE]
  /\ UNCHANGED <<servers, device, publisher, kafka, images, fault>>

StartServers ==
  /\ Goes("ready", "started")
  /\ group' = Cardinality(Servers)
  /\ started' = [s \in Servers |-> IF s \in {"api", "legacy", "sadis"} THEN "starting" ELSE "none"]
  /\ UNCHANGED <<listening, apiDoneChannel, events, images, fault>>

\* A producer that cannot be made is logged, no more.
InitializePublisher ==
  /\ Goes("started", "waiting")
  /\ \/ publisher' = [publisher EXCEPT !.at = "reading"] /\ UNCHANGED fault
     \/ Faulty("producer") /\ UNCHANGED publisher
  /\ UNCHANGED <<servers, eventChannel, device, kafka, images>>

Wait ==
  /\ Goes("waiting", "off")
  /\ group = 0
  /\ UNCHANGED <<servers, events, images, fault>>

\* The goroutine that waits for SIGTERM.
Terminate ==
  /\ main \in {"started", "waiting"}
  /\ apiDoneChannel = "open"
  /\ apiDoneChannel' = "closed"
  /\ UNCHANGED <<main, started, listening, group, events, images, fault>>
----------------------------------------------------------------------------
(* The servers.                                                              *)

\* The gRPC servers start the REST gateway in front of them.
Gateway == [api |-> "rest", legacy |-> "legacyRest"]

Listen(s) ==
  /\ started[s] = "starting"
  /\ started' = [t \in Servers |-> IF t = s THEN "serving"
                                   ELSE IF s \in DOMAIN Gateway /\ t = Gateway[s] THEN "starting"
                                   ELSE started[t]]
  /\ listening' = listening \cup {s}
  /\ UNCHANGED <<main, group, apiDoneChannel, events, images, fault>>

\* A server without its port ends the process; a gateway that cannot register its
\* handlers returns, and does not call group.Done.
ListenFails(s) ==
  /\ started[s] = "starting"
  /\ IF s \in {"rest", "legacyRest"}
     THEN /\ Faulty("register")
          /\ started' = [started EXCEPT ![s] = "left"]
          /\ UNCHANGED main
     ELSE /\ Faulty("listen")
          /\ main' = "fatal"
          /\ UNCHANGED started
  /\ UNCHANGED <<listening, group, apiDoneChannel, events, images>>

\* What a receive from a closed channel returns.
Received == FALSE

\* Mutant: a gateway calls group.Done for its server as well.
CallsDoneTwice(s) == IF s \in {"rest", "legacyRest"} THEN 2 ELSE 1

\* Three of the goroutines call group.Done whatever they receive, the one of the
\* legacy gateway only for TRUE.
CallsDone(s) == IF s # "legacyRest" \/ Received THEN 1 ELSE 0

\* Mutant: the goroutine of a server waits on for TRUE.
StopWhenTold(s) ==
  /\ s \in Waiting
  /\ started[s] = "serving"
  /\ apiDoneChannel = "closed" /\ Received
  /\ listening' = listening \ {s}
  /\ started' = [started EXCEPT ![s] = "done"]
  /\ group' = group - 1
  /\ UNCHANGED <<main, apiDoneChannel, events, images, fault>>

\* The goroutine of a server ends; the server stops when it has received TRUE.
Stop(s) ==
  /\ s \in Waiting
  /\ started[s] = "serving"
  /\ apiDoneChannel = "closed"
  /\ listening' = IF Received THEN listening \ {s} ELSE listening
  /\ started' = [started EXCEPT ![s] = IF CallsDone(s) = 0 THEN "left" ELSE "done"]
  /\ group' = group - CallsDone(s)
  /\ UNCHANGED <<main, apiDoneChannel, events, images, fault>>
----------------------------------------------------------------------------
(* The images of the web server: each request has a goroutine of its own, and no lock
   protects the counter.                                                     *)

GetImage(c) ==
  /\ "sadis" \in listening
  /\ image[c].at = "none"
  /\ IF \E b \in Clients : image[b].at = "counting" THEN Faulty("overlap") ELSE UNCHANGED fault
  /\ image' = [image EXCEPT ![c] = [at |-> "counting", read |-> imageRequests]]
  /\ UNCHANGED <<main, servers, events, imageRequests>>

CountImage(c) ==
  /\ image[c].at = "counting"
  /\ imageRequests' = image[c].read + 1
  /\ image' = [image EXCEPT ![c].at = "served", ![c].read = 0]
  /\ UNCHANGED <<main, servers, events, fault>>
----------------------------------------------------------------------------
(* The events.                                                               *)

\* Mutant: an event is dropped when the channel is full.
PublishOrDrop(d) ==
  /\ device[d].sent < MaxEvents /\ eventChannel.made
  /\ device' = [device EXCEPT ![d].sent = @ + 1]
  /\ eventChannel' = IF Len(eventChannel.queue) < Capacity
                     THEN [eventChannel EXCEPT !.queue = Append(@, <<d, device[d].sent + 1>>)]
                     ELSE eventChannel
  /\ UNCHANGED <<main, servers, publisher, kafka, images, fault>>

\* publishEvent waits for room on the channel.
PublishEvent(d) ==
  /\ device[d].sent < MaxEvents /\ eventChannel.made /\ ~device[d].stuck
  /\ Len(eventChannel.queue) < Capacity
  /\ device' = [device EXCEPT ![d].sent = @ + 1]
  /\ eventChannel' = [eventChannel EXCEPT !.queue = Append(@, <<d, device[d].sent + 1>>)]
  /\ UNCHANGED <<main, servers, publisher, kafka, images, fault>>

\* A send on the nil channel, before it is made, never ends.
PublishEarly(d) ==
  /\ ~eventChannel.made /\ ~device[d].stuck
  /\ Faulty("early")
  /\ device' = [device EXCEPT ![d].stuck = TRUE]
  /\ UNCHANGED <<main, servers, eventChannel, publisher, kafka, images>>

TakeEvent ==
  /\ publisher.at = "reading" /\ eventChannel.queue # <<>>
  /\ publisher' = [at |-> "sending", holds |-> <<Head(eventChannel.queue)>>]
  /\ eventChannel' = [eventChannel EXCEPT !.queue = Tail(@)]
  /\ UNCHANGED <<main, servers, device, kafka, images, fault>>

\* The producer takes the event when it is ready.
SendEvent ==
  /\ publisher.at = "sending"
  /\ kafka' = kafka \o publisher.holds
  /\ publisher' = [at |-> "reading", holds |-> <<>>]
  /\ UNCHANGED <<main, servers, eventChannel, device, images, fault>>
----------------------------------------------------------------------------
\* What main and the goroutines do by themselves, without a signal, a request or a
\* device that has an event.
ProcessGoroutine ==
  /\ main \notin {"off", "fatal"}
  /\ \/ EventChannel \/ StartServers \/ InitializePublisher \/ Wait
     \/ \E s \in Servers : Listen(s) \/ Stop(s)
     \/ \E c \in Clients : CountImage(c)
     \/ TakeEvent \/ SendEvent

ProcessNext ==
  /\ main \notin {"off", "fatal"}
  /\ \/ ProcessGoroutine
     \/ Terminate
     \/ \E s \in Servers : ListenFails(s)
     \/ \E c \in Clients : GetImage(c)
     \/ \E d \in Devices : PublishEvent(d) \/ PublishEarly(d)
----------------------------------------------------------------------------
ProcessTypeOK ==
  /\ main \in {"created", "ready", "started", "waiting", "off", "fatal"}
  /\ started \in [Servers -> {"none", "starting", "serving", "done", "left"}]
  /\ listening \subseteq Servers
  /\ apiDoneChannel \in {"open", "closed"}
  /\ Len(eventChannel.queue) <= Capacity
  /\ publisher.at \in {"none", "reading", "sending"} /\ Len(publisher.holds) <= 1
  /\ \A d \in Devices : device[d].sent \in 0..MaxEvents
  /\ fault \subseteq {"listen", "register", "producer", "early", "overlap"}

\* The WaitGroup counts the servers whose goroutine has not called group.Done, so that it
\* never becomes negative and main does not end before them; and images-count answers how
\* many images were served, unless two requests read the counter at the same time.
CountsExact ==
  /\ ProcessTypeOK
  /\ main \in {"started", "waiting", "off"} =>
       group = Cardinality({s \in Servers : started[s] # "done"})
  /\ "overlap" \notin fault =>
       imageRequests = Cardinality({c \in Clients : image[c].at = "served"})

\* Between publishEvent and the producer the events of a goroutine are neither lost nor
\* repeated nor reordered, also when the channel is full.
PublishedInOrder == \A d \in Devices :
  LET passed == kafka \o publisher.holds \o eventChannel.queue
      own == SelectSeq(passed, LAMBDA e : e[1] = d)
  IN own = [n \in 1..device[d].sent |-> <<d, n>>]

\* When main and the goroutines have nothing left to do, which they come to by
\* themselves, every event that a device published has reached the producer, and none
\* waits for room on the channel - if there is a producer, and the OLT is left alone until
\* CreateOLT has made the channel; and after SIGTERM the goroutines of all API servers
\* have ended, also of one that has started late.
Settles ==
  main \notin {"off", "fatal"} /\ ~ENABLED ProcessGoroutine =>
    /\ fault \cap {"producer", "early"} = {} =>
         /\ Len(eventChannel.queue) = 0 /\ \A d \in Devices : ~device[d].stuck
         /\ \A d \in Devices : device[d].sent > 0 => Contains(kafka, <<d, device[d].sent>>)
    /\ apiDoneChannel = "closed" => \A s \in Waiting : started[s] \in {"done", "left"}
============================================================================
