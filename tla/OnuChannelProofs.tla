--------------------------- MODULE OnuChannelProofs ---------------------------
(***************************************************************************)
(* Proofs about OnuChannel, for any flows, handlers, drivers, goroutines   *)
(* and channels of any capacity.                                           *)
(***************************************************************************)
EXTENDS OnuChannel, TLAPS

-----------------------------------------------------------------------------
Concatenates(r, u, v) ==
    /\ Len(r) = Len(u) + Len(v)
    /\ \A i \in 1..Len(u) : r[i] = u[i]
    /\ \A i \in 1..Len(v) : r[Len(u) + i] = v[i]

LEMMA Concatenation ==
    ASSUME NEW S, NEW u \in Seq(S), NEW v \in Seq(S)
    PROVE  u \o v \in Seq(S) /\ Concatenates(u \o v, u, v)
BY DEF Concatenates

-----------------------------------------------------------------------------
(***************************************************************************)
(* The inductive invariant.                                                *)
(***************************************************************************)

Steps == {"make", "disc", "indication", "down", "unis", "close"}
Add(f) == Msg("add", f)
Rem(f) == Msg("remove", f)
Sent == {Add(f) : f \in Flow} \cup {Rem(f) : f \in Flow} \cup {Nothing, Routine, Plain("uni")}
Loops == [at : {"none", "ready", "wait", "flow", "close"}, ch : 0..MaxChannel, ctx : Nat, msg : Sent]

\* What a driver has left to do: alarms are sent first or after the initialization.
Progs == {p \in Seq(Ops) : \A i \in 2..Len(p) : p[i] = "alarm" => i = 2 /\ p[1] = "initialize"}
Spawns(p) == \E i \in 1..Len(p) : p[i] = "spawn"

\* The types, with those of the callbacks and of the messages that are really sent.
TypeInv ==
    /\ state \in OnuStates
    /\ callback \in {Calm} \cup (Driver \X Steps)
    /\ prog \in [Driver -> Progs]
    /\ channel \in 0..MaxChannel
    /\ queue \in [Channels -> Seq(Sent)]
    /\ \A c \in Channels : Len(queue[c]) <= Capacity
    /\ closed \subseteq 1..channel
    /\ FlowIds \in Seq(Flow)
    /\ uniUp \in BOOLEAN
    /\ loop \in [Loop -> Loops]
    /\ context \in Nat
    /\ pending \in [Sender -> Sent]
    /\ installed \subseteq Flow
    /\ died \in BOOLEAN
    /\ overtaken \subseteq {"close", "removal", "reconnection"}

Kept == "close" \notin overtaken
Alone == overtaken \subseteq {"removal"}

\* A goroutine that handles a message of the channel or closes it; one that receives from
\* the channel of the ONU, or will when it selects again.
Busy(l) == loop[l].at \in {"flow", "close"}
Current(l) == loop[l].at \in {"ready", "flow", "close"} \/ (loop[l].at = "wait" /\ loop[l].ch = channel)

\* The callbacks hold the mutex of the machine.
CallbackInv ==
    /\ InCallback("make") => state = "initialized"
    /\ InCallback("down") \/ InCallback("unis") \/ InCallback("close") => state = "disabled"

\* Goroutines receive from channels that were made, and handle only messages of the channel
\* of the ONU: nothing is left in an earlier one.
LoopInv ==
    \A l \in Loop : /\ loop[l].ch \in 0..channel
                    /\ Busy(l) => loop[l].ch # 0
                    /\ Kept /\ Busy(l) => loop[l].ch = channel
QueueInv == Kept => \A c \in Channels : c # channel => queue[c] = <<>>

\* A goroutine that is about to close the channel has found the ONU disabled without flows.
BusyInv ==
    Kept => \A l \in Loop : loop[l].at = "close" =>
                /\ state = "disabled" \/ InCallback("make")
                /\ overtaken = {} => FlowIds = <<>>

\* Nobody sends to a channel that is closed, or closes it again.
NoEvents(q) == \A i \in 1..Len(q) : q[i].type \notin Eventful
AlarmsWait == \A d \in Driver : Head1(d, "alarm") => callback # Calm /\ callback[1] = d
Shut ==
    /\ (state = "disabled" /\ callback = Calm) \/ InCallback("make")
    /\ \A s \in Sender : pending[s] = Nothing
    /\ NoEvents(queue[channel])
    /\ \A l \in Loop : ~Busy(l)
    /\ AlarmsWait
    /\ overtaken = {} => FlowIds = <<>>
ClosedInv == Kept /\ channel \in closed => Shut
DiedInv == Kept => ~died

\* Until VOLTHA connects again one goroutine is current, and only a reconnection starts
\* one without a channel.
ReceiverInv ==
    Alone =>
        /\ \A l, k \in Loop : Current(l) /\ Current(k) => l = k
        /\ \A l \in Loop : Live(l) => loop[l].ctx = context
        /\ \A d \in Driver : ~Spawns(prog[d])

\* Before the first channel is made there is nothing but a power-on.
ZeroInv ==
    channel = 0 =>
        /\ FlowIds = <<>> /\ installed = {} /\ \A s \in Sender : pending[s] = Nothing
        /\ \/ InCallback("make")
           \/ callback = Calm /\ state = "created" /\ \A d \in Driver : prog[d] # <<>> => Head1(d, "initialize")
-----------------------------------------------------------------------------
(***************************************************************************)
(* What the steps do.                                                      *)
(***************************************************************************)

LEMMA Pairs == \A d, x : <<d, x>> # Calm /\ <<d, x>>[1] = d /\ <<d, x>>[2] = x
BY DEF Calm

LEMMA SentTypes ==
    /\ Nothing \in Sent /\ Routine \in Sent /\ Plain("uni") \in Sent
    /\ \A f \in Flow : Add(f) \in Sent /\ Rem(f) \in Sent
    /\ Sent \subseteq Messages
    /\ \A m \in Sent : /\ m.type \in {"none", "routine", "uni"} \/ m.flow \in Flow
                       /\ m.type = "none" <=> m = Nothing
                       /\ m.type \in Eventful => m.type \in {"add", "remove", "uni"}
<1>1. /\ Nothing \in Sent /\ Routine \in Sent /\ Plain("uni") \in Sent
      /\ \A f \in Flow : Add(f) \in Sent /\ Rem(f) \in Sent
    BY Zenon DEF Sent
<1>2. /\ Nothing.type = "none" /\ Routine.type = "routine" /\ Plain("uni").type = "uni"
      /\ {Nothing, Routine, Plain("uni")} \subseteq Messages
    BY DEF Nothing, Routine, Plain, Msg, Messages, Types
<1>3. ASSUME NEW f \in Flow
      PROVE  /\ Add(f).type = "add" /\ Rem(f).type = "remove" /\ Add(f).flow \in Flow /\ Rem(f).flow \in Flow
             /\ Add(f) \in Messages /\ Rem(f) \in Messages
    BY DEF Add, Rem, Msg, Messages, Types
<1>4. ASSUME NEW m \in Sent
      PROVE  /\ m \in Messages
             /\ m.type \in {"none", "routine", "uni"} \/ m.flow \in Flow
             /\ m.type = "none" <=> m = Nothing
  <2>1. CASE m \in {Nothing, Routine, Plain("uni")}
    BY <1>2, <2>1
  <2>2. CASE \E f \in Flow : m \in {Add(f), Rem(f)}
    BY <1>2, <1>3, <2>2
  <2> QED
    BY <2>1, <2>2, Zenon DEF Sent
<1> QED
    BY <1>1, <1>4, Zenon DEF Eventful

LEMMA TypesFollow == TypeInv => ChannelTypeOK
<1> SUFFICES ASSUME TypeInv PROVE ChannelTypeOK
    BY Zenon
<1>1. callback = Calm \/ (callback[1] \in Driver /\ callback[2] \in Steps)
    BY DEF TypeInv
<1>3. prog \in [Driver -> Seq(Ops)]
  <2>1. Progs \subseteq Seq(Ops)
    BY Zenon DEF Progs
  <2>2. prog \in [Driver -> Progs]
    BY Zenon DEF TypeInv
  <2> QED
    BY <2>1, <2>2, Zenon
<1>2. /\ queue \in [Channels -> Seq(Messages)] /\ pending \in [Sender -> Messages]
      /\ loop \in [Loop -> [at : {"none", "ready", "wait", "flow", "close"},
                            ch : 0..MaxChannel, ctx : Nat, msg : Messages]]
  <2>1. Sent \subseteq Messages
    BY SentTypes, Zenon
  <2>2. queue \in [Channels -> Seq(Sent)] /\ pending \in [Sender -> Sent] /\ loop \in [Loop -> Loops]
    BY Zenon DEF TypeInv
  <2>3. Seq(Sent) \subseteq Seq(Messages)
    BY <2>1
  <2>4. Loops \subseteq [at : {"none", "ready", "wait", "flow", "close"},
                         ch : 0..MaxChannel, ctx : Nat, msg : Messages]
    BY <2>1 DEF Loops
  <2> QED
    BY <2>1, <2>2, <2>3, <2>4, Zenon
<1> QED
    BY <1>1, <1>2, <1>3, Zenon DEF TypeInv, ChannelTypeOK, Steps

LEMMA Sending ==
    ASSUME TypeInv, NEW m \in Sent, Send(m)
    PROVE  /\ channel \in Channels
           /\ queue' \in [Channels -> Seq(Sent)] /\ \A c \in Channels : Len(queue'[c]) <= Capacity
           /\ \A c \in Channels : c # channel => queue'[c] = queue[c]
           /\ died' \in BOOLEAN
           /\ channel \in closed => died' /\ queue' = queue
           /\ channel \notin closed => died' = died /\ queue'[channel] = Append(queue[channel], m)
<1>1. channel \in Channels
    BY CapacityAssumption, SMTT(30) DEF TypeInv, Send, Channels
<1>2. /\ queue \in [Channels -> Seq(Sent)] /\ \A c \in Channels : Len(queue[c]) <= Capacity
      /\ died \in BOOLEAN
    BY Zenon DEF TypeInv
<1>3. CASE channel \in closed
    BY <1>1, <1>2, <1>3, Zenon DEF Send
<1>4. CASE channel \notin closed
  <2> DEFINE q == Append(queue[channel], m)
  <2>1. /\ queue' = [queue EXCEPT ![channel] = q] /\ died' = died
        /\ Len(queue[channel]) < Capacity /\ queue[channel] \in Seq(Sent)
    BY <1>1, <1>2, <1>4, Zenon DEF Send
  <2>2. q \in Seq(Sent) /\ Len(q) <= Capacity
    BY <2>1, CapacityAssumption
  <2> HIDE DEF q
  <2>3. queue'[channel] = q /\ \A c \in Channels : c # channel => queue'[c] = queue[c]
    BY <1>1, <1>2, <2>1, Zenon
  <2>4. queue' \in [Channels -> Seq(Sent)]
    BY <1>2, <2>1, <2>2, Zenon
  <2>5. \A c \in Channels : Len(queue'[c]) <= Capacity
    BY <1>2, <2>2, <2>3, Zenon
  <2> QED
    BY <1>1, <1>2, <1>4, <2>1, <2>3, <2>4, <2>5, Zenon DEF q
<1> QED
    BY <1>3, <1>4, Zenon

LEMMA Taking ==
    ASSUME TypeInv, NEW c \in Channels, queue[c] # <<>>, queue' = [queue EXCEPT ![c] = Tail(@)]
    PROVE  /\ queue' \in [Channels -> Seq(Sent)] /\ \A k \in Channels : Len(queue'[k]) <= Capacity
           /\ \A k \in Channels : k # c => queue'[k] = queue[k]
           /\ queue'[c] = Tail(queue[c])
           /\ Head(queue[c]) \in Sent /\ queue[c] \in Seq(Sent)
<1>1. queue \in [Channels -> Seq(Sent)] /\ (\A k \in Channels : Len(queue[k]) <= Capacity) /\ queue[c] \in Seq(Sent)
    BY Zenon DEF TypeInv
<1> DEFINE q == Tail(queue[c])
<1>2. q \in Seq(Sent) /\ Len(q) <= Capacity /\ Head(queue[c]) \in Sent
  <2>1. Len(queue[c]) <= Capacity
    BY <1>1, Zenon
  <2> QED
    BY <1>1, <2>1, CapacityAssumption
<1> HIDE DEF q
<1>3. queue' = [queue EXCEPT ![c] = q]
    BY Zenon DEF q
<1>4. queue'[c] = q /\ \A k \in Channels : k # c => queue'[k] = queue[k]
    BY <1>1, <1>3, Zenon
<1>5. queue' \in [Channels -> Seq(Sent)]
    BY <1>1, <1>2, <1>3, Zenon
<1>6. \A k \in Channels : Len(queue'[k]) <= Capacity
    BY <1>1, <1>2, <1>4, Zenon
<1> QED
    BY <1>1, <1>2, <1>4, <1>5, <1>6, Zenon DEF q

\* Only goroutine l moves, and to r.
Moves(l, r) ==
    /\ loop' \in [Loop -> Loops] /\ loop'[l] = r
    /\ \A k \in Loop : k # l => loop'[k] = loop[k]

LEMMA Moving ==
    ASSUME TypeInv, NEW l \in Loop, NEW r \in Loops, loop' = [loop EXCEPT ![l] = r]
    PROVE  Moves(l, r)
BY Zenon DEF TypeInv, Moves

LEMMA LoopFields ==
    ASSUME TypeInv, NEW l \in Loop
    PROVE  /\ loop[l] \in Loops
           /\ loop[l].at \in {"none", "ready", "wait", "flow", "close"} /\ loop[l].ch \in 0..MaxChannel
           /\ loop[l].ctx \in Nat /\ loop[l].msg \in Sent
BY Zenon DEF TypeInv, Loops

LEMMA GoingTo ==
    ASSUME TypeInv, NEW l \in Loop, NEW at \in {"ready", "flow", "close"}, GoTo(l, at)
    PROVE  \E r \in Loops : /\ Moves(l, r)
                            /\ r.at = at /\ r.ch = loop[l].ch /\ r.ctx = loop[l].ctx /\ r.msg = loop[l].msg
<1> DEFINE r == [loop[l] EXCEPT !.at = at]
<1>1. r \in Loops /\ r.at = at /\ r.ch = loop[l].ch /\ r.ctx = loop[l].ctx /\ r.msg = loop[l].msg
    BY LoopFields DEF Loops
<1>2. loop' = [loop EXCEPT ![l] = r]
    BY Zenon DEF GoTo
<1> HIDE DEF r
<1> QED
    BY <1>1, <1>2, Moving, Zenon

LEMMA Ending ==
    ASSUME TypeInv, NEW l \in Loop, End(l)
    PROVE  Moves(l, NoLoop) /\ NoLoop.at = "none" /\ NoLoop.ch = 0 /\ NoLoop.msg = Nothing
<1>1. NoLoop \in Loops /\ NoLoop.at = "none" /\ NoLoop.ch = 0 /\ NoLoop.msg = Nothing
    BY SentTypes, CapacityAssumption DEF NoLoop, Loops
<1> QED
    BY <1>1, Moving, Zenon DEF End

LEMMA Spawning ==
    ASSUME TypeInv, NEW l \in Loop, Spawn(l)
    PROVE  /\ loop[l].at = "none"
           /\ \E r \in Loops : /\ Moves(l, r)
                               /\ r.at = "ready" /\ r.ch = 0 /\ r.ctx = context /\ r.msg = Nothing
<1> DEFINE r == [NoLoop EXCEPT !.at = "ready", !.ctx = context]
<1>1. r \in Loops /\ r.at = "ready" /\ r.ch = 0 /\ r.ctx = context /\ r.msg = Nothing
  <2>1. context \in Nat /\ Nothing \in Sent
    BY SentTypes, Zenon DEF TypeInv
  <2>2. NoLoop \in Loops /\ NoLoop.ch = 0 /\ NoLoop.msg = Nothing
    BY <2>1, CapacityAssumption DEF NoLoop, Loops
  <2> QED
    BY <2>1, <2>2, Zenon DEF Loops
<1>2. loop' = [loop EXCEPT ![l] = r]
    BY Zenon DEF Spawn
<1> HIDE DEF r
<1> QED
    BY <1>1, <1>2, Moving, Zenon DEF Spawn

LEMMA Selecting ==
    ASSUME TypeInv, NEW l \in Loop, Select(l)
    PROVE  /\ loop[l].at = "ready"
           /\ \E r \in Loops : /\ Moves(l, r)
                               /\ r.at = "wait" /\ r.ch = channel /\ r.ctx = loop[l].ctx /\ r.msg = Nothing
<1> DEFINE r == [loop[l] EXCEPT !.at = "wait", !.ch = channel, !.msg = Nothing]
<1>1. r \in Loops /\ r.at = "wait" /\ r.ch = channel /\ r.ctx = loop[l].ctx /\ r.msg = Nothing
  <2>1. channel \in 0..MaxChannel /\ Nothing \in Sent
    BY SentTypes, Zenon DEF TypeInv
  <2> QED
    BY <2>1, LoopFields, Zenon DEF Loops
<1>2. loop' = [loop EXCEPT ![l] = r]
    BY Zenon DEF Select
<1> HIDE DEF r
<1> QED
    BY <1>1, <1>2, Moving, Zenon DEF Select

LEMMA Receiving ==
    ASSUME TypeInv, NEW l \in Loop, Receive(l)
    PROVE  /\ loop[l].at = "wait" /\ loop[l].ctx = context
           /\ loop[l].ch \in Channels /\ queue[loop[l].ch] # <<>>
           /\ queue' = [queue EXCEPT ![loop[l].ch] = Tail(@)]
           /\ Head(queue[loop[l].ch]) \in Sent
           /\ \E r \in Loops : /\ Moves(l, r)
                               /\ r.ch = loop[l].ch /\ r.ctx = loop[l].ctx /\ r.msg = Head(queue[loop[l].ch])
                               /\ r.at = IF r.msg.type \in Eventful THEN "flow" ELSE "ready"
<1> DEFINE c == loop[l].ch
           m == Head(queue[c])
           at == IF m.type \in Eventful THEN "flow" ELSE "ready"
           r == [loop[l] EXCEPT !.msg = m, !.at = at]
<1>1. c \in Channels
    BY LoopFields, CapacityAssumption DEF Receive, Channels
<1>2. queue[c] # <<>> /\ queue' = [queue EXCEPT ![c] = Tail(@)] /\ loop' = [loop EXCEPT ![l] = r]
    BY Zenon DEF Receive, Eventful
<1>3. m \in Sent
  <2> HIDE DEF c, m
  <2> QED
    BY <1>1, <1>2, Taking, ZenonT(30) DEF m
<1>4. at \in {"flow", "ready"}
    BY Zenon
<1>5. r \in Loops /\ r.at = at /\ r.ch = loop[l].ch /\ r.ctx = loop[l].ctx /\ r.msg = m
  <2>1. loop[l] \in Loops
    BY LoopFields, Zenon
  <2> HIDE DEF c, m, at
  <2> QED
    BY <1>3, <1>4, <2>1, Zenon DEF Loops
<1>6. Moves(l, r)
  <2> HIDE DEF r
  <2> QED
    BY <1>2, <1>5, Moving, Zenon
<1> QED
    BY <1>1, <1>2, <1>3, <1>5, <1>6, Zenon DEF Receive

LEMMA Cancelling ==
    ASSUME TypeInv, NEW l \in Loop, Cancelled(l)
    PROVE  /\ loop[l].at = "wait" /\ loop[l].ctx # context
           /\ \/ queue' = queue
              \/ /\ loop[l].ch \in Channels /\ queue[loop[l].ch] # <<>>
                 /\ queue' = [queue EXCEPT ![loop[l].ch] = Tail(@)]
<1>1. loop[l].ch # 0 => loop[l].ch \in Channels
    BY LoopFields, CapacityAssumption DEF Channels
<1> QED
    BY <1>1, Zenon DEF Cancelled

\* Only driver d moves, and has p left to do.
Continues(d, p) ==
    /\ prog' \in [Driver -> Progs] /\ prog'[d] = p
    /\ \A o \in Driver : o # d => prog'[o] = prog[o]

LEMMA Continuing ==
    ASSUME TypeInv, NEW d \in Driver, NEW p \in Progs, prog' = [prog EXCEPT ![d] = p]
    PROVE  Continues(d, p)
BY Zenon DEF TypeInv, Continues

LEMMA Tails ==
    ASSUME NEW p \in Progs, p # <<>>
    PROVE  /\ Tail(p) \in Progs /\ (Spawns(Tail(p)) => Spawns(p))
           /\ Tail(p) # <<>> /\ Head(Tail(p)) = "alarm" => Head(p) = "initialize"
           /\ Head(p) = "spawn" => Spawns(p)
<1>1. /\ p \in Seq(Ops) /\ Len(p) \in Nat \ {0} /\ Head(p) = p[1]
      /\ \A i \in 2..Len(p) : p[i] = "alarm" => i = 2 /\ p[1] = "initialize"
    BY DEF Progs
<1> DEFINE q == Tail(p)
<1>2. /\ q \in Seq(Ops) /\ Len(q) = Len(p) - 1 /\ \A i \in 1..Len(q) : q[i] = p[i + 1]
      /\ q # <<>> => Head(q) = q[1] /\ Len(q) # 0
    BY <1>1
<1> HIDE DEF q
<1>3. q \in Progs
    BY <1>1, <1>2 DEF Progs
<1>4. q # <<>> /\ Head(q) = "alarm" => Head(p) = "initialize"
    BY <1>1, <1>2
<1>5. Spawns(q) => Spawns(p)
  <2>1. \A i \in 1..Len(q) : i + 1 \in 1..Len(p)
    BY <1>1, <1>2
  <2> QED
    BY <1>2, <2>1, Zenon DEF Spawns
<1>6. Head(p) = "spawn" => Spawns(p)
  <2>1. 1 \in 1..Len(p)
    BY <1>1
  <2> QED
    BY <1>1, <2>1, Zenon DEF Spawns
<1> QED
    BY <1>3, <1>4, <1>5, <1>6, Zenon DEF q

LEMMA Discovers ==
    ASSUME NEW p \in Progs, p # <<>>, Head(p) = "rediscover", NEW q, q = <<"initialize", "discover">> \o Tail(p)
    PROVE  q \in Progs /\ q # <<>> /\ Head(q) = "initialize" /\ (Spawns(q) => Spawns(p))
<1>1. /\ p \in Seq(Ops) /\ Len(p) \in Nat \ {0} /\ p[1] = "rediscover"
      /\ \A i \in 2..Len(p) : p[i] # "alarm"
    BY DEF Progs
<1>2. /\ "initialize" \in Ops /\ "discover" \in Ops
    BY DEF Ops
<1>3. /\ q \in Seq(Ops) /\ Len(q) = Len(p) + 1 /\ q[1] = "initialize" /\ q[2] = "discover"
      /\ \A i \in 3..Len(q) : q[i] = p[i - 1]
  <2> DEFINE u == <<"initialize", "discover">>
             v == Tail(p)
  <2>1. u \in Seq(Ops) /\ Len(u) = 2 /\ u[1] = "initialize" /\ u[2] = "discover"
    BY <1>2
  <2>2. v \in Seq(Ops) /\ Len(v) = Len(p) - 1 /\ \A i \in 1..Len(v) : v[i] = p[i + 1]
    BY <1>1
  <2>3. q = u \o v
    BY Zenon
  <2> HIDE DEF u, v
  <2>4. q \in Seq(Ops) /\ Concatenates(q, u, v)
    BY <2>1, <2>2, <2>3, Concatenation, Zenon
  <2>5. Len(q) = Len(p) + 1 /\ q[1] = u[1] /\ q[2] = u[2]
    BY <1>1, <2>1, <2>2, <2>4 DEF Concatenates
  <2>6. ASSUME NEW i \in 3..Len(q) PROVE q[i] = p[i - 1]
    <3>1. i - 2 \in 1..Len(v) /\ Len(u) + (i - 2) = i /\ (i - 2) + 1 = i - 1
      BY <1>1, <2>1, <2>2, <2>5
    <3>2. q[Len(u) + (i - 2)] = v[i - 2] /\ v[i - 2] = p[(i - 2) + 1]
      BY <2>2, <2>4, <3>1, ZenonT(30) DEF Concatenates
    <3> QED
      BY <3>1, <3>2, Zenon
  <2> QED
    BY <2>1, <2>4, <2>5, <2>6, Zenon
<1>4. q \in Progs
  <2>1. \A i \in 2..Len(q) : i = 2 \/ (i \in 3..Len(q) /\ i - 1 \in 2..Len(p))
    BY <1>1, <1>3
  <2> QED
    BY <1>1, <1>3, <2>1, Zenon DEF Progs
<1>5. Head(q) = "initialize" /\ q # <<>>
    BY <1>1, <1>3
<1>6. ASSUME Spawns(q) PROVE Spawns(p)
  <2>1. PICK i \in 1..Len(q) : q[i] = "spawn"
    BY <1>6, Zenon DEF Spawns
  <2>2. i - 1 \in 1..Len(p) /\ p[i - 1] = "spawn"
    BY <1>1, <1>3, <2>1
  <2> QED
    BY <2>2, Zenon DEF Spawns
<1> QED
    BY <1>4, <1>5, <1>6, Zenon

LEMMA Alarms ==
    ASSUME NEW p \in Progs, p # <<>>, Head(p) = "alarm_unless_disabled", NEW q, q = <<"alarm">> \o Tail(p)
    PROVE  q \in Progs /\ q # <<>> /\ Head(q) = "alarm" /\ (Spawns(q) => Spawns(p))
<1>1. /\ p \in Seq(Ops) /\ Len(p) \in Nat \ {0} /\ p[1] = "alarm_unless_disabled"
      /\ \A i \in 2..Len(p) : p[i] # "alarm"
    BY DEF Progs
<1>2. "alarm" \in Ops
    BY DEF Ops
<1>3. /\ q \in Seq(Ops) /\ Len(q) = Len(p) /\ q[1] = "alarm"
      /\ \A i \in 2..Len(q) : q[i] = p[i]
    BY <1>1, <1>2
<1>4. q \in Progs
    BY <1>1, <1>3, ZenonT(30) DEF Progs
<1>5. Head(q) = "alarm" /\ q # <<>>
    BY <1>1, <1>3
<1>6. ASSUME Spawns(q) PROVE Spawns(p)
  <2>1. PICK i \in 1..Len(q) : q[i] = "spawn"
    BY <1>6, Zenon DEF Spawns
  <2>2. i \in 1..Len(p) /\ p[i] = "spawn"
    BY <1>1, <1>3, <2>1
  <2> QED
    BY <2>2, Zenon DEF Spawns
<1> QED
    BY <1>4, <1>5, <1>6, Zenon

LEMMA Popping ==
    ASSUME TypeInv, NEW d \in Driver, prog[d] # <<>>, Pop(d)
    PROVE  Continues(d, Tail(prog[d])) /\ prog[d] \in Progs
<1>1. prog[d] \in Progs
    BY Zenon DEF TypeInv
<1>2. Tail(prog[d]) \in Progs
    BY <1>1, Tails, Zenon
<1>3. prog' = [prog EXCEPT ![d] = Tail(prog[d])]
    BY Zenon DEF Pop
<1> QED
    BY <1>1, <1>2, <1>3, Continuing, Zenon

LEMMA Programs ==
    ASSUME NEW r \in Requests
    PROVE  /\ Program(r) \in Progs /\ Program(r) # <<>>
           /\ r # "Reconnect" => ~Spawns(Program(r))
           /\ state \in {"created", "disabled"} /\ r = "PowerOn" => Head(Program(r)) = "initialize"
           /\ r = "Reconnect" => Head(Program(r)) # "alarm"
<1>1. r \in {"PowerOn", "Shutdown", "DeleteOnu", "ActivateOnu", "DisablePonIf", "EnablePonIf", "Reconnect"}
    BY RequestsAssumption, Zenon
<1>2. CASE r = "PowerOn"
  <2> DEFINE u == <<"initialize", "alarm", "discover">>
             v == <<"enable">>
             p1 == u \o <<>>
             p2 == u \o v
             p3 == <<"alarm", "discover">>
  <2>1. \/ state = "created" /\ Program(r) = p1
        \/ state = "disabled" /\ Program(r) = p2
        \/ state \notin {"created", "disabled"} /\ Program(r) = p3
    <3>1. Program(r) = IF state \in {"created", "disabled"}
                       THEN u \o (IF state = "disabled" THEN v ELSE <<>>)
                       ELSE p3
      BY <1>2, Zenon DEF Program
    <3> QED
      BY <3>1, Zenon
  <2>u. u \in Seq(Ops) /\ Len(u) = 3 /\ u[1] = "initialize" /\ u[2] = "alarm" /\ u[3] = "discover"
    BY DEF Ops
  <2>v. v \in Seq(Ops) /\ Len(v) = 1 /\ v[1] = "enable" /\ <<>> \in Seq(Ops) /\ Len(<<>>) = 0
    BY DEF Ops
  <2>2. p1 \in Progs /\ p1 # <<>> /\ Head(p1) = "initialize" /\ ~Spawns(p1)
    <3> HIDE DEF u
    <3>1. p1 \in Seq(Ops) /\ Concatenates(p1, u, <<>>)
      BY <2>u, <2>v, Concatenation, Zenon
    <3> HIDE DEF p1
    <3>2. Len(p1) = 3 /\ p1[1] = "initialize" /\ p1[2] = "alarm" /\ p1[3] = "discover"
      BY <2>u, <2>v, <3>1 DEF Concatenates
    <3>3. p1 # <<>> /\ Head(p1) = "initialize"
      BY <3>1, <3>2
    <3>4. \A i \in 1..Len(p1) : i = 1 \/ i = 2 \/ i = 3
      BY <3>2
    <3>5. \A i \in 2..Len(p1) : i = 2 \/ i = 3
      BY <3>2
    <3> QED
      BY <3>1, <3>2, <3>3, <3>4, <3>5, Zenon DEF Progs, Spawns
  <2>3. p2 \in Progs /\ p2 # <<>> /\ Head(p2) = "initialize" /\ ~Spawns(p2)
    <3> HIDE DEF u, v
    <3>1. p2 \in Seq(Ops) /\ Concatenates(p2, u, v)
      BY <2>u, <2>v, Concatenation, Zenon
    <3> HIDE DEF p2
    <3>2. Len(p2) = 4 /\ p2[1] = "initialize" /\ p2[2] = "alarm" /\ p2[3] = "discover" /\ p2[4] = "enable"
      BY <2>u, <2>v, <3>1 DEF Concatenates
    <3>3. p2 # <<>> /\ Head(p2) = "initialize"
      BY <3>1, <3>2
    <3>4. \A i \in 1..Len(p2) : i = 1 \/ i = 2 \/ i = 3 \/ i = 4
      BY <3>2
    <3>5. \A i \in 2..Len(p2) : i = 2 \/ i = 3 \/ i = 4
      BY <3>2
    <3> QED
      BY <3>1, <3>2, <3>3, <3>4, <3>5, Zenon DEF Progs, Spawns
  <2>4. p3 \in Progs /\ p3 # <<>> /\ ~Spawns(p3)
    BY DEF Progs, Ops, Spawns
  <2>5. r # "Reconnect"
    BY <1>2
  <2> HIDE DEF p1, p2, p3
  <2> QED
    BY <1>2, <2>1, <2>2, <2>3, <2>4, <2>5, Zenon
<1>3. CASE r = "Reconnect"
  <2>1. Program(r) = <<"rediscover", "spawn">> /\ r # "PowerOn"
    BY <1>3 DEF Program
  <2>2. /\ <<"rediscover", "spawn">> \in Progs /\ <<"rediscover", "spawn">> # <<>>
        /\ Head(<<"rediscover", "spawn">>) # "alarm"
    BY DEF Progs, Ops
  <2> QED
    BY <1>3, <2>1, <2>2, Zenon
<1>4. CASE r \in {"Shutdown", "DeleteOnu"}
  <2> DEFINE p1 == <<"alarm_unless_disabled", "disable">>
             p2 == <<"disable", "rediscover">>
  <2>1. Program(r) \in {p1, p2} /\ r # "PowerOn" /\ r # "Reconnect"
    BY <1>4 DEF Program
  <2>2. p1 \in Progs /\ p1 # <<>> /\ ~Spawns(p1) /\ p2 \in Progs /\ p2 # <<>> /\ ~Spawns(p2)
    BY DEF Progs, Ops, Spawns
  <2> HIDE DEF p1, p2
  <2> QED
    BY <2>1, <2>2, Zenon
<1>5. CASE r \in {"ActivateOnu", "DisablePonIf", "EnablePonIf"}
  <2> DEFINE p1 == <<"enable">>
             p2 == <<"pon_disable">>
  <2>1. Program(r) \in {p1, p2} /\ r # "PowerOn" /\ r # "Reconnect"
    BY <1>5 DEF Program
  <2>2. p1 \in Progs /\ p1 # <<>> /\ ~Spawns(p1) /\ p2 \in Progs /\ p2 # <<>> /\ ~Spawns(p2)
    BY DEF Progs, Ops, Spawns
  <2> HIDE DEF p1, p2
  <2> QED
    BY <2>1, <2>2, Zenon
<1> QED
    BY <1>1, <1>2, <1>3, <1>4, <1>5, Zenon

Events == {"initialize", "discover", "enable", "disable", "pon_disable"}

LEMMA Firing ==
    ASSUME TypeInv, NEW d \in Driver, NEW e \in Events, FireEvent(d, e)
    PROVE  /\ \/ state' = state /\ callback' = Calm /\ (state \in {"created", "disabled"} => e # "initialize")
              \/ e = "initialize" /\ state' = "initialized" /\ callback' = <<d, "make">>
              \/ /\ state \notin {"created", "disabled"} /\ state' \in OnuStates \ {"created", "disabled"}
                 /\ callback' \in {Calm, <<d, "disc">>, <<d, "indication">>}
              \/ state \notin {"created", "disabled"} /\ state' = "disabled" /\ callback' = <<d, "down">>
<1> DEFINE fires == Fires(OnuTx, e, state)
<1>0. /\ state' = IF fires THEN OnuTx[e].dst ELSE state
      /\ callback' = IF fires /\ FirstStep(e) # "none" THEN <<d, FirstStep(e)>> ELSE Calm
    BY Zenon DEF FireEvent, After
<1>1. CASE e = "initialize"
  <2>1. OnuTx[e].dst = "initialized" /\ FirstStep(e) = "make" /\ (fires <=> state \in {"created", "disabled", "pon_disabled"})
    BY <1>1 DEF OnuTx, Tx, Fires, FirstStep
  <2> QED
    BY <1>0, <1>1, <2>1, Zenon
<1>2. CASE e = "discover"
  <2>1. OnuTx[e].dst = "discovered" /\ FirstStep(e) = "disc" /\ (fires => state \notin {"created", "disabled"})
    BY <1>2 DEF OnuTx, Tx, Fires, FirstStep
  <2> QED
    BY <1>0, <1>2, <2>1, Zenon DEF OnuStates
<1>3. CASE e = "enable"
  <2>1. OnuTx[e].dst = "enabled" /\ FirstStep(e) = "indication" /\ (fires => state \notin {"created", "disabled"})
    BY <1>3 DEF OnuTx, Tx, Fires, FirstStep
  <2> QED
    BY <1>0, <1>3, <2>1, Zenon DEF OnuStates
<1>4. CASE e = "disable"
  <2>1. OnuTx[e].dst = "disabled" /\ FirstStep(e) = "down" /\ (fires => state \notin {"created", "disabled"})
    BY <1>4 DEF OnuTx, Tx, Fires, FirstStep
  <2> QED
    BY <1>0, <1>4, <2>1, Zenon
<1>5. CASE e = "pon_disable"
  <2>1. OnuTx[e].dst = "pon_disabled" /\ FirstStep(e) = "none" /\ (fires => state \notin {"created", "disabled"})
    BY <1>5 DEF OnuTx, Tx, Fires, FirstStep
  <2> QED
    BY <1>0, <1>5, <2>1, Zenon DEF OnuStates
<1> QED
    BY <1>1, <1>2, <1>3, <1>4, <1>5, Zenon DEF Events

LEMMA WithoutType ==
    ASSUME FlowIds \in Seq(Flow), NEW f
    PROVE  WithoutFirst(f) \in Seq(Flow)
BY DEF WithoutFirst

-----------------------------------------------------------------------------
(***************************************************************************)
(* The steps by kind: a request begins, a handler checks the ONU, a driver *)
(* fires an event or sends, a callback or a goroutine goes on.             *)
(***************************************************************************)

Asks(s) ==
    \/ \E f \in Flow : FlowAddToOnu(s, f) \/ FlowRemoveFromOnu(s, f)
    \/ \E type \in OmciTypes : OmciMsgOut(s, type)
    \/ OnuPacketOut(s)
Drives(d) == Rediscover(d) \/ Alarm(d)
Tells == Announce \/ SendDown \/ DisableUnis

LEMMA Kinds ==
    ASSUME ChannelNext
    PROVE  \/ \E d \in Driver, r \in Requests : Begin(d, r)
           \/ \E s \in Sender : Asks(s)
           \/ \E d \in Driver, e \in Events : FireEvent(d, e)
           \/ \E d \in Driver : Drives(d)
           \/ \E d \in Driver, l \in Loop : SpawnAgain(d, l)
           \/ \E l \in Loop : MakeChannel(l)
           \/ Tells
           \/ CloseIfNoFlows
           \/ \E l \in Loop : LoopStep(l)
           \/ \E s \in Sender : SendPending(s)
BY Zenon DEF ChannelNext, NewRequest, DriverStep, CallbackStep, Asks, Drives, Tells, Events

LEMMA Asking ==
    ASSUME TypeInv, NEW s \in Sender, Asks(s)
    PROVE  /\ UNCHANGED <<state, callback, prog, uniUp>>
           /\ UNCHANGED <<channel, queue, closed, FlowIds, loop, context, died>>
           /\ overtaken = {} /\ overtaken' \subseteq {"close", "removal"}
           /\ pending[s] = Nothing /\ pending' \in [Sender -> Sent]
           /\ \A o \in Sender : o # s => pending'[o] = pending[o]
           /\ installed' \subseteq Flow
           /\ ~(channel = 0 /\ installed = {})
           /\ "close" \notin overtaken' /\ channel \in closed /\ FlowIds = <<>> => pending'[s] = Nothing
<1>1. pending \in [Sender -> Sent] /\ installed \subseteq Flow
    BY Zenon DEF TypeInv
<1>2. /\ overtaken = {} /\ pending[s] = Nothing
      /\ UNCHANGED <<state, callback, prog, uniUp>>
      /\ UNCHANGED <<channel, queue, closed, FlowIds, loop, context, died>>
    BY Zenon DEF Asks, FlowAddToOnu, FlowRemoveFromOnu, OmciMsgOut, OnuPacketOut, Request, onuVars
<1>3. ASSUME NEW m \in Sent, About(s, m)
      PROVE  /\ pending' \in [Sender -> Sent] /\ pending'[s] = m
             /\ \A o \in Sender : o # s => pending'[o] = pending[o]
    BY <1>1, <1>3, Zenon DEF About
<1>4. ASSUME NEW f \in Flow, FlowAddToOnu(s, f)
      PROVE  /\ \E m \in Sent : About(s, m)
             /\ installed' \subseteq Flow /\ channel # 0
             /\ overtaken' \subseteq {"close"} /\ (channel \in closed => "close" \in overtaken')
  <2>1. Msg("add", f) \in Sent
    BY SentTypes, Zenon DEF Add
  <2> QED
    BY <1>1, <1>2, <1>4, <2>1, Zenon DEF FlowAddToOnu, Overtakes
<1>5. ASSUME NEW f \in Flow, FlowRemoveFromOnu(s, f)
      PROVE  /\ \E m \in Sent : About(s, m) /\ (FlowIds = <<>> => m = Nothing)
             /\ installed' \subseteq Flow /\ installed # {}
             /\ overtaken' \subseteq {"removal"}
  <2>1. Msg("remove", f) \in Sent /\ Nothing \in Sent
    BY SentTypes, Zenon DEF Rem
  <2>2. FlowIds = <<>> => ~\E i \in 1..Len(FlowIds) : FlowIds[i] = f
    OBVIOUS
  <2>3. /\ \E m \in Sent : About(s, m) /\ (FlowIds = <<>> => m = Nothing)
        /\ installed # {}
    BY <1>5, <2>1, <2>2, Zenon DEF FlowRemoveFromOnu
  <2>4. installed' \subseteq Flow /\ overtaken' \subseteq {"removal"}
    BY <1>1, <1>2, <1>5, Zenon DEF FlowRemoveFromOnu, Overtakes
  <2> QED
    BY <2>3, <2>4, Zenon
<1>6. ASSUME (\E type \in OmciTypes : OmciMsgOut(s, type)) \/ OnuPacketOut(s)
      PROVE  /\ \E m \in Sent : About(s, m)
             /\ installed' = installed /\ channel # 0
             /\ overtaken' \subseteq {"close"} /\ (channel \in closed => "close" \in overtaken')
  <2>1. Routine \in Sent /\ \A type \in OmciTypes : Plain(type) \in Sent
    BY SentTypes, RequestsAssumption, Zenon DEF Routine
  <2> QED
    BY <1>2, <1>6, <2>1, Zenon DEF OmciMsgOut, OnuPacketOut, Overtakes
<1>7. CASE \E f \in Flow : FlowAddToOnu(s, f)
    BY <1>2, <1>3, <1>4, <1>7, Zenon
<1>8. CASE \E f \in Flow : FlowRemoveFromOnu(s, f)
    BY <1>2, <1>3, <1>5, <1>8, Zenon
<1>9. CASE (\E type \in OmciTypes : OmciMsgOut(s, type)) \/ OnuPacketOut(s)
    BY <1>1, <1>2, <1>3, <1>6, <1>9, Zenon
<1> QED
    BY <1>7, <1>8, <1>9, Zenon DEF Asks


\* What every request of a driver leaves as it is, and what it has left to do.
Driven(d) ==
    /\ UNCHANGED <<state, callback, channel, closed, FlowIds>>
    /\ UNCHANGED <<uniUp, loop, context, pending, installed>>
    /\ prog[d] \in Progs /\ prog[d] # <<>>
    /\ callback # Calm => callback[1] # d

LEMMA Driving ==
    ASSUME TypeInv, NEW d \in Driver, Drives(d)
    PROVE  /\ Driven(d) /\ ~Head1(d, "initialize")
           /\ \E p \in Progs : Continues(d, p) /\ (Spawns(p) => Spawns(prog[d]))
           /\ \/ /\ Send(Routine) /\ (Head1(d, "alarm") \/ state = "discovered")
                 /\ overtaken' = overtaken /\ ~Head1(d, "alarm")'
              \/ /\ UNCHANGED <<queue, died>>
                 /\ overtaken' \in {overtaken, overtaken \cup {"close"}}
                 /\ Head1(d, "alarm")' /\ channel \in closed => "close" \in overtaken'
<1> DEFINE p == prog[d]
           q == Tail(prog[d])
           u == <<"initialize", "discover">> \o Tail(prog[d])
           v == <<"alarm">> \o Tail(prog[d])
<1>1. p \in Progs
    BY Zenon DEF TypeInv
<1>2. /\ Driven(d) /\ p # <<>>
      /\ Head(p) \in {"rediscover", "alarm", "alarm_unless_disabled"}
  <2>1. CASE Rediscover(d)
    BY <1>1, <2>1, Zenon DEF Rediscover, Head1, Driven, history, voltha
  <2>2. CASE Alarm(d)
    BY <1>1, <2>2, Zenon DEF Alarm, Head1, Driven, history, voltha
  <2> QED
    BY <2>1, <2>2, Zenon DEF Drives
<1>3. /\ q \in Progs /\ (Spawns(q) => Spawns(p)) /\ ~(q # <<>> /\ Head(q) = "alarm")
  <2>1. Head(p) # "initialize"
    BY <1>2, Zenon
  <2> HIDE DEF p
  <2> QED
    BY <1>1, <1>2, <2>1, Tails, Zenon DEF p
<1>4. Head(p) = "rediscover" => u \in Progs /\ Head(u) = "initialize" /\ (Spawns(u) => Spawns(p))
    BY <1>1, <1>2, Discovers, Zenon
<1>5. Head(p) = "alarm_unless_disabled" => v \in Progs /\ (Spawns(v) => Spawns(p))
    BY <1>1, <1>2, Alarms, Zenon
<1>6. ASSUME NEW r \in Progs, prog' = [prog EXCEPT ![d] = r]
      PROVE  Continues(d, r) /\ (Head1(d, "alarm")' <=> r # <<>> /\ Head(r) = "alarm")
  <2>1. Continues(d, r)
    BY <1>6, Continuing, Zenon
  <2>2. prog'[d] = r
    BY <2>1, Zenon DEF Continues
  <2> QED
    BY <2>1, <2>2, Zenon DEF Head1
<1>7. ~Head1(d, "initialize")
    BY <1>2, Zenon DEF Head1
<1> DEFINE Goal ==
           /\ \E r \in Progs : Continues(d, r) /\ (Spawns(r) => Spawns(p))
           /\ \/ /\ Send(Routine) /\ (Head1(d, "alarm") \/ state = "discovered")
                 /\ overtaken' = overtaken /\ ~Head1(d, "alarm")'
              \/ /\ UNCHANGED <<queue, died>>
                 /\ overtaken' \in {overtaken, overtaken \cup {"close"}}
                 /\ Head1(d, "alarm")' /\ channel \in closed => "close" \in overtaken'
<1> SUFFICES Goal
    BY <1>2, <1>7, Zenon
<1>8. CASE Rediscover(d)
  <2>1. Head(p) = "rediscover" /\ overtaken' = overtaken
    BY <1>8, Zenon DEF Rediscover, Head1, history
  <2>2. CASE state = "discovered"
    <3>1. Send(Routine) /\ prog' = [prog EXCEPT ![d] = q]
      BY <1>8, <2>2, Zenon DEF Rediscover, Pop
    <3>2. Continues(d, q) /\ ~Head1(d, "alarm")'
      BY <1>3, <1>6, <3>1, Zenon
    <3> QED
      BY <1>3, <2>1, <2>2, <3>1, <3>2, Zenon
  <2>3. CASE state # "discovered"
    <3>1. UNCHANGED <<queue, died>> /\ prog' = [prog EXCEPT ![d] = u]
      BY <1>8, <2>3, Zenon DEF Rediscover
    <3>2. Continues(d, u) /\ ~Head1(d, "alarm")'
      BY <1>4, <1>6, <2>1, <3>1, Zenon
    <3> QED
      BY <1>4, <2>1, <3>1, <3>2, Zenon
  <2> QED
    BY <2>2, <2>3, Zenon
<1>9. CASE Alarm(d) /\ Head1(d, "alarm") /\ Send(Routine) /\ Pop(d) /\ UNCHANGED overtaken
  <2>1. prog' = [prog EXCEPT ![d] = q]
    BY <1>9, Zenon DEF Pop
  <2>2. Continues(d, q) /\ ~Head1(d, "alarm")'
    BY <1>3, <1>6, <2>1, Zenon
  <2> QED
    BY <1>3, <1>9, <2>1, <2>2, Zenon
<1>10. CASE /\ Alarm(d) /\ Head1(d, "alarm_unless_disabled") /\ UNCHANGED <<queue, died>>
            /\ prog' = [prog EXCEPT ![d] = IF state = "disabled" THEN Tail(@) ELSE <<"alarm">> \o Tail(@)]
            /\ Overtakes("close", state # "disabled" /\ channel \in closed)
  <2>1. overtaken' \in {overtaken, overtaken \cup {"close"}} /\ Head(p) = "alarm_unless_disabled"
    BY <1>10, Zenon DEF Overtakes, Head1
  <2>2. CASE state = "disabled"
    <3>1. prog' = [prog EXCEPT ![d] = q]
      BY <1>10, <2>2, Zenon
    <3>2. Continues(d, q) /\ ~Head1(d, "alarm")'
      BY <1>3, <1>6, <3>1, Zenon
    <3> QED
      BY <1>3, <1>10, <2>1, <3>1, <3>2, Zenon
  <2>3. CASE state # "disabled"
    <3>1. prog' = [prog EXCEPT ![d] = v] /\ (channel \in closed => "close" \in overtaken')
      BY <1>10, <2>3, Zenon DEF Overtakes
    <3>2. Continues(d, v)
      BY <1>5, <1>6, <2>1, <3>1, Zenon
    <3> QED
      BY <1>5, <1>10, <2>1, <3>1, <3>2, Zenon
  <2> QED
    BY <2>2, <2>3, Zenon
<1> HIDE DEF Goal
<1> QED
    BY <1>8, <1>9, <1>10, Zenon DEF Drives, Alarm

LEMMA Telling ==
    ASSUME TypeInv, CallbackInv, Tells
    PROVE  /\ UNCHANGED <<state, prog>>
           /\ UNCHANGED <<channel, closed, FlowIds, loop, context, pending, installed, overtaken>>
           /\ uniUp' \in BOOLEAN
           /\ callback # Calm /\ ~InCallback("make") /\ ~InCallback("make")'
           /\ Send(Routine) \/ UNCHANGED <<queue, died>>
           /\ \/ callback' = Calm
              \/ /\ callback' \in Driver \X Steps /\ callback'[1] = callback[1]
                 /\ callback'[2] \in {"unis", "close"} /\ state = "disabled"
<1>1. /\ UNCHANGED <<state, prog>>
      /\ UNCHANGED <<channel, closed, FlowIds, loop, context, pending, installed, overtaken>>
      /\ uniUp' \in BOOLEAN
      /\ Send(Routine) \/ UNCHANGED <<queue, died>>
  <2>1. uniUp \in BOOLEAN
    BY Zenon DEF TypeInv
  <2>2. CASE Announce
    BY <2>1, <2>2, Zenon DEF Announce, history, voltha
  <2>3. CASE SendDown
    BY <2>1, <2>3, Zenon DEF SendDown, history, voltha
  <2>4. CASE DisableUnis
    BY <2>1, <2>4, Zenon DEF DisableUnis, history, voltha
  <2> QED
    BY <2>2, <2>3, <2>4, Zenon DEF Tells
<1>2. \/ callback' = Calm /\ (InCallback("disc") \/ InCallback("indication"))
      \/ callback' = <<callback[1], "unis">> /\ InCallback("down")
      \/ callback' = <<callback[1], "close">> /\ InCallback("unis")
    BY Zenon DEF Tells, Announce, SendDown, DisableUnis, Then
<1>3. callback # Calm /\ ~InCallback("make")
    BY <1>2, Zenon DEF InCallback
<1>4. callback[1] \in Driver
    BY <1>3 DEF TypeInv
<1>5. /\ <<callback[1], "unis">> \in Driver \X Steps
      /\ <<callback[1], "close">> \in Driver \X Steps
    BY <1>4 DEF Steps
<1>6. \/ callback' = Calm
      \/ /\ callback' \in Driver \X Steps /\ callback'[1] = callback[1]
         /\ callback'[2] \in {"unis", "close"} /\ state = "disabled"
  <2>1. ASSUME NEW x \in {"unis", "close"}, callback' = <<callback[1], x>>
        PROVE  callback' \in Driver \X Steps /\ callback'[1] = callback[1] /\ callback'[2] \in {"unis", "close"}
    BY <1>5, <2>1
  <2>2. InCallback("down") \/ InCallback("unis") => state = "disabled"
    BY Zenon DEF CallbackInv
  <2> QED
    BY <1>2, <2>1, <2>2, Zenon
<1>7. ~InCallback("make")'
    BY <1>6, Zenon DEF InCallback
<1> QED
    BY <1>1, <1>3, <1>6, <1>7, Zenon

LEMMA Looping ==
    ASSUME NEW l \in Loop, LoopStep(l)
    PROVE  UNCHANGED <<state, callback, prog, channel, context, pending, installed>>
<1>1. CASE Select(l) \/ Cancelled(l) \/ ChannelClosed(l) \/ Receive(l)
    BY <1>1, Zenon DEF Select, Cancelled, ChannelClosed, Receive, onuVars, history, voltha
<1>2. CASE HandleFlowAdd(l) \/ HandleFlowRemove(l)
    BY <1>2, Zenon DEF HandleFlowAdd, HandleFlowRemove, onuVars, history, voltha
<1>3. CASE CloseAfterLastFlow(l) \/ HandleUni(l)
    BY <1>3, Zenon DEF CloseAfterLastFlow, HandleUni, onuVars, history, voltha
<1> QED
    BY <1>1, <1>2, <1>3, Zenon DEF LoopStep

\* The record of what was overtaken is never cleared.
LEMMA Recording ==
    ASSUME TypeInv, CallbackInv, ChannelNext
    PROVE  /\ overtaken \subseteq overtaken'
           /\ overtaken' \subseteq {"close", "removal", "reconnection"}
<1> DEFINE Goal == overtaken' \in {overtaken, overtaken \cup {"close"}, overtaken \cup {"reconnection"}}
<1>1. ASSUME NEW d \in Driver, NEW r \in Requests, Begin(d, r) PROVE Goal
    BY <1>1, Zenon DEF Begin, Overtakes
<1>2. ASSUME NEW s \in Sender, Asks(s)
      PROVE  overtaken = {} /\ overtaken' \subseteq {"close", "removal"}
    BY <1>2, Asking, Zenon
<1>3. ASSUME NEW d \in Driver, NEW e \in Events, FireEvent(d, e) PROVE Goal
    BY <1>3, Zenon DEF FireEvent, history
<1>4. ASSUME NEW d \in Driver, Drives(d) PROVE Goal
    BY <1>4, Driving, Zenon
<1>5. ASSUME NEW d \in Driver, NEW l \in Loop, SpawnAgain(d, l) PROVE Goal
    BY <1>5, Zenon DEF SpawnAgain, history
<1>6. ASSUME NEW l \in Loop, MakeChannel(l) PROVE Goal
    BY <1>6, Zenon DEF MakeChannel, Overtakes
<1>7. ASSUME Tells PROVE Goal
    BY <1>7, Telling, Zenon
<1>8. ASSUME CloseIfNoFlows PROVE Goal
    BY <1>8, Zenon DEF CloseIfNoFlows, Close, Overtakes
<1>9. ASSUME NEW l \in Loop, LoopStep(l) PROVE Goal
  <2>1. CASE Select(l) \/ Cancelled(l) \/ ChannelClosed(l) \/ Receive(l)
    BY <2>1, Zenon DEF Select, Cancelled, ChannelClosed, Receive, history
  <2>2. CASE HandleFlowAdd(l) \/ HandleFlowRemove(l) \/ HandleUni(l)
    BY <2>2, Zenon DEF HandleFlowAdd, HandleFlowRemove, HandleUni, history
  <2>3. CASE CloseAfterLastFlow(l)
    BY <2>3, Zenon DEF CloseAfterLastFlow, Close, Overtakes
  <2> QED
    BY <1>9, <2>1, <2>2, <2>3, Zenon DEF LoopStep
<1>10. ASSUME NEW s \in Sender, SendPending(s) PROVE Goal
    BY <1>10, Zenon DEF SendPending, history
<1>11. Goal => overtaken \subseteq overtaken' /\ overtaken' \subseteq {"close", "removal", "reconnection"}
    BY Zenon DEF TypeInv
<1> HIDE DEF Goal
<1> QED
    BY <1>1, <1>2, <1>3, <1>4, <1>5, <1>6, <1>7, <1>8, <1>9, <1>10, <1>11, Kinds, Zenon

LEMMA Keeping ==
    ASSUME TypeInv, CallbackInv, ChannelNext
    PROVE  (Kept' => Kept) /\ (Alone' => Alone) /\ (overtaken' = {} => overtaken = {})
<1>1. overtaken \subseteq overtaken'
    BY Recording, Zenon
<1> QED
    BY <1>1, Zenon DEF Kept, Alone

LEMMA CallbackStepInv ==
    ASSUME TypeInv, CallbackInv, ChannelNext
    PROVE  CallbackInv' /\ callback' \in {Calm} \cup (Driver \X Steps)
<1>c. callback \in {Calm} \cup (Driver \X Steps)
    BY Zenon DEF TypeInv
<1> DEFINE Goal == CallbackInv' /\ callback' \in {Calm} \cup (Driver \X Steps)
<1>0. ASSUME UNCHANGED <<state, callback>> PROVE Goal
    BY <1>0, <1>c, Zenon DEF CallbackInv, InCallback
<1>m. ASSUME callback' = Calm PROVE Goal
    BY <1>m, Zenon DEF CallbackInv, InCallback
<1>1. ASSUME NEW d \in Driver, NEW r \in Requests, Begin(d, r) PROVE UNCHANGED <<state, callback>>
    BY <1>1, Zenon DEF Begin
<1>2. ASSUME NEW s \in Sender, Asks(s) PROVE UNCHANGED <<state, callback>>
    BY <1>2, Asking, Zenon
<1>3. ASSUME NEW d \in Driver, NEW e \in Events, FireEvent(d, e) PROVE Goal
  <2>1. \A x \in Steps : <<d, x>> \in Driver \X Steps
    BY Zenon
  <2>2. {"make", "disc", "indication", "down"} \subseteq Steps
    BY Zenon DEF Steps
  <2>3. CASE callback' = <<d, "make">> /\ state' = "initialized"
    <3>1. callback'[2] = "make"
      BY <2>3, Pairs, Zenon
    <3> QED
      BY <2>1, <2>2, <2>3, <3>1, Zenon DEF CallbackInv, InCallback
  <2>4. CASE callback' \in {<<d, "disc">>, <<d, "indication">>}
    <3>1. callback'[2] \in {"disc", "indication"}
      BY <2>4
    <3> QED
      BY <2>1, <2>2, <2>4, <3>1, Zenon DEF CallbackInv, InCallback
  <2>5. CASE callback' = <<d, "down">> /\ state' = "disabled"
    <3>1. callback'[2] = "down"
      BY <2>5, Pairs, Zenon
    <3> QED
      BY <2>1, <2>2, <2>5, <3>1, Zenon DEF CallbackInv, InCallback
  <2> HIDE DEF Goal
  <2> QED
    BY <1>m, <1>3, <2>3, <2>4, <2>5, Firing, Zenon
<1>4. ASSUME NEW d \in Driver, Drives(d) PROVE UNCHANGED <<state, callback>>
    BY <1>4, Driving, Zenon DEF Driven
<1>5. ASSUME NEW d \in Driver, NEW l \in Loop, SpawnAgain(d, l) PROVE UNCHANGED <<state, callback>>
    BY <1>5, Zenon DEF SpawnAgain
<1>6. ASSUME NEW l \in Loop, MakeChannel(l) PROVE callback' = Calm
    BY <1>6, Zenon DEF MakeChannel, Then
<1>7. ASSUME Tells PROVE Goal
  <2>1. CASE callback' = Calm
    BY <1>m, <2>1, Zenon
  <2>2. CASE callback' # Calm
    <3>1. state' = state /\ state = "disabled" /\ callback' \in Driver \X Steps /\ callback'[2] \in {"unis", "close"}
      BY <1>7, <2>2, Telling, Zenon
    <3> QED
      BY <3>1, Zenon DEF CallbackInv, InCallback
  <2> QED
    BY <2>1, <2>2, Zenon
<1>8. ASSUME CloseIfNoFlows PROVE callback' = Calm
    BY <1>8, Zenon DEF CloseIfNoFlows, Then
<1>9. ASSUME NEW l \in Loop, LoopStep(l) PROVE UNCHANGED <<state, callback>>
    BY <1>9, Looping, Zenon
<1>10. ASSUME NEW s \in Sender, SendPending(s) PROVE UNCHANGED <<state, callback>>
    BY <1>10, Zenon DEF SendPending, onuVars
<1> HIDE DEF Goal
<1>11. Goal
    BY <1>0, <1>m, <1>1, <1>2, <1>3, <1>4, <1>5, <1>6, <1>7, <1>8, <1>9, <1>10, Kinds, Zenon
<1> QED
    BY <1>11, Zenon DEF Goal

\* The variables that TypeInv speaks of, by group.
OnuTypes == state \in OnuStates /\ callback \in {Calm} \cup (Driver \X Steps) /\ prog \in [Driver -> Progs] /\ uniUp \in BOOLEAN
QueueTypes == queue \in [Channels -> Seq(Sent)] /\ (\A c \in Channels : Len(queue[c]) <= Capacity) /\ died \in BOOLEAN
ClosedTypes == channel \in 0..MaxChannel /\ closed \subseteq 1..channel
LoopTypes == loop \in [Loop -> Loops] /\ FlowIds \in Seq(Flow)
VolthaTypes == context \in Nat /\ pending \in [Sender -> Sent] /\ installed \subseteq Flow

LEMMA TypeGroups ==
    TypeInv <=> OnuTypes /\ QueueTypes /\ ClosedTypes /\ LoopTypes /\ VolthaTypes
                /\ overtaken \subseteq {"close", "removal", "reconnection"}
BY Zenon DEF TypeInv, OnuTypes, QueueTypes, ClosedTypes, LoopTypes, VolthaTypes

LEMMA QueueTypesStep ==
    ASSUME TypeInv, CallbackInv, ChannelNext
    PROVE  QueueTypes'
<1>0. ASSUME UNCHANGED <<queue, died>> PROVE QueueTypes'
    BY <1>0, TypeGroups, Zenon DEF QueueTypes
<1>s. ASSUME NEW m \in Sent, Send(m) PROVE QueueTypes'
    BY <1>s, Sending, Zenon DEF QueueTypes
<1>t. ASSUME NEW c \in Channels, queue[c] # <<>>, queue' = [queue EXCEPT ![c] = Tail(@)], UNCHANGED died
      PROVE  QueueTypes'
  <2>1. died \in BOOLEAN
    BY Zenon DEF TypeInv
  <2> QED
    BY <1>t, <2>1, Taking, Zenon DEF QueueTypes
<1>c. ASSUME UNCHANGED queue, died' \in BOOLEAN PROVE QueueTypes'
    BY <1>c, TypeGroups, Zenon DEF QueueTypes
<1>r. Routine \in Sent
    BY SentTypes, Zenon
<1>1. ASSUME NEW d \in Driver, NEW r \in Requests, Begin(d, r) PROVE UNCHANGED <<queue, died>>
    BY <1>1, Zenon DEF Begin
<1>2. ASSUME NEW s \in Sender, Asks(s) PROVE UNCHANGED <<queue, died>>
    BY <1>2, Asking, Zenon
<1>3. ASSUME NEW d \in Driver, NEW e \in Events, FireEvent(d, e) PROVE UNCHANGED <<queue, died>>
    BY <1>3, Zenon DEF FireEvent
<1>4. ASSUME NEW d \in Driver, Drives(d) PROVE Send(Routine) \/ UNCHANGED <<queue, died>>
    BY <1>4, Driving, Zenon
<1>5. ASSUME NEW d \in Driver, NEW l \in Loop, SpawnAgain(d, l) PROVE UNCHANGED <<queue, died>>
    BY <1>5, Zenon DEF SpawnAgain
<1>6. ASSUME NEW l \in Loop, MakeChannel(l) PROVE UNCHANGED <<queue, died>>
    BY <1>6, Zenon DEF MakeChannel
<1>7. ASSUME Tells PROVE Send(Routine) \/ UNCHANGED <<queue, died>>
    BY <1>7, Telling, Zenon
<1>8. ASSUME CloseIfNoFlows PROVE QueueTypes'
  <2>1. died \in BOOLEAN
    BY Zenon DEF TypeInv
  <2>2. UNCHANGED queue /\ (died' = died \/ died' = (channel \in closed))
    BY <1>8, Zenon DEF CloseIfNoFlows, Close
  <2>3. died' \in BOOLEAN
    <3>1. CASE died' = died
      BY <2>1, <3>1, Zenon
    <3>2. CASE died' = (channel \in closed)
      BY <3>2
    <3> QED
      BY <2>2, <3>1, <3>2, Zenon
  <2> QED
    BY <1>c, <2>2, <2>3, Zenon
<1>9. ASSUME NEW l \in Loop, LoopStep(l) PROVE QueueTypes'
  <2>1. CASE Select(l) \/ ChannelClosed(l) \/ HandleFlowAdd(l) \/ HandleFlowRemove(l)
    <3>1. UNCHANGED <<queue, died>>
      BY <2>1, Zenon DEF Select, ChannelClosed, HandleFlowAdd, HandleFlowRemove
    <3> QED
      BY <1>0, <3>1, Zenon
  <2>2. CASE Cancelled(l)
    <3>1. UNCHANGED died
      BY <2>2, Zenon DEF Cancelled
    <3> QED
      BY <1>0, <1>t, <2>2, <3>1, Cancelling, Zenon
  <2>3. CASE Receive(l)
    <3>1. UNCHANGED died
      BY <2>3, Zenon DEF Receive
    <3> QED
      BY <1>t, <2>3, <3>1, Receiving, Zenon
  <2>4. CASE CloseAfterLastFlow(l)
    <3>1. UNCHANGED queue /\ died' = (channel \in closed)
      BY <2>4, Zenon DEF CloseAfterLastFlow, Close
    <3>2. died' \in BOOLEAN
      BY <3>1
    <3> QED
      BY <1>c, <3>1, <3>2, Zenon
  <2>5. CASE HandleUni(l)
    BY <1>r, <1>s, <2>5, Zenon DEF HandleUni
  <2> QED
    BY <1>9, <2>1, <2>2, <2>3, <2>4, <2>5, Zenon DEF LoopStep
<1>10. ASSUME NEW s \in Sender, SendPending(s) PROVE QueueTypes'
  <2>1. pending[s] \in Sent
    BY Zenon DEF TypeInv
  <2> QED
    BY <1>s, <1>10, <2>1, Zenon DEF SendPending
<1> QED
    BY <1>0, <1>s, <1>r, <1>1, <1>2, <1>3, <1>4, <1>5, <1>6, <1>7, <1>8, <1>9, <1>10, Kinds, Zenon

LEMMA LoopTypesStep ==
    ASSUME TypeInv, CallbackInv, ChannelNext
    PROVE  LoopTypes'
<1>0. ASSUME UNCHANGED <<loop, FlowIds>> PROVE LoopTypes'
    BY <1>0, TypeGroups, Zenon DEF LoopTypes
<1>m. ASSUME UNCHANGED FlowIds, NEW l \in Loop, NEW r, Moves(l, r) PROVE LoopTypes'
    BY <1>m, TypeGroups, Zenon DEF LoopTypes, Moves
<1>1. ASSUME NEW d \in Driver, NEW r \in Requests, Begin(d, r) PROVE UNCHANGED <<loop, FlowIds>>
    BY <1>1, Zenon DEF Begin
<1>2. ASSUME NEW s \in Sender, Asks(s) PROVE UNCHANGED <<loop, FlowIds>>
    BY <1>2, Asking, Zenon
<1>3. ASSUME NEW d \in Driver, NEW e \in Events, FireEvent(d, e) PROVE UNCHANGED <<loop, FlowIds>>
    BY <1>3, Zenon DEF FireEvent
<1>4. ASSUME NEW d \in Driver, Drives(d) PROVE UNCHANGED <<loop, FlowIds>>
    BY <1>4, Driving, Zenon DEF Driven
<1>5. ASSUME NEW d \in Driver, NEW l \in Loop, SpawnAgain(d, l) PROVE LoopTypes'
  <2>1. UNCHANGED FlowIds /\ Spawn(l)
    BY <1>5, Zenon DEF SpawnAgain
  <2> QED
    BY <1>m, <2>1, Spawning, Zenon
<1>6. ASSUME NEW l \in Loop, MakeChannel(l) PROVE LoopTypes'
  <2>1. UNCHANGED FlowIds /\ Spawn(l)
    BY <1>6, Zenon DEF MakeChannel
  <2> QED
    BY <1>m, <2>1, Spawning, Zenon
<1>7. ASSUME Tells PROVE UNCHANGED <<loop, FlowIds>>
    BY <1>7, Telling, Zenon
<1>8. ASSUME CloseIfNoFlows PROVE UNCHANGED <<loop, FlowIds>>
    BY <1>8, Zenon DEF CloseIfNoFlows
<1>9. ASSUME NEW l \in Loop, LoopStep(l) PROVE LoopTypes'
  <2>1. CASE Select(l)
    <3>1. UNCHANGED FlowIds
      BY <2>1, Zenon DEF Select
    <3> QED
      BY <1>m, <2>1, <3>1, Selecting, Zenon
  <2>2. CASE Cancelled(l) \/ ChannelClosed(l)
    <3>1. UNCHANGED FlowIds /\ End(l)
      BY <2>2, Zenon DEF Cancelled, ChannelClosed
    <3> QED
      BY <1>m, <3>1, Ending, Zenon
  <2>3. CASE Receive(l)
    <3>1. UNCHANGED FlowIds
      BY <2>3, Zenon DEF Receive
    <3> QED
      BY <1>m, <2>3, <3>1, Receiving, Zenon
  <2>4. CASE CloseAfterLastFlow(l) \/ HandleUni(l)
    <3>1. UNCHANGED FlowIds /\ GoTo(l, "ready")
      BY <2>4, Zenon DEF CloseAfterLastFlow, HandleUni
    <3> QED
      BY <1>m, <3>1, GoingTo, Zenon
  <2>5. CASE HandleFlowAdd(l) \/ HandleFlowRemove(l)
    <3>1. FlowIds \in Seq(Flow) /\ loop[l].msg \in Sent
      BY LoopFields, Zenon DEF TypeInv
    <3>2. CASE HandleFlowAdd(l)
      <4>1. loop[l].msg.flow \in Flow /\ GoTo(l, "ready") /\ FlowIds' = Append(FlowIds, loop[l].msg.flow)
        BY <3>1, <3>2, SentTypes, Zenon DEF HandleFlowAdd
      <4>2. FlowIds' \in Seq(Flow)
        BY <3>1, <4>1
      <4>3. loop' \in [Loop -> Loops]
        BY <4>1, GoingTo, Zenon DEF Moves
      <4> QED
        BY <4>2, <4>3, Zenon DEF LoopTypes
    <3>3. CASE HandleFlowRemove(l)
      <4>1. FlowIds' \in Seq(Flow)
        BY <3>1, <3>3, WithoutType, Zenon DEF HandleFlowRemove
      <4>2. \E at \in {"ready", "close"} : GoTo(l, at)
        BY <3>3, Zenon DEF HandleFlowRemove
      <4>3. loop' \in [Loop -> Loops]
        BY <4>2, GoingTo, Zenon DEF Moves
      <4> QED
        BY <4>1, <4>3, Zenon DEF LoopTypes
    <3> QED
      BY <2>5, <3>2, <3>3, Zenon
  <2> QED
    BY <1>9, <2>1, <2>2, <2>3, <2>4, <2>5, Zenon DEF LoopStep
<1>10. ASSUME NEW s \in Sender, SendPending(s) PROVE UNCHANGED <<loop, FlowIds>>
    BY <1>10, Zenon DEF SendPending
<1> QED
    BY <1>0, <1>1, <1>2, <1>3, <1>4, <1>5, <1>6, <1>7, <1>8, <1>9, <1>10, Kinds, Zenon

LEMMA ClosedTypesStep ==
    ASSUME TypeInv, CallbackInv, LoopInv, ZeroInv, ChannelNext
    PROVE  ClosedTypes'
<1>t. channel \in 0..MaxChannel /\ closed \subseteq 1..channel
    BY Zenon DEF TypeInv
<1>0. ASSUME UNCHANGED <<channel, closed>> PROVE ClosedTypes'
    BY <1>0, <1>t, Zenon DEF ClosedTypes
<1>c. ASSUME UNCHANGED channel, channel # 0, closed' \in {closed, closed \cup {channel}} PROVE ClosedTypes'
  <2>1. channel \in 1..channel
    BY <1>c, <1>t
  <2> QED
    BY <1>c, <1>t, <2>1, Zenon DEF ClosedTypes
<1>1. ASSUME NEW d \in Driver, NEW r \in Requests, Begin(d, r) PROVE UNCHANGED <<channel, closed>>
    BY <1>1, Zenon DEF Begin
<1>2. ASSUME NEW s \in Sender, Asks(s) PROVE UNCHANGED <<channel, closed>>
    BY <1>2, Asking, Zenon
<1>3. ASSUME NEW d \in Driver, NEW e \in Events, FireEvent(d, e) PROVE UNCHANGED <<channel, closed>>
    BY <1>3, Zenon DEF FireEvent
<1>4. ASSUME NEW d \in Driver, Drives(d) PROVE UNCHANGED <<channel, closed>>
    BY <1>4, Driving, Zenon DEF Driven
<1>5. ASSUME NEW d \in Driver, NEW l \in Loop, SpawnAgain(d, l) PROVE UNCHANGED <<channel, closed>>
    BY <1>5, Zenon DEF SpawnAgain
<1>6. ASSUME NEW l \in Loop, MakeChannel(l) PROVE ClosedTypes'
  <2>1. channel < MaxChannel /\ channel' = channel + 1 /\ closed' = closed
    BY <1>6, Zenon DEF MakeChannel
  <2>2. channel + 1 \in 0..MaxChannel /\ \A c \in 1..channel : c \in 1..(channel + 1)
    BY <1>t, <2>1, CapacityAssumption
  <2> QED
    BY <1>t, <2>1, <2>2, Zenon DEF ClosedTypes
<1>7. ASSUME Tells PROVE UNCHANGED <<channel, closed>>
    BY <1>7, Telling, Zenon
<1>8. ASSUME CloseIfNoFlows PROVE ClosedTypes'
  <2>1. channel # 0
    BY <1>8, Zenon DEF CloseIfNoFlows, ZeroInv, InCallback
  <2>2. UNCHANGED channel /\ closed' \in {closed, closed \cup {channel}}
    BY <1>8, Zenon DEF CloseIfNoFlows, Close
  <2> QED
    BY <1>c, <2>1, <2>2, Zenon
<1>9. ASSUME NEW l \in Loop, LoopStep(l) PROVE ClosedTypes'
  <2>1. CASE Select(l) \/ Cancelled(l) \/ ChannelClosed(l) \/ Receive(l)
    BY <1>0, <2>1, Zenon DEF Select, Cancelled, ChannelClosed, Receive
  <2>2. CASE HandleFlowAdd(l) \/ HandleFlowRemove(l) \/ HandleUni(l)
    BY <1>0, <2>2, Zenon DEF HandleFlowAdd, HandleFlowRemove, HandleUni
  <2>3. CASE CloseAfterLastFlow(l)
    <3>1. /\ loop[l].at = "close" /\ UNCHANGED channel /\ closed' \in {closed, closed \cup {channel}}
      BY <2>3, Zenon DEF CloseAfterLastFlow, Close
    <3>2. loop[l].ch \in 0..channel /\ loop[l].ch # 0
      BY <3>1, Zenon DEF LoopInv, Busy
    <3>3. channel # 0
      BY <1>t, <3>2
    <3> QED
      BY <1>c, <3>1, <3>3, Zenon
  <2> QED
    BY <1>9, <2>1, <2>2, <2>3, Zenon DEF LoopStep
<1>10. ASSUME NEW s \in Sender, SendPending(s) PROVE UNCHANGED <<channel, closed>>
    BY <1>10, Zenon DEF SendPending
<1> QED
    BY <1>0, <1>1, <1>2, <1>3, <1>4, <1>5, <1>6, <1>7, <1>8, <1>9, <1>10, Kinds, Zenon

LEMMA OnuTypesStep ==
    ASSUME TypeInv, CallbackInv, ChannelNext
    PROVE  OnuTypes'
<1>t. state \in OnuStates /\ prog \in [Driver -> Progs] /\ uniUp \in BOOLEAN
    BY Zenon DEF TypeInv
<1>c. callback' \in {Calm} \cup (Driver \X Steps)
    BY CallbackStepInv, Zenon
<1> DEFINE Goal == state' \in OnuStates /\ prog' \in [Driver -> Progs] /\ uniUp' \in BOOLEAN
<1>0. ASSUME UNCHANGED <<state, prog, uniUp>> PROVE Goal
    BY <1>0, <1>t, Zenon
<1>p. ASSUME NEW d \in Driver, NEW p, Continues(d, p), UNCHANGED <<state, uniUp>> PROVE Goal
    BY <1>p, <1>t, Zenon DEF Continues
<1>1. ASSUME NEW d \in Driver, NEW r \in Requests, Begin(d, r) PROVE Goal
  <2>1. prog' = [prog EXCEPT ![d] = Program(r)] /\ UNCHANGED <<state, uniUp>>
    BY <1>1, Zenon DEF Begin
  <2>2. Program(r) \in Progs
    BY Programs, Zenon
  <2>3. Continues(d, Program(r))
    BY <2>1, <2>2, Continuing, Zenon
  <2> HIDE DEF Goal
  <2> QED
    BY <1>p, <2>1, <2>3, Zenon
<1>2. ASSUME NEW s \in Sender, Asks(s) PROVE UNCHANGED <<state, prog, uniUp>>
    BY <1>2, Asking, Zenon
<1>3. ASSUME NEW d \in Driver, NEW e \in Events, FireEvent(d, e) PROVE Goal
  <2>1. prog[d] # <<>> /\ Pop(d) /\ UNCHANGED uniUp
    BY <1>3, Zenon DEF FireEvent, Head1
  <2>2. prog' \in [Driver -> Progs]
    BY <2>1, Popping, Zenon DEF Continues
  <2>3. "initialized" \in OnuStates /\ "disabled" \in OnuStates
    BY Zenon DEF OnuStates
  <2>4. state' \in OnuStates
    BY <1>3, <1>t, <2>3, Firing, Zenon
  <2> QED
    BY <1>t, <2>1, <2>2, <2>4, Zenon
<1>4. ASSUME NEW d \in Driver, Drives(d) PROVE Goal
  <2>1. UNCHANGED <<state, uniUp>> /\ \E p : Continues(d, p)
    BY <1>4, Driving, Zenon DEF Driven
  <2> HIDE DEF Goal
  <2> QED
    BY <1>p, <2>1, Zenon
<1>5. ASSUME NEW d \in Driver, NEW l \in Loop, SpawnAgain(d, l) PROVE Goal
  <2>1. prog[d] # <<>> /\ Pop(d) /\ UNCHANGED <<state, uniUp>>
    BY <1>5, Zenon DEF SpawnAgain, Head1
  <2> HIDE DEF Goal
  <2> QED
    BY <1>p, <2>1, Popping, Zenon
<1>6. ASSUME NEW l \in Loop, MakeChannel(l) PROVE UNCHANGED <<state, prog, uniUp>>
    BY <1>6, Zenon DEF MakeChannel
<1>7. ASSUME Tells PROVE Goal
    BY <1>7, <1>t, Telling, Zenon
<1>8. ASSUME CloseIfNoFlows PROVE UNCHANGED <<state, prog, uniUp>>
    BY <1>8, Zenon DEF CloseIfNoFlows
<1>9. ASSUME NEW l \in Loop, LoopStep(l) PROVE Goal
  <2>1. UNCHANGED <<state, prog>>
    BY <1>9, Looping, Zenon
  <2>2. uniUp' \in BOOLEAN
    <3>1. CASE HandleUni(l)
      BY <1>t, <3>1 DEF HandleUni
    <3>2. CASE Select(l) \/ Cancelled(l) \/ ChannelClosed(l) \/ Receive(l)
      BY <1>t, <3>2, Zenon DEF Select, Cancelled, ChannelClosed, Receive, onuVars
    <3>3. CASE HandleFlowAdd(l) \/ HandleFlowRemove(l) \/ CloseAfterLastFlow(l)
      BY <1>t, <3>3, Zenon DEF HandleFlowAdd, HandleFlowRemove, CloseAfterLastFlow, onuVars
    <3> QED
      BY <1>9, <3>1, <3>2, <3>3, Zenon DEF LoopStep
  <2> QED
    BY <1>t, <2>1, <2>2, Zenon
<1>10. ASSUME NEW s \in Sender, SendPending(s) PROVE UNCHANGED <<state, prog, uniUp>>
    BY <1>10, Zenon DEF SendPending, onuVars
<1>11. Goal
  <2> HIDE DEF Goal
  <2> QED
    BY <1>0, <1>1, <1>2, <1>3, <1>4, <1>5, <1>6, <1>7, <1>8, <1>9, <1>10, Kinds, Zenon
<1> QED
    BY <1>c, <1>11, Zenon DEF OnuTypes

LEMMA VolthaTypesStep ==
    ASSUME TypeInv, CallbackInv, ChannelNext
    PROVE  VolthaTypes'
<1>t. context \in Nat /\ pending \in [Sender -> Sent] /\ installed \subseteq Flow
    BY Zenon DEF TypeInv
<1>0. ASSUME UNCHANGED <<context, pending, installed>> PROVE VolthaTypes'
    BY <1>0, <1>t, Zenon DEF VolthaTypes
<1>1. ASSUME NEW d \in Driver, NEW r \in Requests, Begin(d, r) PROVE VolthaTypes'
  <2>1. context' \in {context, context + 1} /\ UNCHANGED <<pending, installed>>
    BY <1>1, Zenon DEF Begin, voltha
  <2>2. context + 1 \in Nat
    BY <1>t
  <2> QED
    BY <1>t, <2>1, <2>2, Zenon DEF VolthaTypes
<1>2. ASSUME NEW s \in Sender, Asks(s) PROVE VolthaTypes'
    BY <1>2, <1>t, Asking, Zenon DEF VolthaTypes
<1>3. ASSUME NEW d \in Driver, NEW e \in Events, FireEvent(d, e) PROVE UNCHANGED <<context, pending, installed>>
    BY <1>3, Zenon DEF FireEvent, history, voltha
<1>4. ASSUME NEW d \in Driver, Drives(d) PROVE UNCHANGED <<context, pending, installed>>
    BY <1>4, Driving, Zenon DEF Driven
<1>5. ASSUME NEW d \in Driver, NEW l \in Loop, SpawnAgain(d, l) PROVE UNCHANGED <<context, pending, installed>>
    BY <1>5, Zenon DEF SpawnAgain, history, voltha
<1>6. ASSUME NEW l \in Loop, MakeChannel(l) PROVE UNCHANGED <<context, pending, installed>>
    BY <1>6, Zenon DEF MakeChannel, voltha
<1>7. ASSUME Tells PROVE UNCHANGED <<context, pending, installed>>
    BY <1>7, Telling, Zenon
<1>8. ASSUME CloseIfNoFlows PROVE UNCHANGED <<context, pending, installed>>
    BY <1>8, Zenon DEF CloseIfNoFlows, voltha
<1>9. ASSUME NEW l \in Loop, LoopStep(l) PROVE UNCHANGED <<context, pending, installed>>
    BY <1>9, Looping, Zenon
<1>10. ASSUME NEW s \in Sender, SendPending(s) PROVE VolthaTypes'
  <2>1. UNCHANGED <<context, installed>> /\ pending' = [pending EXCEPT ![s] = Nothing]
    BY <1>10, Zenon DEF SendPending, history, About
  <2>2. Nothing \in Sent
    BY SentTypes, Zenon
  <2> QED
    BY <1>t, <2>1, <2>2, Zenon DEF VolthaTypes
<1> QED
    BY <1>0, <1>1, <1>2, <1>3, <1>4, <1>5, <1>6, <1>7, <1>8, <1>9, <1>10, Kinds, Zenon

LEMMA TypeStep ==
    ASSUME TypeInv, CallbackInv, LoopInv, ZeroInv, ChannelNext
    PROVE  TypeInv'
<1>1. OnuTypes' /\ QueueTypes' /\ ClosedTypes' /\ LoopTypes' /\ VolthaTypes'
    BY OnuTypesStep, QueueTypesStep, ClosedTypesStep, LoopTypesStep, VolthaTypesStep, Zenon
<1>2. overtaken' \subseteq {"close", "removal", "reconnection"}
    BY Recording, Zenon
<1> QED
    BY <1>1, <1>2, Zenon DEF TypeInv, OnuTypes, QueueTypes, ClosedTypes, LoopTypes, VolthaTypes

-----------------------------------------------------------------------------
(***************************************************************************)
(* Channels and goroutines.                                                *)
(***************************************************************************)

\* enter_initialized, when nothing is overtaken by it.
LEMMA Making ==
    ASSUME TypeInv, NEW l \in Loop, MakeChannel(l)
    PROVE  /\ callback' = Calm /\ InCallback("make")
           /\ channel < MaxChannel /\ channel' = channel + 1 /\ channel' \notin closed' /\ channel' # channel
           /\ UNCHANGED <<state, prog, queue, closed, FlowIds, uniUp>>
           /\ UNCHANGED <<context, pending, installed, died>>
           /\ \E r \in Loops : Moves(l, r) /\ r.at = "ready" /\ r.ch = 0 /\ r.ctx = context /\ r.msg = Nothing
           /\ loop[l].at = "none"
           /\ Kept' => /\ \A k \in Loop : ~Working(k)
                       /\ \A c \in Channels : queue[c] = <<>>
                       /\ \A s \in Sender : pending[s] = Nothing
           /\ overtaken' \in {overtaken, overtaken \cup {"close"}}
<1>1. /\ callback' = Calm /\ InCallback("make") /\ channel < MaxChannel /\ channel' = channel + 1
      /\ UNCHANGED <<state, prog, queue, closed, FlowIds, uniUp>>
      /\ UNCHANGED <<context, pending, installed, died>> /\ Spawn(l)
    BY Zenon DEF MakeChannel, Then, voltha
<1>2. channel + 1 \notin 1..channel /\ channel + 1 # channel
    BY DEF TypeInv
<1>3. channel' \notin closed' /\ channel' # channel
    BY <1>1, <1>2, Zenon DEF TypeInv
<1>4. ASSUME Kept'
      PROVE  /\ \A k \in Loop : ~Working(k)
             /\ \A c \in Channels : queue[c] = <<>>
             /\ \A s \in Sender : pending[s] = Nothing
  <2>1. ~Unsettled /\ Drained
    BY <1>4, Zenon DEF MakeChannel, Overtakes, Kept
  <2> QED
    BY <2>1, Zenon DEF Unsettled, Drained
<1>5. overtaken' \in {overtaken, overtaken \cup {"close"}}
    BY Zenon DEF MakeChannel, Overtakes
<1> QED
    BY <1>1, <1>3, <1>4, <1>5, Spawning, Zenon

LEMMA LoopInvStep ==
    ASSUME TypeInv, CallbackInv, LoopInv, QueueInv, ChannelNext
    PROVE  LoopInv'
<1>k. Kept' => Kept
    BY Keeping, Zenon
<1>t. channel \in Nat
    BY CapacityAssumption DEF TypeInv
<1>0. ASSUME UNCHANGED <<loop, channel>> PROVE LoopInv'
    BY <1>0, <1>k, Zenon DEF LoopInv, Busy
<1>m. ASSUME UNCHANGED channel, NEW l \in Loop, NEW r \in Loops, Moves(l, r), r.ch \in 0..channel,
             r.at \in {"flow", "close"} => r.ch # 0 /\ (Kept => r.ch = channel)
      PROVE  LoopInv'
    BY <1>k, <1>m, Zenon DEF LoopInv, Busy, Moves
<1>z. 0 \in 0..channel /\ channel \in 0..channel
    BY <1>t
<1>1. ASSUME NEW d \in Driver, NEW r \in Requests, Begin(d, r) PROVE UNCHANGED <<loop, channel>>
    BY <1>1, Zenon DEF Begin
<1>2. ASSUME NEW s \in Sender, Asks(s) PROVE UNCHANGED <<loop, channel>>
    BY <1>2, Asking, Zenon
<1>3. ASSUME NEW d \in Driver, NEW e \in Events, FireEvent(d, e) PROVE UNCHANGED <<loop, channel>>
    BY <1>3, Zenon DEF FireEvent
<1>4. ASSUME NEW d \in Driver, Drives(d) PROVE UNCHANGED <<loop, channel>>
    BY <1>4, Driving, Zenon DEF Driven
<1>5. ASSUME NEW d \in Driver, NEW l \in Loop, SpawnAgain(d, l) PROVE LoopInv'
  <2>1. UNCHANGED channel /\ Spawn(l)
    BY <1>5, Zenon DEF SpawnAgain
  <2>2. PICK r \in Loops : Moves(l, r) /\ r.at = "ready" /\ r.ch = 0
    BY <2>1, Spawning, Zenon
  <2> QED
    BY <1>m, <1>z, <2>1, <2>2, Zenon
<1>6. ASSUME NEW l \in Loop, MakeChannel(l) PROVE LoopInv'
  <2>1. /\ channel' = channel + 1
        /\ Kept' => \A k \in Loop : ~Working(k)
    BY <1>6, Making, Zenon
  <2>2. PICK r \in Loops : Moves(l, r) /\ r.at = "ready" /\ r.ch = 0
    BY <1>6, Making, Zenon
  <2>3. 0 \in 0..(channel + 1) /\ \A c \in 0..channel : c \in 0..(channel + 1)
    BY <1>t
  <2>4. ASSUME NEW k \in Loop
        PROVE  /\ loop'[k].ch \in 0..channel'
               /\ Busy(k)' => loop'[k].ch # 0
               /\ Kept' /\ Busy(k)' => loop'[k].ch = channel'
    <3>1. CASE k = l
      BY <2>1, <2>2, <2>3, <3>1, Zenon DEF Moves, Busy
    <3>2. CASE k # l
      <4>1. loop'[k] = loop[k]
        BY <2>2, <3>2, Zenon DEF Moves
      <4>2. loop[k].ch \in 0..channel /\ (Busy(k) => loop[k].ch # 0)
        BY Zenon DEF LoopInv
      <4>3. Busy(k) => Working(k)
        BY Zenon DEF Busy, Working
      <4> QED
        BY <2>1, <2>3, <4>1, <4>2, <4>3, Zenon DEF Busy
    <3> QED
      BY <3>1, <3>2, Zenon
  <2> QED
    BY <2>4, Zenon DEF LoopInv
<1>7. ASSUME Tells PROVE UNCHANGED <<loop, channel>>
    BY <1>7, Telling, Zenon
<1>8. ASSUME CloseIfNoFlows PROVE UNCHANGED <<loop, channel>>
    BY <1>8, Zenon DEF CloseIfNoFlows
<1>9. ASSUME NEW l \in Loop, LoopStep(l) PROVE LoopInv'
  <2>c. UNCHANGED channel
    BY <1>9, Looping, Zenon
  <2>l. /\ loop[l].ch \in 0..channel /\ (Busy(l) => loop[l].ch # 0)
        /\ Kept /\ Busy(l) => loop[l].ch = channel
    BY Zenon DEF LoopInv
  <2>1. CASE Select(l)
    <3>1. PICK r \in Loops : Moves(l, r) /\ r.at = "wait" /\ r.ch = channel
      BY <2>1, Selecting, Zenon
    <3> QED
      BY <1>m, <1>z, <2>c, <3>1, Zenon
  <2>2. CASE Cancelled(l) \/ ChannelClosed(l)
    <3>1. Moves(l, NoLoop) /\ NoLoop.at = "none" /\ NoLoop.ch = 0 /\ NoLoop \in Loops
      <4>1. End(l)
        BY <2>2, Zenon DEF Cancelled, ChannelClosed
      <4>2. Moves(l, NoLoop) /\ NoLoop.at = "none" /\ NoLoop.ch = 0
        BY <4>1, Ending, Zenon
      <4>3. NoLoop \in Loops
        BY <4>2, Zenon DEF Moves
      <4> QED
        BY <4>2, <4>3, Zenon
    <3> QED
      BY <1>m, <1>z, <2>c, <3>1, Zenon
  <2>3. CASE Receive(l)
    <3>1. loop[l].ch \in Channels /\ queue[loop[l].ch] # <<>>
      BY <2>3, Receiving, Zenon
    <3>2. PICK r \in Loops : Moves(l, r) /\ r.ch = loop[l].ch
      BY <2>3, Receiving, Zenon
    <3>3. r.ch # 0 /\ (Kept => r.ch = channel)
      <4>1. loop[l].ch # 0
        BY <3>1 DEF Channels
      <4> QED
        BY <3>1, <3>2, <4>1, Zenon DEF QueueInv
    <3> QED
      BY <1>m, <2>c, <2>l, <3>2, <3>3, Zenon
  <2>4. ASSUME NEW at \in {"ready", "flow", "close"}, GoTo(l, at), Busy(l) PROVE LoopInv'
    <3>1. PICK r \in Loops : Moves(l, r) /\ r.at = at /\ r.ch = loop[l].ch
      BY <2>4, GoingTo, Zenon
    <3> QED
      BY <1>m, <2>4, <2>c, <2>l, <3>1, Zenon
  <2>5. CASE HandleFlowAdd(l) \/ HandleFlowRemove(l)
    <3>1. Busy(l) /\ \E at \in {"ready", "flow", "close"} : GoTo(l, at)
      BY <2>5, Zenon DEF HandleFlowAdd, HandleFlowRemove, Busy
    <3> QED
      BY <2>4, <3>1, Zenon
  <2>6. CASE CloseAfterLastFlow(l) \/ HandleUni(l)
    <3>1. Busy(l) /\ GoTo(l, "ready")
      BY <2>6, Zenon DEF CloseAfterLastFlow, HandleUni, Busy
    <3> QED
      BY <2>4, <3>1, Zenon
  <2> QED
    BY <1>9, <2>1, <2>2, <2>3, <2>5, <2>6, Zenon DEF LoopStep
<1>10. ASSUME NEW s \in Sender, SendPending(s) PROVE UNCHANGED <<loop, channel>>
    BY <1>10, Zenon DEF SendPending
<1> QED
    BY <1>0, <1>1, <1>2, <1>3, <1>4, <1>5, <1>6, <1>7, <1>8, <1>9, <1>10, Kinds, Zenon

LEMMA QueueInvStep ==
    ASSUME TypeInv, CallbackInv, QueueInv, ChannelNext
    PROVE  QueueInv'
<1>k. Kept' => Kept
    BY Keeping, Zenon
<1>0. ASSUME UNCHANGED <<queue, channel>> PROVE QueueInv'
    BY <1>0, <1>k, Zenon DEF QueueInv
<1>s. ASSUME NEW m \in Sent, Send(m), UNCHANGED channel PROVE QueueInv'
    BY <1>k, <1>s, Sending, Zenon DEF QueueInv
<1>t. ASSUME NEW c \in Channels, queue[c] # <<>>, queue' = [queue EXCEPT ![c] = Tail(@)], UNCHANGED channel
      PROVE  QueueInv'
  <2>1. Kept => c = channel
    BY <1>t, Zenon DEF QueueInv
  <2>2. \A k \in Channels : k # c => queue'[k] = queue[k]
    BY <1>t, Taking, Zenon
  <2> QED
    BY <1>k, <1>t, <2>1, <2>2, Zenon DEF QueueInv
<1>r. Routine \in Sent
    BY SentTypes, Zenon
<1>1. ASSUME NEW d \in Driver, NEW r \in Requests, Begin(d, r) PROVE UNCHANGED <<queue, channel>>
    BY <1>1, Zenon DEF Begin
<1>2. ASSUME NEW s \in Sender, Asks(s) PROVE UNCHANGED <<queue, channel>>
    BY <1>2, Asking, Zenon
<1>3. ASSUME NEW d \in Driver, NEW e \in Events, FireEvent(d, e) PROVE UNCHANGED <<queue, channel>>
    BY <1>3, Zenon DEF FireEvent
<1>4. ASSUME NEW d \in Driver, Drives(d) PROVE QueueInv'
  <2>1. UNCHANGED channel /\ (Send(Routine) \/ UNCHANGED queue)
    BY <1>4, Driving, Zenon DEF Driven
  <2> QED
    BY <1>0, <1>r, <1>s, <2>1, Zenon
<1>5. ASSUME NEW d \in Driver, NEW l \in Loop, SpawnAgain(d, l) PROVE UNCHANGED <<queue, channel>>
    BY <1>5, Zenon DEF SpawnAgain
<1>6. ASSUME NEW l \in Loop, MakeChannel(l) PROVE QueueInv'
    BY <1>6, Making, Zenon DEF QueueInv
<1>7. ASSUME Tells PROVE QueueInv'
  <2>1. UNCHANGED channel /\ (Send(Routine) \/ UNCHANGED queue)
    BY <1>7, Telling, Zenon
  <2> QED
    BY <1>0, <1>r, <1>s, <2>1, Zenon
<1>8. ASSUME CloseIfNoFlows PROVE UNCHANGED <<queue, channel>>
    BY <1>8, Zenon DEF CloseIfNoFlows
<1>9. ASSUME NEW l \in Loop, LoopStep(l) PROVE QueueInv'
  <2>c. UNCHANGED channel
    BY <1>9, Looping, Zenon
  <2>1. CASE Select(l) \/ ChannelClosed(l) \/ HandleFlowAdd(l) \/ HandleFlowRemove(l) \/ CloseAfterLastFlow(l)
    <3>1. UNCHANGED queue
      BY <2>1, Zenon DEF Select, ChannelClosed, HandleFlowAdd, HandleFlowRemove, CloseAfterLastFlow
    <3> QED
      BY <1>0, <2>c, <3>1, Zenon
  <2>2. CASE Cancelled(l)
    BY <1>0, <1>t, <2>2, <2>c, Cancelling, Zenon
  <2>3. CASE Receive(l)
    BY <1>t, <2>3, <2>c, Receiving, Zenon
  <2>4. CASE HandleUni(l)
    BY <1>r, <1>s, <2>4, <2>c, Zenon DEF HandleUni
  <2> QED
    BY <1>9, <2>1, <2>2, <2>3, <2>4, Zenon DEF LoopStep
<1>10. ASSUME NEW s \in Sender, SendPending(s) PROVE QueueInv'
  <2>1. pending[s] \in Sent /\ Send(pending[s]) /\ UNCHANGED channel
    BY <1>10, Zenon DEF TypeInv, SendPending
  <2> QED
    BY <1>s, <2>1, Zenon
<1> QED
    BY <1>0, <1>1, <1>2, <1>3, <1>4, <1>5, <1>6, <1>7, <1>8, <1>9, <1>10, Kinds, Zenon

LEMMA NoEventsLeft ==
    ASSUME NEW q \in Seq(Sent), q # <<>>, NoEvents(q)
    PROVE  NoEvents(Tail(q)) /\ Head(q).type \notin Eventful
<1>1. /\ Len(q) \in Nat \ {0} /\ Head(q) = q[1] /\ 1 \in 1..Len(q)
      /\ \A i \in 1..Len(Tail(q)) : Tail(q)[i] = q[i + 1] /\ i + 1 \in 1..Len(q)
    OBVIOUS
<1> QED
    BY <1>1, Zenon DEF NoEvents

LEMMA BusyInvStep ==
    ASSUME TypeInv, CallbackInv, BusyInv, ReceiverInv, ChannelNext
    PROVE  BusyInv'
<1>k. (Kept' => Kept) /\ (overtaken' = {} => overtaken = {})
    BY Keeping, Zenon
<1>0. ASSUME UNCHANGED <<state, callback, loop, FlowIds>> PROVE BusyInv'
    BY <1>0, <1>k, Zenon DEF BusyInv, InCallback
<1>m. ASSUME UNCHANGED <<state, callback, FlowIds>>, NEW l \in Loop, NEW r, Moves(l, r), r.at # "close"
      PROVE  BusyInv'
    BY <1>m, <1>k, Zenon DEF BusyInv, InCallback, Moves
<1>1. ASSUME NEW d \in Driver, NEW r \in Requests, Begin(d, r) PROVE BusyInv'
    BY <1>0, <1>1, Zenon DEF Begin
<1>2. ASSUME NEW s \in Sender, Asks(s) PROVE BusyInv'
    BY <1>0, <1>2, Asking, Zenon
<1>3. ASSUME NEW d \in Driver, NEW e \in Events, FireEvent(d, e) PROVE BusyInv'
  <2>1. callback = Calm /\ UNCHANGED <<loop, FlowIds>>
    BY <1>3, Zenon DEF FireEvent
  <2>2. ~InCallback("make")
    BY <2>1, Zenon DEF InCallback
  <2>3. state = "disabled" => state' = "disabled" \/ InCallback("make")'
    <3>1. callback' = <<d, "make">> => InCallback("make")'
      BY Pairs, Zenon DEF InCallback
    <3> QED
      BY <1>3, <3>1, Firing, Zenon
  <2> QED
    BY <1>k, <2>1, <2>2, <2>3, Zenon DEF BusyInv
<1>4. ASSUME NEW d \in Driver, Drives(d) PROVE BusyInv'
    BY <1>0, <1>4, Driving, Zenon DEF Driven
<1>5. ASSUME NEW d \in Driver, NEW l \in Loop, SpawnAgain(d, l) PROVE BusyInv'
  <2>1. UNCHANGED <<state, callback, FlowIds>> /\ Spawn(l)
    BY <1>5, Zenon DEF SpawnAgain
  <2>2. PICK r \in Loops : Moves(l, r) /\ r.at = "ready"
    BY <2>1, Spawning, Zenon
  <2> QED
    BY <1>m, <2>1, <2>2, Zenon
<1>6. ASSUME NEW l \in Loop, MakeChannel(l) PROVE BusyInv'
  <2>1. Kept' => \A k \in Loop : ~Working(k)
    BY <1>6, Making, Zenon
  <2>2. PICK r \in Loops : Moves(l, r) /\ r.at = "ready"
    BY <1>6, Making, Zenon
  <2>3. \A k \in Loop : loop'[k].at = "close" => Working(k)
    BY <2>2, Zenon DEF Moves, Working
  <2> QED
    BY <2>1, <2>3, Zenon DEF BusyInv
<1>7. ASSUME Tells PROVE BusyInv'
    BY <1>7, <1>k, Telling, Zenon DEF BusyInv
<1>8. ASSUME CloseIfNoFlows PROVE BusyInv'
  <2>1. UNCHANGED <<state, loop, FlowIds>> /\ ~InCallback("make")
    BY <1>8, Zenon DEF CloseIfNoFlows, InCallback
  <2> QED
    BY <1>k, <2>1, Zenon DEF BusyInv
<1>9. ASSUME NEW l \in Loop, LoopStep(l) PROVE BusyInv'
  <2>f. UNCHANGED <<state, callback>>
    BY <1>9, Looping, Zenon
  <2>1. CASE Select(l)
    <3>1. UNCHANGED FlowIds
      BY <2>1, Zenon DEF Select
    <3>2. PICK r \in Loops : Moves(l, r) /\ r.at = "wait"
      BY <2>1, Selecting, Zenon
    <3> QED
      BY <1>m, <2>f, <3>1, <3>2, Zenon
  <2>2. CASE Cancelled(l) \/ ChannelClosed(l)
    <3>1. UNCHANGED FlowIds /\ End(l)
      BY <2>2, Zenon DEF Cancelled, ChannelClosed
    <3> QED
      BY <1>m, <2>f, <3>1, Ending, Zenon
  <2>3. CASE Receive(l)
    <3>1. UNCHANGED FlowIds
      BY <2>3, Zenon DEF Receive
    <3>2. PICK r \in Loops : Moves(l, r) /\ r.at # "close"
      BY <2>3, Receiving, Zenon
    <3> QED
      BY <1>m, <2>f, <3>1, <3>2, Zenon
  <2>4. CASE CloseAfterLastFlow(l) \/ HandleUni(l)
    <3>1. UNCHANGED FlowIds /\ GoTo(l, "ready")
      BY <2>4, Zenon DEF CloseAfterLastFlow, HandleUni
    <3>2. PICK r \in Loops : Moves(l, r) /\ r.at = "ready"
      BY <3>1, GoingTo, Zenon
    <3> QED
      BY <1>m, <2>f, <3>1, <3>2, Zenon
  <2>5. CASE HandleFlowAdd(l) \/ HandleFlowRemove(l)
    <3>1. PICK at \in {"ready", "close"} : GoTo(l, at) /\ (at = "close" => FlowIds' = <<>> /\ state = "disabled")
      BY <2>5, Zenon DEF HandleFlowAdd, HandleFlowRemove
    <3>2. PICK r \in Loops : Moves(l, r) /\ r.at = at
      BY <3>1, GoingTo, Zenon
    <3>3. Current(l)
      BY <2>5, Zenon DEF HandleFlowAdd, HandleFlowRemove, Current
    <3>4. ASSUME Kept', NEW k \in Loop, loop'[k].at = "close"
          PROVE  /\ state' = "disabled" \/ InCallback("make")'
                 /\ overtaken' = {} => FlowIds' = <<>>
      <4>1. CASE k = l
        BY <2>f, <3>1, <3>2, <3>4, <4>1, Zenon DEF Moves
      <4>2. CASE k # l
        <5>1. loop[k].at = "close"
          BY <3>2, <3>4, <4>2, Zenon DEF Moves
        <5>2. Alone => FALSE
          BY <3>3, <4>2, <5>1, Zenon DEF ReceiverInv, Current
        <5>3. overtaken' # {}
          BY <1>k, <5>2, Zenon DEF Alone
        <5>4. state = "disabled" \/ InCallback("make")
          BY <1>k, <3>4, <5>1, Zenon DEF BusyInv
        <5> QED
          BY <2>f, <5>3, <5>4, Zenon DEF InCallback
      <4> QED
        BY <4>1, <4>2, Zenon
    <3> QED
      BY <3>4, Zenon DEF BusyInv
  <2> QED
    BY <1>9, <2>1, <2>2, <2>3, <2>4, <2>5, Zenon DEF LoopStep
<1>10. ASSUME NEW s \in Sender, SendPending(s) PROVE BusyInv'
    BY <1>0, <1>10, Zenon DEF SendPending, onuVars
<1> QED
    BY <1>1, <1>2, <1>3, <1>4, <1>5, <1>6, <1>7, <1>8, <1>9, <1>10, Kinds, Zenon

LEMMA DiedInvStep ==
    ASSUME TypeInv, CallbackInv, LoopInv, ClosedInv, DiedInv, ChannelNext
    PROVE  DiedInv'
<1>k. Kept' => Kept
    BY Keeping, Zenon
<1>d. ~died
    BY Zenon DEF ChannelNext
<1>0. ASSUME died' = died PROVE DiedInv'
    BY <1>0, <1>d, Zenon DEF DiedInv
<1>s. ASSUME NEW m \in Sent, Send(m), channel \notin closed PROVE DiedInv'
    BY <1>0, <1>s, Sending, Zenon
<1>n. ASSUME ~(Kept /\ channel \in closed) PROVE ~Kept' \/ channel \notin closed
    BY <1>k, <1>n, Zenon
<1>c. ASSUME Kept, channel \in closed PROVE Shut
    BY <1>c, Zenon DEF ClosedInv
<1>r. Routine \in Sent
    BY SentTypes, Zenon
<1>1. ASSUME NEW d \in Driver, NEW r \in Requests, Begin(d, r) PROVE DiedInv'
    BY <1>0, <1>1, Zenon DEF Begin
<1>2. ASSUME NEW s \in Sender, Asks(s) PROVE DiedInv'
    BY <1>0, <1>2, Asking, Zenon
<1>3. ASSUME NEW d \in Driver, NEW e \in Events, FireEvent(d, e) PROVE DiedInv'
    BY <1>0, <1>3, Zenon DEF FireEvent
<1>4. ASSUME NEW d \in Driver, Drives(d) PROVE DiedInv'
  <2>1. CASE UNCHANGED <<queue, died>>
    BY <1>0, <2>1, Zenon
  <2>2. CASE Send(Routine) /\ (Head1(d, "alarm") \/ state = "discovered")
    <3>1. callback # Calm => callback[1] # d
      BY <1>4, Driving, Zenon DEF Driven
    <3>2. ~(Kept /\ channel \in closed)
      BY <1>c, <2>2, <3>1, Zenon DEF Shut, AlarmsWait, CallbackInv
    <3> QED
      BY <1>n, <1>r, <1>s, <2>2, <3>2, Zenon DEF DiedInv
  <2> QED
    BY <1>4, <2>1, <2>2, Driving, Zenon
<1>5. ASSUME NEW d \in Driver, NEW l \in Loop, SpawnAgain(d, l) PROVE DiedInv'
    BY <1>0, <1>5, Zenon DEF SpawnAgain
<1>6. ASSUME NEW l \in Loop, MakeChannel(l) PROVE DiedInv'
    BY <1>0, <1>6, Zenon DEF MakeChannel
<1>7. ASSUME Tells PROVE DiedInv'
  <2>1. callback # Calm /\ ~InCallback("make") /\ (Send(Routine) \/ UNCHANGED <<queue, died>>)
    BY <1>7, Telling, Zenon
  <2>2. ~(Kept /\ channel \in closed)
    BY <1>c, <2>1, Zenon DEF Shut
  <2> QED
    BY <1>0, <1>n, <1>r, <1>s, <2>1, <2>2, Zenon DEF DiedInv
<1>8. ASSUME CloseIfNoFlows PROVE DiedInv'
  <2>1. callback # Calm /\ ~InCallback("make") /\ (died' = died \/ died' = (channel \in closed))
    BY <1>8, Zenon DEF CloseIfNoFlows, Close, InCallback
  <2>2. ~(Kept /\ channel \in closed)
    BY <1>c, <2>1, Zenon DEF Shut
  <2>3. CASE died' = (channel \in closed)
    BY <1>n, <2>2, <2>3, Zenon DEF DiedInv
  <2> QED
    BY <1>0, <2>1, <2>3, Zenon
<1>9. ASSUME NEW l \in Loop, LoopStep(l) PROVE DiedInv'
  <2>1. CASE Select(l) \/ Cancelled(l) \/ ChannelClosed(l) \/ Receive(l)
    BY <1>0, <2>1, Zenon DEF Select, Cancelled, ChannelClosed, Receive
  <2>2. CASE HandleFlowAdd(l) \/ HandleFlowRemove(l)
    BY <1>0, <2>2, Zenon DEF HandleFlowAdd, HandleFlowRemove
  <2>3. CASE CloseAfterLastFlow(l)
    <3>1. Busy(l) /\ died' = (channel \in closed)
      BY <2>3, Zenon DEF CloseAfterLastFlow, Close, Busy
    <3>2. ~(Kept /\ channel \in closed)
      BY <1>c, <3>1, Zenon DEF Shut
    <3> QED
      BY <1>n, <3>1, <3>2, Zenon DEF DiedInv
  <2>4. CASE HandleUni(l)
    <3>1. Busy(l) /\ Send(Routine)
      BY <2>4, Zenon DEF HandleUni, Busy
    <3>2. ~(Kept /\ channel \in closed)
      BY <1>c, <3>1, Zenon DEF Shut
    <3> QED
      BY <1>n, <1>r, <1>s, <3>1, <3>2, Zenon DEF DiedInv
  <2> QED
    BY <1>9, <2>1, <2>2, <2>3, <2>4, Zenon DEF LoopStep
<1>10. ASSUME NEW s \in Sender, SendPending(s) PROVE DiedInv'
  <2>1. pending[s] # Nothing /\ Send(pending[s]) /\ pending[s] \in Sent
    BY <1>10, Zenon DEF SendPending, TypeInv
  <2>2. ~(Kept /\ channel \in closed)
    BY <1>c, <2>1, Zenon DEF Shut
  <2> QED
    BY <1>n, <1>s, <2>1, <2>2, Zenon DEF DiedInv
<1> QED
    BY <1>1, <1>2, <1>3, <1>4, <1>5, <1>6, <1>7, <1>8, <1>9, <1>10, Kinds, Zenon

LEMMA ZeroInvStep ==
    ASSUME TypeInv, CallbackInv, LoopInv, ZeroInv, ChannelNext
    PROVE  ZeroInv'
<1> SUFFICES ASSUME channel' = 0 PROVE ZeroInv'
    BY Zenon DEF ZeroInv
<1> DEFINE Quick == /\ FlowIds = <<>> /\ installed = {} /\ \A s \in Sender : pending[s] = Nothing
                    /\ \/ InCallback("make")
                       \/ /\ callback = Calm /\ state = "created"
                          /\ \A d \in Driver : prog[d] # <<>> => Head1(d, "initialize")
<1>g. Quick' => ZeroInv'
    BY Zenon DEF ZeroInv
<1>z. channel = 0 => Quick
    BY Zenon DEF ZeroInv
<1>0. ASSUME UNCHANGED <<channel, FlowIds, installed, pending, callback, state, prog>> PROVE ZeroInv'
    BY <1>0, <1>g, <1>z, Zenon DEF InCallback, Head1
<1>p. ASSUME UNCHANGED <<channel, FlowIds, installed, pending>>, UNCHANGED callback, InCallback("make")
      PROVE  ZeroInv'
    BY <1>p, <1>g, <1>z, Zenon DEF InCallback
<1>1. ASSUME NEW d \in Driver, NEW r \in Requests, Begin(d, r) PROVE ZeroInv'
  <2>1. /\ UNCHANGED <<channel, FlowIds, installed, pending>> /\ UNCHANGED <<state, callback>>
        /\ prog' = [prog EXCEPT ![d] = Program(r)] /\ (channel = 0 => r = "PowerOn")
    BY <1>1, Zenon DEF Begin, voltha
  <2>2. Quick /\ r = "PowerOn"
    BY <1>z, <2>1, Zenon
  <2>3. CASE InCallback("make")
    BY <1>p, <2>1, <2>3, Zenon
  <2>4. CASE ~InCallback("make")
    <3>1. callback = Calm /\ state = "created" /\ \A o \in Driver : prog[o] # <<>> => Head1(o, "initialize")
      BY <2>2, <2>4, Zenon
    <3>2. Program(r) \in Progs /\ Head(Program(r)) = "initialize"
      BY <2>2, <3>1, Programs, Zenon
    <3>3. Continues(d, Program(r))
      BY <2>1, <3>2, Continuing, Zenon
    <3>4. \A o \in Driver : prog'[o] # <<>> => Head1(o, "initialize")'
      BY <3>1, <3>2, <3>3, Zenon DEF Continues, Head1
    <3> QED
      BY <1>g, <2>1, <2>2, <3>1, <3>4, Zenon
  <2> QED
    BY <2>3, <2>4, Zenon
<1>2. ASSUME NEW s \in Sender, Asks(s) PROVE ZeroInv'
    BY <1>2, <1>z, Asking, Zenon
<1>3. ASSUME NEW d \in Driver, NEW e \in Events, FireEvent(d, e) PROVE ZeroInv'
  <2>1. callback = Calm /\ Head1(d, e) /\ UNCHANGED <<channel, FlowIds, installed, pending>>
    BY <1>3, Zenon DEF FireEvent, voltha
  <2>2. Quick /\ ~InCallback("make")
    BY <1>z, <2>1, Zenon DEF InCallback
  <2>3. state = "created" /\ e = "initialize"
    BY <2>1, <2>2, Zenon DEF Head1
  <2>4. callback' = <<d, "make">>
    BY <1>3, <2>3, Firing, Zenon
  <2>5. InCallback("make")'
    BY <2>4, Pairs, Zenon DEF InCallback
  <2> QED
    BY <1>g, <2>1, <2>2, <2>5, Zenon
<1>4. ASSUME NEW d \in Driver, Drives(d) PROVE ZeroInv'
    BY <1>4, <1>p, <1>z, Driving, Zenon DEF Driven
<1>5. ASSUME NEW d \in Driver, NEW l \in Loop, SpawnAgain(d, l) PROVE ZeroInv'
  <2>1. Head1(d, "spawn") /\ UNCHANGED <<channel, FlowIds, installed, pending>> /\ UNCHANGED callback
    BY <1>5, Zenon DEF SpawnAgain, voltha
  <2>2. prog[d] # <<>> /\ ~Head1(d, "initialize")
    BY <2>1, Zenon DEF Head1
  <2> QED
    BY <1>p, <1>z, <2>1, <2>2, Zenon
<1>6. ASSUME NEW l \in Loop, MakeChannel(l) PROVE ZeroInv'
  <2>1. channel' = channel + 1 /\ channel \in Nat
    BY <1>6, Making DEF TypeInv
  <2>2. channel' # 0
    BY <2>1
  <2> QED
    BY <2>2, Zenon
<1>7. ASSUME Tells PROVE ZeroInv'
    BY <1>7, <1>z, Telling, Zenon
<1>8. ASSUME CloseIfNoFlows PROVE ZeroInv'
  <2>1. channel' = channel /\ callback # Calm /\ ~InCallback("make")
    BY <1>8, Zenon DEF CloseIfNoFlows, InCallback
  <2> QED
    BY <1>z, <2>1, Zenon
<1>9. ASSUME NEW l \in Loop, LoopStep(l) PROVE ZeroInv'
  <2>1. UNCHANGED <<state, callback, prog, channel, context, pending, installed>>
    BY <1>9, Looping, Zenon
  <2>2. ~Busy(l)
    <3>1. 0..channel = {0}
      BY <2>1
    <3> QED
      BY <3>1, Zenon DEF LoopInv
  <2>3. FlowIds' = FlowIds
    BY <1>9, <2>2, Zenon DEF LoopStep, Select, Cancelled, ChannelClosed, Receive, HandleFlowAdd, HandleFlowRemove,
                             CloseAfterLastFlow, HandleUni, Busy
  <2> QED
    BY <1>0, <2>1, <2>3, Zenon
<1>10. ASSUME NEW s \in Sender, SendPending(s) PROVE ZeroInv'
  <2>1. pending[s] # Nothing /\ channel' = channel
    BY <1>10, Zenon DEF SendPending
  <2> QED
    BY <1>z, <2>1, Zenon
<1> QED
    BY <1>1, <1>2, <1>3, <1>4, <1>5, <1>6, <1>7, <1>8, <1>9, <1>10, Kinds, Zenon

LEMMA ReceiverInvStep ==
    ASSUME TypeInv, CallbackInv, LoopInv, QueueInv, ReceiverInv, ChannelNext
    PROVE  ReceiverInv'
<1> SUFFICES ASSUME Alone' PROVE ReceiverInv'
    BY Zenon DEF ReceiverInv
<1> DEFINE U == \A l, k \in Loop : Current(l) /\ Current(k) => l = k
           X == \A l \in Loop : Live(l) => loop[l].ctx = context
           P == \A d \in Driver : ~Spawns(prog[d])
<1>g. U' /\ X' /\ P' => ReceiverInv'
    BY Zenon DEF ReceiverInv
<1>a. U /\ X /\ P /\ Kept /\ Kept'
  <2>1. Alone
    BY Keeping, Zenon
  <2> QED
    BY <2>1 DEF ReceiverInv, Alone, Kept
<1>0. ASSUME UNCHANGED <<loop, channel, context>> PROVE U' /\ X'
    BY <1>0, <1>a, Zenon DEF Current, Live
<1>p. ASSUME NEW d \in Driver, NEW p, Continues(d, p), Spawns(p) => Spawns(prog[d]) PROVE P'
    BY <1>p, <1>a, Zenon DEF Continues
<1>m. ASSUME UNCHANGED <<prog, channel, context>>, NEW l \in Loop, NEW r, Moves(l, r),
             r.at = "none" \/ (Current(l) /\ Live(l) /\ r.ctx = loop[l].ctx)
      PROVE  ReceiverInv'
  <2>1. P'
    BY <1>a, <1>m, Zenon
  <2>2. \A k \in Loop : Current(k)' => Current(k)
    BY <1>m, Zenon DEF Moves, Current
  <2>3. X'
    BY <1>a, <1>m, Zenon DEF Moves, Live
  <2> QED
    BY <1>a, <1>g, <2>1, <2>2, <2>3, Zenon
<1>1. ASSUME NEW d \in Driver, NEW r \in Requests, Begin(d, r) PROVE ReceiverInv'
  <2>1. r # "Reconnect"
    <3>1. r = "Reconnect" => overtaken' = overtaken \cup {"reconnection"}
      BY <1>1, Zenon DEF Begin, Overtakes
    <3> QED
      BY <3>1 DEF Alone
  <2>2. UNCHANGED <<loop, channel, context>> /\ prog' = [prog EXCEPT ![d] = Program(r)]
    BY <1>1, <2>1, Zenon DEF Begin
  <2>3. Continues(d, Program(r)) /\ ~Spawns(Program(r))
    BY <2>1, <2>2, Programs, Continuing, Zenon
  <2> QED
    BY <1>0, <1>g, <1>p, <2>2, <2>3, Zenon
<1>2. ASSUME NEW s \in Sender, Asks(s) PROVE ReceiverInv'
    BY <1>0, <1>2, <1>a, <1>g, Asking, Zenon
<1>3. ASSUME NEW d \in Driver, NEW e \in Events, FireEvent(d, e) PROVE ReceiverInv'
  <2>1. UNCHANGED <<loop, channel, context>> /\ prog[d] # <<>> /\ Pop(d)
    BY <1>3, Zenon DEF FireEvent, Head1, history
  <2>2. Continues(d, Tail(prog[d])) /\ (Spawns(Tail(prog[d])) => Spawns(prog[d]))
    BY <2>1, Popping, Tails, Zenon
  <2> QED
    BY <1>0, <1>g, <1>p, <2>1, <2>2, Zenon
<1>4. ASSUME NEW d \in Driver, Drives(d) PROVE ReceiverInv'
  <2>1. UNCHANGED <<loop, channel, context>>
    BY <1>4, Driving, Zenon DEF Driven
  <2>2. PICK p \in Progs : Continues(d, p) /\ (Spawns(p) => Spawns(prog[d]))
    BY <1>4, Driving, Zenon
  <2> QED
    BY <1>0, <1>g, <1>p, <2>1, <2>2, Zenon
<1>5. ASSUME NEW d \in Driver, NEW l \in Loop, SpawnAgain(d, l) PROVE ReceiverInv'
  <2>1. prog[d] # <<>> /\ Head(prog[d]) = "spawn" /\ prog[d] \in Progs
    BY <1>5, Zenon DEF SpawnAgain, Head1, TypeInv
  <2> QED
    BY <1>a, <2>1, Tails, Zenon
<1>6. ASSUME NEW l \in Loop, MakeChannel(l) PROVE ReceiverInv'
  <2>1. PICK r \in Loops : Moves(l, r) /\ r.at = "ready" /\ r.ctx = context
    BY <1>6, Making, Zenon
  <2>2. UNCHANGED <<prog, context>> /\ \A k \in Loop : ~Working(k)
    BY <1>6, <1>a, Making, Zenon
  <2>3. \A k \in Loop : loop[k].ch # channel'
    <3>1. channel' \notin 0..channel
      <4>1. channel' = channel + 1 /\ channel \in 0..MaxChannel
        BY <1>6, Making, Zenon DEF TypeInv
      <4> QED
        BY <4>1
    <3> QED
      BY <3>1, Zenon DEF LoopInv
  <2>4. \A k \in Loop : k # l => ~Current(k)'
    BY <2>1, <2>2, <2>3, Zenon DEF Moves, Current, Working
  <2>5. P' /\ X'
    BY <1>a, <2>1, <2>2, Zenon DEF Moves, Live
  <2> QED
    BY <1>g, <2>4, <2>5, Zenon
<1>7. ASSUME Tells PROVE ReceiverInv'
    BY <1>0, <1>7, <1>a, <1>g, Telling, Zenon
<1>8. ASSUME CloseIfNoFlows PROVE ReceiverInv'
    BY <1>0, <1>8, <1>a, <1>g, Zenon DEF CloseIfNoFlows
<1>9. ASSUME NEW l \in Loop, LoopStep(l) PROVE ReceiverInv'
  <2>f. UNCHANGED <<prog, channel, context>>
    BY <1>9, Looping, Zenon
  <2>1. CASE Select(l)
    <3>1. PICK r \in Loops : Moves(l, r) /\ r.ctx = loop[l].ctx
      BY <2>1, Selecting, Zenon
    <3>2. Current(l) /\ Live(l)
      BY <2>1, Zenon DEF Select, Current, Live
    <3> QED
      BY <1>m, <2>f, <3>1, <3>2, Zenon
  <2>2. CASE Cancelled(l) \/ ChannelClosed(l)
    <3>1. End(l)
      BY <2>2, Zenon DEF Cancelled, ChannelClosed
    <3> QED
      BY <1>m, <2>f, <3>1, Ending, Zenon
  <2>3. CASE Receive(l)
    <3>1. PICK r \in Loops : Moves(l, r) /\ r.ctx = loop[l].ctx
      BY <2>3, Receiving, Zenon
    <3>2. loop[l].at = "wait" /\ loop[l].ch \in Channels /\ queue[loop[l].ch] # <<>>
      BY <2>3, Receiving, Zenon
    <3>3. Current(l) /\ Live(l)
      BY <1>a, <3>2, Zenon DEF Current, Live, QueueInv
    <3> QED
      BY <1>m, <2>f, <3>1, <3>3, Zenon
  <2>4. CASE \E at \in {"ready", "close"} : GoTo(l, at) /\ loop[l].at \in {"flow", "close"}
    <3>1. PICK r \in Loops : Moves(l, r) /\ r.ctx = loop[l].ctx
      BY <2>4, GoingTo, Zenon
    <3>2. Current(l) /\ Live(l)
      BY <2>4, Zenon DEF Current, Live
    <3> QED
      BY <1>m, <2>f, <3>1, <3>2, Zenon
  <2>5. CASE HandleFlowAdd(l) \/ HandleFlowRemove(l) \/ CloseAfterLastFlow(l) \/ HandleUni(l)
    BY <2>4, <2>5, Zenon DEF HandleFlowAdd, HandleFlowRemove, CloseAfterLastFlow, HandleUni
  <2> QED
    BY <1>9, <2>1, <2>2, <2>3, <2>5, Zenon DEF LoopStep
<1>10. ASSUME NEW s \in Sender, SendPending(s) PROVE ReceiverInv'
    BY <1>0, <1>10, <1>a, <1>g, Zenon DEF SendPending, onuVars, history
<1> QED
    BY <1>1, <1>2, <1>3, <1>4, <1>5, <1>6, <1>7, <1>8, <1>9, <1>10, Kinds, Zenon

LEMMA ClosedInvStep ==
    ASSUME TypeInv, CallbackInv, LoopInv, QueueInv, BusyInv, ClosedInv, ZeroInv, ChannelNext
    PROVE  ClosedInv'
<1> SUFFICES ASSUME Kept', channel' \in closed' PROVE Shut'
    BY Zenon DEF ClosedInv
<1> DEFINE A == (state = "disabled" /\ callback = Calm) \/ InCallback("make")
           B == \A s \in Sender : pending[s] = Nothing
           C == NoEvents(queue[channel])
           D == \A l \in Loop : ~Busy(l)
           E == AlarmsWait
           F == overtaken = {} => FlowIds = <<>>
<1>g. A' /\ B' /\ C' /\ D' /\ E' /\ F' => Shut'
    BY Zenon DEF Shut
<1>k. Kept /\ (overtaken' = {} => overtaken = {})
    BY Keeping, Zenon
<1>s. channel \in closed => A /\ B /\ C /\ D /\ E /\ F
    BY <1>k, Zenon DEF ClosedInv, Shut
<1>a. ASSUME UNCHANGED <<state, callback>>, A PROVE A'
    BY <1>a, Zenon DEF InCallback
<1>d. ASSUME UNCHANGED loop, D PROVE D'
    BY <1>d, Zenon DEF Busy
<1>e. ASSUME UNCHANGED <<prog, callback>>, E PROVE E'
    BY <1>e, Zenon DEF AlarmsWait, Head1
<1>f. ASSUME UNCHANGED FlowIds, F PROVE F'
    BY <1>f, <1>k, Zenon
<1> HIDE DEF A, C, D, E, F
<1>1. ASSUME NEW d \in Driver, NEW r \in Requests, Begin(d, r) PROVE Shut'
  <2>1. /\ UNCHANGED <<state, callback, channel, queue>> /\ UNCHANGED <<closed, FlowIds, loop, pending>>
        /\ prog' = [prog EXCEPT ![d] = Program(r)]
    BY <1>1, Zenon DEF Begin, voltha
  <2>2. Continues(d, Program(r))
    BY <2>1, Programs, Continuing, Zenon
  <2>3. r # "Reconnect" /\ Head(Program(r)) = "alarm" /\ channel \in closed => overtaken' = overtaken \cup {"close"}
    BY <1>1, Zenon DEF Begin, Overtakes
  <2>4. ~Head1(d, "alarm")'
    <3>1. r = "Reconnect" => Head(Program(r)) # "alarm"
      BY Programs, Zenon
    <3>2. Head(Program(r)) # "alarm"
      BY <2>1, <2>3, <3>1, Zenon DEF Kept
    <3> QED
      BY <2>2, <3>2, Zenon DEF Continues, Head1
  <2>5. E'
    <3>1. E
      BY <1>s, <2>1, Zenon
    <3> QED
      BY <2>1, <2>2, <2>4, <3>1, Zenon DEF E, AlarmsWait, Continues, Head1
  <2>6. C'
    BY <1>s, <2>1, Zenon DEF C
  <2> QED
    BY <1>a, <1>d, <1>f, <1>g, <1>s, <2>1, <2>5, <2>6, Zenon
<1>2. ASSUME NEW s \in Sender, Asks(s) PROVE Shut'
  <2>1. /\ UNCHANGED <<state, callback, prog, uniUp>>
        /\ UNCHANGED <<channel, queue, closed, FlowIds, loop, context, died>>
        /\ overtaken = {}
        /\ \A o \in Sender : o # s => pending'[o] = pending[o]
        /\ Kept' /\ channel \in closed /\ FlowIds = <<>> => pending'[s] = Nothing
    BY <1>2, Asking, Zenon DEF Kept
  <2>2. B'
    BY <1>s, <2>1, Zenon DEF F
  <2>6. C'
    BY <1>s, <2>1, Zenon DEF C
  <2> QED
    BY <1>a, <1>d, <1>e, <1>f, <1>g, <1>s, <2>1, <2>2, <2>6, Zenon
<1>3. ASSUME NEW d \in Driver, NEW e \in Events, FireEvent(d, e) PROVE Shut'
  <2>1. /\ callback = Calm /\ prog[d] # <<>> /\ Head(prog[d]) = e /\ Pop(d)
        /\ UNCHANGED <<channel, queue, closed, FlowIds, loop, pending>>
    BY <1>3, Zenon DEF FireEvent, Head1, voltha
  <2>2. Continues(d, Tail(prog[d])) /\ (Head1(d, "alarm")' => e = "initialize")
    <3>1. Continues(d, Tail(prog[d])) /\ prog[d] \in Progs
      BY <2>1, Popping, Zenon
    <3> QED
      BY <2>1, <3>1, Tails, Zenon DEF Continues, Head1
  <2>3. state = "disabled" /\ B /\ C /\ D /\ F /\ \A o \in Driver : ~Head1(o, "alarm")
    BY <1>s, <2>1, Zenon DEF A, E, AlarmsWait, InCallback
  <2>4. \A o \in Driver : Head1(o, "alarm")' => o = d /\ e = "initialize"
    BY <2>2, <2>3, Zenon DEF Continues, Head1
  <2>5. \/ state' = "disabled" /\ callback' = Calm /\ e # "initialize"
        \/ callback' = <<d, "make">>
    BY <1>3, <2>3, Firing, Zenon
  <2>6. A' /\ E'
    <3>1. <<d, "make">> # Calm /\ <<d, "make">>[1] = d /\ <<d, "make">>[2] = "make"
      BY Pairs, Zenon
    <3> QED
      BY <2>4, <2>5, <3>1, Zenon DEF A, E, AlarmsWait, InCallback
  <2>7. C'
    BY <2>1, <2>3, Zenon DEF C
  <2> QED
    BY <1>d, <1>f, <1>g, <2>1, <2>3, <2>6, <2>7, Zenon
<1>4. ASSUME NEW d \in Driver, Drives(d) PROVE Shut'
  <2>1. /\ UNCHANGED <<state, callback, channel, closed>> /\ UNCHANGED <<FlowIds, loop, pending>>
        /\ \E p \in Progs : Continues(d, p)
    BY <1>4, Driving, Zenon DEF Driven
  <2>2. queue' = queue
    BY <1>4, <2>1, Driving, Sending, SentTypes, Zenon
  <2>3. ~Head1(d, "alarm")'
    BY <1>4, <2>1, Driving, Zenon DEF Kept
  <2>4. E'
    <3>1. E
      BY <1>s, <2>1, Zenon
    <3> QED
      BY <2>1, <2>3, <3>1, Zenon DEF E, AlarmsWait, Continues, Head1
  <2>5. C'
    BY <1>s, <2>1, <2>2, Zenon DEF C
  <2> QED
    BY <1>a, <1>d, <1>f, <1>g, <1>s, <2>1, <2>4, <2>5, Zenon
<1>5. ASSUME NEW d \in Driver, NEW l \in Loop, SpawnAgain(d, l) PROVE Shut'
  <2>1. /\ prog[d] # <<>> /\ Head(prog[d]) = "spawn" /\ Pop(d) /\ Spawn(l)
        /\ UNCHANGED <<state, callback, channel, queue>> /\ UNCHANGED <<closed, FlowIds, pending>>
    BY <1>5, Zenon DEF SpawnAgain, Head1, voltha
  <2>2. Continues(d, Tail(prog[d])) /\ ~Head1(d, "alarm")'
    <3>1. Continues(d, Tail(prog[d])) /\ prog[d] \in Progs
      BY <2>1, Popping, Zenon
    <3>2. "spawn" # "initialize"
      OBVIOUS
    <3> QED
      BY <2>1, <3>1, <3>2, Tails, Zenon DEF Continues, Head1
  <2>3. E'
    <3>1. E
      BY <1>s, <2>1, Zenon
    <3> QED
      BY <2>1, <2>2, <3>1, Zenon DEF E, AlarmsWait, Continues, Head1
  <2>4. D'
    <3>1. PICK r \in Loops : Moves(l, r) /\ r.at = "ready"
      BY <2>1, Spawning, Zenon
    <3>2. D
      BY <1>s, <2>1, Zenon
    <3> QED
      BY <3>1, <3>2, Zenon DEF D, Moves, Busy
  <2>5. C'
    BY <1>s, <2>1, Zenon DEF C
  <2> QED
    BY <1>a, <1>f, <1>g, <1>s, <2>1, <2>3, <2>4, <2>5, Zenon
<1>6. ASSUME NEW l \in Loop, MakeChannel(l) PROVE Shut'
  <2>1. channel' \notin closed'
    BY <1>6, Making, Zenon
  <2> QED
    BY <2>1, Zenon
<1>7. ASSUME Tells PROVE Shut'
  <2>1. UNCHANGED <<channel, closed>> /\ callback # Calm /\ ~InCallback("make")
    BY <1>7, Telling, Zenon
  <2> QED
    BY <1>s, <2>1, Zenon DEF A
<1>c. ASSUME NEW busy, Close(busy), busy \in BOOLEAN, UNCHANGED <<prog, pending, channel, queue>>
      PROVE  B' /\ C' /\ E' /\ ~busy
  <2>1. ~(Unsettled \/ busy \/ \E d \in Driver : Head1(d, "alarm"))
    <3>1. (Unsettled \/ busy \/ \E d \in Driver : Head1(d, "alarm")) => overtaken' = overtaken \cup {"close"}
      BY <1>c, Zenon DEF Close, Overtakes
    <3> QED
      BY <3>1, Zenon DEF Kept
  <2>2. channel # 0
    <3>1. closed' \subseteq 1..channel'
      BY ClosedTypesStep, Zenon DEF ClosedTypes
    <3>2. 0 \notin 1..channel
      BY DEF TypeInv
    <3> QED
      BY <1>c, <3>1, <3>2, Zenon
  <2> QED
    BY <1>c, <2>1, <2>2, Zenon DEF C, E, NoEvents, AlarmsWait, Unsettled, Head1
<1>8. ASSUME CloseIfNoFlows PROVE Shut'
  <2>1. /\ callback # Calm /\ ~InCallback("make") /\ state = "disabled"
        /\ UNCHANGED <<prog, pending, channel, queue>> /\ UNCHANGED <<state, FlowIds, loop>>
        /\ callback' = Calm
    BY <1>8, Zenon DEF CloseIfNoFlows, InCallback, Then, voltha, CallbackInv
  <2>2. channel \notin closed
    BY <1>s, <2>1, Zenon DEF A
  <2>3. FlowIds = <<>> /\ Close(LoopBusy(Loop))
    <3>1. IF FlowIds = <<>> THEN Close(LoopBusy(Loop)) ELSE closed' = closed
      BY <1>8, Zenon DEF CloseIfNoFlows
    <3>2. closed' # closed
      BY <2>1, <2>2, Zenon
    <3> QED
      BY <3>1, <3>2, Zenon
  <2>4. B' /\ C' /\ E' /\ ~LoopBusy(Loop)
    <3>1. LoopBusy(Loop) \in BOOLEAN
      BY Zenon DEF LoopBusy
    <3> QED
      BY <1>c, <2>1, <2>3, <3>1, Zenon
  <2>5. D'
    BY <2>1, <2>4, Zenon DEF LoopBusy, D, Busy
  <2> QED
    BY <1>g, <2>1, <2>3, <2>4, <2>5, Zenon DEF A, F
<1>9. ASSUME NEW l \in Loop, LoopStep(l) PROVE Shut'
  <2>f. UNCHANGED <<state, callback, prog, channel, context, pending, installed>>
    BY <1>9, Looping, Zenon
  <2>1. CASE Busy(l)
    <3>1. channel \notin closed
      BY <1>s, <2>1, Zenon DEF D
    <3>2. CloseAfterLastFlow(l)
      BY <1>9, <2>1, <2>f, <3>1, Zenon DEF LoopStep, Busy, Select, Cancelled, ChannelClosed, Receive, HandleFlowAdd,
                                          HandleFlowRemove, HandleUni
    <3> DEFINE busy == callback # Calm \/ LoopBusy(Loop \ {l})
    <3>3. Close(busy) /\ UNCHANGED <<queue, FlowIds>> /\ GoTo(l, "ready") /\ loop[l].at = "close"
      BY <3>2, Zenon DEF CloseAfterLastFlow
    <3>4. B' /\ C' /\ E' /\ ~busy
      <4>1. busy \in BOOLEAN
        BY Zenon DEF LoopBusy
      <4> HIDE DEF busy
      <4> QED
        BY <1>c, <2>f, <3>3, <4>1, Zenon
    <3>5. callback = Calm /\ \A k \in Loop : k # l => ~Busy(k)
      BY <3>4, Zenon DEF LoopBusy, Busy
    <3>6. PICK r \in Loops : Moves(l, r) /\ r.at = "ready"
      BY <3>3, GoingTo, Zenon
    <3>7. D'
      BY <3>5, <3>6, Zenon DEF D, Moves, Busy
    <3>8. state = "disabled" /\ (overtaken = {} => FlowIds = <<>>)
      BY <1>k, <3>3, <3>5, Zenon DEF BusyInv, InCallback
    <3> QED
      BY <1>g, <1>k, <2>f, <3>3, <3>4, <3>5, <3>7, <3>8, Zenon DEF A, F
  <2>2. CASE ~Busy(l)
    <3>1. Select(l) \/ Cancelled(l) \/ ChannelClosed(l) \/ Receive(l)
      BY <1>9, <2>2, Zenon DEF LoopStep, Busy, HandleFlowAdd, HandleFlowRemove, CloseAfterLastFlow, HandleUni
    <3>2. UNCHANGED <<closed, FlowIds>>
      BY <3>1, Zenon DEF Select, Cancelled, ChannelClosed, Receive
    <3>3. channel \in closed /\ A /\ B /\ C /\ D /\ E /\ F
      BY <1>s, <2>f, <3>2, Zenon
    <3>4. channel \in Channels /\ queue[channel] \in Seq(Sent)
      <4>1. channel \in Channels
        BY <3>3 DEF TypeInv, Channels
      <4> QED
        BY <4>1, Zenon DEF TypeInv
    <3>5. ASSUME NEW c \in Channels, queue[c] # <<>>, queue' = [queue EXCEPT ![c] = Tail(@)]
          PROVE  C' /\ Head(queue[c]).type \notin Eventful
      <4>1. c = channel
        BY <1>k, <3>5, Zenon DEF QueueInv
      <4>2. queue'[channel] = Tail(queue[channel])
        BY <3>5, <4>1, Taking, Zenon
      <4> QED
        BY <2>f, <3>3, <3>4, <3>5, <4>1, <4>2, NoEventsLeft, Zenon DEF C
    <3>6. C'
      <4>1. queue' = queue \/ \E c \in Channels : queue[c] # <<>> /\ queue' = [queue EXCEPT ![c] = Tail(@)]
        <5>1. CASE Select(l) \/ ChannelClosed(l)
          BY <5>1, Zenon DEF Select, ChannelClosed
        <5> QED
          BY <3>1, <5>1, Cancelling, Receiving, Zenon
      <4> QED
        BY <2>f, <3>3, <3>5, <4>1, Zenon DEF C
    <3>7. D'
      <4>1. PICK r : Moves(l, r) /\ r.at \notin {"flow", "close"}
        <5>1. CASE Select(l)
          BY <5>1, Selecting, Zenon
        <5>2. CASE Cancelled(l) \/ ChannelClosed(l)
          BY <5>2, Ending, Zenon DEF Cancelled, ChannelClosed
        <5>3. CASE Receive(l)
          BY <5>3, <3>5, Receiving, Zenon
        <5> QED
          BY <3>1, <5>1, <5>2, <5>3, Zenon
      <4> QED
        BY <3>3, <4>1, Zenon DEF D, Moves, Busy
    <3> QED
      BY <1>a, <1>e, <1>f, <1>g, <2>f, <3>2, <3>3, <3>6, <3>7, Zenon
  <2> QED
    BY <2>1, <2>2, Zenon
<1>10. ASSUME NEW s \in Sender, SendPending(s) PROVE Shut'
  <2>1. pending[s] # Nothing /\ UNCHANGED <<channel, closed>>
    BY <1>10, Zenon DEF SendPending
  <2> QED
    BY <1>s, <2>1, Zenon
<1> QED
    BY <1>1, <1>2, <1>3, <1>4, <1>5, <1>6, <1>7, <1>8, <1>9, <1>10, Kinds, Zenon

-----------------------------------------------------------------------------
(***************************************************************************)
(* The theorems.                                                           *)
(***************************************************************************)

ReceiveInv ==
    /\ TypeInv /\ CallbackInv /\ LoopInv /\ QueueInv /\ BusyInv /\ ClosedInv
    /\ DiedInv /\ ReceiverInv /\ ZeroInv

LEMMA ReceiveInit == ChannelInit => ReceiveInv
<1> SUFFICES ASSUME ChannelInit PROVE ReceiveInv
    BY Zenon
<1>1. TypeInv
  <2>1. "created" \in OnuStates /\ 0 \in 0..MaxChannel /\ 1 \in Nat /\ 0 \in Nat /\ 0 <= Capacity
    BY CapacityAssumption DEF OnuStates
  <2>2. <<>> \in Progs /\ <<>> \in Seq(Sent) /\ <<>> \in Seq(Flow) /\ Len(<<>>) = 0
    BY DEF Progs
  <2>3. NoLoop \in Loops
    <3>1. Nothing \in Sent
      BY SentTypes, Zenon
    <3> QED
      BY <2>1, <3>1 DEF NoLoop, Loops
  <2>4. Nothing \in Sent
    BY SentTypes, Zenon
  <2> QED
    BY <2>1, <2>2, <2>3, <2>4, Zenon DEF ChannelInit, TypeInv
<1>2. CallbackInv /\ ZeroInv
    BY Zenon DEF ChannelInit, CallbackInv, ZeroInv, InCallback, Head1
<1>3. \A l \in Loop : loop[l].at = "none" /\ loop[l].ch = 0
    BY DEF ChannelInit, NoLoop
<1>4. 0 \in 0..channel /\ \A d \in Driver : ~Spawns(prog[d])
    BY DEF ChannelInit, Spawns
<1>5. LoopInv /\ BusyInv /\ ReceiverInv
    BY <1>3, <1>4, Zenon DEF LoopInv, BusyInv, ReceiverInv, Busy, Current, Live
<1>6. QueueInv /\ DiedInv /\ ClosedInv
    BY Zenon DEF ChannelInit, QueueInv, DiedInv, ClosedInv
<1> QED
    BY <1>1, <1>2, <1>5, <1>6, Zenon DEF ReceiveInv

LEMMA ReceiveStep == ReceiveInv /\ [ChannelNext]_channelVars => ReceiveInv'
<1>1. ASSUME ReceiveInv, ChannelNext PROVE ReceiveInv'
    BY <1>1, TypeStep, CallbackStepInv, LoopInvStep, QueueInvStep, BusyInvStep, ClosedInvStep, DiedInvStep,
       ReceiverInvStep, ZeroInvStep, Zenon DEF ReceiveInv
<1>2. ASSUME ReceiveInv, UNCHANGED channelVars PROVE ReceiveInv'
  <2> USE <1>2 DEF ReceiveInv, channelVars
  <2>1. TypeInv'
    BY Zenon DEF TypeInv
  <2>2. CallbackInv' /\ ZeroInv'
    BY Zenon DEF CallbackInv, ZeroInv, InCallback, Head1
  <2>3. LoopInv' /\ QueueInv' /\ BusyInv' /\ DiedInv'
    BY Zenon DEF LoopInv, QueueInv, BusyInv, DiedInv, Kept, Busy, InCallback
  <2>4. ClosedInv'
    BY Zenon DEF ClosedInv, Kept, Shut, InCallback, Busy, AlarmsWait, Head1
  <2>5. ReceiverInv'
    BY Zenon DEF ReceiverInv, Alone, Current, Live
  <2> QED
    BY <2>1, <2>2, <2>3, <2>4, <2>5, Zenon
<1> QED
    BY <1>1, <1>2, Zenon

LEMMA ReceiveInvariant == ChannelSpec => []ReceiveInv
BY ReceiveInit, ReceiveStep, PTL DEF ChannelSpec

-----------------------------------------------------------------------------
(***************************************************************************)
(* Where a message is.                                                     *)
(***************************************************************************)
One(x, y) == IF x = y THEN 1 ELSE 0

\* the messages in the channel of the ONU
Inbox == IF channel = 0 THEN <<>> ELSE queue[channel]

\* m is being handled by one of the goroutines lp, is about to be sent by one of the handlers p
HandOf(lp, m) == IF \E l \in Loop : lp[l].at = "flow" /\ lp[l].msg = m THEN 1 ELSE 0
WayOf(p, m) == IF \E s \in Sender : p[s] = m THEN 1 ELSE 0
InSet(f, s) == IF f \in s THEN 1 ELSE 0
Once(p, m) == \A s, t \in Sender : p[s] = m /\ p[t] = m => s = t

LEMMA Bits ==
    /\ \A x, y : One(x, y) \in {0, 1}
    /\ \A lp, m : HandOf(lp, m) \in {0, 1}
    /\ \A p, m : WayOf(p, m) \in {0, 1}
    /\ \A f, s : InSet(f, s) \in {0, 1}
    /\ {0, 1} \subseteq Nat
BY DEF One, HandOf, WayOf, InSet

LEMMA HandSame ==
    ASSUME NEW l \in Loop, NEW r, Moves(l, r), loop[l].at # "flow", r.at # "flow", NEW m
    PROVE  HandOf(loop', m) = HandOf(loop, m)
<1>1. (\E k \in Loop : loop'[k].at = "flow" /\ loop'[k].msg = m) <=> (\E k \in Loop : loop[k].at = "flow" /\ loop[k].msg = m)
    BY Zenon DEF Moves
<1> QED
    BY <1>1, Zenon DEF HandOf

LEMMA HandOne ==
    ASSUME NEW lp, NEW l \in Loop, \A k \in Loop : k # l => lp[k].at # "flow", NEW m
    PROVE  /\ lp[l].at = "flow" => HandOf(lp, m) = One(lp[l].msg, m)
           /\ lp[l].at # "flow" => HandOf(lp, m) = 0
<1>1. (\E k \in Loop : lp[k].at = "flow" /\ lp[k].msg = m) <=> lp[l].at = "flow" /\ lp[l].msg = m
    BY Zenon
<1> QED
    BY <1>1, Zenon DEF HandOf, One

\* The handlers p and q differ in s, which has nothing to send in p and m in q.
Differ(p, q, s) == \A o \in Sender : o # s => p[o] = q[o]
Absent(p, x) == \A o \in Sender : p[o] # x
NewIn(p, q, s, x) == Differ(p, q, s) /\ p[s] = Nothing /\ x # Nothing /\ (q[s] = x => Absent(p, x))

OneNew(p, q, s, x) == WayOf(q, x) = WayOf(p, x) + One(q[s], x)

LEMMA WayOne ==
    ASSUME NEW p, NEW q, NEW s \in Sender, NEW x, NewIn(p, q, s, x)
    PROVE  OneNew(p, q, s, x)
<1> USE DEF NewIn, Differ, Absent, OneNew
<1>0. WayOf(p, x) \in Nat /\ \A n \in Nat : n + 0 = n
    BY Bits
<1>1. CASE q[s] = x
  <2>1. WayOf(p, x) = 0 /\ WayOf(q, x) = 1 /\ One(q[s], x) = 1
    BY <1>1, Zenon DEF WayOf, One
  <2> QED
    BY <2>1
<1>2. CASE q[s] # x
  <2>1. (\E o \in Sender : q[o] = x) <=> (\E o \in Sender : p[o] = x)
    BY <1>2, Zenon
  <2>2. WayOf(q, x) = WayOf(p, x) /\ One(q[s], x) = 0
    BY <1>2, <2>1, Zenon DEF WayOf, One
  <2> QED
    BY <1>0, <2>2, Zenon
<1> QED
    BY <1>1, <1>2, Zenon

LEMMA Distinct ==
    /\ \A f, g : Add(f) # Rem(g) /\ (Add(f) = Add(g) => f = g) /\ (Rem(f) = Rem(g) => f = g)
    /\ \A f : {Add(f), Rem(f)} \cap {Nothing, Routine, Plain("uni")} = {}
    /\ \A f : Add(f).type = "add" /\ Rem(f).type = "remove" /\ Add(f).flow = f /\ Rem(f).flow = f
    /\ \A m \in Sent : /\ m.type = "add" => \E f \in Flow : m = Add(f)
                       /\ m.type = "remove" => \E f \in Flow : m = Rem(f)
                       /\ m.type = "uni" => m = Plain("uni")
<1>1. /\ \A f, g : Add(f) # Rem(g) /\ (Add(f) = Add(g) => f = g) /\ (Rem(f) = Rem(g) => f = g)
      /\ \A f : Add(f).type = "add" /\ Rem(f).type = "remove" /\ Add(f).flow = f /\ Rem(f).flow = f
    BY DEF Add, Rem, Msg
<1>2. Nothing.type = "none" /\ Routine.type = "routine" /\ Plain("uni").type = "uni"
    BY DEF Nothing, Routine, Plain, Msg
<1>3. \A f : {Add(f), Rem(f)} \cap {Nothing, Routine, Plain("uni")} = {}
    BY <1>1, <1>2
<1>4. ASSUME NEW m \in Sent
      PROVE  /\ m.type = "add" => \E f \in Flow : m = Add(f)
             /\ m.type = "remove" => \E f \in Flow : m = Rem(f)
             /\ m.type = "uni" => m = Plain("uni")
    BY <1>1, <1>2, Zenon DEF Sent
<1> QED
    BY <1>1, <1>3, <1>4, Zenon

LEMMA Inboxes ==
    ASSUME TypeInv
    PROVE  Inbox \in Seq(Sent)
<1>1. <<>> \in Seq(Sent) /\ (channel # 0 => channel \in Channels)
    BY CapacityAssumption DEF TypeInv, Channels
<1> QED
    BY <1>1, Zenon DEF TypeInv, Inbox

LEMMA InboxSend ==
    ASSUME TypeInv, NEW m \in Sent, Send(m), channel' = channel, channel \notin closed
    PROVE  Inbox' = Append(Inbox, m)
<1>1. channel # 0
    BY Zenon DEF Send
<1> QED
    BY <1>1, Sending, Zenon DEF Inbox

LEMMA InboxTake ==
    ASSUME TypeInv, channel \in Channels, queue[channel] # <<>>, queue' = [queue EXCEPT ![channel] = Tail(@)],
           channel' = channel
    PROVE  Inbox # <<>> /\ Inbox' = Tail(Inbox) /\ Head(Inbox) = Head(queue[channel])
<1>1. channel # 0
    BY DEF Channels
<1> QED
    BY <1>1, Taking, Zenon DEF Inbox

-----------------------------------------------------------------------------
(***************************************************************************)
(* Somebody serves the channel.                                            *)
(***************************************************************************)

\* The callbacks that only announce the ONU belong to other states than disabled.
AnnounceInv == InCallback("disc") \/ InCallback("indication") => state # "disabled"

\* As long as the channel is open or holds messages a goroutine is current, and one is about to
\* close the channel of a disabled ONU that has no flows left.
Served == channel \notin closed \/ queue[channel] # <<>> => \E l \in Loop : Current(l)
Ended ==
    state = "disabled" /\ callback = Calm /\ FlowIds = <<>> /\ channel \notin closed =>
        \E l \in Loop : loop[l].at = "close"
ServeInv == overtaken = {} /\ channel # 0 => Served /\ Ended

LEMMA AnnounceInvStep ==
    ASSUME TypeInv, CallbackInv, AnnounceInv, ChannelNext
    PROVE  AnnounceInv'
<1>0. ASSUME UNCHANGED <<state, callback>> PROVE AnnounceInv'
    BY <1>0, Zenon DEF AnnounceInv, InCallback
<1>c. ASSUME callback' = Calm PROVE AnnounceInv'
    BY <1>c, Zenon DEF AnnounceInv, InCallback
<1>1. ASSUME NEW d \in Driver, NEW r \in Requests, Begin(d, r) PROVE AnnounceInv'
    BY <1>0, <1>1, Zenon DEF Begin
<1>2. ASSUME NEW s \in Sender, Asks(s) PROVE AnnounceInv'
    BY <1>0, <1>2, Asking, Zenon
<1>3. ASSUME NEW d \in Driver, NEW e \in Events, FireEvent(d, e) PROVE AnnounceInv'
  <2>1. \/ callback' \in {Calm, <<d, "make">>, <<d, "down">>}
        \/ state' \in OnuStates \ {"created", "disabled"}
    BY <1>3, Firing, Zenon
  <2>2. <<d, "make">>[2] = "make" /\ <<d, "down">>[2] = "down"
    BY Pairs, Zenon
  <2> QED
    BY <2>1, <2>2, Zenon DEF AnnounceInv, InCallback
<1>4. ASSUME NEW d \in Driver, Drives(d) PROVE AnnounceInv'
    BY <1>0, <1>4, Driving, Zenon DEF Driven
<1>5. ASSUME NEW d \in Driver, NEW l \in Loop, SpawnAgain(d, l) PROVE AnnounceInv'
    BY <1>0, <1>5, Zenon DEF SpawnAgain
<1>6. ASSUME NEW l \in Loop, MakeChannel(l) PROVE AnnounceInv'
    BY <1>c, <1>6, Making, Zenon
<1>7. ASSUME Tells PROVE AnnounceInv'
  <2>1. callback' = Calm \/ callback'[2] \in {"unis", "close"}
    BY <1>7, Telling, Zenon
  <2> QED
    BY <1>c, <2>1, Zenon DEF AnnounceInv, InCallback
<1>8. ASSUME CloseIfNoFlows PROVE AnnounceInv'
    BY <1>8, <1>c, Zenon DEF CloseIfNoFlows, Then
<1>9. ASSUME NEW l \in Loop, LoopStep(l) PROVE AnnounceInv'
    BY <1>0, <1>9, Looping, Zenon
<1>10. ASSUME NEW s \in Sender, SendPending(s) PROVE AnnounceInv'
    BY <1>0, <1>10, Zenon DEF SendPending, onuVars
<1> QED
    BY <1>1, <1>2, <1>3, <1>4, <1>5, <1>6, <1>7, <1>8, <1>9, <1>10, Kinds, Zenon

LEMMA ServeInvStep ==
    ASSUME TypeInv, CallbackInv, LoopInv, ReceiverInv, AnnounceInv, ServeInv, ChannelNext
    PROVE  ServeInv'
<1> SUFFICES ASSUME overtaken' = {}, channel' # 0 PROVE Served' /\ Ended'
    BY Zenon DEF ServeInv
<1>a. overtaken = {} /\ Alone
    BY Keeping, Zenon DEF Alone
<1>b. channel # 0 => Served /\ Ended
    BY <1>a, Zenon DEF ServeInv
<1>u. ASSUME UNCHANGED <<loop, channel, closed>>,
             queue' = queue \/ \E m \in Sent : Send(m)
      PROVE  Served'
  <2>1. Served
    BY <1>b, <1>u, Zenon
  <2>2. CASE queue' = queue
    BY <1>u, <2>1, <2>2, Zenon DEF Served, Current
  <2>3. CASE channel \notin closed
    BY <1>u, <2>1, <2>3, Zenon DEF Served, Current
  <2>4. CASE channel \in closed /\ \E m \in Sent : Send(m)
    BY <2>2, <2>4, Sending, Zenon
  <2> QED
    BY <1>u, <2>2, <2>3, <2>4, Zenon
<1>e. ASSUME UNCHANGED <<state, callback, FlowIds>>, UNCHANGED <<channel, closed, loop>> PROVE Ended'
    BY <1>b, <1>e, Zenon DEF Ended
<1>m. ASSUME NEW l \in Loop, NEW p, Moves(l, p), p.at \in {"ready", "flow", "close"} PROVE Served'
    BY <1>m, Zenon DEF Served, Current, Moves
<1>n. ASSUME NEW l \in Loop, NEW p, Moves(l, p), loop[l].at # "close",
             UNCHANGED <<state, callback, FlowIds>>, UNCHANGED <<channel, closed>>
      PROVE  Ended'
    BY <1>b, <1>n, Zenon DEF Ended, Moves
<1>r. Routine \in Sent
    BY SentTypes, Zenon
<1>1. ASSUME NEW d \in Driver, NEW r \in Requests, Begin(d, r) PROVE Served' /\ Ended'
  <2>1. UNCHANGED <<state, callback, FlowIds>> /\ UNCHANGED <<channel, closed, loop>> /\ UNCHANGED queue
    BY <1>1, Zenon DEF Begin
  <2> QED
    BY <1>e, <1>u, <2>1, Zenon
<1>2. ASSUME NEW s \in Sender, Asks(s) PROVE Served' /\ Ended'
  <2>1. UNCHANGED <<state, callback, FlowIds>> /\ UNCHANGED <<channel, closed, loop>> /\ UNCHANGED queue
    BY <1>2, Asking, Zenon
  <2> QED
    BY <1>e, <1>u, <2>1, Zenon
<1>3. ASSUME NEW d \in Driver, NEW e \in Events, FireEvent(d, e) PROVE Served' /\ Ended'
  <2>1. callback = Calm /\ UNCHANGED FlowIds /\ UNCHANGED <<channel, closed, loop>> /\ UNCHANGED queue
    BY <1>3, Zenon DEF FireEvent
  <2>2. UNCHANGED <<state, callback>> \/ callback' # Calm \/ state' # "disabled"
    <3>1. <<d, "make">> # Calm /\ <<d, "down">> # Calm
      BY Pairs, Zenon
    <3> QED
      BY <1>3, <2>1, <3>1, Firing, Zenon
  <2>3. Ended'
    BY <1>e, <2>1, <2>2, Zenon DEF Ended
  <2> QED
    BY <1>u, <2>1, <2>3, Zenon
<1>4. ASSUME NEW d \in Driver, Drives(d) PROVE Served' /\ Ended'
  <2>1. UNCHANGED <<state, callback, FlowIds>> /\ UNCHANGED <<channel, closed, loop>>
    BY <1>4, Driving, Zenon DEF Driven
  <2>2. queue' = queue \/ Send(Routine)
    BY <1>4, Driving, Zenon
  <2> QED
    BY <1>e, <1>r, <1>u, <2>1, <2>2, Zenon
<1>5. ASSUME NEW d \in Driver, NEW l \in Loop, SpawnAgain(d, l) PROVE Served' /\ Ended'
  <2>1. UNCHANGED <<state, callback, FlowIds>> /\ UNCHANGED <<channel, closed>> /\ Spawn(l)
    BY <1>5, Zenon DEF SpawnAgain
  <2>2. loop[l].at = "none" /\ \E p \in Loops : Moves(l, p) /\ p.at = "ready"
    BY <2>1, Spawning, Zenon
  <2> QED
    BY <1>m, <1>n, <2>1, <2>2, Zenon
<1>6. ASSUME NEW l \in Loop, MakeChannel(l) PROVE Served' /\ Ended'
  <2>1. \E p \in Loops : Moves(l, p) /\ p.at = "ready"
    BY <1>6, Making, Zenon
  <2>2. state' = "initialized"
    BY <1>6, Making, Zenon DEF CallbackInv
  <2> QED
    BY <1>m, <2>1, <2>2, Zenon DEF Ended
<1>7. ASSUME Tells PROVE Served' /\ Ended'
  <2>1. UNCHANGED <<state, FlowIds>> /\ UNCHANGED <<channel, closed, loop>> /\ (queue' = queue \/ Send(Routine))
    BY <1>7, Telling, Zenon
  <2>2. Announce => state # "disabled"
    BY Zenon DEF Announce, AnnounceInv
  <2>3. SendDown \/ DisableUnis => callback' # Calm
    BY Pairs, Zenon DEF SendDown, DisableUnis, Then
  <2>4. Ended'
    BY <1>7, <2>1, <2>2, <2>3, Zenon DEF Tells, Ended
  <2> QED
    BY <1>r, <1>u, <2>1, <2>4, Zenon
<1>8. ASSUME CloseIfNoFlows PROVE Served' /\ Ended'
  <2>1. /\ UNCHANGED <<channel, queue>> /\ UNCHANGED <<loop, FlowIds>> /\ closed \subseteq closed'
        /\ FlowIds = <<>> => channel \in closed'
    <3>1. closed' = closed \/ closed' = closed \cup {channel}
      BY <1>8, Zenon DEF CloseIfNoFlows, Close
    <3>2. FlowIds = <<>> => closed' = closed \cup {channel}
      BY <1>8, Zenon DEF CloseIfNoFlows, Close
    <3> QED
      BY <1>8, <3>1, <3>2, Zenon DEF CloseIfNoFlows
  <2>2. Served'
    BY <1>b, <2>1, Zenon DEF Served, Current
  <2> QED
    BY <2>1, <2>2, Zenon DEF Ended
<1>9. ASSUME NEW l \in Loop, LoopStep(l) PROVE Served' /\ Ended'
  <2>f. UNCHANGED <<state, callback, channel, context>>
    BY <1>9, Looping, Zenon
  <2>1. CASE Select(l)
    <3>1. UNCHANGED <<FlowIds, closed>> /\ loop[l].at # "close"
      BY <2>1, Zenon DEF Select
    <3>2. PICK p \in Loops : Moves(l, p) /\ p.at = "wait" /\ p.ch = channel
      BY <2>1, Selecting, Zenon
    <3>3. Served'
      BY <2>f, <3>2, Zenon DEF Served, Current, Moves
    <3> QED
      BY <1>n, <2>f, <3>1, <3>2, <3>3, Zenon
  <2>2. CASE Cancelled(l)
    BY <1>a, <2>2, Zenon DEF Cancelled, ReceiverInv, Live
  <2>3. CASE ChannelClosed(l)
    <3>1. /\ UNCHANGED <<FlowIds, closed>> /\ UNCHANGED queue /\ End(l)
          /\ loop[l].at = "wait" /\ loop[l].ch \in closed /\ queue[loop[l].ch] = <<>>
      BY <2>3, Zenon DEF ChannelClosed
    <3>2. Moves(l, NoLoop)
      BY <3>1, Ending, Zenon
    <3>3. Served'
      <4>1. channel # 0 => Served
        BY <1>b, Zenon
      <4> QED
        BY <2>f, <3>1, <3>2, <4>1, Zenon DEF Served, Current, Moves
    <3> QED
      BY <1>n, <2>f, <3>1, <3>2, <3>3, Zenon
  <2>4. CASE Receive(l)
    <3>1. UNCHANGED <<FlowIds, closed>> /\ loop[l].at # "close"
      BY <2>4, Zenon DEF Receive
    <3>2. PICK p \in Loops : Moves(l, p) /\ p.at \in {"ready", "flow", "close"}
      BY <2>4, Receiving, Zenon
    <3> QED
      BY <1>m, <1>n, <2>f, <3>1, <3>2, Zenon
  <2>5. CASE HandleFlowAdd(l)
    <3>1. GoTo(l, "ready") /\ FlowIds' = Append(FlowIds, loop[l].msg.flow)
      BY <2>5, Zenon DEF HandleFlowAdd
    <3>2. PICK p \in Loops : Moves(l, p) /\ p.at = "ready"
      BY <3>1, GoingTo, Zenon
    <3>3. FlowIds' # <<>>
      BY <3>1 DEF TypeInv
    <3> QED
      BY <1>m, <3>2, <3>3, Zenon DEF Ended
  <2>6. CASE HandleFlowRemove(l)
    <3>1. PICK at \in {"ready", "close"} : GoTo(l, at) /\ (FlowIds' = <<>> /\ state = "disabled" => at = "close")
      BY <2>6, Zenon DEF HandleFlowRemove
    <3>2. PICK p \in Loops : Moves(l, p) /\ p.at = at
      BY <3>1, GoingTo, Zenon
    <3>3. Ended'
      BY <2>f, <3>1, <3>2, Zenon DEF Ended, Moves
    <3> QED
      BY <1>m, <3>1, <3>2, <3>3, Zenon
  <2>7. CASE CloseAfterLastFlow(l)
    <3>1. GoTo(l, "ready") /\ channel \in closed'
      BY <2>7, Zenon DEF CloseAfterLastFlow, Close
    <3>2. PICK p \in Loops : Moves(l, p) /\ p.at = "ready"
      BY <3>1, GoingTo, Zenon
    <3> QED
      BY <1>m, <2>f, <3>1, <3>2, Zenon DEF Ended
  <2>8. CASE HandleUni(l)
    <3>1. GoTo(l, "ready") /\ UNCHANGED <<FlowIds, closed>> /\ loop[l].at # "close"
      BY <2>8, Zenon DEF HandleUni
    <3>2. PICK p \in Loops : Moves(l, p) /\ p.at = "ready"
      BY <3>1, GoingTo, Zenon
    <3> QED
      BY <1>m, <1>n, <2>f, <3>1, <3>2, Zenon
  <2> QED
    BY <1>9, <2>1, <2>2, <2>3, <2>4, <2>5, <2>6, <2>7, <2>8, Zenon DEF LoopStep
<1>10. ASSUME NEW s \in Sender, SendPending(s) PROVE Served' /\ Ended'
  <2>1. UNCHANGED <<state, callback, FlowIds>> /\ UNCHANGED <<channel, closed, loop>> /\ Send(pending[s])
        /\ pending[s] \in Sent
    BY <1>10, Zenon DEF SendPending, onuVars, TypeInv
  <2> QED
    BY <1>e, <1>u, <2>1, Zenon
<1> QED
    BY <1>1, <1>2, <1>3, <1>4, <1>5, <1>6, <1>7, <1>8, <1>9, <1>10, Kinds, Zenon

==============================================================================
