----------------------------- MODULE OnuMibProofs -----------------------------
(***************************************************************************)
(* Proofs about OnuMib, for any number of ONUs, gem ports and alloc ids.   *)
(***************************************************************************)
EXTENDS OnuMib, Integers, TLAPS

-----------------------------------------------------------------------------
(***************************************************************************)
(* Type correctness.                                                       *)
(***************************************************************************)

\* What a request in progress carries.
LEMMA WorkInProgress ==
    ASSUME TypeOK, NEW o \in Onu
    PROVE  /\ work[o].op = "create" => /\ work[o].gem \in Gem
                                       /\ work[o] = Create(work[o].at, work[o].gem)
           /\ work[o].op = "assign" =>
                  /\ work[o].entity \in Entity /\ work[o].alloc \in Alloc
                  /\ work[o] = Assign(work[o].at, work[o].entity, work[o].alloc)
           /\ work[o].op = "create" \/ work[o].op = "assign" => work[o] # Idle
BY DEF TypeOK, Work, Create, Assign, Idle

LEMMA WorkType ==
    /\ Idle \in Work
    /\ \A at \in {"check", "store"}, g \in Gem : Create(at, g) \in Work
    /\ \A at \in {"check", "store"}, e \in Entity, a \in Alloc :
          Assign(at, e, a) \in Work
BY DEF Work

\* The next value of the request counter.
LEMMA CounterRange ==
    ASSUME NEW n \in 0..maxOmciMsgCounter
    PROVE  NextCount(n) \in 1..maxOmciMsgCounter
BY RateAssumption DEF NextCount

\* The number of answers never exceeds the number of requests counted.
AnswersBounded ==
    \A o \in Onu :
        answered[o] = IF OmciMsgCounter[o] <= OmciResponseRate
                      THEN OmciMsgCounter[o] ELSE OmciResponseRate

TypeInv == TypeOK /\ AnswersBounded

LEMMA TypeInit == Init => TypeInv
<1> SUFFICES ASSUME Init PROVE TypeInv
    BY Zenon
<1>1. TypeOK
  BY RateAssumption, MdsAssumption, WorkType
  DEF Init, TypeOK, NoAllocs
<1>2. AnswersBounded
  <2>1. /\ OmciMsgCounter = [o \in Onu |-> 0]
        /\ answered = [o \in Onu |-> 0]
    BY Zenon DEF Init
  <2>2. OmciResponseRate \in Nat
    BY RateAssumption, Zenon
  <2>3. ASSUME NEW o \in Onu
        PROVE  OmciMsgCounter[o] = 0 /\ answered[o] = 0
    BY <2>1, Zenon
  <2>4. 0 <= OmciResponseRate
    BY <2>2
  <2> QED BY <2>3, <2>4, Zenon DEF AnswersBounded
<1> QED BY <1>1, <1>2, Zenon DEF TypeInv

\* Both ways of counting a request keep the answers in step with the rate.
LEMMA Counting ==
    ASSUME TypeInv, NEW o \in Onu, NEW yes \in BOOLEAN, yes <=> Answers(o),
           CountMessage(o), Answered(o, yes)
    PROVE  /\ AnswersBounded'
           /\ OmciMsgCounter' \in [Onu -> 0..maxOmciMsgCounter]
           /\ answered' \in [Onu -> 0..maxOmciMsgCounter]
<1> DEFINE n == OmciMsgCounter[o]
<1>1. /\ OmciMsgCounter \in [Onu -> 0..maxOmciMsgCounter]
      /\ answered \in [Onu -> 0..maxOmciMsgCounter]
      /\ n \in 0..maxOmciMsgCounter
  BY Zenon DEF TypeInv, TypeOK
<1>2. OmciMsgCounter' = [OmciMsgCounter EXCEPT ![o] = NextCount(n)]
  BY Zenon DEF CountMessage
<1>3. NextCount(n) = IF n < maxOmciMsgCounter THEN n + 1 ELSE 1
  BY Zenon DEF NextCount
<1>4. answered[o] = IF n <= OmciResponseRate THEN n ELSE OmciResponseRate
  BY Zenon DEF TypeInv, AnswersBounded
<1>5. answered' = [answered EXCEPT ![o] =
                     (IF NextCount(n) = 1 THEN 0 ELSE answered[o]) +
                     (IF yes THEN 1 ELSE 0)]
  BY Zenon DEF Answered
<1>6. yes <=> NextCount(n) <= OmciResponseRate
  BY Zenon DEF Answers
<1>7. OmciResponseRate \in Nat /\ maxOmciMsgCounter \in Nat \ {0}
  BY RateAssumption, Zenon
<1>8. answered'[o] = IF NextCount(n) <= OmciResponseRate THEN NextCount(n)
                     ELSE OmciResponseRate
  <2> HIDE DEF n
  <2>1. answered'[o] = (IF NextCount(n) = 1 THEN 0 ELSE answered[o]) +
                       (IF yes THEN 1 ELSE 0)
    BY <1>1, <1>5, Zenon
  <2>2. CASE yes
    BY <2>1, <2>2, <1>1, <1>3, <1>4, <1>6, <1>7
  <2>3. CASE ~yes
    BY <2>1, <2>3, <1>1, <1>3, <1>4, <1>6, <1>7
  <2> QED BY <2>2, <2>3, Zenon
<1>9. NextCount(n) \in 1..maxOmciMsgCounter
  BY <1>1, CounterRange, Zenon
<1> HIDE DEF n
<1>10. AnswersBounded'
  BY <1>1, <1>2, <1>5, <1>8, <1>9, Zenon DEF AnswersBounded, TypeInv
<1>11. answered'[o] \in 0..maxOmciMsgCounter
  BY <1>8, <1>9, <1>7
<1> QED
  BY <1>1, <1>2, <1>5, <1>9, <1>10, <1>11

LEMMA TypeStep == TypeInv /\ [Next]_vars => TypeInv'
<1> SUFFICES ASSUME TypeInv, [Next]_vars PROVE TypeInv'
    BY Zenon
<1> USE WorkType
<1>0. /\ Modulus \in Nat \ {0, 1} /\ MaxInvalid \in Nat
      /\ TypeOK /\ AnswersBounded
      /\ NoAllocs \in [Entity -> Alloc \cup {NoAlloc}]
  BY MdsAssumption, Zenon DEF TypeInv, NoAllocs
<1>a. ASSUME NEW o \in Onu, Success(o)
      PROVE  /\ MibDataSync' \in [Onu -> 0..(Modulus - 1)]
             /\ acked' \in [Onu -> 0..(Modulus - 1)]
  BY <1>0, <1>a DEF Success, TypeOK
<1>b. ASSUME NEW o \in Onu, Accept(o)
      PROVE  /\ AnswersBounded'
             /\ OmciMsgCounter' \in [Onu -> 0..maxOmciMsgCounter]
             /\ answered' \in [Onu -> 0..maxOmciMsgCounter]
  BY <1>b, Counting, Zenon DEF Accept
<1>c. ASSUME UNCHANGED <<OmciMsgCounter, answered>>
      PROVE  AnswersBounded'
  BY <1>0, <1>c, Zenon DEF AnswersBounded
<1>d. ASSUME NEW os \in SUBSET Onu, RemoveGemPortBySn(os)
      PROVE  AllocatedGemPorts' \in [Gem -> Onu \cup {NoOnu}]
  BY <1>0, <1>d, Zenon DEF RemoveGemPortBySn, TypeOK
<1>e. ASSUME NEW os \in SUBSET Onu, RemoveAllocIdsForOnuSn(os)
      PROVE  AllocatedAllocIds' \in [Onu -> [Entity -> Alloc \cup {NoAlloc}]]
  BY <1>0, <1>e, Zenon DEF RemoveAllocIdsForOnuSn, TypeOK
<1>1. ASSUME NEW o \in Onu, Skip(o) PROVE TypeInv'
  <2>1. /\ AnswersBounded'
        /\ OmciMsgCounter' \in [Onu -> 0..maxOmciMsgCounter]
        /\ answered' \in [Onu -> 0..maxOmciMsgCounter]
    BY <1>1, Counting, Zenon DEF Skip
  <2> QED BY <1>0, <1>1, <2>1, Zenon
          DEF Skip, TypeInv, TypeOK, tables, switches, believed
<1>2. ASSUME NEW o \in Onu, MibReset(o) PROVE TypeInv'
  <2>1. RemoveGemPortBySn({o}) /\ RemoveAllocIdsForOnuSn({o}) /\ Accept(o)
    BY <1>2, Zenon DEF MibReset
  <2>2. MibDataSync' \in [Onu -> 0..(Modulus - 1)]
    BY <1>0, <1>2 DEF MibReset, ResetMds, TypeOK
  <2>3. /\ AllocatedGemPorts' \in [Gem -> Onu \cup {NoOnu}]
        /\ AllocatedAllocIds' \in [Onu -> [Entity -> Alloc \cup {NoAlloc}]]
    BY <1>d, <1>e, <2>1, Zenon
  <2>4. /\ AnswersBounded'
        /\ OmciMsgCounter' \in [Onu -> 0..maxOmciMsgCounter]
        /\ answered' \in [Onu -> 0..maxOmciMsgCounter]
    BY <1>b, <2>1, Zenon
  <2>5. /\ acked' \in [Onu -> 0..(Modulus - 1)]
        /\ invalid' \in [Onu -> 0..MaxInvalid]
    BY <1>0, <1>2 DEF MibReset, TypeOK
  <2>6. /\ reset' \subseteq Onu /\ up' \subseteq Onu /\ work' \in [Onu -> Work]
        /\ gemsOf' \in [Onu -> SUBSET Gem]
        /\ allocOf' \in [Onu -> [Entity -> Alloc \cup {NoAlloc}]]
    BY <1>0, <1>2, Zenon DEF MibReset, TypeOK
  <2>7. overlapped' \subseteq {"claim", "down"}
    BY <1>0, <2>1, Zenon DEF Accept, TypeOK
  <2> QED BY <2>2, <2>3, <2>4, <2>5, <2>6, <2>7, Zenon DEF TypeInv, TypeOK
<1>3. ASSUME NEW o \in Onu, Inspect(o) PROVE TypeInv'
  BY <1>0, <1>3, <1>b, Zenon DEF Inspect, AcceptConfig, Accept, TypeInv, TypeOK, tables, switches, believed
<1>4. ASSUME NEW o \in Onu, Configure(o) PROVE TypeInv'
  BY <1>0, <1>4, <1>a, <1>b, Zenon
  DEF Configure, AcceptConfig, Accept, TypeInv, TypeOK, tables, switches, believed
<1>5. ASSUME NEW o \in Onu, CheckGemPort(o) PROVE TypeInv'
  BY <1>0, <1>5, <1>c, WorkInProgress, Zenon
  DEF CheckGemPort, CheckedGem, TypeInv, TypeOK, tables, switches, believed
<1>6. ASSUME NEW o \in Onu, FinishCreate(o) PROVE TypeInv'
  BY <1>0, <1>6, <1>a, <1>c, WorkInProgress
  DEF FinishCreate, StoredGem, StoreGemPort, TypeInv, TypeOK, switches
<1>7. ASSUME NEW o \in Onu, CheckAlloc(o) PROVE TypeInv'
  BY <1>0, <1>7, <1>c, WorkInProgress, Zenon
  DEF CheckAlloc, TypeInv, TypeOK, tables, switches, believed
<1>8. ASSUME NEW o \in Onu, FinishAssign(o) PROVE TypeInv'
  BY <1>0, <1>8, <1>a, <1>c, WorkInProgress
  DEF FinishAssign, StoreAllocId, TypeInv, TypeOK, switches
<1>9. ASSUME NEW o \in Onu, ComeUp(o) PROVE TypeInv'
  BY <1>0, <1>9, <1>c, Zenon DEF ComeUp, TypeInv, TypeOK, tables, believed
<1>10. ASSUME NEW os \in SUBSET Onu, GoDown(os) PROVE TypeInv'
  <2>1. RemoveGemPortBySn(os) /\ RemoveAllocIdsForOnuSn(os)
    BY <1>10, Zenon DEF GoDown
  <2> QED BY <1>0, <1>10, <1>c, <1>d, <1>e, <2>1, Zenon DEF GoDown, TypeInv, TypeOK
<1>11. ASSUME NEW o \in Onu, NEW g \in Gem, CreateGemPort(o, g) PROVE TypeInv'
  BY <1>0, <1>11, <1>b, Zenon
  DEF CreateGemPort, AcceptConfig, Accept, TypeInv, TypeOK, tables, switches, believed
<1>12. ASSUME NEW o \in Onu, NEW g \in Gem, DeleteGemPort(o, g) PROVE TypeInv'
  BY <1>0, <1>12, <1>a, <1>b, Zenon
  DEF DeleteGemPort, AcceptConfig, Accept, RemoveGemPort, TypeInv, TypeOK, switches
<1>13. ASSUME NEW o \in Onu, NEW e \in Entity, FreeAlloc(o, e) PROVE TypeInv'
  BY <1>0, <1>13, <1>a, <1>b, Zenon
  DEF FreeAlloc, AcceptConfig, Accept, StoreAllocId, TypeInv, TypeOK, switches
<1>14. ASSUME NEW o \in Onu, NEW e \in Entity, NEW a \in Alloc,
              AssignAlloc(o, e, a)
       PROVE  TypeInv'
  BY <1>0, <1>14, <1>b, Zenon
  DEF AssignAlloc, AcceptConfig, Accept, TypeInv, TypeOK, tables, switches, believed
<1>15. ASSUME NEW o \in Onu, NEW r \in 1..MaxAdded, InvalidateMds(o, r) PROVE TypeInv'
  <2>1. MibDataSync' \in [Onu -> 0..(Modulus - 1)]
    <3>1. Added(MibDataSync[o], r) \in 0..(Modulus - 1)
      <4>1. MibDataSync[o] \in Nat /\ r \in Nat
        BY <1>0, MdsAssumption DEF TypeOK
      <4>2. MibDataSync[o] + r \in Nat
        BY <4>1
      <4> QED BY <1>0, <4>2 DEF Added
    <3>2. Invalidated(MibDataSync[o], r) \in 0..(Modulus - 1)
      BY <1>0, <3>1 DEF Invalidated
    <3> QED BY <1>0, <1>15, <3>2, Zenon DEF InvalidateMds, TypeOK
  <2> QED BY <1>0, <1>15, <1>c, <2>1
          DEF InvalidateMds, TypeInv, TypeOK, tables, believed
<1>16. ASSUME UNCHANGED vars PROVE TypeInv'
  BY <1>0, <1>16, <1>c, Zenon DEF vars, TypeInv, TypeOK
<1> QED
  BY <1>1, <1>2, <1>3, <1>4, <1>5, <1>6, <1>7, <1>8, <1>9, <1>10, <1>11, <1>12,
     <1>13, <1>14, <1>15, <1>16, Zenon DEF Next

\* The tables, the counters and the requests in progress keep their types.
THEOREM TypeCorrect == Spec => []TypeOK
<1>1. TypeInv => TypeOK
  BY Zenon DEF TypeInv
<1> QED BY TypeInit, TypeStep, <1>1, PTL DEF Spec

\* handleOmciRequest answers exactly OmciResponseRate of maxOmciMsgCounter
\* requests in a row, for every rate and every length of a round.
THEOREM RateIsExact == Spec => []RateExact
<1>1. TypeInv => RateExact
  BY RateAssumption DEF TypeInv, AnswersBounded, RateExact
<1> QED BY TypeInit, TypeStep, <1>1, PTL DEF Spec

-----------------------------------------------------------------------------
(***************************************************************************)
(* The MIB data sync.  A request either leaves both counters alone, moves  *)
(* both by one, or resets both; only InvalidateMds moves one of them.      *)
(***************************************************************************)

SameMds(o) == UNCHANGED <<MibDataSync[o], acked[o], invalid[o]>>
NextMds(o) ==
    /\ MibDataSync'[o] = (MibDataSync[o] + 1) % Modulus
    /\ acked'[o] = (acked[o] + 1) % Modulus
    /\ UNCHANGED invalid[o]
ClearMds(o) == MibDataSync'[o] = 0 /\ acked'[o] = 0 /\ invalid'[o] = 0
SpoilMds(o) ==
    /\ \E r \in 1..MaxAdded : MibDataSync'[o] = Invalidated(MibDataSync[o], r)
    /\ UNCHANGED acked[o]
    /\ invalid'[o] = invalid[o] + 1

LEMMA MdsSteps ==
    ASSUME TypeInv, [Next]_vars, NEW p \in Onu
    PROVE  SameMds(p) \/ NextMds(p) \/ ClearMds(p) \/ SpoilMds(p)
<1> DEFINE Mds == SameMds(p) \/ NextMds(p) \/ ClearMds(p) \/ SpoilMds(p)
<1>0. /\ MibDataSync \in [Onu -> 0..(Modulus - 1)]
      /\ acked \in [Onu -> 0..(Modulus - 1)]
      /\ invalid \in [Onu -> 0..MaxInvalid]
  BY Zenon DEF TypeInv, TypeOK
<1>a. ASSUME NEW o \in Onu, Success(o), UNCHANGED invalid PROVE Mds
  BY <1>0, <1>a, Zenon DEF Success, SameMds, NextMds
<1>b. ASSUME UNCHANGED <<MibDataSync, acked, invalid>> PROVE Mds
  BY <1>b, Zenon DEF SameMds
<1> HIDE DEF Mds
<1>1. ASSUME NEW o \in Onu,
             \/ Skip(o) \/ Inspect(o) \/ CheckGemPort(o) \/ CheckAlloc(o)
             \/ ComeUp(o)
      PROVE  Mds
  BY <1>1, <1>b, Zenon DEF Skip, Inspect, CheckGemPort, CheckAlloc, ComeUp, switches
<1>2. ASSUME NEW o \in Onu, MibReset(o) PROVE Mds
  BY <1>0, <1>2, Zenon DEF Mds, MibReset, ResetMds, SameMds, ClearMds
<1>3. ASSUME NEW o \in Onu, Configure(o) \/ FinishCreate(o) \/ FinishAssign(o)
      PROVE  Mds
  BY <1>3, <1>a, Zenon DEF Configure, FinishCreate, FinishAssign, switches
<1>4. ASSUME NEW os \in SUBSET Onu, GoDown(os) PROVE Mds
  BY <1>4, <1>b, Zenon DEF GoDown
<1>5. ASSUME NEW o \in Onu, NEW g \in Gem, CreateGemPort(o, g) PROVE Mds
  BY <1>5, <1>b, Zenon DEF CreateGemPort, switches
<1>6. ASSUME NEW o \in Onu, NEW g \in Gem, DeleteGemPort(o, g) PROVE Mds
  BY <1>6, <1>a, Zenon DEF DeleteGemPort, switches
<1>7. ASSUME NEW o \in Onu, NEW e \in Entity, FreeAlloc(o, e) PROVE Mds
  BY <1>7, <1>a, Zenon DEF FreeAlloc, switches
<1>8. ASSUME NEW o \in Onu, NEW e \in Entity, NEW a \in Alloc,
             AssignAlloc(o, e, a)
      PROVE  Mds
  BY <1>8, <1>b, Zenon DEF AssignAlloc, switches
<1>9. ASSUME NEW o \in Onu, NEW r \in 1..MaxAdded, InvalidateMds(o, r) PROVE Mds
  BY <1>0, <1>9, Zenon DEF Mds, InvalidateMds, SameMds, SpoilMds
<1>10. ASSUME UNCHANGED vars PROVE Mds
  BY <1>10, <1>b, Zenon DEF vars
<1>11. Mds
  BY <1>1, <1>2, <1>3, <1>4, <1>5, <1>6, <1>7, <1>8, <1>9, <1>10, Zenon DEF Next
<1> QED BY <1>11, Zenon DEF Mds

\* As long as nobody calls InvalidateMds, the MDS of every ONU is the number
\* of changes it acknowledged since its last MIB reset.
THEOREM MdsIsFollowed == Spec => []MdsFollows
<1>1. Init => MdsFollows
  BY Zenon DEF Init, MdsFollows
<1>2. TypeInv /\ TypeInv' /\ MdsFollows /\ [Next]_vars => MdsFollows'
  <2> SUFFICES ASSUME TypeInv, TypeInv', MdsFollows, [Next]_vars,
                      NEW p \in Onu, invalid'[p] = 0
               PROVE  MibDataSync'[p] = acked'[p]
      BY Zenon DEF MdsFollows
  <2>1. SameMds(p) \/ NextMds(p) \/ ClearMds(p) \/ SpoilMds(p)
    BY MdsSteps, Zenon
  <2>2. invalid[p] \in Nat
    BY MdsAssumption DEF TypeInv, TypeOK
  <2>3. CASE SpoilMds(p)
    BY <2>2, <2>3 DEF SpoilMds
  <2>4. CASE SameMds(p) \/ NextMds(p) \/ ClearMds(p)
    BY <2>4 DEF SameMds, NextMds, ClearMds, MdsFollows
  <2> QED BY <2>1, <2>3, <2>4, Zenon
<1> QED BY TypeInit, TypeStep, <1>1, <1>2, PTL DEF Spec

\* How the MDS wraps.
LEMMA Wraps ==
    ASSUME NEW n \in 0..(Modulus - 1), NEW r \in 0..(Modulus - 1)
    PROVE  (n + r) % Modulus = IF n + r < Modulus THEN n + r ELSE n + r - Modulus
<1> USE MdsAssumption
<1> DEFINE x == n + r
           q == x \div Modulus
           m == x % Modulus
<1>1. x \in Nat /\ x < 2 * Modulus
  OBVIOUS
<1>2. q \in Int /\ m \in 0..(Modulus - 1)
  BY <1>1
<1>3. x = Modulus * q + m
  BY <1>1
<1> HIDE DEF q, m, x
<1>4. q < 2
  <2>1. ASSUME q >= 2 PROVE Modulus * q >= Modulus * 2
    BY <2>1, <1>2
  <2> QED BY <2>1, <1>1, <1>2, <1>3
<1>5. q > -1
  <2>1. ASSUME q <= -1 PROVE Modulus * q <= Modulus * (-1)
    BY <2>1, <1>2
  <2> QED BY <2>1, <1>1, <1>2, <1>3
<1>6. q = 0 \/ q = 1
  BY <1>2, <1>4, <1>5
<1> QED BY <1>1, <1>2, <1>3, <1>6 DEF x, m

\* If the most that InvalidateMds adds is less than the MDS can hold (10 and
\* 256 in the code), one call makes the MDS differ from what VOLTHA counts,
\* until the next MIB reset.
THEOREM InvalidationIsSeen ==
    MaxAdded + 1 < Modulus => (Spec => []InvalidationSeen)
<1> SUFFICES ASSUME MaxAdded + 1 < Modulus PROVE Spec => []InvalidationSeen
    BY Zenon
<1> DEFINE Audit == MdsFollows /\ InvalidationSeen
<1>1. Init => Audit
  BY DEF Init, MdsFollows, InvalidationSeen
<1>2. TypeInv /\ TypeInv' /\ Audit /\ [Next]_vars => Audit'
  <2> SUFFICES ASSUME TypeInv, TypeInv', Audit, [Next]_vars, NEW p \in Onu
               PROVE  /\ invalid'[p] = 0 => MibDataSync'[p] = acked'[p]
                      /\ invalid'[p] = 1 => MibDataSync'[p] # acked'[p]
      BY Zenon DEF MdsFollows, InvalidationSeen
  <2>1. SameMds(p) \/ NextMds(p) \/ ClearMds(p) \/ SpoilMds(p)
    BY MdsSteps, Zenon
  <2>2. /\ invalid[p] \in Nat
        /\ MibDataSync[p] \in 0..(Modulus - 1) /\ acked[p] \in 0..(Modulus - 1)
    BY MdsAssumption DEF TypeInv, TypeOK
  <2>3. /\ invalid[p] = 0 => MibDataSync[p] = acked[p]
        /\ invalid[p] = 1 => MibDataSync[p] # acked[p]
    BY Zenon DEF MdsFollows, InvalidationSeen
  <2>4. CASE SameMds(p) \/ ClearMds(p)
    BY <2>3, <2>4 DEF SameMds, ClearMds
  <2>5. CASE NextMds(p)
    <3> DEFINE m == MibDataSync[p]
               n == acked[p]
    <3>1. /\ MibDataSync'[p] = (m + 1) % Modulus
          /\ acked'[p] = (n + 1) % Modulus
          /\ invalid'[p] = invalid[p]
      BY <2>5, Zenon DEF NextMds
    <3>2. m \in 0..(Modulus - 1) /\ n \in 0..(Modulus - 1)
      BY <2>2, Zenon
    <3>3. /\ invalid[p] = 0 => m = n
          /\ invalid[p] = 1 => m # n
      BY <2>3, Zenon
    <3> HIDE DEF m, n
    <3>4. m # n => (m + 1) % Modulus # (n + 1) % Modulus
      <4>1. 1 \in 0..(Modulus - 1)
        BY MdsAssumption
      <4>2. /\ (m + 1) % Modulus = IF m + 1 < Modulus THEN m + 1 ELSE m + 1 - Modulus
            /\ (n + 1) % Modulus = IF n + 1 < Modulus THEN n + 1 ELSE n + 1 - Modulus
        BY <3>2, <4>1, Wraps, Zenon
      <4> QED BY <3>2, <4>2, MdsAssumption
    <3> QED BY <3>1, <3>3, <3>4, Zenon
  <2>6. CASE SpoilMds(p)
    <3>1. PICK r \in 1..MaxAdded : MibDataSync'[p] = Invalidated(MibDataSync[p], r)
      BY <2>6, Zenon DEF SpoilMds
    <3>2. Invalidated(MibDataSync[p], r) # MibDataSync[p]
      <4> DEFINE m == MibDataSync[p]
      <4>1. m \in 0..(Modulus - 1) /\ r \in 1..(Modulus - 2)
        BY <2>2, MdsAssumption
      <4> HIDE DEF m
      <4>2. Added(m, r) = IF m + r < Modulus THEN m + r ELSE m + r - Modulus
        BY <4>1, Wraps, MdsAssumption DEF Added
      <4>3. Invalidated(m, r) # m
        BY <4>1, <4>2, MdsAssumption DEF Invalidated
      <4> QED BY <4>3, Zenon DEF m
    <3> QED BY <2>2, <2>3, <2>6, <3>1, <3>2 DEF SpoilMds
  <2> QED BY <2>1, <2>4, <2>5, <2>6, Zenon
<1>3. Audit => InvalidationSeen
  BY Zenon
<1> QED BY TypeInit, TypeStep, <1>1, <1>2, <1>3, PTL DEF Spec

-----------------------------------------------------------------------------
(***************************************************************************)
(* The gem ports of the PON port.  As long as no two ONUs found one gem    *)
(* port free at the same time, a gem port that VOLTHA was told an ONU has  *)
(* is that ONU's in the table.  The strengthening says that a gem port     *)
(* about to be stored is still free, and about to be stored by one ONU.    *)
(***************************************************************************)

GemsHeld == \A o \in Onu : \A g \in gemsOf[o] : AllocatedGemPorts[g] = o
StoreFree == \A o \in Onu : StoredGem(o) => AllocatedGemPorts[work[o].gem] = NoOnu
OneClaim ==
    \A o, p \in Onu :
        StoredGem(o) /\ StoredGem(p) /\ work[o].gem = work[p].gem => o = p

ClaimInv == GemsHeld /\ StoreFree /\ OneClaim

\* What overlapped once stays recorded.
LEMMA HistoryGrows == TypeInv /\ [Next]_vars => overlapped \subseteq overlapped'
<1> SUFFICES ASSUME TypeInv, [Next]_vars PROVE overlapped \subseteq overlapped'
    BY Zenon
<1> QED
  BY ZenonT(30) DEF Next, vars, Skip, MibReset, Inspect, Configure, CheckGemPort, FinishCreate,
         CheckAlloc, FinishAssign, ComeUp, GoDown, CreateGemPort, DeleteGemPort,
         FreeAlloc, AssignAlloc, InvalidateMds, AcceptConfig, Accept

LEMMA ClaimStep ==
    ASSUME TypeInv, ClaimInv, [Next]_vars, "claim" \notin overlapped'
    PROVE  ClaimInv'
<1>0. TypeOK /\ GemsHeld /\ StoreFree /\ OneClaim /\ Idle.op # "create"
  BY Zenon DEF TypeInv, ClaimInv, Idle
<1>a. ASSUME UNCHANGED <<AllocatedGemPorts, gemsOf, work>> PROVE ClaimInv'
  BY <1>0, <1>a, Zenon DEF ClaimInv, GemsHeld, StoreFree, OneClaim, StoredGem
\* the gem ports are as they were, and an ONU moves on to something else
<1>b. ASSUME NEW o \in Onu, NEW w, UNCHANGED <<AllocatedGemPorts, gemsOf>>,
             work' = [work EXCEPT ![o] = w],
             w.op = "create" /\ w.at = "store" =>
                 /\ AllocatedGemPorts[w.gem] = NoOnu
                 /\ \A p \in Onu \ {o} : ~(StoredGem(p) /\ work[p].gem = w.gem)
      PROVE  ClaimInv'
  <2>1. work'[o] = w /\ \A p \in Onu \ {o} : work'[p] = work[p]
    BY <1>0, <1>b, Zenon DEF TypeOK
  <2>2. GemsHeld'
    BY <1>0, <1>b, Zenon DEF GemsHeld
  <2>3. StoreFree'
    BY <1>0, <1>b, <2>1, Zenon DEF StoreFree, StoredGem
  <2>4. OneClaim'
    BY <1>0, <1>b, <2>1 DEF OneClaim, StoredGem
  <2> QED BY <2>2, <2>3, <2>4, Zenon DEF ClaimInv
\* everything that one or all ONUs have reserved is forgotten
<1>c. ASSUME NEW os \in SUBSET Onu, RemoveGemPortBySn(os), UNCHANGED work,
             gemsOf' = [o \in Onu |-> IF o \in os THEN {} ELSE gemsOf[o]]
      PROVE  ClaimInv'
  <2>1. \A g \in Gem : AllocatedGemPorts[g] \notin os =>
                           AllocatedGemPorts'[g] = AllocatedGemPorts[g]
    BY <1>c, Zenon DEF RemoveGemPortBySn
  <2>2. GemsHeld'
    BY <1>0, <1>c, <2>1, Zenon DEF GemsHeld, TypeOK
  <2>3. StoreFree'
    <3> SUFFICES ASSUME NEW o \in Onu, StoredGem(o)
                 PROVE  AllocatedGemPorts'[work[o].gem] = NoOnu
        BY <1>c, Zenon DEF StoreFree, StoredGem
    <3>1. work[o].gem \in Gem
      BY <1>0, WorkInProgress, Zenon DEF StoredGem
    <3> QED BY <1>0, <2>1, <3>1, FreeAssumption, Zenon DEF StoreFree
  <2>4. OneClaim'
    BY <1>0, <1>c, Zenon DEF OneClaim, StoredGem
  <2> QED BY <2>2, <2>3, <2>4, Zenon DEF ClaimInv
<1>1. ASSUME NEW o \in Onu,
             \/ Skip(o) \/ Inspect(o) \/ Configure(o) \/ ComeUp(o)
      PROVE  ClaimInv'
  BY <1>1, <1>a, Zenon DEF Skip, Inspect, Configure, ComeUp, tables, believed
<1>2. ASSUME NEW o \in Onu, MibReset(o) PROVE ClaimInv'
  <2>1. gemsOf' = [p \in Onu |-> IF p \in {o} THEN {} ELSE gemsOf[p]]
    BY <1>0, <1>2, Zenon DEF MibReset, TypeOK
  <2>2. RemoveGemPortBySn({o}) /\ UNCHANGED work
    BY <1>2, Zenon DEF MibReset
  <2> QED BY <1>c, <2>1, <2>2, Zenon
<1>3. ASSUME NEW os \in SUBSET Onu, GoDown(os) PROVE ClaimInv'
  BY <1>3, <1>c, Zenon DEF GoDown
<1>4. ASSUME NEW o \in Onu, CheckGemPort(o) PROVE ClaimInv'
  <2> DEFINE g == work[o].gem
             w == IF IsGemPortAllocated(g) THEN Idle ELSE Create("store", g)
  <2>1. work' = [work EXCEPT ![o] = w]
    BY <1>4, Zenon DEF CheckGemPort
  <2>2. ~Contended(o)
    BY <1>4, Zenon DEF CheckGemPort
  <2>3. w.op = "create" /\ w.at = "store" =>
            /\ AllocatedGemPorts[w.gem] = NoOnu
            /\ \A p \in Onu \ {o} : ~(StoredGem(p) /\ work[p].gem = w.gem)
    BY <1>0, <2>2, Zenon DEF Create, IsGemPortAllocated, Contended
  <2>4. UNCHANGED <<AllocatedGemPorts, gemsOf>>
    BY <1>4, Zenon DEF CheckGemPort, tables, believed
  <2> HIDE DEF w
  <2> QED BY <1>b, <2>1, <2>3, <2>4, Zenon
<1>5. ASSUME NEW o \in Onu, CheckAlloc(o) PROVE ClaimInv'
  <2> DEFINE w == IF IsAllocIdAllocated(o, work[o].entity) THEN Idle
                  ELSE Assign("store", work[o].entity, work[o].alloc)
  <2>1. work' = [work EXCEPT ![o] = w]
    BY <1>5, Zenon DEF CheckAlloc
  <2>2. w.op # "create"
    BY <1>0, Zenon DEF Assign
  <2>3. UNCHANGED <<AllocatedGemPorts, gemsOf>>
    BY <1>5, Zenon DEF CheckAlloc, tables, believed
  <2> HIDE DEF w
  <2> QED BY <1>b, <2>1, <2>2, <2>3, Zenon
<1>6. ASSUME NEW o \in Onu, NEW g \in Gem, CreateGemPort(o, g) PROVE ClaimInv'
  <2>1. Create("check", g).at # "store"
    BY Zenon DEF Create
  <2> QED BY <1>6, <1>b, <2>1, Zenon DEF CreateGemPort, tables, believed
<1>7. ASSUME NEW o \in Onu, NEW e \in Entity, NEW a \in Alloc,
             AssignAlloc(o, e, a)
      PROVE  ClaimInv'
  <2>1. Assign("check", e, a).op # "create"
    BY Zenon DEF Assign
  <2> QED BY <1>7, <1>b, <2>1, Zenon DEF AssignAlloc, tables, believed
<1>8. ASSUME NEW o \in Onu, FinishCreate(o) PROVE ClaimInv'
  <2> DEFINE g == work[o].gem
  <2>1. StoredGem(o) /\ g \in Gem /\ AllocatedGemPorts[g] = NoOnu
    BY <1>0, <1>8, WorkInProgress, Zenon DEF FinishCreate, StoredGem, StoreFree
  <2>2. /\ AllocatedGemPorts'[g] = o
        /\ \A h \in Gem \ {g} : AllocatedGemPorts'[h] = AllocatedGemPorts[h]
        /\ gemsOf'[o] \subseteq gemsOf[o] \cup {g}
        /\ \A p \in Onu \ {o} : gemsOf'[p] = gemsOf[p] /\ work'[p] = work[p]
        /\ work'[o] = Idle
    BY <1>0, <1>8, <2>1, Zenon DEF FinishCreate, StoreGemPort, TypeOK
  <2>3. \A p \in Onu : g \notin gemsOf[p]
    BY <1>0, <2>1, FreeAssumption, Zenon DEF GemsHeld
  <2>4. \A p \in Onu \ {o} : ~(StoredGem(p) /\ work[p].gem = g)
    BY <1>0, <2>1, Zenon DEF OneClaim
  <2>5. \A p \in Onu : gemsOf[p] \subseteq Gem /\ (StoredGem(p) => work[p].gem \in Gem)
    BY <1>0, WorkInProgress, Zenon DEF TypeOK, StoredGem
  <2> HIDE DEF g
  <2>6. GemsHeld'
    BY <1>0, <2>2, <2>3, <2>5 DEF GemsHeld
  <2>7. StoreFree'
    BY <1>0, <2>2, <2>4, <2>5 DEF StoreFree, StoredGem
  <2>8. OneClaim'
    BY <1>0, <2>2 DEF OneClaim, StoredGem
  <2> QED BY <2>6, <2>7, <2>8, Zenon DEF ClaimInv
<1>9. ASSUME NEW o \in Onu, FinishAssign(o) PROVE ClaimInv'
  BY <1>0, <1>9, <1>b, Zenon DEF FinishAssign
<1>10. ASSUME NEW o \in Onu, NEW g \in Gem, DeleteGemPort(o, g) PROVE ClaimInv'
  <2>1. /\ AllocatedGemPorts'[g] = NoOnu
        /\ \A h \in Gem \ {g} : AllocatedGemPorts'[h] = AllocatedGemPorts[h]
        /\ gemsOf'[o] = gemsOf[o] \ {g}
        /\ \A p \in Onu \ {o} : gemsOf'[p] = gemsOf[p]
        /\ UNCHANGED work
    BY <1>0, <1>10, Zenon DEF DeleteGemPort, RemoveGemPort, TypeOK
  <2>2. AllocatedGemPorts[g] = o
    BY <1>0, <1>10, Zenon DEF DeleteGemPort, GemsHeld
  <2>3. \A p \in Onu : gemsOf[p] \subseteq Gem /\ (StoredGem(p) => work[p].gem \in Gem)
    BY <1>0, WorkInProgress, Zenon DEF TypeOK, StoredGem
  <2>4. GemsHeld'
    BY <1>0, <2>1, <2>2, <2>3, Zenon DEF GemsHeld
  <2>5. StoreFree' /\ OneClaim'
    BY <1>0, <2>1, <2>3 DEF StoreFree, OneClaim, StoredGem
  <2> QED BY <2>4, <2>5, Zenon DEF ClaimInv
<1>11. ASSUME NEW o \in Onu, NEW e \in Entity, FreeAlloc(o, e) PROVE ClaimInv'
  BY <1>11, <1>a, Zenon DEF FreeAlloc
<1>12. ASSUME NEW o \in Onu, NEW r \in 1..MaxAdded, InvalidateMds(o, r)
       PROVE  ClaimInv'
  BY <1>12, <1>a, Zenon DEF InvalidateMds, tables, believed
<1>13. ASSUME UNCHANGED vars PROVE ClaimInv'
  BY <1>13, <1>a, Zenon DEF vars
<1> QED
  BY <1>1, <1>2, <1>3, <1>4, <1>5, <1>6, <1>7, <1>8, <1>9, <1>10, <1>11, <1>12,
     <1>13, Zenon DEF Next

LEMMA ClaimAlways == Spec => []("claim" \notin overlapped => ClaimInv)
<1> DEFINE Inv == "claim" \notin overlapped => ClaimInv
<1>1. Init => Inv
  BY DEF Init, ClaimInv, GemsHeld, StoreFree, OneClaim, StoredGem, Idle
<1>2. TypeInv /\ Inv /\ [Next]_vars => Inv'
  BY ClaimStep, HistoryGrows, Zenon
<1> QED BY TypeInit, TypeStep, <1>1, <1>2, PTL DEF Spec

\* No gem port is acknowledged to two ONUs of a PON, whichever of them go down
\* and when, unless both found it free at the same time.
THEOREM GemPortsAreUnique == Spec => []GemPortsUnique
<1>1. ("claim" \notin overlapped => ClaimInv) => GemPortsUnique
  BY Zenon DEF ClaimInv, GemsHeld, GemPortsUnique
<1> QED BY ClaimAlways, <1>1, PTL

-----------------------------------------------------------------------------
(***************************************************************************)
(* ONUs that go down.  As long as none does so in the middle of a request, *)
(* only ONUs that are up are in the tables, and every entry is one that    *)
(* VOLTHA was told of.                                                     *)
(***************************************************************************)

WorkersUp == \A o \in Onu : work[o] # Idle => o \in up
GemsTold == \A o \in Onu, g \in Gem : AllocatedGemPorts[g] = o => g \in gemsOf[o]
AllocsTold == AllocatedAllocIds = allocOf
DownEmpty == \A o \in Onu : o \notin up => gemsOf[o] = {} /\ allocOf[o] = NoAllocs

DownInv == WorkersUp /\ GemsTold /\ AllocsTold /\ DownEmpty

LEMMA DownStep ==
    ASSUME TypeInv, DownInv, [Next]_vars, "down" \notin overlapped'
    PROVE  DownInv'
<1>0. TypeOK /\ WorkersUp /\ GemsTold /\ AllocsTold /\ DownEmpty
  BY Zenon DEF TypeInv, DownInv
\* the tables are as they were, and an ONU that is up moves on
<1>a. ASSUME UNCHANGED <<tables, believed>>, up \subseteq up',
             \A o \in Onu : work'[o] = Idle \/ work'[o] = work[o] \/ o \in up
      PROVE  DownInv'
  <2>1. WorkersUp'
    BY <1>0, <1>a, Zenon DEF WorkersUp
  <2>2. GemsTold' /\ AllocsTold' /\ DownEmpty'
    BY <1>0, <1>a, Zenon DEF GemsTold, AllocsTold, DownEmpty, tables, believed
  <2> QED BY <2>1, <2>2, Zenon DEF DownInv
<1>b. ASSUME NEW o \in Onu, work[o] # Idle PROVE o \in up
  BY <1>0, <1>b, Zenon DEF WorkersUp
\* everything that one or all ONUs have reserved is forgotten
<1>c. ASSUME NEW os \in SUBSET Onu, RemoveGemPortBySn(os),
             RemoveAllocIdsForOnuSn(os),
             gemsOf' = [o \in Onu |-> IF o \in os THEN {} ELSE gemsOf[o]],
             allocOf' = [o \in Onu |-> IF o \in os THEN NoAllocs ELSE allocOf[o]],
             UNCHANGED work, \A o \in os : work[o] = Idle, up \ os \subseteq up'
      PROVE  DownInv'
  <2>1. WorkersUp'
    BY <1>0, <1>c, Zenon DEF WorkersUp
  <2>2. GemsTold'
    BY <1>0, <1>c, FreeAssumption, Zenon DEF GemsTold, RemoveGemPortBySn, TypeOK
  <2>3. AllocsTold'
    BY <1>0, <1>c, Zenon DEF AllocsTold, RemoveAllocIdsForOnuSn
  <2>4. DownEmpty'
    BY <1>0, <1>c, Zenon DEF DownEmpty
  <2> QED BY <2>1, <2>2, <2>3, <2>4, Zenon DEF DownInv
<1>1. ASSUME NEW o \in Onu,
             Skip(o) \/ Inspect(o) \/ Configure(o) \/ ComeUp(o)
      PROVE  DownInv'
  BY <1>1, <1>a, Zenon DEF Skip, Inspect, Configure, ComeUp, switches
<1>2. ASSUME NEW o \in Onu, MibReset(o) PROVE DownInv'
  <2>1. /\ gemsOf' = [p \in Onu |-> IF p \in {o} THEN {} ELSE gemsOf[p]]
        /\ allocOf' = [p \in Onu |-> IF p \in {o} THEN NoAllocs ELSE allocOf[p]]
    BY <1>0, <1>2, Zenon DEF MibReset, TypeOK
  <2>2. work[o] = Idle
    BY <1>2, Zenon DEF MibReset, Accept, Ready
  <2> QED BY <1>2, <1>c, <2>1, <2>2, Zenon DEF MibReset
<1>3. ASSUME NEW os \in SUBSET Onu, GoDown(os) PROVE DownInv'
  <2>1. \A o \in os : work[o] = Idle
    BY <1>3, Zenon DEF GoDown
  <2> QED BY <1>3, <1>c, <2>1, Zenon DEF GoDown
<1>4. ASSUME NEW o \in Onu, CheckGemPort(o) \/ CheckAlloc(o) PROVE DownInv'
  <2>1. o \in up
    BY <1>0, <1>4, <1>b, WorkInProgress, Zenon DEF CheckGemPort, CheckedGem, CheckAlloc
  <2>2. \A p \in Onu \ {o} : work'[p] = work[p]
    BY <1>0, <1>4, Zenon DEF CheckGemPort, CheckAlloc, TypeOK
  <2> QED BY <1>4, <1>a, <2>1, <2>2, Zenon DEF CheckGemPort, CheckAlloc, switches
<1>5. ASSUME NEW o \in Onu, NEW g \in Gem, CreateGemPort(o, g) PROVE DownInv'
  <2>1. o \in up /\ \A p \in Onu \ {o} : work'[p] = work[p]
    BY <1>0, <1>5, Zenon DEF CreateGemPort, AcceptConfig, Accept, Ready, TypeOK
  <2> QED BY <1>5, <1>a, <2>1, Zenon DEF CreateGemPort, switches
<1>6. ASSUME NEW o \in Onu, NEW e \in Entity, NEW a \in Alloc,
             AssignAlloc(o, e, a)
      PROVE  DownInv'
  <2>1. o \in up /\ \A p \in Onu \ {o} : work'[p] = work[p]
    BY <1>0, <1>6, Zenon DEF AssignAlloc, AcceptConfig, Accept, Ready, TypeOK
  <2> QED BY <1>6, <1>a, <2>1, Zenon DEF AssignAlloc, switches
<1>7. ASSUME NEW o \in Onu, FinishCreate(o) PROVE DownInv'
  <2> DEFINE g == work[o].gem
  <2>1. g \in Gem /\ o \in up
    BY <1>0, <1>7, <1>b, WorkInProgress, Zenon DEF FinishCreate, StoredGem
  <2>2. /\ AllocatedGemPorts'[g] = o
        /\ \A h \in Gem \ {g} : AllocatedGemPorts'[h] = AllocatedGemPorts[h]
        /\ gemsOf'[o] = gemsOf[o] \cup {g}
        /\ \A p \in Onu \ {o} : gemsOf'[p] = gemsOf[p] /\ work'[p] = work[p]
        /\ work'[o] = Idle
        /\ UNCHANGED <<AllocatedAllocIds, allocOf, up>>
    BY <1>0, <1>7, <2>1, Zenon DEF FinishCreate, StoreGemPort, switches, TypeOK
  <2> HIDE DEF g
  <2>3. WorkersUp' /\ AllocsTold'
    BY <1>0, <2>2, Zenon DEF WorkersUp, AllocsTold
  <2>4. GemsTold'
    BY <1>0, <2>2 DEF GemsTold
  <2>5. DownEmpty'
    BY <1>0, <2>1, <2>2, Zenon DEF DownEmpty
  <2> QED BY <2>3, <2>4, <2>5, Zenon DEF DownInv
<1>8. ASSUME NEW o \in Onu, FinishAssign(o) PROVE DownInv'
  <2>1. o \in up /\ work[o].entity \in Entity
    BY <1>0, <1>8, <1>b, WorkInProgress, Zenon DEF FinishAssign
  <2>2. /\ AllocatedAllocIds' = [AllocatedAllocIds EXCEPT ![o][work[o].entity] = work[o].alloc]
        /\ allocOf' = [allocOf EXCEPT ![o][work[o].entity] = work[o].alloc]
        /\ UNCHANGED <<AllocatedGemPorts, gemsOf, up>>
    BY <1>8, <2>1, Zenon DEF FinishAssign, StoreAllocId, switches
  <2>3. \A p \in Onu : work'[p] = Idle \/ work'[p] = work[p]
    BY <1>0, <1>8, Zenon DEF FinishAssign, TypeOK
  <2>4. WorkersUp' /\ GemsTold' /\ AllocsTold'
    BY <1>0, <2>2, <2>3, Zenon DEF WorkersUp, GemsTold, AllocsTold
  <2>5. DownEmpty'
    BY <1>0, <2>1, <2>2, Zenon DEF DownEmpty, TypeOK
  <2> QED BY <2>4, <2>5, Zenon DEF DownInv
<1>9. ASSUME NEW o \in Onu, NEW g \in Gem, DeleteGemPort(o, g) PROVE DownInv'
  <2>1. /\ AllocatedGemPorts'[g] = NoOnu
        /\ \A h \in Gem \ {g} : AllocatedGemPorts'[h] = AllocatedGemPorts[h]
        /\ gemsOf'[o] = gemsOf[o] \ {g}
        /\ \A p \in Onu \ {o} : gemsOf'[p] = gemsOf[p]
        /\ UNCHANGED <<AllocatedAllocIds, allocOf, up, work>>
    BY <1>0, <1>9, Zenon DEF DeleteGemPort, RemoveGemPort, switches, TypeOK
  <2>2. WorkersUp' /\ AllocsTold' /\ DownEmpty'
    BY <1>0, <2>1, Zenon DEF WorkersUp, AllocsTold, DownEmpty
  <2>3. GemsTold'
    BY <1>0, <2>1, FreeAssumption DEF GemsTold
  <2> QED BY <2>2, <2>3, Zenon DEF DownInv
<1>10. ASSUME NEW o \in Onu, NEW e \in Entity, FreeAlloc(o, e) PROVE DownInv'
  <2>1. o \in up
    BY <1>10, Zenon DEF FreeAlloc, AcceptConfig, Accept, Ready
  <2>2. /\ AllocatedAllocIds' = [AllocatedAllocIds EXCEPT ![o][e] = NoAlloc]
        /\ allocOf' = [allocOf EXCEPT ![o][e] = NoAlloc]
        /\ UNCHANGED <<AllocatedGemPorts, gemsOf, up, work>>
    BY <1>10, Zenon DEF FreeAlloc, StoreAllocId, switches
  <2>3. WorkersUp' /\ GemsTold' /\ AllocsTold'
    BY <1>0, <2>2, Zenon DEF WorkersUp, GemsTold, AllocsTold
  <2>4. DownEmpty'
    BY <1>0, <2>1, <2>2, Zenon DEF DownEmpty, TypeOK
  <2> QED BY <2>3, <2>4, Zenon DEF DownInv
<1>11. ASSUME NEW o \in Onu, NEW r \in 1..MaxAdded, InvalidateMds(o, r)
       PROVE  DownInv'
  BY <1>11, <1>a, Zenon DEF InvalidateMds
<1>12. ASSUME UNCHANGED vars PROVE DownInv'
  BY <1>12, <1>a, Zenon DEF vars, tables, believed
<1> QED
  BY <1>1, <1>2, <1>3, <1>4, <1>5, <1>6, <1>7, <1>8, <1>9, <1>10, <1>11, <1>12, Zenon
  DEF Next

LEMMA DownAlways == Spec => []("down" \notin overlapped => DownInv)
<1> DEFINE Inv == "down" \notin overlapped => DownInv
<1>1. Init => Inv
  BY FreeAssumption, Zenon DEF Init, DownInv, WorkersUp, GemsTold, AllocsTold, DownEmpty
<1>2. TypeInv /\ Inv /\ [Next]_vars => Inv'
  BY DownStep, HistoryGrows, Zenon
<1> QED BY TypeInit, TypeStep, <1>1, <1>2, PTL DEF Spec

\* cleanupOnuState leaves nothing in the tables for an ONU that is down, unless
\* it went down in the middle of a request.
THEOREM DownOnusOwnNothing == Spec => []DownOwnsNothing
<1>1. ("down" \notin overlapped => DownInv) => DownOwnsNothing
  BY Zenon DEF DownInv, GemsTold, AllocsTold, DownEmpty, DownOwnsNothing
<1> QED BY DownAlways, <1>1, PTL

\* The tables of the PON port are what VOLTHA was told, through MIB resets,
\* power cycles of the ONUs and reboots of the OLT, as long as nothing
\* overlapped.
THEOREM TablesAreExact == Spec => []TablesExact
<1>1. /\ TypeInv
      /\ "claim" \notin overlapped => ClaimInv
      /\ "down" \notin overlapped => DownInv
      => TablesExact
  BY DEF TypeInv, TypeOK, ClaimInv, GemsHeld, DownInv, GemsTold, AllocsTold,
         TablesExact
<1> QED BY TypeInit, TypeStep, ClaimAlways, DownAlways, <1>1, PTL DEF Spec

===============================================================================
