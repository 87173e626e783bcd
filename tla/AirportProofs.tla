---------------------------- MODULE AirportProofs ----------------------------
(***************************************************************************)
(* Proofs about the airport, for every number of passengers, kiosks and    *)
(* belts: a passenger whom kiosk_capacity_sem lets in finds a kiosk of its *)
(* own, the counters stay in range whatever updates are lost, L_to_R is    *)
(* exact as long as none is, and the lane is locked only with somebody on  *)
(* it.  One lemma per part of the invariant.                               *)
(***************************************************************************)
EXTENDS Airport, FiniteSetTheorems, TLAPS

KioskPlaces == {"pop", "checkin", "enter", "entering", "leave_kiosk"}
WayBack == {"opposite", "opposite_wait", "hop_on", "walk_RL"}

\* The passengers in one of the places of a set.
In(L) == {p \in Passengers : pc[p] \in L}
OnBelt(b) == {p \in Passengers : pc[p] = "belt" /\ belt_id[p] = b}

\* TypeOK without the ranges of the counters.
CoreType ==
    /\ isVIP \in [Passengers -> BOOLEAN]
    /\ pc \in [Passengers -> Locations]
    /\ back \in [Passengers -> BOOLEAN]
    /\ kiosk_id \in [Passengers -> Kiosks \cup {NoKiosk}]
    /\ belt_id \in [Passengers -> Belts]
    /\ Q \in Seq(Kiosks)
    /\ kiosk_capacity_sem \in Nat
    /\ belt_capacity_sem \in [Belts -> Nat]
    /\ L_to_R \in Int /\ R_to_L \in Int
    /\ VIP_lane_lock \in BOOLEAN
    /\ reg \in [Passengers -> Int]
    /\ lost \in BOOLEAN

\* Who comes by which place.
WayInv ==
    \A p \in Passengers :
        /\ pc[p] \in {"enter", "entering"} => isVIP[p]
        /\ pc[p] \in {"security", "belt"} => ~isVIP[p]
        /\ pc[p] \in {"arrive", "security", "belt", "go_back"} \cup KioskPlaces => ~back[p]
        /\ pc[p] \in {"special", "reenter", "reentering"} \cup WayBack => back[p]
        /\ pc[p] \in {"lane", "lane_wait", "walk_LR", "arriving"} => isVIP[p] \/ back[p]

\* A place at a kiosk is counted by the semaphore, a kiosk is in the queue or
\* taken by one passenger.
KioskInv ==
    /\ kiosk_capacity_sem + Cardinality(In(KioskPlaces)) = kiosks
    /\ Len(Q) + Cardinality(In({"checkin"})) = kiosks
    /\ \A i, j \in DOMAIN Q : Q[i] = Q[j] => i = j
    /\ \A p \in Passengers : (kiosk_id[p] # NoKiosk) = (pc[p] = "checkin")
    /\ \A p \in Passengers : \A i \in DOMAIN Q : Q[i] # kiosk_id[p]
    /\ \A p, q \in Passengers : kiosk_id[p] = kiosk_id[q] => p = q \/ kiosk_id[p] = NoKiosk

BeltInv == \A b \in Belts : belt_capacity_sem[b] + Cardinality(OnBelt(b)) = passengers_per_belt

\* Those who have stored an increment, at the kiosk and at the special kiosk,
\* and those who have stored a decrement, at the gate the first and second time.
Entered == {p \in Passengers : pc[p] \notin {"arrive", "pop", "checkin", "enter", "entering"}}
Reentered == {p \in Passengers : back[p] /\ pc[p] \in {"lane", "lane_wait", "walk_LR", "gate", "arriving", "board", "done"}}
Through == {p \in Passengers : back[p] \/ pc[p] \in {"board", "done", "go_back"}}
ThroughAgain == {p \in Passengers : back[p] /\ pc[p] \in {"board", "done"}}

Least == -(Cardinality(Through) + Cardinality(ThroughAgain))
Most == Cardinality(Entered) + Cardinality(Reentered)

\* No thread has loaded, and none stores, a value beyond the updates made so far.
BoundInv ==
    /\ Least <= L_to_R /\ L_to_R <= Most
    /\ \A p \in Passengers : Least <= reg[p] /\ reg[p] <= Most
    /\ R_to_L = Cardinality(In(WayBack))

\* The inductive invariant.
IInv ==
    /\ CoreType
    /\ WayInv
    /\ KioskInv
    /\ BeltInv
    /\ BoundInv
    /\ LaneExact

-----------------------------------------------------------------------------
(* Counting passengers.                                                    *)

(* A set of passengers is finite, and no larger than all of them.          *)
LEMMA Counted ==
    ASSUME NEW S \in SUBSET Passengers
    PROVE  IsFiniteSet(S) /\ Cardinality(S) \in Nat /\ Cardinality(S) <= Cardinality(Passengers)
<1>1. IsFiniteSet(S) /\ Cardinality(S) <= Cardinality(Passengers)
  BY AirportAssumption, FS_Subset
<1> QED
  BY <1>1, FS_CardinalityType

(* Nobody leaves: there are as many as before, or more.                    *)
LEMMA NotLess ==
    ASSUME NEW T \in SUBSET Passengers, NEW S \in SUBSET T
    PROVE  Cardinality(S) <= Cardinality(T)
BY Counted, FS_Subset

(* One passenger comes, or one leaves.                                     *)
LEMMA OneMore ==
    ASSUME NEW S \in SUBSET Passengers, NEW T \in SUBSET Passengers, NEW p \in T, p \notin S,
           T = S \cup {p}
    PROVE  Cardinality(T) = Cardinality(S) + 1
BY Counted, FS_AddElement

(* What a step does to the places: only one passenger moves.               *)
LEMMA Moved ==
    ASSUME CoreType, NEW p \in Passengers, NEW from, NEW to, At(p, from), Goto(p, to), NEW L
    PROVE  /\ from \in L /\ to \notin L => Cardinality(In(L)) = Cardinality(In(L)') + 1
           /\ from \notin L /\ to \in L => Cardinality(In(L)') = Cardinality(In(L)) + 1
           /\ (from \in L) = (to \in L) => In(L)' = In(L)
<1> USE DEF At, Goto, CoreType
<1>1. \A q \in Passengers : pc'[q] = IF q = p THEN to ELSE pc[q]
  OBVIOUS
<1>2. In(L) \in SUBSET Passengers /\ In(L)' \in SUBSET Passengers
  BY DEF In
<1>3. ASSUME from \in L, to \notin L PROVE Cardinality(In(L)) = Cardinality(In(L)') + 1
  <2>1. p \in In(L) /\ p \notin In(L)' /\ In(L) = In(L)' \cup {p}
    BY <1>1, <1>3 DEF In
  <2> QED
    BY <1>2, <2>1, OneMore
<1>4. ASSUME from \notin L, to \in L PROVE Cardinality(In(L)') = Cardinality(In(L)) + 1
  <2>1. p \in In(L)' /\ p \notin In(L) /\ In(L)' = In(L) \cup {p}
    BY <1>1, <1>4 DEF In
  <2> QED
    BY <1>2, <2>1, OneMore
<1>5. ASSUME (from \in L) = (to \in L) PROVE In(L)' = In(L)
  BY <1>1, <1>5 DEF In
<1> QED
  BY <1>3, <1>4, <1>5

-----------------------------------------------------------------------------
(* The invariant's parts, under every action.                              *)

(* main() starts with every kiosk free and nobody on the way.              *)
LEMMA InitInv == Init => IInv
<1> SUFFICES ASSUME Init PROVE IInv
  OBVIOUS
<1> USE AirportAssumption DEF Init
<1>1. CoreType
  <2>1. Q \in Seq(Kiosks)
    BY DEF Kiosks
  <2>2. pc \in [Passengers -> Locations] /\ kiosk_id \in [Passengers -> Kiosks \cup {NoKiosk}]
    BY DEF Locations
  <2>3. kiosk_capacity_sem \in Nat /\ belt_capacity_sem \in [Belts -> Nat] /\ reg \in [Passengers -> Int]
    OBVIOUS
  <2>4. back \in [Passengers -> BOOLEAN] /\ lost \in BOOLEAN /\ VIP_lane_lock \in BOOLEAN
    OBVIOUS
  <2>5. isVIP \in [Passengers -> BOOLEAN] /\ belt_id \in [Passengers -> Belts] /\ L_to_R \in Int /\ R_to_L \in Int
    OBVIOUS
  <2> QED
    BY <2>1, <2>2, <2>3, <2>4, <2>5, Zenon DEF CoreType
<1>2. WayInv
  BY DEF WayInv, KioskPlaces, WayBack
<1>3. KioskInv
  <2>1. In(KioskPlaces) = {} /\ In({"checkin"}) = {}
    BY DEF In, KioskPlaces
  <2>2. Len(Q) = kiosks /\ DOMAIN Q = Kiosks
    BY DEF Kiosks
  <2>3. Cardinality(In(KioskPlaces)) = 0 /\ Cardinality(In({"checkin"})) = 0
    BY <2>1, FS_EmptySet
  <2>4. \A i \in DOMAIN Q : Q[i] = i /\ Q[i] # NoKiosk
    BY <2>2 DEF Kiosks, NoKiosk
  <2> QED
    BY <2>2, <2>3, <2>4 DEF KioskInv
<1>4. BeltInv
  <2>1. \A b \in Belts : OnBelt(b) = {}
    BY DEF OnBelt
  <2>2. \A b \in Belts : Cardinality(OnBelt(b)) = 0
    BY <2>1, FS_EmptySet
  <2> QED
    BY <2>2 DEF BeltInv
<1>5. BoundInv
  <2>1. Entered = {} /\ Reentered = {} /\ Through = {} /\ ThroughAgain = {} /\ In(WayBack) = {}
    BY DEF Entered, Reentered, Through, ThroughAgain, In, WayBack
  <2>2. Least = 0 /\ Most = 0 /\ Cardinality(In(WayBack)) = 0
    BY <2>1, FS_EmptySet DEF Least, Most
  <2> QED
    BY <2>2 DEF BoundInv
<1>6. LaneExact
  <2>1. CountedLR = {}
    BY DEF CountedLR
  <2> QED
    BY <2>1, FS_EmptySet DEF LaneExact, LtoRCounts, LockHasWalker
<1> QED
  BY <1>1, <1>2, <1>3, <1>4, <1>5, <1>6 DEF IInv

(* Every action keeps the types, and sends passengers only where they      *)
(* belong.                                                                 *)
LEMMA TypeAndWay ==
    ASSUME IInv, [Next]_vars
    PROVE  CoreType' /\ WayInv'
<1> USE AirportAssumption DEF IInv, At, Goto, kiosk_vars, belt_vars, lane_vars
<1>1. ASSUME NEW p \in Passengers, KioskDown(p) \/ KioskPop(p) \/ KioskPush(p) \/ KioskUp(p)
      PROVE  CoreType' /\ WayInv'
  <2>1. CoreType'
    <3>1. pc' \in [Passengers -> Locations]
      BY <1>1 DEF KioskDown, KioskPop, KioskPush, KioskUp, CoreType, Locations
    <3>2. kiosk_capacity_sem' \in Nat
      BY <1>1 DEF KioskDown, KioskPop, KioskPush, KioskUp, CoreType
    <3>3. CASE KioskDown(p) \/ KioskUp(p)
      BY <3>1, <3>2, <3>3 DEF KioskDown, KioskUp, CoreType
    <3>4. CASE KioskPop(p)
      <4>1. Head(Q) \in Kiosks /\ Tail(Q) \in Seq(Kiosks)
        BY <3>4 DEF KioskPop, CoreType
      <4> QED
        BY <3>1, <3>2, <3>4, <4>1 DEF KioskPop, CoreType
    <3>5. CASE KioskPush(p)
      <4>1. kiosk_id[p] \in Kiosks
        BY <3>5 DEF KioskPush, CoreType, KioskInv
      <4>2. Append(Q, kiosk_id[p]) \in Seq(Kiosks)
        BY <4>1 DEF CoreType
      <4> QED
        BY <3>1, <3>2, <3>5, <4>2 DEF KioskPush, CoreType
    <3> QED
      BY <1>1, <3>3, <3>4, <3>5
  <2>2. WayInv'
    BY <1>1 DEF KioskDown, KioskPop, KioskPush, KioskUp, CoreType, WayInv, KioskPlaces, WayBack
  <2> QED
    BY <2>1, <2>2
<1>2. ASSUME NEW p \in Passengers, BeltDown(p) \/ BeltUp(p) PROVE CoreType' /\ WayInv'
  <2>1. CoreType'
    <3>1. pc' \in [Passengers -> Locations]
      BY <1>2 DEF BeltDown, BeltUp, CoreType, Locations
    <3>2. belt_capacity_sem' \in [Belts -> Nat]
      BY <1>2 DEF BeltDown, BeltUp, CoreType
    <3> QED
      BY <1>2, <3>1, <3>2 DEF BeltDown, BeltUp, CoreType
  <2>2. WayInv'
    BY <1>2 DEF BeltDown, BeltUp, CoreType, WayInv, KioskPlaces, WayBack
  <2> QED
    BY <2>1, <2>2
<1>3. ASSUME NEW p \in Passengers, EnterLoad(p) \/ GateLoad(p) \/ ReenterLoad(p) PROVE CoreType' /\ WayInv'
  <2>1. CoreType'
    BY <1>3 DEF EnterLoad, GateLoad, ReenterLoad, LockAndLoad, Load, CoreType, Locations
  <2>2. WayInv'
    BY <1>3 DEF EnterLoad, GateLoad, ReenterLoad, LockAndLoad, Load, CoreType, WayInv, KioskPlaces, WayBack
  <2> QED
    BY <2>1, <2>2
<1>4. ASSUME NEW p \in Passengers, EnterStore(p) \/ GateStore(p) \/ ReenterStore(p) PROVE CoreType' /\ WayInv'
  <2>1. CoreType'
    <3>1. pc' \in [Passengers -> Locations]
      BY <1>4 DEF EnterStore, GateStore, ReenterStore, AfterGate, Store, CoreType, Locations
    <3>2. L_to_R' \in Int /\ reg' \in [Passengers -> Int]
      BY <1>4 DEF EnterStore, GateStore, ReenterStore, Store, CoreType
    <3>3. lost' \in BOOLEAN
      BY <1>4, Zenon DEF EnterStore, GateStore, ReenterStore, Store
    <3> QED
      BY <1>4, <3>1, <3>2, <3>3 DEF EnterStore, GateStore, ReenterStore, Store, CoreType
  <2>2. WayInv'
    BY <1>4 DEF EnterStore, GateStore, ReenterStore, AfterGate, Store, CoreType, WayInv, KioskPlaces, WayBack
  <2> QED
    BY <2>1, <2>2
<1>5. ASSUME NEW p \in Passengers, LaneTest(p) \/ WalkLR(p) \/ GateOther(p) \/ Board(p) \/ OppositeTest(p) \/ SpecialKiosk(p)
      PROVE  CoreType' /\ WayInv'
  <2>1. CoreType'
    BY <1>5 DEF LaneTest, WalkLR, GateOther, AfterGate, Board, OppositeTest, SpecialKiosk, Move, CoreType, Locations
  <2>2. WayInv'
    BY <1>5 DEF LaneTest, WalkLR, GateOther, AfterGate, Board, OppositeTest, SpecialKiosk, Move, CoreType, WayInv, KioskPlaces, WayBack
  <2> QED
    BY <2>1, <2>2
<1>6. ASSUME NEW p \in Passengers, GoBack(p) \/ HopOn(p) \/ HopOff(p) PROVE CoreType' /\ WayInv'
  <2>1. CoreType'
    <3>1. pc' \in [Passengers -> Locations]
      BY <1>6 DEF GoBack, HopOn, HopOff, CoreType, Locations
    <3>2. back' \in [Passengers -> BOOLEAN] /\ R_to_L' \in Int
      <4>1. back' \in [Passengers -> BOOLEAN]
        <5>1. CASE back' = back
          BY <5>1 DEF CoreType
        <5>2. CASE back' = [back EXCEPT ![p] = TRUE]
          BY <5>2, Zenon DEF CoreType
        <5> QED
          BY <1>6, <5>1, <5>2 DEF GoBack, HopOn, HopOff
      <4>2. R_to_L' \in Int
        BY <1>6 DEF GoBack, HopOn, HopOff, CoreType
      <4> QED
        BY <4>1, <4>2
    <3>3. VIP_lane_lock' \in BOOLEAN
      BY <1>6, Zenon DEF GoBack, HopOn, HopOff, CoreType
    <3> QED
      BY <1>6, <3>1, <3>2, <3>3 DEF GoBack, HopOn, HopOff, CoreType
  <2>2. WayInv'
    BY <1>6 DEF GoBack, HopOn, HopOff, CoreType, WayInv, KioskPlaces, WayBack
  <2> QED
    BY <2>1, <2>2
<1>7. CASE BroadcastLtoR \/ BroadcastLane
  <2>1. CoreType'
    BY <1>7 DEF BroadcastLtoR, BroadcastLane, Wake, CoreType, Locations
  <2>2. WayInv'
    BY <1>7 DEF BroadcastLtoR, BroadcastLane, Wake, CoreType, WayInv, KioskPlaces, WayBack
  <2> QED
    BY <2>1, <2>2
<1>8. CASE UNCHANGED vars
  BY <1>8 DEF vars, CoreType, WayInv
<1> QED
  BY <1>1, <1>2, <1>3, <1>4, <1>5, <1>6, <1>7, <1>8 DEF Next, Step, Finished

(* The actions that leave kiosks, queue and semaphore alone also leave     *)
(* everybody at the kiosks or away from them.                              *)
LEMMA KioskFrame ==
    ASSUME IInv, UNCHANGED kiosk_vars,
           \A q \in Passengers : /\ pc'[q] \in KioskPlaces <=> pc[q] \in KioskPlaces
                                 /\ pc'[q] = "checkin" <=> pc[q] = "checkin"
    PROVE  KioskInv'
<1>1. In(KioskPlaces)' = In(KioskPlaces) /\ In({"checkin"})' = In({"checkin"})
  BY DEF In
<1> QED
  BY <1>1 DEF IInv, KioskInv, kiosk_vars

(* checkin_at_kiosk: the semaphore and the queue agree on how many kiosks  *)
(* are free, and a kiosk is in the queue or taken, never both.             *)
LEMMA KioskStep ==
    ASSUME IInv, [Next]_vars
    PROVE  KioskInv'
<1> USE AirportAssumption DEF IInv
<1> DEFINE Places == KioskPlaces
<1>0. /\ In(Places) \in SUBSET Passengers /\ In({"checkin"}) \in SUBSET Passengers
      /\ In(Places)' \in SUBSET Passengers /\ In({"checkin"})' \in SUBSET Passengers
      /\ Cardinality(In(Places)) \in Nat /\ Cardinality(In({"checkin"})) \in Nat
      /\ Cardinality(In(Places)') \in Nat /\ Cardinality(In({"checkin"})') \in Nat
  <2>1. /\ In(Places) \in SUBSET Passengers /\ In({"checkin"}) \in SUBSET Passengers
        /\ In(Places)' \in SUBSET Passengers /\ In({"checkin"})' \in SUBSET Passengers
    BY DEF In
  <2> QED
    BY <2>1, Counted
<1>1. ASSUME NEW p \in Passengers, KioskDown(p) PROVE KioskInv'
  <2>1. At(p, "arrive") /\ Goto(p, "pop")
    BY <1>1 DEF KioskDown
  <2>2. Cardinality(In(Places)') = Cardinality(In(Places)) + 1 /\ In({"checkin"})' = In({"checkin"})
    BY <2>1, Moved DEF KioskPlaces
  <2>3. \A q \in Passengers : (pc'[q] = "checkin") = (pc[q] = "checkin")
    BY <2>1 DEF At, Goto, CoreType
  <2>4. UNCHANGED <<Q, kiosk_id>> /\ kiosk_capacity_sem' = kiosk_capacity_sem - 1
    BY <1>1 DEF KioskDown
  <2> QED
    BY <1>0, <2>2, <2>3, <2>4 DEF KioskInv, CoreType
<1>2. ASSUME NEW p \in Passengers, KioskUp(p) PROVE KioskInv'
  <2>1. At(p, "leave_kiosk") /\ (Goto(p, "lane") \/ Goto(p, "security"))
    BY <1>2 DEF KioskUp
  <2>2. Cardinality(In(Places)) = Cardinality(In(Places)') + 1 /\ In({"checkin"})' = In({"checkin"})
    BY <2>1, Moved DEF KioskPlaces
  <2>3. \A q \in Passengers : (pc'[q] = "checkin") = (pc[q] = "checkin")
    BY <2>1 DEF At, Goto, CoreType
  <2>4. UNCHANGED <<Q, kiosk_id>> /\ kiosk_capacity_sem' = kiosk_capacity_sem + 1
    BY <1>2 DEF KioskUp
  <2> QED
    BY <1>0, <2>2, <2>3, <2>4 DEF KioskInv, CoreType
<1>3. ASSUME NEW p \in Passengers, KioskPop(p) PROVE KioskInv'
  <2>1. At(p, "pop") /\ Goto(p, "checkin") /\ Q # <<>> /\ Q' = Tail(Q) /\ kiosk_capacity_sem' = kiosk_capacity_sem
        /\ kiosk_id' = [kiosk_id EXCEPT ![p] = Head(Q)]
    BY <1>3 DEF KioskPop
  <2>2. In(Places)' = In(Places) /\ Cardinality(In({"checkin"})') = Cardinality(In({"checkin"})) + 1
    BY <2>1, Moved DEF KioskPlaces
  <2>3. /\ Len(Q) \in Nat \ {0} /\ DOMAIN Q = 1..Len(Q) /\ Head(Q) = Q[1] /\ Q[1] \in Kiosks
        /\ Len(Q') = Len(Q) - 1 /\ DOMAIN Q' = 1..(Len(Q) - 1) /\ \A i \in 1..(Len(Q) - 1) : Q'[i] = Q[i + 1]
    BY <2>1 DEF CoreType
  <2>4. Q[1] # NoKiosk
    BY <2>3 DEF Kiosks, NoKiosk
  <2>5. \A q \in Passengers : kiosk_id'[q] = IF q = p THEN Q[1] ELSE kiosk_id[q]
    BY <2>1, <2>3 DEF CoreType
  <2>6. \A q \in Passengers : (kiosk_id'[q] # NoKiosk) = (pc'[q] = "checkin")
    BY <2>1, <2>4, <2>5 DEF KioskInv, At, Goto, CoreType
  <2>7. \A i \in 1..(Len(Q) - 1) : i + 1 \in DOMAIN Q /\ i + 1 # 1 /\ Q'[i] = Q[i + 1]
    BY <2>3
  <2>8. ASSUME NEW i \in DOMAIN Q', NEW j \in DOMAIN Q', Q'[i] = Q'[j] PROVE i = j
    <3>1. Q[i + 1] = Q[j + 1] /\ i + 1 \in DOMAIN Q /\ j + 1 \in DOMAIN Q /\ i \in Int /\ j \in Int
      BY <2>3, <2>7, <2>8
    <3>2. i + 1 = j + 1
      BY <3>1 DEF KioskInv
    <3> QED
      BY <3>1, <3>2
  <2>9. ASSUME NEW q \in Passengers, NEW i \in DOMAIN Q' PROVE Q'[i] # kiosk_id'[q]
    <3>1. Q'[i] = Q[i + 1] /\ i + 1 \in DOMAIN Q /\ i + 1 # 1 /\ 1 \in DOMAIN Q
      BY <2>3, <2>7, <2>9
    <3>2. Q[i + 1] # Q[1] /\ Q[i + 1] # kiosk_id[q]
      BY <3>1 DEF KioskInv
    <3> QED
      BY <3>1, <3>2, <2>5
  <2>10. \A q, r \in Passengers : kiosk_id'[q] = kiosk_id'[r] => q = r \/ kiosk_id'[q] = NoKiosk
    BY <2>3, <2>5 DEF KioskInv
  <2>11. \A i, j \in DOMAIN Q' : Q'[i] = Q'[j] => i = j
    BY <2>8
  <2>12. \A q \in Passengers : \A i \in DOMAIN Q' : Q'[i] # kiosk_id'[q]
    BY <2>9
  <2>13. /\ kiosk_capacity_sem' + Cardinality(In(Places)') = kiosks
         /\ Len(Q') + Cardinality(In({"checkin"})') = kiosks
    BY <1>0, <2>1, <2>2, <2>3 DEF KioskInv
  <2> QED
    BY <2>6, <2>10, <2>11, <2>12, <2>13 DEF KioskInv
<1>4. ASSUME NEW p \in Passengers, KioskPush(p) PROVE KioskInv'
  <2>1. At(p, "checkin") /\ (Goto(p, "enter") \/ Goto(p, "leave_kiosk")) /\ Q' = Append(Q, kiosk_id[p])
        /\ kiosk_capacity_sem' = kiosk_capacity_sem /\ kiosk_id' = [kiosk_id EXCEPT ![p] = NoKiosk]
    BY <1>4 DEF KioskPush
  <2>2. In(Places)' = In(Places) /\ Cardinality(In({"checkin"})) = Cardinality(In({"checkin"})') + 1
    BY <2>1, Moved DEF KioskPlaces
  <2>3. kiosk_id[p] \in Kiosks /\ kiosk_id[p] # NoKiosk
    BY <2>1 DEF KioskInv, CoreType, At
  <2>4. /\ Len(Q) \in Nat /\ DOMAIN Q = 1..Len(Q) /\ Len(Q') = Len(Q) + 1 /\ DOMAIN Q' = 1..(Len(Q) + 1)
        /\ \A i \in 1..Len(Q) : Q'[i] = Q[i] /\ Q[i] \in Kiosks
        /\ Q'[Len(Q) + 1] = kiosk_id[p]
    BY <2>1, <2>3 DEF CoreType
  <2>5. \A q \in Passengers : kiosk_id'[q] = IF q = p THEN NoKiosk ELSE kiosk_id[q]
    BY <2>1 DEF CoreType
  <2>6. \A q \in Passengers : (kiosk_id'[q] # NoKiosk) = (pc'[q] = "checkin")
    BY <2>1, <2>5 DEF KioskInv, At, Goto, CoreType
  <2>7. \A i, j \in DOMAIN Q' : Q'[i] = Q'[j] => i = j
    BY <2>4 DEF KioskInv
  <2>8. \A i \in DOMAIN Q' : Q'[i] # NoKiosk
    BY <2>3, <2>4 DEF Kiosks, NoKiosk
  <2>9. \A q \in Passengers : \A i \in DOMAIN Q' : Q'[i] # kiosk_id'[q]
    BY <2>3, <2>4, <2>5, <2>8 DEF KioskInv
  <2>10. \A q, r \in Passengers : kiosk_id'[q] = kiosk_id'[r] => q = r \/ kiosk_id'[q] = NoKiosk
    BY <2>5 DEF KioskInv
  <2> QED
    BY <1>0, <2>1, <2>2, <2>4, <2>6, <2>7, <2>9, <2>10 DEF KioskInv
<1>5. ASSUME NEW p \in Passengers, EnterLoad(p) \/ GateLoad(p) \/ ReenterLoad(p) \/ EnterStore(p) \/ GateStore(p) \/ ReenterStore(p)
      PROVE  KioskInv'
  BY <1>5, KioskFrame DEF EnterLoad, GateLoad, ReenterLoad, LockAndLoad, Load, EnterStore, GateStore, ReenterStore,
     AfterGate, Store, At, Goto, CoreType, KioskPlaces
<1>6. ASSUME NEW p \in Passengers, BeltDown(p) \/ BeltUp(p) \/ GoBack(p) \/ HopOn(p) \/ HopOff(p)
      PROVE  KioskInv'
  BY <1>6, KioskFrame DEF BeltDown, BeltUp, GoBack, HopOn, HopOff, At, Goto, CoreType, KioskPlaces
<1>7. ASSUME NEW p \in Passengers, LaneTest(p) \/ WalkLR(p) \/ GateOther(p) \/ Board(p) \/ OppositeTest(p) \/ SpecialKiosk(p)
      PROVE  KioskInv'
  BY <1>7, KioskFrame DEF LaneTest, WalkLR, GateOther, AfterGate, Board, OppositeTest, SpecialKiosk, Move, At, Goto,
     CoreType, KioskPlaces
<1>8. CASE BroadcastLtoR \/ BroadcastLane
  BY <1>8, KioskFrame DEF BroadcastLtoR, BroadcastLane, Wake, CoreType, KioskPlaces
<1>9. CASE UNCHANGED vars
  BY <1>9, KioskFrame DEF vars, kiosk_vars
<1> QED
  BY <1>1, <1>2, <1>3, <1>4, <1>5, <1>6, <1>7, <1>8, <1>9 DEF Next, Step, Finished

(* security_check: each belt's semaphore counts the passengers at it.      *)
LEMMA BeltStep ==
    ASSUME IInv, [Next]_vars
    PROVE  BeltInv'
<1> USE AirportAssumption DEF IInv
<1>1. ASSUME belt_capacity_sem' = belt_capacity_sem, belt_id' = belt_id,
             \A q \in Passengers : pc'[q] = "belt" <=> pc[q] = "belt"
      PROVE  BeltInv'
  <2>1. \A b \in Belts : OnBelt(b)' = OnBelt(b)
    BY <1>1 DEF OnBelt
  <2> QED
    BY <1>1, <2>1 DEF BeltInv
<1>2. ASSUME NEW p \in Passengers, BeltDown(p) PROVE BeltInv'
  <2>1. /\ pc[p] = "security" /\ pc' = [pc EXCEPT ![p] = "belt"] /\ belt_id' = belt_id /\ belt_id[p] \in Belts
        /\ belt_capacity_sem' = [belt_capacity_sem EXCEPT ![belt_id[p]] = @ - 1]
    BY <1>2 DEF BeltDown, At, Goto, CoreType
  <2>2. ASSUME NEW b \in Belts PROVE belt_capacity_sem'[b] + Cardinality(OnBelt(b)') = passengers_per_belt
    <3>1. OnBelt(b) \in SUBSET Passengers /\ OnBelt(b)' \in SUBSET Passengers
      BY DEF OnBelt
    <3>2. CASE b = belt_id[p]
      <4>1. p \in OnBelt(b)' /\ p \notin OnBelt(b) /\ OnBelt(b)' = OnBelt(b) \cup {p}
        BY <2>1, <3>2 DEF OnBelt, CoreType
      <4>2. Cardinality(OnBelt(b)') = Cardinality(OnBelt(b)) + 1 /\ Cardinality(OnBelt(b)) \in Nat
        BY <3>1, <4>1, OneMore, Counted
      <4> QED
        BY <2>1, <3>2, <4>2 DEF BeltInv, CoreType
    <3>3. CASE b # belt_id[p]
      <4>1. OnBelt(b)' = OnBelt(b)
        BY <2>1, <3>3 DEF OnBelt, CoreType
      <4> QED
        BY <2>1, <3>3, <4>1 DEF BeltInv, CoreType
    <3> QED
      BY <3>2, <3>3
  <2> QED
    BY <2>2 DEF BeltInv
<1>3. ASSUME NEW p \in Passengers, BeltUp(p) PROVE BeltInv'
  <2>1. /\ pc[p] = "belt" /\ pc' = [pc EXCEPT ![p] = "gate"] /\ belt_id' = belt_id /\ belt_id[p] \in Belts
        /\ belt_capacity_sem' = [belt_capacity_sem EXCEPT ![belt_id[p]] = @ + 1]
    BY <1>3 DEF BeltUp, At, Goto, CoreType
  <2>2. ASSUME NEW b \in Belts PROVE belt_capacity_sem'[b] + Cardinality(OnBelt(b)') = passengers_per_belt
    <3>1. OnBelt(b) \in SUBSET Passengers /\ OnBelt(b)' \in SUBSET Passengers
      BY DEF OnBelt
    <3>2. CASE b = belt_id[p]
      <4>1. p \in OnBelt(b) /\ p \notin OnBelt(b)' /\ OnBelt(b) = OnBelt(b)' \cup {p}
        BY <2>1, <3>2 DEF OnBelt, CoreType
      <4>2. Cardinality(OnBelt(b)) = Cardinality(OnBelt(b)') + 1 /\ Cardinality(OnBelt(b)') \in Nat
        BY <3>1, <4>1, OneMore, Counted
      <4> QED
        BY <2>1, <3>2, <4>2 DEF BeltInv, CoreType
    <3>3. CASE b # belt_id[p]
      <4>1. OnBelt(b)' = OnBelt(b)
        BY <2>1, <3>3 DEF OnBelt, CoreType
      <4> QED
        BY <2>1, <3>3, <4>1 DEF BeltInv, CoreType
    <3> QED
      BY <3>2, <3>3
  <2> QED
    BY <2>2 DEF BeltInv
<1>4. ASSUME NEW p \in Passengers, KioskDown(p) \/ KioskPop(p) \/ KioskPush(p) \/ KioskUp(p) PROVE BeltInv'
  BY <1>4, <1>1 DEF KioskDown, KioskPop, KioskPush, KioskUp, belt_vars, At, Goto, CoreType
<1>5. ASSUME NEW p \in Passengers, EnterLoad(p) \/ GateLoad(p) \/ ReenterLoad(p) \/ EnterStore(p) \/ GateStore(p) \/ ReenterStore(p)
      PROVE  BeltInv'
  BY <1>5, <1>1 DEF EnterLoad, GateLoad, ReenterLoad, LockAndLoad, Load, EnterStore, GateStore, ReenterStore,
     AfterGate, Store, belt_vars, At, Goto, CoreType
<1>6. ASSUME NEW p \in Passengers, LaneTest(p) \/ WalkLR(p) \/ GateOther(p) \/ Board(p) \/ OppositeTest(p) \/ SpecialKiosk(p)
      PROVE  BeltInv'
  BY <1>6, <1>1 DEF LaneTest, WalkLR, GateOther, AfterGate, Board, OppositeTest, SpecialKiosk, Move, belt_vars, At, Goto, CoreType
<1>7. ASSUME NEW p \in Passengers, GoBack(p) \/ HopOn(p) \/ HopOff(p) PROVE BeltInv'
  BY <1>7, <1>1 DEF GoBack, HopOn, HopOff, belt_vars, At, Goto, CoreType
<1>8. CASE BroadcastLtoR \/ BroadcastLane
  BY <1>8, <1>1 DEF BroadcastLtoR, BroadcastLane, Wake, belt_vars, CoreType
<1>9. CASE UNCHANGED vars
  BY <1>9, <1>1 DEF vars
<1> QED
  BY <1>2, <1>3, <1>4, <1>5, <1>6, <1>7, <1>8, <1>9 DEF Next, Step, Finished

(* A store that no other thread's came before adds to the count itself.    *)
LEMMA ExactStore ==
    ASSUME IInv, NEW p \in Passengers, NEW d \in Int, NEW from, NEW to, Store(p, d, from, to), ~lost'
    PROVE  ~lost /\ L_to_R' = L_to_R + d
BY DEF IInv, CoreType, Store

(* L_to_R counts those on their way, and the lock has a walker.            *)
LEMMA LaneStep ==
    ASSUME IInv, [Next]_vars
    PROVE  LaneExact'
<1> USE AirportAssumption DEF IInv
<1>0. CountedLR \in SUBSET Passengers /\ CountedLR' \in SUBSET Passengers
  BY DEF CountedLR
<1>1. ASSUME UNCHANGED <<L_to_R, lost>>, CountedLR' = CountedLR PROVE LtoRCounts'
  BY <1>1 DEF LaneExact, LtoRCounts
<1>2. ASSUME UNCHANGED VIP_lane_lock, \A q \in Passengers : pc[q] = "walk_RL" => pc'[q] = "walk_RL"
      PROVE  LockHasWalker'
  BY <1>2 DEF LaneExact, LockHasWalker
<1>3. ASSUME NEW p \in Passengers, KioskDown(p) \/ KioskPop(p) \/ KioskPush(p) \/ KioskUp(p) PROVE LaneExact'
  <2>1. UNCHANGED <<L_to_R, lost, VIP_lane_lock, isVIP, back>> /\ \A q \in Passengers \ {p} : pc'[q] = pc[q]
    BY <1>3 DEF KioskDown, KioskPop, KioskPush, KioskUp, lane_vars, Goto, CoreType
  <2>2. p \in CountedLR' <=> p \in CountedLR
    BY <1>3, <2>1 DEF KioskDown, KioskPop, KioskPush, KioskUp, At, Goto, CoreType, CountedLR, WayInv, KioskPlaces
  <2>3. CountedLR' = CountedLR
    BY <2>1, <2>2 DEF CountedLR
  <2>4. pc[p] # "walk_RL"
    BY <1>3 DEF KioskDown, KioskPop, KioskPush, KioskUp, At
  <2> QED
    BY <1>1, <1>2, <2>1, <2>3, <2>4 DEF LaneExact
<1>4. ASSUME NEW p \in Passengers, BeltDown(p) \/ BeltUp(p) PROVE LaneExact'
  <2>1. UNCHANGED <<L_to_R, lost, VIP_lane_lock, isVIP, back>> /\ \A q \in Passengers \ {p} : pc'[q] = pc[q]
    BY <1>4 DEF BeltDown, BeltUp, lane_vars, Goto, CoreType
  <2>2. p \in CountedLR' <=> p \in CountedLR
    BY <1>4, <2>1 DEF BeltDown, BeltUp, At, Goto, CoreType, CountedLR, WayInv
  <2>3. CountedLR' = CountedLR
    BY <2>1, <2>2 DEF CountedLR
  <2>4. pc[p] # "walk_RL"
    BY <1>4 DEF BeltDown, BeltUp, At
  <2> QED
    BY <1>1, <1>2, <2>1, <2>3, <2>4 DEF LaneExact
<1>5. ASSUME NEW p \in Passengers, EnterLoad(p) \/ GateLoad(p) \/ ReenterLoad(p) PROVE LaneExact'
  <2>1. UNCHANGED <<L_to_R, lost, VIP_lane_lock, isVIP, back>> /\ \A q \in Passengers \ {p} : pc'[q] = pc[q]
    BY <1>5 DEF EnterLoad, GateLoad, ReenterLoad, LockAndLoad, Load, Goto, CoreType
  <2>2. p \in CountedLR' <=> p \in CountedLR
    BY <1>5, <2>1 DEF EnterLoad, GateLoad, ReenterLoad, LockAndLoad, Load, At, Goto, CoreType, CountedLR
  <2>3. CountedLR' = CountedLR
    BY <2>1, <2>2 DEF CountedLR
  <2>4. pc[p] # "walk_RL"
    BY <1>5 DEF EnterLoad, GateLoad, ReenterLoad, LockAndLoad, Load, At
  <2> QED
    BY <1>1, <1>2, <2>1, <2>3, <2>4 DEF LaneExact
<1>6. ASSUME NEW p \in Passengers, LaneTest(p) \/ WalkLR(p) \/ GateOther(p) \/ Board(p) \/ OppositeTest(p) \/ SpecialKiosk(p)
      PROVE  LaneExact'
  <2> USE DEF LaneTest, WalkLR, GateOther, AfterGate, Board, OppositeTest, SpecialKiosk, Move
  <2>1. UNCHANGED <<L_to_R, lost, VIP_lane_lock, isVIP, back>> /\ \A q \in Passengers \ {p} : pc'[q] = pc[q]
    BY <1>6 DEF lane_vars, Goto, CoreType
  <2>2. p \in CountedLR' <=> p \in CountedLR
    BY <1>6, <2>1 DEF At, Goto, CoreType, CountedLR
  <2>3. CountedLR' = CountedLR
    BY <2>1, <2>2 DEF CountedLR
  <2>4. pc[p] # "walk_RL"
    BY <1>6 DEF At
  <2> QED
    BY <1>1, <1>2, <2>1, <2>3, <2>4 DEF LaneExact
<1>7. ASSUME NEW p \in Passengers, EnterStore(p) \/ ReenterStore(p) PROVE LaneExact'
  <2>1. PICK from \in {"entering", "reentering"}, to \in {"leave_kiosk", "lane"} :
          Store(p, 1, from, to) /\ (from = "entering") = (to = "leave_kiosk")
    BY <1>7 DEF EnterStore, ReenterStore
  <2>2. /\ UNCHANGED <<VIP_lane_lock, isVIP, back>> /\ \A q \in Passengers \ {p} : pc'[q] = pc[q]
        /\ pc[p] = from /\ pc'[p] = to
    BY <2>1 DEF Store, At, Goto, CoreType
  <2>3. p \in CountedLR' /\ p \notin CountedLR
    BY <2>1, <2>2 DEF CountedLR, WayInv
  <2>4. CountedLR' = CountedLR \cup {p}
    BY <2>2, <2>3 DEF CountedLR
  <2>5. Cardinality(CountedLR') = Cardinality(CountedLR) + 1
    BY <1>0, <2>3, <2>4, OneMore
  <2>6. LtoRCounts'
    BY <2>1, <2>5, ExactStore DEF LaneExact, LtoRCounts
  <2>7. LockHasWalker'
    BY <1>2, <2>1, <2>2
  <2> QED
    BY <2>6, <2>7 DEF LaneExact
<1>8. ASSUME NEW p \in Passengers, GateStore(p) PROVE LaneExact'
  <2>1. PICK to \in {"board", "go_back"} : Store(p, -1, "arriving", to)
    BY <1>8 DEF GateStore, AfterGate
  <2>2. /\ UNCHANGED <<VIP_lane_lock, isVIP, back>> /\ \A q \in Passengers \ {p} : pc'[q] = pc[q]
        /\ pc[p] = "arriving" /\ pc'[p] = to
    BY <2>1 DEF Store, At, Goto, CoreType
  <2>3. p \in CountedLR /\ p \notin CountedLR'
    BY <2>1, <2>2 DEF CountedLR, WayInv
  <2>4. CountedLR = CountedLR' \cup {p}
    BY <2>2, <2>3 DEF CountedLR
  <2>5. Cardinality(CountedLR) = Cardinality(CountedLR') + 1 /\ Cardinality(CountedLR') \in Nat
    BY <1>0, <2>3, <2>4, OneMore, Counted
  <2>6. LtoRCounts'
    BY <2>1, <2>5, ExactStore DEF LaneExact, LtoRCounts
  <2>7. LockHasWalker'
    BY <1>2, <2>1, <2>2
  <2> QED
    BY <2>6, <2>7 DEF LaneExact
<1>9. ASSUME NEW p \in Passengers, GoBack(p) \/ HopOn(p) \/ HopOff(p) PROVE LaneExact'
  <2>1. UNCHANGED <<L_to_R, lost, isVIP>> /\ \A q \in Passengers \ {p} : pc'[q] = pc[q] /\ back'[q] = back[q]
    BY <1>9 DEF GoBack, HopOn, HopOff, Goto, CoreType
  <2>2. p \notin CountedLR' /\ p \notin CountedLR
    BY <1>9 DEF GoBack, HopOn, HopOff, At, Goto, CoreType, CountedLR
  <2>3. CountedLR' = CountedLR
    BY <2>1, <2>2 DEF CountedLR
  <2>4. LockHasWalker'
    BY <1>9 DEF GoBack, HopOn, HopOff, At, Goto, CoreType, LaneExact, LockHasWalker
  <2> QED
    BY <1>1, <2>1, <2>3, <2>4 DEF LaneExact
<1>10. CASE BroadcastLtoR \/ BroadcastLane
  <2>1. CountedLR' = CountedLR
    BY <1>10 DEF BroadcastLtoR, BroadcastLane, Wake, CoreType, CountedLR, WayInv
  <2>2. UNCHANGED <<L_to_R, lost, VIP_lane_lock>> /\ \A q \in Passengers : pc[q] = "walk_RL" => pc'[q] = "walk_RL"
    BY <1>10 DEF BroadcastLtoR, BroadcastLane, Wake, lane_vars
  <2> QED
    BY <1>1, <1>2, <2>1, <2>2 DEF LaneExact
<1>11. CASE UNCHANGED vars
  BY <1>11 DEF vars, LaneExact, LtoRCounts, CountedLR, LockHasWalker
<1> QED
  BY <1>3, <1>4, <1>5, <1>6, <1>7, <1>8, <1>9, <1>10, <1>11 DEF Next, Step, Finished

(* Nobody takes an update back: the passengers who have stored one stay    *)
(* among those who have.                                                   *)
LEMMA Growing ==
    ASSUME IInv, [Next]_vars
    PROVE  /\ Entered \subseteq Entered' /\ Reentered \subseteq Reentered'
           /\ Through \subseteq Through' /\ ThroughAgain \subseteq ThroughAgain'
<1> USE DEF IInv, Entered, Reentered, Through, ThroughAgain
<1> DEFINE Kept == /\ Entered \subseteq Entered' /\ Reentered \subseteq Reentered'
                   /\ Through \subseteq Through' /\ ThroughAgain \subseteq ThroughAgain'
<1>1. ASSUME NEW p \in Passengers, KioskDown(p) \/ KioskPop(p) \/ KioskPush(p) \/ KioskUp(p) PROVE Kept
  BY <1>1 DEF KioskDown, KioskPop, KioskPush, KioskUp, At, Goto, CoreType, WayInv, KioskPlaces
<1>2. ASSUME NEW p \in Passengers, BeltDown(p) \/ BeltUp(p) PROVE Kept
  BY <1>2 DEF BeltDown, BeltUp, At, Goto, CoreType
<1>3. ASSUME NEW p \in Passengers, EnterLoad(p) \/ GateLoad(p) \/ ReenterLoad(p) PROVE Kept
  BY <1>3 DEF EnterLoad, GateLoad, ReenterLoad, LockAndLoad, Load, At, Goto, CoreType
<1>4. ASSUME NEW p \in Passengers, EnterStore(p) \/ GateStore(p) \/ ReenterStore(p) PROVE Kept
  BY <1>4 DEF EnterStore, GateStore, ReenterStore, AfterGate, Store, At, Goto, CoreType, WayInv
<1>5. ASSUME NEW p \in Passengers, LaneTest(p) \/ WalkLR(p) \/ GateOther(p) \/ Board(p) \/ OppositeTest(p) \/ SpecialKiosk(p)
      PROVE  Kept
  BY <1>5 DEF LaneTest, WalkLR, GateOther, AfterGate, Board, OppositeTest, SpecialKiosk, Move, At, Goto, CoreType
<1>6. ASSUME NEW p \in Passengers, GoBack(p) \/ HopOn(p) \/ HopOff(p) PROVE Kept
  BY <1>6 DEF GoBack, HopOn, HopOff, At, Goto, CoreType, WayInv
<1>7. CASE BroadcastLtoR \/ BroadcastLane
  BY <1>7 DEF BroadcastLtoR, BroadcastLane, Wake, CoreType
<1>8. CASE UNCHANGED vars
  BY <1>8 DEF vars
<1> QED
  BY <1>1, <1>2, <1>3, <1>4, <1>5, <1>6, <1>7, <1>8 DEF Next, Step, Finished

(* So the range of the count only widens, and 0 is always in it.           *)
LEMMA Wider ==
    ASSUME IInv, [Next]_vars
    PROVE  /\ Least \in Int /\ Most \in Int /\ Least' \in Int /\ Most' \in Int
           /\ Least' <= Least /\ Most <= Most' /\ Least' <= 0 /\ 0 <= Most'
<1>1. /\ Entered \in SUBSET Passengers /\ Reentered \in SUBSET Passengers
      /\ Through \in SUBSET Passengers /\ ThroughAgain \in SUBSET Passengers
      /\ Entered' \in SUBSET Passengers /\ Reentered' \in SUBSET Passengers
      /\ Through' \in SUBSET Passengers /\ ThroughAgain' \in SUBSET Passengers
  BY DEF Entered, Reentered, Through, ThroughAgain
<1>2. /\ Cardinality(Entered) \in Nat /\ Cardinality(Reentered) \in Nat
      /\ Cardinality(Through) \in Nat /\ Cardinality(ThroughAgain) \in Nat
      /\ Cardinality(Entered') \in Nat /\ Cardinality(Reentered') \in Nat
      /\ Cardinality(Through') \in Nat /\ Cardinality(ThroughAgain') \in Nat
  BY <1>1, Counted
<1>3. /\ Cardinality(Entered) <= Cardinality(Entered') /\ Cardinality(Reentered) <= Cardinality(Reentered')
      /\ Cardinality(Through) <= Cardinality(Through') /\ Cardinality(ThroughAgain) <= Cardinality(ThroughAgain')
  BY <1>1, Growing, NotLess
<1> QED
  BY <1>2, <1>3 DEF Least, Most

(* A passenger's store widens the range by one on its side.                *)
LEMMA StoreWidens ==
    ASSUME IInv, [Next]_vars, NEW p \in Passengers
    PROVE  /\ EnterStore(p) \/ ReenterStore(p) => Most + 1 <= Most'
           /\ GateStore(p) => Least' <= Least - 1
<1> USE DEF IInv
<1>1. /\ Entered \in SUBSET Passengers /\ Reentered \in SUBSET Passengers
      /\ Through \in SUBSET Passengers /\ ThroughAgain \in SUBSET Passengers
      /\ Entered' \in SUBSET Passengers /\ Reentered' \in SUBSET Passengers
      /\ Through' \in SUBSET Passengers /\ ThroughAgain' \in SUBSET Passengers
  BY DEF Entered, Reentered, Through, ThroughAgain
<1>2. /\ Cardinality(Entered) \in Nat /\ Cardinality(Reentered) \in Nat
      /\ Cardinality(Through) \in Nat /\ Cardinality(ThroughAgain) \in Nat
      /\ Cardinality(Entered') \in Nat /\ Cardinality(Reentered') \in Nat
      /\ Cardinality(Through') \in Nat /\ Cardinality(ThroughAgain') \in Nat
  BY <1>1, Counted
<1>3. /\ Cardinality(Entered) <= Cardinality(Entered') /\ Cardinality(Reentered) <= Cardinality(Reentered')
      /\ Cardinality(Through) <= Cardinality(Through') /\ Cardinality(ThroughAgain) <= Cardinality(ThroughAgain')
  BY <1>1, Growing, NotLess
<1>4. ASSUME EnterStore(p) PROVE Most + 1 <= Most'
  <2>1. p \notin Entered /\ p \in Entered' /\ Entered' = Entered \cup {p}
    BY <1>4 DEF EnterStore, Store, At, Goto, CoreType, Entered
  <2> QED
    BY <1>1, <1>2, <1>3, <2>1, OneMore DEF Most
<1>5. ASSUME ReenterStore(p) PROVE Most + 1 <= Most'
  <2>1. pc[p] = "reentering" /\ back[p] /\ back' = back /\ pc' = [pc EXCEPT ![p] = "lane"]
    BY <1>5 DEF ReenterStore, Store, At, Goto, WayInv
  <2>2. p \notin Reentered /\ p \in Reentered' /\ Reentered' = Reentered \cup {p}
    BY <2>1 DEF CoreType, Reentered
  <2> QED
    BY <1>1, <1>2, <1>3, <2>2, OneMore DEF Most
<1>6. ASSUME GateStore(p) PROVE Least' <= Least - 1
  <2>1. PICK to \in AfterGate(p) : pc[p] = "arriving" /\ back' = back /\ pc' = [pc EXCEPT ![p] = to]
    BY <1>6 DEF GateStore, Store, At, Goto
  <2>2. CASE back[p]
    <3>1. to = "board"
      BY <2>1, <2>2 DEF AfterGate
    <3>2. p \notin ThroughAgain /\ p \in ThroughAgain' /\ ThroughAgain' = ThroughAgain \cup {p}
      BY <2>1, <2>2, <3>1 DEF CoreType, ThroughAgain
    <3>3. Cardinality(ThroughAgain') = Cardinality(ThroughAgain) + 1
      BY <1>1, <3>2, OneMore
    <3> QED
      BY <1>2, <1>3, <3>3 DEF Least
  <2>3. CASE ~back[p]
    <3>1. to \in {"board", "go_back"}
      BY <2>1 DEF AfterGate
    <3>2. p \notin Through /\ p \in Through' /\ Through' = Through \cup {p}
      BY <2>1, <2>3, <3>1 DEF CoreType, Through
    <3>3. Cardinality(Through') = Cardinality(Through) + 1
      BY <1>1, <3>2, OneMore
    <3> QED
      BY <1>2, <1>3, <3>3 DEF Least
  <2> QED
    BY <2>2, <2>3
<1> QED
  BY <1>4, <1>5, <1>6

(* R_to_L counts the passengers on their way back.                         *)
LEMMA BackStep ==
    ASSUME IInv, [Next]_vars
    PROVE  R_to_L' = Cardinality(In(WayBack)')
<1> USE DEF IInv
<1>0. Cardinality(In(WayBack)) \in Nat /\ Cardinality(In(WayBack)') \in Nat
  <2>1. In(WayBack) \in SUBSET Passengers /\ In(WayBack)' \in SUBSET Passengers
    BY DEF In
  <2> QED
    BY <2>1, Counted
<1>1. ASSUME R_to_L' = R_to_L, \A q \in Passengers : pc'[q] \in WayBack <=> pc[q] \in WayBack
      PROVE  R_to_L' = Cardinality(In(WayBack)')
  <2>1. In(WayBack)' = In(WayBack)
    BY <1>1 DEF In
  <2> QED
    BY <1>1, <2>1 DEF BoundInv
<1>2. ASSUME NEW p \in Passengers, GoBack(p) PROVE R_to_L' = Cardinality(In(WayBack)')
  <2>1. At(p, "go_back") /\ Goto(p, "opposite") /\ R_to_L' = R_to_L + 1
    BY <1>2 DEF GoBack
  <2>2. Cardinality(In(WayBack)') = Cardinality(In(WayBack)) + 1
    BY <2>1, Moved DEF WayBack
  <2> QED
    BY <2>1, <2>2 DEF BoundInv
<1>3. ASSUME NEW p \in Passengers, HopOff(p) PROVE R_to_L' = Cardinality(In(WayBack)')
  <2>1. At(p, "walk_RL") /\ Goto(p, "special") /\ R_to_L' = R_to_L - 1
    BY <1>3 DEF HopOff
  <2>2. Cardinality(In(WayBack)) = Cardinality(In(WayBack)') + 1
    BY <2>1, Moved DEF WayBack
  <2> QED
    BY <1>0, <2>1, <2>2 DEF BoundInv
<1>4. ASSUME NEW p \in Passengers, KioskDown(p) \/ KioskPop(p) \/ KioskPush(p) \/ KioskUp(p)
      PROVE  R_to_L' = Cardinality(In(WayBack)')
  BY <1>1, <1>4 DEF KioskDown, KioskPop, KioskPush, KioskUp, lane_vars, At, Goto, CoreType, WayBack
<1>5. ASSUME NEW p \in Passengers, BeltDown(p) \/ BeltUp(p) \/ HopOn(p) PROVE R_to_L' = Cardinality(In(WayBack)')
  BY <1>1, <1>5 DEF BeltDown, BeltUp, HopOn, lane_vars, At, Goto, CoreType, WayBack
<1>6. ASSUME NEW p \in Passengers, EnterLoad(p) \/ GateLoad(p) \/ ReenterLoad(p) PROVE R_to_L' = Cardinality(In(WayBack)')
  BY <1>1, <1>6 DEF EnterLoad, GateLoad, ReenterLoad, LockAndLoad, Load, At, Goto, CoreType, WayBack
<1>7. ASSUME NEW p \in Passengers, EnterStore(p) \/ GateStore(p) \/ ReenterStore(p) PROVE R_to_L' = Cardinality(In(WayBack)')
  BY <1>1, <1>7 DEF EnterStore, GateStore, ReenterStore, AfterGate, Store, At, Goto, CoreType, WayBack
<1>8. ASSUME NEW p \in Passengers, LaneTest(p) \/ WalkLR(p) \/ GateOther(p) \/ Board(p) \/ OppositeTest(p) \/ SpecialKiosk(p)
      PROVE  R_to_L' = Cardinality(In(WayBack)')
  BY <1>1, <1>8 DEF LaneTest, WalkLR, GateOther, AfterGate, Board, OppositeTest, SpecialKiosk, Move, lane_vars, At, Goto,
     CoreType, WayBack
<1>9. CASE BroadcastLtoR \/ BroadcastLane
  BY <1>1, <1>9 DEF BroadcastLtoR, BroadcastLane, Wake, lane_vars, CoreType, WayBack
<1>10. CASE UNCHANGED vars
  BY <1>1, <1>10 DEF vars
<1> QED
  BY <1>2, <1>3, <1>4, <1>5, <1>6, <1>7, <1>8, <1>9, <1>10 DEF Next, Step, Finished

(* Whatever updates are lost, the count stays in its range.                *)
LEMMA BoundStep ==
    ASSUME IInv, [Next]_vars
    PROVE  BoundInv'
<1> USE DEF IInv
<1> DEFINE InRange(v) == Least' <= v /\ v <= Most'
<1>1. ASSUME NEW v \in Int, Least <= v, v <= Most PROVE InRange(v)
  BY <1>1, Wider
<1>2. InRange(0) /\ InRange(L_to_R) /\ \A q \in Passengers : InRange(reg[q])
  BY <1>1, Wider DEF BoundInv, CoreType
<1> SUFFICES InRange(L_to_R') /\ \A q \in Passengers : InRange(reg'[q])
  BY BackStep DEF BoundInv
<1>3. ASSUME UNCHANGED <<L_to_R, reg>> PROVE InRange(L_to_R') /\ \A q \in Passengers : InRange(reg'[q])
  BY <1>2, <1>3
<1>4. ASSUME NEW p \in Passengers, EnterLoad(p) \/ GateLoad(p) \/ ReenterLoad(p)
      PROVE  InRange(L_to_R') /\ \A q \in Passengers : InRange(reg'[q])
  <2>1. L_to_R' = L_to_R /\ reg' = [reg EXCEPT ![p] = L_to_R]
    BY <1>4 DEF EnterLoad, GateLoad, ReenterLoad, LockAndLoad, Load
  <2>2. \A q \in Passengers : reg'[q] = IF q = p THEN L_to_R ELSE reg[q]
    BY <2>1 DEF CoreType
  <2> HIDE DEF InRange
  <2> QED
    BY <1>2, <2>1, <2>2
<1>5. ASSUME NEW p \in Passengers, EnterStore(p) \/ GateStore(p) \/ ReenterStore(p)
      PROVE  InRange(L_to_R') /\ \A q \in Passengers : InRange(reg'[q])
  <2>1. reg' = [reg EXCEPT ![p] = 0] /\ reg[p] \in Int /\ Least <= reg[p] /\ reg[p] <= Most
    BY <1>5 DEF EnterStore, GateStore, ReenterStore, Store, CoreType, BoundInv
  <2>2. \A q \in Passengers : reg'[q] = IF q = p THEN 0 ELSE reg[q]
    BY <2>1 DEF CoreType
  <2>3. CASE GateStore(p)
    <3>1. L_to_R' = reg[p] + (-1)
      BY <2>3 DEF GateStore, Store
    <3>2. InRange(L_to_R')
      BY <2>1, <2>3, <3>1, Wider, StoreWidens
    <3> HIDE DEF InRange
    <3> QED
      BY <1>2, <2>2, <3>2
  <2>4. CASE EnterStore(p) \/ ReenterStore(p)
    <3>1. L_to_R' = reg[p] + 1
      BY <2>4 DEF EnterStore, ReenterStore, Store
    <3>2. InRange(L_to_R')
      BY <2>1, <2>4, <3>1, Wider, StoreWidens
    <3> HIDE DEF InRange
    <3> QED
      BY <1>2, <2>2, <3>2
  <2> QED
    BY <1>5, <2>3, <2>4
<1>6. ASSUME NEW p \in Passengers, KioskDown(p) \/ KioskPop(p) \/ KioskPush(p) \/ KioskUp(p) \/ BeltDown(p) \/ BeltUp(p)
      PROVE  UNCHANGED <<L_to_R, reg>>
  BY <1>6 DEF KioskDown, KioskPop, KioskPush, KioskUp, BeltDown, BeltUp, lane_vars
<1>7. ASSUME NEW p \in Passengers, LaneTest(p) \/ WalkLR(p) \/ GateOther(p) \/ Board(p) \/ OppositeTest(p) \/ SpecialKiosk(p)
      PROVE  UNCHANGED <<L_to_R, reg>>
  BY <1>7 DEF LaneTest, WalkLR, GateOther, Board, OppositeTest, SpecialKiosk, Move, lane_vars
<1>8. ASSUME NEW p \in Passengers, GoBack(p) \/ HopOn(p) \/ HopOff(p) PROVE UNCHANGED <<L_to_R, reg>>
  BY <1>8 DEF GoBack, HopOn, HopOff
<1>9. CASE BroadcastLtoR \/ BroadcastLane \/ UNCHANGED vars
  BY <1>3, <1>9 DEF BroadcastLtoR, BroadcastLane, Wake, lane_vars, vars
<1> HIDE DEF InRange
<1> QED
  BY <1>3, <1>4, <1>5, <1>6, <1>7, <1>8, <1>9 DEF Next, Step, Finished

-----------------------------------------------------------------------------
(* arrival() and the functions it calls keep the invariant, whatever the   *)
(* order in which the passengers' threads and the broadcaster run.         *)
THEOREM Invariance == Spec => []IInv
<1>1. ASSUME IInv, [Next]_vars PROVE IInv'
  <2>1. CoreType' /\ WayInv' /\ KioskInv' /\ BeltInv' /\ BoundInv' /\ LaneExact'
    BY <1>1, TypeAndWay, KioskStep, BeltStep, BoundStep, LaneStep
  <2> QED
    BY <2>1 DEF IInv
<1> QED
  BY <1>1, InitInv, PTL DEF Spec

(* The counters of the code stay in the ranges of TypeOK.                  *)
LEMMA InvType == IInv => TypeOK
<1> SUFFICES ASSUME IInv PROVE TypeOK
  OBVIOUS
<1> USE AirportAssumption DEF IInv
<1> DEFINE n == Cardinality(Passengers)
<1>1. /\ Entered \in SUBSET Passengers /\ Reentered \in SUBSET Passengers
      /\ Through \in SUBSET Passengers /\ ThroughAgain \in SUBSET Passengers
      /\ In(WayBack) \in SUBSET Passengers /\ In(KioskPlaces) \in SUBSET Passengers
      /\ \A b \in Belts : OnBelt(b) \in SUBSET Passengers
  BY DEF Entered, Reentered, Through, ThroughAgain, In, OnBelt
<1>2. n \in Nat
  BY FS_CardinalityType
<1>3. Least \in Int /\ Most \in Int /\ -(2 * n) <= Least /\ Most <= 2 * n
  <2>1. /\ Cardinality(Entered) \in Nat /\ Cardinality(Reentered) \in Nat
        /\ Cardinality(Through) \in Nat /\ Cardinality(ThroughAgain) \in Nat
        /\ Cardinality(Entered) <= n /\ Cardinality(Reentered) <= n
        /\ Cardinality(Through) <= n /\ Cardinality(ThroughAgain) <= n
    BY <1>1, Counted
  <2> QED
    BY <1>2, <2>1 DEF Least, Most
<1>4. \A v \in Int : Least <= v /\ v <= Most => v \in Count
  BY <1>2, <1>3 DEF Count
<1>5. L_to_R \in Count /\ \A p \in Passengers : reg[p] \in Count
  BY <1>4 DEF BoundInv, CoreType
<1>6. R_to_L \in Count
  <2>1. Cardinality(In(WayBack)) \in Nat /\ Cardinality(In(WayBack)) <= n
    BY <1>1, Counted
  <2> QED
    BY <1>2, <2>1 DEF BoundInv, Count
<1>7. kiosk_capacity_sem \in 0..kiosks
  <2>1. Cardinality(In(KioskPlaces)) \in Nat
    BY <1>1, Counted
  <2> QED
    BY <2>1 DEF KioskInv, CoreType
<1>8. belt_capacity_sem \in [Belts -> 0..passengers_per_belt]
  <2>1. \A b \in Belts : Cardinality(OnBelt(b)) \in Nat
    BY <1>1, Counted
  <2>2. \A b \in Belts : belt_capacity_sem[b] \in 0..passengers_per_belt
    BY <2>1 DEF BeltInv, CoreType
  <2> QED
    BY <2>2 DEF CoreType
<1>9. reg \in [Passengers -> Count]
  BY <1>5 DEF CoreType
<1> QED
  BY <1>5, <1>6, <1>7, <1>8, <1>9 DEF TypeOK, CoreType

(* checkin_at_kiosk: whoever gets past sem_wait(&kiosk_capacity_sem) finds *)
(* Q.front() defined and is alone at its kiosk, for any number of          *)
(* passengers and kiosks; no semaphore or counter leaves its range.        *)
THEOREM KiosksReady == Spec => []KioskReady
<1>1. ASSUME IInv PROVE KioskReady
  <2> USE AirportAssumption, <1>1 DEF IInv
  <2>1. ASSUME NEW p \in Passengers, pc[p] = "pop" PROVE Q # <<>>
    <3>1. In(KioskPlaces) \in SUBSET Passengers /\ In({"checkin"}) \in SUBSET Passengers
      BY DEF In
    <3>2. In({"checkin"}) \cup {p} \in SUBSET In(KioskPlaces) /\ p \notin In({"checkin"})
      BY <2>1 DEF In, KioskPlaces
    <3>3. Cardinality(In({"checkin"}) \cup {p}) = Cardinality(In({"checkin"})) + 1
      BY <3>1, <3>2, OneMore
    <3>4. Cardinality(In({"checkin"}) \cup {p}) <= Cardinality(In(KioskPlaces))
      BY <3>1, <3>2, NotLess
    <3>5. Cardinality(In({"checkin"})) \in Nat /\ Cardinality(In(KioskPlaces)) \in Nat
      BY <3>1, Counted
    <3>6. Len(Q) >= 1
      BY <3>3, <3>4, <3>5 DEF KioskInv, CoreType
    <3> QED
      BY <3>6
  <2> QED
    BY <2>1, InvType DEF KioskReady, KioskInv
<1> QED
  BY <1>1, Invariance, PTL

(* boarding_on_plane, recheckin_at_special_kiosk: until an update of       *)
(* L_to_R is lost to the second mutex it counts exactly those on their     *)
(* way, and VIP_lane_lock is never left behind by the last walker.         *)
THEOREM LaneIsExact == Spec => []LaneExact
<1>1. IInv => LaneExact
  BY DEF IInv
<1> QED
  BY <1>1, Invariance, PTL
=============================================================================
