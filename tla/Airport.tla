------------------------------- MODULE Airport -------------------------------
(***************************************************************************)
(* The airport of Offline 2: one thread per passenger, running arrival(),  *)
(* and the broadcaster thread.  A step is a critical section, or a         *)
(* semaphore operation, with the local work and the sleep() before it.     *)
(* L_to_R is changed under L_to_R_mutex in three places and under          *)
(* special_kiosk_mutex in a fourth, so L_to_R++ and L_to_R-- are a load    *)
(* and a store here; every other shared variable is changed under one lock *)
(* only.  R_to_L is printed and never tested, so the sections that change  *)
(* it are part of the step before or after.                                *)
(***************************************************************************)
EXTENDS Integers, FiniteSets, Sequences

CONSTANTS
    Passengers,             \* MAX_PASSENGER of them
    kiosks, belts, passengers_per_belt      \* in.txt

ASSUME AirportAssumption ==
    /\ IsFiniteSet(Passengers)
    /\ kiosks \in Nat \ {0} /\ belts \in Nat \ {0} /\ passengers_per_belt \in Nat \ {0}

Kiosks == 1..kiosks
Belts == 1..belts
NoKiosk == 0

VARIABLES
    isVIP,
    pc,                     \* where each passenger's thread is
    back,                   \* it went back for a lost boarding pass
    kiosk_id, belt_id,
    Q, kiosk_capacity_sem, belt_capacity_sem,
    L_to_R, R_to_L, VIP_lane_lock,
    reg,                    \* the value of L_to_R a thread has loaded
    lost                    \* history: a store has undone another thread's

vars == <<isVIP, pc, back, kiosk_id, belt_id, Q, kiosk_capacity_sem, belt_capacity_sem,
          L_to_R, R_to_L, VIP_lane_lock, reg, lost>>

Locations ==
    {"arrive", "pop", "checkin", "enter", "entering", "leave_kiosk",
     "security", "belt", "lane", "lane_wait", "walk_LR", "gate", "arriving",
     "go_back", "opposite", "opposite_wait", "hop_on", "walk_RL",
     "special", "reenter", "reentering", "board", "done"}

Count == -(2 * Cardinality(Passengers))..(2 * Cardinality(Passengers))

TypeOK ==
    /\ isVIP \in [Passengers -> BOOLEAN]
    /\ pc \in [Passengers -> Locations]
    /\ back \in [Passengers -> BOOLEAN]
    /\ kiosk_id \in [Passengers -> Kiosks \cup {NoKiosk}]
    /\ belt_id \in [Passengers -> Belts]
    /\ Q \in Seq(Kiosks)
    /\ kiosk_capacity_sem \in 0..kiosks
    /\ belt_capacity_sem \in [Belts -> 0..passengers_per_belt]
    /\ L_to_R \in Count /\ R_to_L \in Count
    /\ VIP_lane_lock \in BOOLEAN
    /\ reg \in [Passengers -> Count]
    /\ lost \in BOOLEAN

\* main(): thread creation, and the time until a thread first runs, are one.
Init ==
    /\ isVIP \in [Passengers -> BOOLEAN]
    /\ pc = [p \in Passengers |-> "arrive"]
    /\ back = [p \in Passengers |-> FALSE]
    /\ kiosk_id = [p \in Passengers |-> NoKiosk]
    /\ belt_id \in [Passengers -> Belts]
    /\ Q = [i \in Kiosks |-> i]
    /\ kiosk_capacity_sem = kiosks
    /\ belt_capacity_sem = [b \in Belts |-> passengers_per_belt]
    /\ L_to_R = 0 /\ R_to_L = 0
    /\ VIP_lane_lock = FALSE
    /\ reg = [p \in Passengers |-> 0]
    /\ lost = FALSE

-----------------------------------------------------------------------------
At(p, from) == pc[p] = from
Goto(p, to) == pc' = [pc EXCEPT ![p] = to]

kiosk_vars == <<kiosk_id, Q, kiosk_capacity_sem>>
belt_vars == <<belt_id, belt_capacity_sem>>
lane_vars == <<L_to_R, R_to_L, VIP_lane_lock, reg, lost>>

\* A step that only moves p on.
Move(p, from, to) ==
    /\ At(p, from)
    /\ Goto(p, to)
    /\ UNCHANGED <<isVIP, back, kiosk_vars, belt_vars, lane_vars>>

\* The holders of L_to_R_mutex and of special_kiosk_mutex.
HoldsLtoR(p) == pc[p] \in {"entering", "arriving"}
HoldsSpecial(p) == pc[p] \in {"reenter", "reentering"}

Load(p, from, to) ==
    /\ At(p, from)
    /\ reg' = [reg EXCEPT ![p] = L_to_R]
    /\ Goto(p, to)
    /\ UNCHANGED <<isVIP, back, kiosk_vars, belt_vars, L_to_R, R_to_L, VIP_lane_lock, lost>>

LockAndLoad(p, from, to) ==
    /\ \A q \in Passengers : ~HoldsLtoR(q)
    /\ Load(p, from, to)

Store(p, d, from, to) ==
    /\ At(p, from)
    /\ L_to_R' = reg[p] + d
    /\ lost' = (lost \/ reg[p] # L_to_R)
    /\ reg' = [reg EXCEPT ![p] = 0]
    /\ Goto(p, to)
    /\ UNCHANGED <<isVIP, back, kiosk_vars, belt_vars, R_to_L, VIP_lane_lock>>

-----------------------------------------------------------------------------
(* checkin_at_kiosk                                                        *)

\* Mutant: nobody waits for a kiosk.
M_KioskDown_NoWait(p) ==
    /\ At(p, "arrive")
    /\ kiosk_capacity_sem' = kiosk_capacity_sem - 1
    /\ Goto(p, "pop")
    /\ UNCHANGED <<isVIP, back, kiosk_id, Q, belt_vars, lane_vars>>

KioskDown(p) ==
    /\ At(p, "arrive")
    /\ kiosk_capacity_sem > 0
    /\ kiosk_capacity_sem' = kiosk_capacity_sem - 1
    /\ Goto(p, "pop")
    /\ UNCHANGED <<isVIP, back, kiosk_id, Q, belt_vars, lane_vars>>

\* Q.front() of an empty queue is undefined; KioskReady says it does not happen.
KioskPop(p) ==
    /\ At(p, "pop")
    /\ Q # <<>>
    /\ kiosk_id' = [kiosk_id EXCEPT ![p] = Head(Q)]
    /\ Q' = Tail(Q)
    /\ Goto(p, "checkin")
    /\ UNCHANGED <<isVIP, back, kiosk_capacity_sem, belt_vars, lane_vars>>

\* Only a VIP changes L_to_R next; the others just take its mutex and leave.
KioskPush(p) ==
    /\ At(p, "checkin")
    /\ Q' = Append(Q, kiosk_id[p])
    /\ kiosk_id' = [kiosk_id EXCEPT ![p] = NoKiosk]
    /\ Goto(p, IF isVIP[p] THEN "enter" ELSE "leave_kiosk")
    /\ UNCHANGED <<isVIP, back, kiosk_capacity_sem, belt_vars, lane_vars>>

EnterLoad(p) == LockAndLoad(p, "enter", "entering")
EnterStore(p) == Store(p, 1, "entering", "leave_kiosk")

KioskUp(p) ==
    /\ At(p, "leave_kiosk")
    /\ kiosk_capacity_sem' = kiosk_capacity_sem + 1
    /\ Goto(p, IF isVIP[p] THEN "lane" ELSE "security")
    /\ UNCHANGED <<isVIP, back, kiosk_id, Q, belt_vars, lane_vars>>

-----------------------------------------------------------------------------
(* security_check.  Only the passenger reads its random belt_id, so it is   *)
(* drawn in Init.                                                          *)

BeltDown(p) ==
    /\ At(p, "security")
    /\ belt_capacity_sem[belt_id[p]] > 0
    /\ belt_capacity_sem' = [belt_capacity_sem EXCEPT ![belt_id[p]] = @ - 1]
    /\ Goto(p, "belt")
    /\ UNCHANGED <<isVIP, back, belt_id, kiosk_vars, lane_vars>>

BeltUp(p) ==
    /\ At(p, "belt")
    /\ belt_capacity_sem' = [belt_capacity_sem EXCEPT ![belt_id[p]] = @ + 1]
    /\ Goto(p, "gate")
    /\ UNCHANGED <<isVIP, back, belt_id, kiosk_vars, lane_vars>>

-----------------------------------------------------------------------------
(* arrival and go_back, the way L -> R                                     *)

LaneTest(p) == Move(p, "lane", IF VIP_lane_lock THEN "lane_wait" ELSE "walk_LR")
WalkLR(p) == Move(p, "walk_LR", "gate")

(* boarding_on_plane: only those who came through the lane are counted     *)

\* Mutant: everybody at the gate is taken off the count.
M_GateLoad_All(p) == LockAndLoad(p, "gate", "arriving")

GateLoad(p) ==
    /\ isVIP[p] \/ back[p]
    /\ LockAndLoad(p, "gate", "arriving")

\* coin_toss(), for those who have not been back.
AfterGate(p) == IF back[p] THEN {"board"} ELSE {"board", "go_back"}

GateStore(p) == \E next \in AfterGate(p) : Store(p, -1, "arriving", next)

GateOther(p) ==
    /\ ~isVIP[p] /\ ~back[p]
    /\ \A q \in Passengers : ~HoldsLtoR(q)
    /\ \E next \in AfterGate(p) : Move(p, "gate", next)

Board(p) == Move(p, "board", "done")

-----------------------------------------------------------------------------
(* go_back, the way R -> L, and recheckin_at_special_kiosk                 *)

GoBack(p) ==
    /\ At(p, "go_back")
    /\ R_to_L' = R_to_L + 1
    /\ back' = [back EXCEPT ![p] = TRUE]
    /\ Goto(p, "opposite")
    /\ UNCHANGED <<isVIP, kiosk_vars, belt_vars, L_to_R, VIP_lane_lock, reg, lost>>

OppositeTest(p) == Move(p, "opposite", IF L_to_R > 0 THEN "opposite_wait" ELSE "hop_on")

HopOn(p) ==
    /\ At(p, "hop_on")
    /\ VIP_lane_lock' = TRUE
    /\ Goto(p, "walk_RL")
    /\ UNCHANGED <<isVIP, back, kiosk_vars, belt_vars, L_to_R, R_to_L, reg, lost>>

\* Mutant: the lane stays locked.
M_HopOff_Keep(p) ==
    /\ At(p, "walk_RL")
    /\ R_to_L' = R_to_L - 1
    /\ Goto(p, "special")
    /\ UNCHANGED <<isVIP, back, kiosk_vars, belt_vars, L_to_R, VIP_lane_lock, reg, lost>>

HopOff(p) ==
    /\ At(p, "walk_RL")
    /\ VIP_lane_lock' = FALSE
    /\ R_to_L' = R_to_L - 1
    /\ Goto(p, "special")
    /\ UNCHANGED <<isVIP, back, kiosk_vars, belt_vars, L_to_R, reg, lost>>

SpecialKiosk(p) ==
    /\ \A q \in Passengers : ~HoldsSpecial(q)
    /\ Move(p, "special", "reenter")
ReenterLoad(p) == Load(p, "reenter", "reentering")
ReenterStore(p) == Store(p, 1, "reentering", "lane")

-----------------------------------------------------------------------------
(* broadcast_function: the two halves of its loop, where they do something *)

Wake(from, to) ==
    /\ \E p \in Passengers : pc[p] = from
    /\ pc' = [p \in Passengers |-> IF pc[p] = from THEN to ELSE pc[p]]
    /\ UNCHANGED <<isVIP, back, kiosk_vars, belt_vars, lane_vars>>

BroadcastLtoR == L_to_R = 0 /\ Wake("opposite_wait", "opposite")

\* Mutant: the test is the wrong way round.
M_BroadcastLane_Locked == VIP_lane_lock /\ Wake("lane_wait", "lane")

BroadcastLane == ~VIP_lane_lock /\ Wake("lane_wait", "lane")

-----------------------------------------------------------------------------
AllDone == \A p \in Passengers : pc[p] = "done"

\* main() has joined every thread.
Finished == AllDone /\ UNCHANGED vars

Step(p) ==
    \/ KioskDown(p) \/ KioskPop(p) \/ KioskPush(p) \/ KioskUp(p)
    \/ EnterLoad(p) \/ EnterStore(p)
    \/ BeltDown(p) \/ BeltUp(p)
    \/ LaneTest(p) \/ WalkLR(p)
    \/ GateLoad(p) \/ GateStore(p) \/ GateOther(p)
    \/ Board(p)
    \/ GoBack(p) \/ OppositeTest(p) \/ HopOn(p) \/ HopOff(p)
    \/ SpecialKiosk(p) \/ ReenterLoad(p) \/ ReenterStore(p)

Next ==
    \/ \E p \in Passengers : Step(p)
    \/ BroadcastLtoR \/ BroadcastLane
    \/ Finished

Spec == Init /\ [][Next]_vars

\* Threads run, sleeps end; the mutexes and semaphores, which glibc does not
\* serve in order, are each left for good in the end, so every waiter gets in.
Fairness ==
    /\ \A p \in Passengers : WF_vars(Step(p))
    /\ WF_vars(BroadcastLtoR) /\ WF_vars(BroadcastLane)

FairSpec == Spec /\ Fairness

-----------------------------------------------------------------------------
(* checkin_at_kiosk: a passenger let in by kiosk_capacity_sem finds a      *)
(* kiosk in the queue, and no two passengers are at the same kiosk.        *)
KioskReady ==
    /\ TypeOK
    /\ \A p \in Passengers : pc[p] = "pop" => Q # <<>>
    /\ \A p, q \in Passengers : kiosk_id[p] = kiosk_id[q] => p = q \/ kiosk_id[p] = NoKiosk

\* Passengers on their way L -> R, from the kiosk's count to the gate's.
CountedLR ==
    {p \in Passengers :
        \/ (isVIP[p] \/ back[p]) /\ pc[p] \in {"lane", "lane_wait", "walk_LR", "gate", "arriving"}
        \/ isVIP[p] /\ pc[p] = "leave_kiosk"}

(* checkin_at_kiosk, boarding_on_plane, recheckin_at_special_kiosk: as     *)
(* long as the sections under different mutexes did not overlap, L_to_R    *)
(* counts exactly the passengers who are on their way through the lane.    *)
LtoRCounts == ~lost => L_to_R = Cardinality(CountedLR)

(* go_back, recheckin_at_special_kiosk: the lane is never locked with      *)
(* nobody on it who will unlock it.                                        *)
LockHasWalker == VIP_lane_lock => \E p \in Passengers : pc[p] = "walk_RL"

(* The two variables that everybody in the lane goes by are right: the     *)
(* count of those who walk L -> R and the lock of those who walk back.     *)
LaneExact == LtoRCounts /\ LockHasWalker

(* main() joins every thread: unless an update of L_to_R was lost, every   *)
(* passenger boards, whoever lost a boarding pass and whoever waited for   *)
(* the lane.                                                               *)
AllBoard == <>(lost \/ AllDone)

(* go_back's comment: "wait until there is a signal that no (L->R) person  *)
(* is on the opposite side".  Nobody walks against anybody in the lane.    *)
LaneExclusive ==
    \A p, q \in Passengers : ~(pc[p] = "walk_LR" /\ pc[q] = "walk_RL")
=============================================================================
