------------------------- MODULE BroadcasterProofs -------------------------
(***************************************************************************)
(* Broadcaster is correct for any number of callers, listeners and values. *)
(***************************************************************************)
EXTENDS Broadcaster, TLAPS

(* The lock is held by whoever is between Lock and Unlock.                 *)
HolderInWait ==
    \A l \in Listeners : mu = l <=> pc[l] \in {"check", "recheck", "panic"}

(* A goroutine past its sleep has something to return.  What notified it   *)
(* still holds when it gets the lock: generation and closed only grow.     *)
SomethingToReturn ==
    \A l \in Listeners :
        \/ pc[l] = "recheck"
        \/ pc[l] = "sleep" /\ l \notin waiting
        => generation > lastGeneration[l] \/ closed

(* No listener has seen a generation that does not exist.                  *)
NeverAhead == \A l \in Listeners : lastGeneration[l] <= generation

IInv ==
    /\ TypeOK
    /\ HolderInWait
    /\ SomethingToReturn
    /\ NeverAhead
    /\ NoInconsistentState
    /\ NoLostWakeup

(* The inductive invariant holds of a new broadcaster.                     *)
LEMMA InitIInv == Init => IInv
<1> SUFFICES ASSUME Init PROVE IInv
  OBVIOUS
<1>1. TypeOK
  <2>1. 0 \in 0..MaxGeneration
    BY BoundIsNat
  <2> QED
    BY <2>1 DEF Init, TypeOK, Places
<1>2. HolderInWait
  BY DistinctGoroutines DEF Init, HolderInWait
<1>3. SomethingToReturn /\ NeverAhead /\ NoInconsistentState /\ NoLostWakeup
  BY DEF Init, SomethingToReturn, NeverAhead, NoInconsistentState, NoLostWakeup
<1> QED
  BY <1>1, <1>2, <1>3 DEF IInv

(* ... and every step of every goroutine preserves it.                     *)
LEMMA NextIInv == IInv /\ [Next]_vars => IInv'
<1> SUFFICES ASSUME IInv, [Next]_vars PROVE IInv'
  OBVIOUS
<1> USE DistinctGoroutines, BoundIsNat
        DEF IInv, TypeOK, HolderInWait, SomethingToReturn, NeverAhead,
            NoInconsistentState, NoLostWakeup, Places
<1>1. CASE UNCHANGED vars
  BY <1>1 DEF vars
<1>2. ASSUME NEW c \in Callers, CallerLock(c) PROVE IInv'
  BY <1>2 DEF CallerLock
<1>3. ASSUME NEW c \in Callers, NEW v \in Values, Broadcast(c, v) PROVE IInv'
  BY <1>3 DEF Broadcast, NotifyAll
<1>4. ASSUME NEW c \in Callers, Close(c) PROVE IInv'
  BY <1>4 DEF Close, NotifyAll, MarkClosed
<1>5. ASSUME NEW l \in Listeners, WaitLock(l) PROVE IInv'
  BY <1>5 DEF WaitLock
<1>6. ASSUME NEW l \in Listeners, WaitCheckClosed(l) PROVE IInv'
  BY <1>6 DEF WaitCheckClosed
<1>7. ASSUME NEW l \in Listeners, WaitSleep(l) PROVE IInv'
  BY <1>7 DEF WaitSleep
<1>8. ASSUME NEW l \in Listeners, WaitNoSleep(l) PROVE IInv'
  BY <1>8 DEF WaitNoSleep
<1>9. ASSUME NEW l \in Listeners, WaitWake(l) PROVE IInv'
  BY <1>9 DEF WaitWake
<1>10. ASSUME NEW l \in Listeners, WaitDeliver(l) PROVE IInv'
  BY <1>10 DEF WaitDeliver, NoteGeneration
<1>11. ASSUME NEW l \in Listeners, WaitNothingNew(l) PROVE IInv'
  BY <1>11 DEF WaitNothingNew
<1> QED
  BY <1>1, <1>2, <1>3, <1>4, <1>5, <1>6, <1>7, <1>8, <1>9, <1>10, <1>11
  DEF Next, CallerHolding, ListenerHolding

(* Together: the inductive invariant always holds.                         *)
THEOREM Invariance == Spec => []IInv
BY InitIInv, NextIInv, PTL DEF Spec

(* The fields of the Broadcaster and its Listeners keep their types.       *)
THEOREM TypeCorrect == Spec => []TypeOK
<1>1. IInv => TypeOK
  BY DEF IInv
<1> QED
  BY <1>1, Invariance, PTL

(* Wait's panic cannot be reached.                                         *)
THEOREM NeverPanics == Spec => []NoInconsistentState
<1>1. IInv => NoInconsistentState
  BY DEF IInv
<1> QED
  BY <1>1, Invariance, PTL

(* Nobody sleeps in cond.Wait past a broadcast or a close.                 *)
THEOREM NobodyOversleeps == Spec => []NoLostWakeup
<1>1. IInv => NoLostWakeup
  BY DEF IInv
<1> QED
  BY <1>1, Invariance, PTL
-----------------------------------------------------------------------------
(* The safety halves of WaitReturns.  A Wait call has something to return: *)
HasSomething(l) ==
    /\ pc[l] \in {"check", "sleep", "recheck"}
    /\ generation > lastGeneration[l] \/ closed

(* Whoever holds mu has a step to make that releases it or leads there: no *)
(* goroutine that holds it sleeps, and none leaves it locked by a panic.   *)
(* While nobody holds it, a call that has something to return is past its  *)
(* sleep, so that it can take it.                                          *)
NothingInTheWay ==
    /\ mu \in Listeners => pc[mu] \in {"check", "recheck"}
    /\ \A l \in Listeners : HasSomething(l) =>
         /\ l \notin waiting
         /\ mu = Free => pc[l] = "sleep"

Steps(l) == IF pc[l] \in {"check", "sleep"} THEN 2
            ELSE IF pc[l] = "recheck" THEN 1
            ELSE 0

(* Each step of such a call brings it nearer to its return, and nobody     *)
(* else's takes away what it has to return.                                *)
NearerToReturn ==
    [][\A l \in Listeners : HasSomething(l) =>
          IF ListenerHolding(l) \/ WaitWake(l) THEN Steps(l)' < Steps(l)
          ELSE HasSomething(l)' /\ UNCHANGED pc[l]]_vars

(* The lock is always on its way to the next, and whoever is woken up for  *)
(* something is ready to take it.                                          *)
THEOREM LockGoesRound == Spec => []NothingInTheWay
<1>1. IInv => NothingInTheWay
  BY DistinctGoroutines
     DEF IInv, TypeOK, HolderInWait, NoInconsistentState, NoLostWakeup,
         NothingInTheWay, HasSomething
<1> QED
  BY <1>1, Invariance, PTL

(* A Wait call that has something to return takes at most two steps of its *)
(* own to return it, whatever is broadcast or closed in the meantime.      *)
THEOREM WaitReturnsInSteps == Spec => NearerToReturn
<1>1. IInv /\ [Next]_vars =>
        [\A l \in Listeners : HasSomething(l) =>
            IF ListenerHolding(l) \/ WaitWake(l) THEN Steps(l)' < Steps(l)
            ELSE HasSomething(l)' /\ UNCHANGED pc[l]]_vars
  <2> SUFFICES ASSUME IInv, Next, NEW l \in Listeners, HasSomething(l)
               PROVE  IF ListenerHolding(l) \/ WaitWake(l)
                      THEN Steps(l)' < Steps(l)
                      ELSE HasSomething(l)' /\ UNCHANGED pc[l]
    OBVIOUS
  <2> USE DistinctGoroutines, BoundIsNat
          DEF IInv, TypeOK, HolderInWait, HasSomething
  <2>1. CASE ListenerHolding(l) \/ WaitWake(l)
    BY <2>1
       DEF Steps, ListenerHolding, WaitCheckClosed, WaitSleep, WaitNoSleep,
           WaitDeliver, WaitNothingNew, WaitWake
  <2>2. CASE ~(ListenerHolding(l) \/ WaitWake(l))
    <3>1. ASSUME NEW c \in Callers, CallerLock(c)
          PROVE  HasSomething(l)' /\ UNCHANGED pc[l]
      BY <3>1 DEF CallerLock
    <3>2. ASSUME NEW c \in Callers, CallerHolding(c)
          PROVE  HasSomething(l)' /\ UNCHANGED pc[l]
      BY <3>2 DEF CallerHolding, Broadcast, Close, MarkClosed
    <3>3. ASSUME NEW k \in Listeners, WaitLock(k)
          PROVE  HasSomething(l)' /\ UNCHANGED pc[l]
      BY <3>3 DEF WaitLock
    <3>4. ASSUME NEW k \in Listeners, k # l, ListenerHolding(k) \/ WaitWake(k)
          PROVE  HasSomething(l)' /\ UNCHANGED pc[l]
      BY <3>4
         DEF ListenerHolding, WaitCheckClosed, WaitSleep, WaitNoSleep,
             WaitDeliver, NoteGeneration, WaitNothingNew, WaitWake
    <3> QED
      BY <2>2, <3>1, <3>2, <3>3, <3>4 DEF Next
  <2> QED
    BY <2>1, <2>2
<1> QED
  BY <1>1, Invariance, PTL DEF Spec, NearerToReturn
-----------------------------------------------------------------------------
(* Every step is a step of the register of the latest value, or invisible  *)
(* to the users of the broadcaster.                                        *)
LEMMA StepImplements == IInv /\ [Next]_vars => [Register!Next]_(Register!vars)
<1> SUFFICES ASSUME IInv, [Next]_vars
             PROVE  [Register!Next]_(Register!vars)
  OBVIOUS
<1> DEFINE Silent == UNCHANGED Register!vars
<1> USE DEF IInv, TypeOK
<1>1. ASSUME UNCHANGED vars PROVE Silent
  BY <1>1 DEF vars, Register!vars
<1>2. ASSUME NEW c \in Callers, CallerLock(c) PROVE Silent
  BY <1>2 DEF CallerLock, Register!vars
<1>3. ASSUME NEW c \in Callers, NEW v \in Values, Broadcast(c, v)
      PROVE  Register!Publish(v)
  BY <1>3 DEF Broadcast, Register!Publish
<1>4. ASSUME NEW c \in Callers, Close(c) PROVE Register!Shut
  BY <1>4 DEF Close, MarkClosed, Register!Shut
<1>5. ASSUME NEW l \in Listeners, WaitLock(l) PROVE Silent
  BY <1>5 DEF WaitLock, Register!vars
<1>6. ASSUME NEW l \in Listeners, WaitCheckClosed(l) PROVE Register!End(l)
  BY <1>6 DEF WaitCheckClosed, Register!End
<1>7. ASSUME NEW l \in Listeners, WaitSleep(l) PROVE Silent
  BY <1>7 DEF WaitSleep, Register!vars
<1>8. ASSUME NEW l \in Listeners, WaitNoSleep(l) PROVE Silent
  BY <1>8 DEF WaitNoSleep, Register!vars
<1>9. ASSUME NEW l \in Listeners, WaitWake(l) PROVE Silent
  BY <1>9 DEF WaitWake, Register!vars
<1>10. ASSUME NEW l \in Listeners, WaitDeliver(l) PROVE Register!Deliver(l)
  BY <1>10 DEF WaitDeliver, NoteGeneration, Register!Deliver
<1>11. ASSUME NEW l \in Listeners, WaitNothingNew(l) PROVE Register!End(l)
  <2>1. closed
    BY <1>11 DEF WaitNothingNew, SomethingToReturn
  <2>2. pc' = [pc EXCEPT ![l] = "closed"]
    BY <1>11, <2>1 DEF WaitNothingNew
  <2> QED
    BY <1>11, <2>1, <2>2 DEF WaitNothingNew, Register!End
<1> QED
  <2>1. Register!Next \/ Silent
    <3> HIDE DEF Silent, IInv, TypeOK
    <3> QED
      BY <1>1, <1>2, <1>3, <1>4, <1>5, <1>6, <1>7, <1>8, <1>9, <1>10, <1>11
      DEF Next, CallerHolding, ListenerHolding, Register!Next
  <2> QED
    BY <2>1

(* A new broadcaster is a new register.                                    *)
LEMMA InitImplements == Init => Register!Init
BY DEF Init, Register!Init

(* The broadcaster implements the register: deliveries are of the newest   *)
(* generation, at most once each, and Closed comes only after Close.       *)
THEOREM ImplementsRegister == Spec => RegisterSpec
BY InitImplements, StepImplements, Invariance, PTL
DEF Spec, RegisterSpec, Register!Spec
=============================================================================
