---------------------------- MODULE Broadcaster ----------------------------
(***************************************************************************)
(* agent/util/broadcaster/broadcast.go: a generation counter and a value   *)
(* behind a mutex, and a condition variable on that mutex.  Goroutines     *)
(* that call Broadcast or Close are Callers; a Listener is polled by the   *)
(* one goroutine that created it (StreamState, StreamDisplay).             *)
(*                                                                         *)
(* Steps end where the mutex changes hands: what a goroutine does between  *)
(* taking and releasing mu is invisible to the others.  sync.Cond has no   *)
(* spurious wakeups; Wait enqueues the goroutine and releases mu in one    *)
(* step, and a woken goroutine must take mu again before it goes on.       *)
(*                                                                         *)
(* Bound: MaxGeneration caps the uint64 generation.                        *)
(***************************************************************************)
EXTENDS Naturals

CONSTANTS Callers,        (* goroutines calling Broadcast or Close        *)
          Listeners,      (* the broadcaster's listeners                  *)
          Values,         (* what may be broadcast                        *)
          NoValue,        (* the zero value of the element type           *)
          Free,           (* mu is not held                               *)
          MaxGeneration   (* bound on the number of broadcasts            *)

ASSUME DistinctGoroutines ==
    /\ Callers \cap Listeners = {}
    /\ Free \notin Callers \cup Listeners
ASSUME BoundIsNat == MaxGeneration \in Nat

VARIABLES mu,              (* holder of the mutex, or Free                *)
          generation, value, closed,
          waiting,         (* cond's queue: asleep and not yet notified   *)
          pc,              (* where each listener's goroutine is          *)
          lastGeneration,  (* Listener.lastGeneration                     *)
          result           (* the value Wait last returned                *)

vars == <<mu, generation, value, closed, waiting, pc, lastGeneration, result>>

(* "idle": outside Wait.  "check": holds mu at the first test.  "sleep":   *)
(* inside cond.Wait.  "recheck": holds mu at the second test.  "closed":   *)
(* Wait returned Closed.  "panic": Wait panicked.                          *)
Places == {"idle", "check", "sleep", "recheck", "closed", "panic"}

Init ==
    /\ mu = Free
    /\ generation = 0
    /\ value = NoValue
    /\ closed = FALSE
    /\ waiting = {}
    /\ pc = [l \in Listeners |-> "idle"]
    /\ lastGeneration = [l \in Listeners |-> 0]
    /\ result = [l \in Listeners |-> NoValue]
-----------------------------------------------------------------------------
(* Broadcast and Close.  A definition named Mutant... is a bug the code    *)
(* does not have, for testing the properties; nothing refers to it.        *)

MutantNotifyNobody == waiting' = waiting
NotifyAll == waiting' = {}          (* cond.Broadcast *)

MutantStayOpen == closed' = closed
MarkClosed == closed' = TRUE

CallerLock(c) ==
    /\ mu = Free
    /\ mu' = c
    /\ UNCHANGED <<generation, value, closed, waiting, pc, lastGeneration,
                   result>>

Broadcast(c, v) ==
    /\ mu = c
    /\ generation < MaxGeneration
    /\ generation' = generation + 1
    /\ value' = v
    /\ NotifyAll
    /\ mu' = Free
    /\ UNCHANGED <<closed, pc, lastGeneration, result>>

Close(c) ==
    /\ mu = c
    /\ MarkClosed
    /\ NotifyAll
    /\ mu' = Free
    /\ UNCHANGED <<generation, value, pc, lastGeneration, result>>
-----------------------------------------------------------------------------
(* Listener.Wait.                                                          *)

MutantCountDeliveries(l) ==
    lastGeneration' = [lastGeneration EXCEPT ![l] = @ + 1]
MutantExpectNext(l) ==
    lastGeneration' = [lastGeneration EXCEPT ![l] = generation + 1]
NoteGeneration(l) ==
    lastGeneration' = [lastGeneration EXCEPT ![l] = generation]

WaitLock(l) ==
    /\ pc[l] = "idle"
    /\ mu = Free
    /\ mu' = l
    /\ pc' = [pc EXCEPT ![l] = "check"]
    /\ UNCHANGED <<generation, value, closed, waiting, lastGeneration, result>>

WaitCheckClosed(l) ==
    /\ pc[l] = "check"
    /\ closed
    /\ pc' = [pc EXCEPT ![l] = "closed"]
    /\ mu' = Free
    /\ UNCHANGED <<generation, value, closed, waiting, lastGeneration, result>>

WaitSleep(l) ==
    /\ pc[l] = "check"
    /\ ~closed
    /\ generation <= lastGeneration[l]
    /\ waiting' = waiting \cup {l}
    /\ pc' = [pc EXCEPT ![l] = "sleep"]
    /\ mu' = Free
    /\ UNCHANGED <<generation, value, closed, lastGeneration, result>>

WaitNoSleep(l) ==
    /\ pc[l] = "check"
    /\ ~closed
    /\ generation > lastGeneration[l]
    /\ pc' = [pc EXCEPT ![l] = "recheck"]
    /\ UNCHANGED <<mu, generation, value, closed, waiting, lastGeneration,
                   result>>

WaitWake(l) ==
    /\ pc[l] = "sleep"
    /\ l \notin waiting
    /\ mu = Free
    /\ mu' = l
    /\ pc' = [pc EXCEPT ![l] = "recheck"]
    /\ UNCHANGED <<generation, value, closed, waiting, lastGeneration, result>>

WaitDeliver(l) ==
    /\ pc[l] = "recheck"
    /\ generation > lastGeneration[l]
    /\ NoteGeneration(l)
    /\ result' = [result EXCEPT ![l] = value]
    /\ pc' = [pc EXCEPT ![l] = "idle"]
    /\ mu' = Free
    /\ UNCHANGED <<generation, value, closed, waiting>>

(* Nothing newer: Closed if closed, else the panic, which leaves mu locked. *)
WaitNothingNew(l) ==
    /\ pc[l] = "recheck"
    /\ generation <= lastGeneration[l]
    /\ pc' = [pc EXCEPT ![l] = IF closed THEN "closed" ELSE "panic"]
    /\ mu' = IF closed THEN Free ELSE mu
    /\ UNCHANGED <<generation, value, closed, waiting, lastGeneration, result>>
-----------------------------------------------------------------------------
CallerHolding(c) == (\E v \in Values : Broadcast(c, v)) \/ Close(c)

ListenerHolding(l) ==
    \/ WaitCheckClosed(l)
    \/ WaitSleep(l)
    \/ WaitNoSleep(l)
    \/ WaitDeliver(l)
    \/ WaitNothingNew(l)

Next ==
    \/ \E c \in Callers : CallerLock(c) \/ CallerHolding(c)
    \/ \E l \in Listeners : WaitLock(l) \/ WaitWake(l) \/ ListenerHolding(l)

Spec == Init /\ [][Next]_vars

(* A goroutine that holds mu runs on to its release.  A woken goroutine    *)
(* gets mu although others keep taking it: sync.Mutex hands over to a      *)
(* waiter that has starved for a millisecond, hence strong fairness.       *)
Fairness ==
    /\ \A c \in Callers : WF_vars(CallerHolding(c))
    /\ \A l \in Listeners : WF_vars(ListenerHolding(l)) /\ SF_vars(WaitWake(l))

FairSpec == Spec /\ Fairness
-----------------------------------------------------------------------------
(* Types of the fields of Broadcaster and Listener.                        *)
TypeOK ==
    /\ mu \in Callers \cup Listeners \cup {Free}
    /\ generation \in 0..MaxGeneration
    /\ value \in Values \cup {NoValue}
    /\ closed \in BOOLEAN
    /\ waiting \in SUBSET Listeners
    /\ pc \in [Listeners -> Places]
    /\ lastGeneration \in [Listeners -> 0..MaxGeneration]
    /\ result \in [Listeners -> Values \cup {NoValue}]

(* The branch that panics with "broadcaster has inconsistent state" is     *)
(* dead, although Wait tests the generation with an `if` and not a loop.   *)
NoInconsistentState == \A l \in Listeners : pc[l] # "panic"

(* No listener is left asleep in cond.Wait past a broadcast or a close.    *)
NoLostWakeup ==
    \A l \in waiting : /\ pc[l] = "sleep"
                       /\ generation = lastGeneration[l]
                       /\ ~closed

(* A Wait call with something to return does return.                       *)
WaitReturns ==
    \A l \in Listeners :
        (pc[l] \in {"check", "sleep", "recheck"}
            /\ (generation > lastGeneration[l] \/ closed))
        ~> pc[l] \in {"idle", "closed"}

(* Seen from outside, the broadcaster is a register of the latest value:   *)
(* every delivery is of the newest generation, with that generation's      *)
(* value, and Closed is returned only after Close.                         *)
Register == INSTANCE LatestValue WITH
    Readers <- Listeners,
    version <- generation,
    latest <- value,
    shut <- closed,
    seen <- lastGeneration,
    got <- result,
    ended <- [l \in Listeners |-> pc[l] = "closed"]

RegisterSpec == Register!Spec
=============================================================================
