---------------------------- MODULE AgentProofs ----------------------------
(***************************************************************************)
(* The safety of the agent's state machine, for any number of emulators,   *)
(* and of the way of an emulator's last error to it, for any output.       *)
(***************************************************************************)
EXTENDS Agent, EmulatorLogs, SequenceTheorems, TLAPS

(* A StartEmulator between cmd.Start and its assignments: what it spawned  *)
(* is unreported, for the exit callback waits for mu.                      *)
StartHolds ==
    mu = "start" => /\ state \in {"Stopped", "Error"}
                    /\ starts \in Emulators
                    /\ Unreported(starts)

(* A StopEmulator that holds mu has a running emulator to act on.          *)
StopHolds ==
    mu \in {"force", "exit"} => state = "Running" /\ emu # None

(* The flag precedes the kill.                                             *)
FlagBeforeKill ==
    /\ mu = "force" => emu \in Emulators /\ force[emu]
    /\ \A e \in Emulators : exit[e] = "forced" => force[e]

(* A process is reaped by its watcher, and dies once, before that.         *)
ReapedByWatch ==
    \A e \in Emulators :
        /\ proc[e] = "alive" => watch[e] = "wait"
        /\ watch[e] = "wait" => proc[e] \in {"alive", "zombie"}

(* When no stop has failed, a Server at rest has no emulator left over.    *)
AtRestAllReported ==
    ~stopFailed /\ state \in {"Stopped", "Error"} =>
        \A e \in Emulators : Unreported(e) => mu = "start" /\ e = starts

IInv ==
    /\ TypeOK
    /\ StartHolds
    /\ StopHolds
    /\ FlagBeforeKill
    /\ ReapedByWatch
    /\ AtRestAllReported
    /\ ErrorHasMessage
    /\ UnreportedIsCurrent
    /\ ForcedExitIsClean
    /\ StartingIsNotStale
    /\ OnlyErrorsGoUnannounced

-----------------------------------------------------------------------------
(* The inductive invariant holds of a new agent.                           *)
LEMMA InitIInv == Init => IInv
<1> SUFFICES ASSUME Init PROVE IInv
  OBVIOUS
<1>1. TypeOK
  <2>1. 0 \in 0..MaxStarts
    BY BoundIsNat
  <2> QED
    BY <2>1 DEF Init, TypeOK
<1>2. StartHolds /\ StopHolds /\ FlagBeforeKill /\ ReapedByWatch
  BY DEF Init, StartHolds, StopHolds, FlagBeforeKill, ReapedByWatch
<1>3. \A e \in Emulators : ~Unreported(e)
  BY DEF Init, Unreported
<1>4. AtRestAllReported /\ UnreportedIsCurrent /\ StartingIsNotStale
  BY <1>3 DEF Init, AtRestAllReported, UnreportedIsCurrent, StartingIsNotStale
<1>5. ErrorHasMessage /\ ForcedExitIsClean /\ OnlyErrorsGoUnannounced
  BY DEF Init, ErrorHasMessage, ForcedExitIsClean, OnlyErrorsGoUnannounced
<1> QED
  BY <1>1, <1>2, <1>4, <1>5 DEF IInv

(* ... and every step of the agent and of the world preserves it.          *)
LEMMA NextIInv == IInv /\ [Next]_vars => IInv'
<1> SUFFICES ASSUME IInv, [Next]_vars PROVE IInv'
  OBVIOUS
<1> USE BoundIsNat, NoneIsNoEmulator
    DEF IInv, TypeOK, StartHolds, StopHolds, FlagBeforeKill, ReapedByWatch,
        AtRestAllReported, ErrorHasMessage, UnreportedIsCurrent,
        ForcedExitIsClean, StartingIsNotStale, OnlyErrorsGoUnannounced,
        Unreported
<1>1. CASE UNCHANGED vars
  BY <1>1 DEF vars, server, threads, processes, history
<1>2. CASE StartEmulatorFail
  BY <1>2 DEF StartEmulatorFail, Locked, MayStart, threads, processes, history
<1>3. CASE StartEmulatorSpawn
  <2> DEFINE e == starts + 1
  <2>1. /\ mu = "free" /\ mu' = "start" /\ up' = up
        /\ state \in {"Stopped", "Error"} /\ UNCHANGED server
        /\ e \in Emulators /\ starts' = e
        /\ proc' = [proc EXCEPT ![e] = "alive"]
        /\ watch' = [watch EXCEPT ![e] = "wait"]
        /\ conn' = [conn EXCEPT ![e] = "dial"]
        /\ UNCHANGED <<force, exit, port, device, stopFailed>>
    BY <1>3 DEF StartEmulatorSpawn, Acquire, MayStart
  <2>2. starts' \in 0..MaxStarts
    BY <2>1 DEF Emulators
  <2> HIDE DEF e
  <2>3. TypeOK'
    BY <2>1, <2>2 DEF server
  <2>4. StartHolds' /\ StopHolds' /\ FlagBeforeKill' /\ ReapedByWatch'
    BY <2>1 DEF server
  <2>5. AtRestAllReported' /\ UnreportedIsCurrent' /\ StartingIsNotStale'
    BY <2>1 DEF server
  <2>6. ErrorHasMessage' /\ ForcedExitIsClean' /\ OnlyErrorsGoUnannounced'
    BY <2>1 DEF server
  <2> QED
    BY <2>3, <2>4, <2>5, <2>6
<1>4. CASE StartEmulatorReturn
  BY <1>4
     DEF StartEmulatorReturn, Release, ReturnAnnounced, threads, processes,
         history
<1>5. CASE StopForce
  BY <1>5 DEF StopForce, Acquire, NoteForce, server, processes, history
<1>6. CASE StopKill
  BY <1>6 DEF StopKill, Release, Dies, server, threads, processes, history
<1>7. CASE StopKillNoProcess
  BY <1>7
     DEF StopKillNoProcess, Release, StopFails, StopErrorKept, threads,
         processes
<1>8. CASE StopNotReady
  BY <1>8
     DEF StopNotReady, Locked, StopFails, StopErrorKept, threads, processes
<1>9. CASE StopRequestExit
  BY <1>9 DEF StopRequestExit, Acquire, server, threads, processes, history
<1>10. CASE StopExitAnswered
  BY <1>10 DEF StopExitAnswered, Release, server, threads, processes, history
<1>11. CASE StopExitFails
  BY <1>11
     DEF StopExitFails, Release, StopFails, StopErrorKept, threads, processes
<1>12. CASE NilEmulator
  BY <1>12 DEF NilEmulator, Locked, server, threads, processes, history
<1>13. CASE Heartbeat
  BY <1>13 DEF Heartbeat, Locked, ShowState, threads, processes, history
<1>14. ASSUME NEW e \in Emulators, WatchReap(e) PROVE IInv'
  BY <1>14 DEF WatchReap, server, history
<1>15. ASSUME NEW e \in Emulators, WatchLastError(e) PROVE IInv'
  BY <1>15 DEF WatchLastError, CleanExit, server, processes, history
<1>16. ASSUME NEW e \in Emulators, OnEmulatorExit(e) PROVE IInv'
  BY <1>16 DEF OnEmulatorExit, ExitLocked, Locked, processes, history
<1>17. ASSUME NEW e \in Emulators, ConnDial(e) PROVE IInv'
  BY <1>17 DEF ConnDial, Connecting, server, processes, history
<1>18. ASSUME NEW e \in Emulators, ConnStatus(e) PROVE IInv'
  BY <1>18 DEF ConnStatus, Connecting, server, processes, history
<1>19. ASSUME NEW e \in Emulators, ConnAdb(e) PROVE IInv'
  BY <1>19 DEF ConnAdb, Connecting, server, processes, history
<1>20. ASSUME NEW e \in Emulators, ConnRoot(e) PROVE IInv'
  BY <1>20 DEF ConnRoot, Connecting, server, history
<1>21. ASSUME NEW e \in Emulators, ConnFatal(e) PROVE IInv'
  BY <1>21 DEF ConnFatal, server, threads, processes, history
<1>22. ASSUME NEW e \in Emulators, OnEmulatorStarted(e) PROVE IInv'
  BY <1>22 DEF OnEmulatorStarted, Locked, processes, history
<1>23. ASSUME NEW e \in Emulators,
             NEW how \in {"clean", "fail", "sigkill"},
             ProcExit(e, how)
      PROVE  IInv'
  BY <1>23 DEF ProcExit, Dies, World, server, threads, history
<1>24. ASSUME NEW e \in Emulators, GrpcServe(e) PROVE IInv'
  BY <1>24 DEF GrpcServe, World, server, threads, history
<1>25. ASSUME NEW e \in Emulators, AdbAttach(e) PROVE IInv'
  BY <1>25 DEF AdbAttach, World, server, threads, history
<1>26. CASE AdbDetach
  BY <1>26 DEF AdbDetach, World, server, threads, history
<1> HIDE DEF IInv
<1> QED
  BY <1>1, <1>2, <1>3, <1>4, <1>5, <1>6, <1>7, <1>8, <1>9, <1>10, <1>11,
     <1>12, <1>13, <1>14, <1>15, <1>16, <1>17, <1>18, <1>19, <1>20, <1>21,
     <1>22, <1>23, <1>24, <1>25, <1>26
  DEF Next, Start, Stop, Watch, Connect, Process, Down

(* Together: the inductive invariant always holds.                         *)
THEOREM Invariance == Spec => []IInv
BY InitIInv, NextIInv, PTL DEF Spec

(* The variables keep their types.                                         *)
THEOREM TypeCorrect == Spec => []TypeOK
<1>1. IInv => TypeOK
  BY DEF IInv
<1> QED
  BY <1>1, Invariance, PTL

(* broadcastState never finds a nil stateError in state Error.             *)
THEOREM ErrorsHaveMessages == Spec => []ErrorHasMessage
<1>1. IInv => ErrorHasMessage
  BY DEF IInv
<1> QED
  BY <1>1, Invariance, PTL

(* Until a stop fails, an emulator with an exit still to report is the     *)
(* Server's current one: no two run side by side.                          *)
THEOREM OnlyCurrentUnreported == Spec => []UnreportedIsCurrent
<1>1. IInv => UnreportedIsCurrent
  BY DEF IInv
<1> QED
  BY <1>1, Invariance, PTL

(* A forced stop is never reported as an error, and a stray SIGKILL is.    *)
THEOREM ForcedExitsAreClean == Spec => []ForcedExitIsClean
<1>1. IInv => ForcedExitIsClean
  BY DEF IInv
<1> QED
  BY <1>1, Invariance, PTL

(* Starting never overwrites the exit of the emulator it announces.        *)
THEOREM StartingNeverStale == Spec => []StartingIsNotStale
<1>1. IInv => StartingIsNotStale
  BY DEF IInv
<1> QED
  BY <1>1, Invariance, PTL

(* How far StreamState departs from agent.proto:10-12, which promises a    *)
(* new subscriber the current state: only a change to Error is ever left   *)
(* to the heartbeat to announce.                                           *)
THEOREM StatesAreAnnounced == Spec => []OnlyErrorsGoUnannounced
<1>1. IInv => OnlyErrorsGoUnannounced
  BY DEF IInv
<1> QED
  BY <1>1, Invariance, PTL

(* StartEmulator, agent.proto:14: "An error will be returned if the        *)
(* emulator is already running."  The run agent_two_emulators refutes it.  *)
(* It is true up to the first Emulator.Stop that returns an error: only    *)
(* that lets go of an emulator that may still be alive.                    *)
THEOREM OneEmulatorUntilAStopFails ==
    Spec => [](~stopFailed => AtMostOneEmulator)
<1>1. IInv /\ ~stopFailed => AtMostOneEmulator
  BY DEF IInv, ReapedByWatch, UnreportedIsCurrent, Unreported,
         AtMostOneEmulator
<1> QED
  BY <1>1, Invariance, PTL

-----------------------------------------------------------------------------
(* The exit of an emulator is not held up inside the agent.  The guards    *)
(* are those of the steps that Fairness names.                             *)

(* The emulators there are, and the Server's, which is one of them.        *)
Born ==
    /\ \A e \in Emulators : /\ proc[e] # "unborn" <=> e <= starts
                            /\ watch[e] # "unborn" <=> e <= starts
    /\ emu # None => emu <= starts

(* watchEmulatorExit has a step to make.                                   *)
WatcherCanGoOn(e) ==
    \/ watch[e] = "wait" /\ proc[e] = "zombie"
    \/ watch[e] = "drain"
    \/ watch[e] \in {"clean", "failed"} /\ mu = "free"

(* The handler that holds mu has: the assignments after cmd.Start, the     *)
(* kill, or the end of the SetVmState call.                                *)
HolderCanGoOn ==
    \/ mu \in {"start", "exit"}
    \/ mu = "force" /\ proc[emu] \in {"alive", "zombie", "reaped"}

(* While the agent lives: of an emulator that has died, the exit is        *)
(* reported, or its watcher can go on, or whoever keeps it from mu can.    *)
ExitsAreNotHeldUp ==
    up => \A e \in Emulators :
        proc[e] \in {"zombie", "reaped"} /\ watch[e] # "done" =>
            WatcherCanGoOn(e) \/ HolderCanGoOn

(* The emulators are numbered as they are spawned.                         *)
LEMMA NumberedAsBorn == Spec => []Born
<1> USE BoundIsNat, NoneIsNoEmulator
<1>1. Init => Born
  BY DEF Init, Born, Emulators
<1>2. IInv /\ Born /\ [Next]_vars => Born'
  <2> SUFFICES ASSUME IInv, Born, [Next]_vars PROVE Born'
    OBVIOUS
  <2> USE DEF IInv, TypeOK, StartHolds, Born, Emulators
  <2>1. CASE StartEmulatorSpawn
    BY <2>1 DEF StartEmulatorSpawn, server
  <2>2. CASE StartEmulatorReturn
    BY <2>2 DEF StartEmulatorReturn, threads, processes, history
  <2>3. CASE UNCHANGED <<proc, watch, starts>> /\ emu' \in {emu, None}
    BY <2>3
  <2>4. CASE StartEmulatorFail
    BY <2>4, <2>3 DEF StartEmulatorFail, threads, processes, history
  <2>5. CASE StopForce
    BY <2>5, <2>3 DEF StopForce, server, processes, history
  <2>6. CASE StopKill
    BY <2>6 DEF StopKill, Dies, server, threads, processes, history
  <2>7. CASE StopKillNoProcess \/ StopNotReady \/ StopExitFails
    BY <2>7, <2>3
       DEF StopKillNoProcess, StopNotReady, StopExitFails, StopFails,
           threads, processes
  <2>8. CASE StopRequestExit \/ StopExitAnswered
    BY <2>8, <2>3
       DEF StopRequestExit, StopExitAnswered, server, threads, processes,
           history
  <2>9. CASE NilEmulator \/ Heartbeat \/ Down
    BY <2>9, <2>3
       DEF NilEmulator, Heartbeat, Down, vars, server, threads, processes,
           history
  <2>10. ASSUME NEW e \in Emulators, WatchReap(e) PROVE Born'
    BY <2>10 DEF WatchReap, server, history
  <2>11. ASSUME NEW e \in Emulators, WatchLastError(e) \/ OnEmulatorExit(e)
         PROVE  Born'
    BY <2>11 DEF WatchLastError, OnEmulatorExit, server, processes, history
  <2>12. ASSUME NEW e \in Emulators, Connect(e) PROVE Born'
    <3>1. UNCHANGED <<proc, watch, starts, emu>>
      BY <2>12
         DEF Connect, ConnDial, ConnStatus, ConnAdb, ConnRoot, ConnFatal,
             OnEmulatorStarted, Connecting, server, threads, processes,
             history
    <3> QED
      BY <3>1, <2>3
  <2>13. ASSUME NEW e \in Emulators, Process(e) PROVE Born'
    BY <2>13
       DEF Process, ProcExit, Dies, GrpcServe, AdbAttach, World, server,
           threads, history
  <2>14. CASE AdbDetach
    BY <2>14, <2>3 DEF AdbDetach, World, server, threads, history
  <2>15. CASE UNCHANGED vars
    BY <2>15, <2>3 DEF vars, server, threads, processes, history
  <2> QED
    BY <2>1, <2>2, <2>4, <2>5, <2>6, <2>7, <2>8, <2>9, <2>10, <2>11, <2>12,
       <2>13, <2>14, <2>15
       DEF Next, Start, Stop, Watch
<1> QED
  BY <1>1, <1>2, Invariance, PTL DEF Spec

(* The safety half of ExitReported: from the death of an emulator to the   *)
(* callback that tells the Server nobody waits without somebody to go on,  *)
(* whichever handlers hold the lock in between.                            *)
THEOREM ExitsReachTheLock == Spec => []ExitsAreNotHeldUp
<1>1. IInv /\ Born => ExitsAreNotHeldUp
  <2> SUFFICES ASSUME IInv, Born, NEW e \in Emulators,
                      proc[e] \in {"zombie", "reaped"}, watch[e] # "done"
               PROVE  WatcherCanGoOn(e) \/ HolderCanGoOn
    BY DEF ExitsAreNotHeldUp
  <2> USE DEF IInv, TypeOK
  <2>1. watch[e] \in {"wait", "drain", "clean", "failed"}
    BY DEF Born
  <2>2. watch[e] = "wait" => proc[e] = "zombie"
    BY DEF ReapedByWatch
  <2>3. mu = "force" => proc[emu] \in {"alive", "zombie", "reaped"}
    BY DEF FlagBeforeKill, Born, StopHolds
  <2> QED
    BY <2>1, <2>2, <2>3 DEF WatcherCanGoOn, HolderCanGoOn
<1> QED
  BY <1>1, Invariance, NumberedAsBorn, PTL

-----------------------------------------------------------------------------
(* What WatchLastError takes from a watcher: the last error in the output  *)
(* of one emulator process.                                                *)

USE DEF process, pipes, scans, parse, exits

(* Every line knows its place.                                             *)
Numbered(q) == \A i \in 1..Len(q) : q[i].n = i

(* How many lines of w were taken when p is in the OS pipe and q with the  *)
(* scanner, and that w goes on with q and then p.                          *)
Behind(w, p, q) == Len(w) - Len(p) - Len(q)

InStep(w, p, q) ==
    LET r == Behind(w, p, q) IN
    /\ r >= 0
    /\ \A i \in 1..r : w[i].kind # "oversize"
    /\ \A i \in 1..Len(q) : q[i] = w[r + i]
    /\ \A i \in 1..Len(p) : p[i] = w[r + Len(q) + i]

(* c is the place of the first oversize line of q, or one past its end.    *)
IsCut(q, c) ==
    /\ c \in 1..Len(q) + 1
    /\ c \in 1..Len(q) => q[c].kind = "oversize"
    /\ \A i \in 1..c - 1 : q[i].kind # "oversize"

(* A scanner that has stopped was stopped by an oversize line, or has read *)
(* all of a stream that nobody can write to any more.                      *)
ScanStopped(s) ==
    /\ scanned[s] = <<>>
    /\ IsCut(written[s], Cut(written[s]))
    /\ Cut(written[s]) <= Len(written[s]) \/ s \notin open

Kept(s) ==
    /\ Numbered(written[s])
    /\ IF s \in scanning
       THEN copier[s] # "failed" /\ InStep(written[s], osPipe[s], scanned[s])
       ELSE ScanStopped(s)
    /\ copier[s] = "eof" => s \notin open /\ osPipe[s] = <<>>

Flow == \A s \in Streams : Kept(s)

(* Wait has returned only after both copiers have ended, and processLogs   *)
(* is done with a stream only when its scanner has stopped.                *)
EndOrder ==
    /\ writersClosed => \A s \in Streams : copier[s] # "running"
    /\ writersClosed <=> reporter # "wait"
    /\ logs # "select" => scanning # Streams
    /\ logs \in {"drainErr", "offer", "done"} => "out" \notin scanning
    /\ logs \in {"offer", "done"} => "err" \notin scanning
    /\ reporter = "reported" <=> logs = "done"

(* What processLogs has made of the first g lines of q: there was no error *)
(* yet, or the last one began at line e, and number holds its lines.  It   *)
(* goes on as long as in is set.                                           *)
IsLastError(q, g, e, number, in) ==
    LET next == e + Len(number) IN
    /\ e \in 1..g /\ q[e].kind = "ERROR"
    /\ \A i \in e + 1..g : q[i].kind # "ERROR"
    /\ Len(number) >= 1 /\ next <= g + 1
    /\ \A i \in 1..Len(number) : number[i] = e + i - 1
    /\ \A i \in e + 1..next - 1 : q[i].kind = "plain"
    /\ IF in THEN next = g + 1 ELSE next <= g /\ q[next].kind # "plain"

Parsed(q, g, number, in) ==
    \/ (\A i \in 1..g : q[i].kind # "ERROR") /\ number = <<>> /\ ~in
    \/ \E e \in 1..g : IsLastError(q, g, e, number, in)

(* The lines of stderr that processLogs has seen, and its locals.          *)
Seen ==
    IF "err" \in scanning
    THEN Behind(written["err"], osPipe["err"], scanned["err"])
    ELSE Cut(written["err"]) - 1

InParse ==
    /\ Parsed(written["err"], Seen, lastError, inError)
    /\ reporter = "reported" => result = lastError

LogsIInv == LogsTypeOK /\ Flow /\ EndOrder /\ InParse

-----------------------------------------------------------------------------
(* What is left of a sequence when its first element is taken.             *)
LEMMA HeadTail ==
    ASSUME NEW S, NEW q \in Seq(S), q # <<>>
    PROVE  /\ Head(q) = q[1] /\ Head(q) \in S /\ Tail(q) \in Seq(S)
           /\ Len(q) \in Nat /\ Len(q) >= 1 /\ Len(Tail(q)) = Len(q) - 1
           /\ \A i \in 1..Len(Tail(q)) : Tail(q)[i] = q[i + 1]
<1>1. Len(q) \in Nat /\ Len(q) # 0
  BY LenProperties, EmptySeq
<1> QED
  BY <1>1, HeadTailProperties

(* What there is of a sequence when an element has been put at its end.    *)
LEMMA Appended ==
    ASSUME NEW S, NEW q \in Seq(S), NEW e \in S
    PROVE  /\ Append(q, e) \in Seq(S)
           /\ Len(q) \in Nat /\ Len(Append(q, e)) = Len(q) + 1
           /\ \A i \in 1..Len(q) : Append(q, e)[i] = q[i]
           /\ Append(q, e)[Len(q) + 1] = e
BY AppendProperties, LenProperties

(* The copier takes any part of the OS pipe, from its start.               *)
LEMMA Parted ==
    ASSUME NEW S, NEW q \in Seq(S), NEW n \in 1..Len(q)
    PROVE  /\ SubSeq(q, 1, n) \in Seq(S) /\ SubSeq(q, n + 1, Len(q)) \in Seq(S)
           /\ Len(q) \in Nat /\ n \in Nat /\ Len(SubSeq(q, 1, n)) = n
           /\ Len(SubSeq(q, n + 1, Len(q))) = Len(q) - n
           /\ \A i \in 1..n : SubSeq(q, 1, n)[i] = q[i]
           /\ \A i \in 1..Len(q) - n :
                  SubSeq(q, n + 1, Len(q))[i] = q[n + i]
<1>1. Len(q) \in Nat /\ \A i \in 1..Len(q) : q[i] \in S
  BY LenProperties, ElementOfSeq
<1>2. n \in Nat /\ 1 <= n /\ n <= Len(q)
  BY <1>1
<1>3. /\ SubSeq(q, 1, n) \in Seq(S) /\ Len(SubSeq(q, 1, n)) = n
      /\ \A i \in 1..n : SubSeq(q, 1, n)[i] = q[i]
  BY <1>1, <1>2, SubSeqProperties
<1>4. CASE n = Len(q)
  BY <1>1, <1>2, <1>3, <1>4, SubSeqProperties, EmptySeq
<1>5. CASE n < Len(q)
  BY <1>1, <1>2, <1>3, <1>5, SubSeqProperties
<1> QED
  BY <1>1, <1>2, <1>4, <1>5

(* A stream has one cut.                                                   *)
LEMMA CutUnique ==
    ASSUME NEW q, Len(q) \in Nat, NEW c, IsCut(q, c)
    PROVE  Cut(q) = c
<1>1. \A d \in 1..Len(q) + 1 : IsCut(q, d) => d = c
  <2> SUFFICES ASSUME NEW d \in 1..Len(q) + 1, IsCut(q, d) PROVE d = c
    OBVIOUS
  <2>1. c \in 1..Len(q) + 1
    BY DEF IsCut
  <2>2. ~(c < d)
    <3> SUFFICES ASSUME c < d PROVE FALSE
      OBVIOUS
    <3>1. c \in 1..Len(q) /\ c \in 1..d - 1
      BY <2>1
    <3> QED
      BY <3>1 DEF IsCut
  <2>3. ~(d < c)
    <3> SUFFICES ASSUME d < c PROVE FALSE
      OBVIOUS
    <3>1. d \in 1..Len(q) /\ d \in 1..c - 1
      BY <2>1
    <3> QED
      BY <3>1 DEF IsCut
  <2> QED
    BY <2>1, <2>2, <2>3
<1>2. c \in 1..Len(q) + 1
  BY DEF IsCut
<1> QED
  BY <1>1, <1>2 DEF Cut, IsCut

(* A line that is one of the first stays where it is.                      *)
LEMMA CutKept ==
    ASSUME NEW q, NEW p, Len(q) \in Nat, Len(p) \in Nat, Len(q) <= Len(p),
           \A i \in 1..Len(q) : p[i] = q[i],
           IsCut(q, Cut(q)), Cut(q) <= Len(q)
    PROVE  IsCut(p, Cut(q)) /\ Cut(p) = Cut(q)
<1>1. Cut(q) \in 1..Len(q) /\ Cut(q) \in 1..Len(p) + 1
  BY DEF IsCut
<1>2. q[Cut(q)].kind = "oversize" /\ p[Cut(q)] = q[Cut(q)]
  BY <1>1 DEF IsCut
<1>3. \A i \in 1..Cut(q) - 1 : i \in 1..Len(q) /\ p[i].kind # "oversize"
  BY <1>1 DEF IsCut
<1>4. IsCut(p, Cut(q))
  BY <1>1, <1>2, <1>3 DEF IsCut
<1> QED
  BY <1>4, CutUnique

(* What is made of the first lines does not depend on those after them.    *)
LEMMA ParsedKept ==
    ASSUME NEW q, NEW p, NEW g \in Nat, NEW number, NEW in,
           \A i \in 1..g : p[i] = q[i], Len(number) \in Nat,
           Parsed(q, g, number, in)
    PROVE  Parsed(p, g, number, in)
<1>1. CASE (\A i \in 1..g : q[i].kind # "ERROR") /\ number = <<>> /\ ~in
  BY <1>1 DEF Parsed
<1>2. ASSUME NEW e \in 1..g, IsLastError(q, g, e, number, in)
      PROVE  IsLastError(p, g, e, number, in)
  <2> DEFINE next == e + Len(number)
  <2>1. /\ q[e].kind = "ERROR" /\ \A i \in e + 1..g : q[i].kind # "ERROR"
        /\ Len(number) >= 1 /\ next <= g + 1
        /\ \A i \in 1..Len(number) : number[i] = e + i - 1
        /\ \A i \in e + 1..next - 1 : q[i].kind = "plain"
        /\ IF in THEN next = g + 1 ELSE next <= g /\ q[next].kind # "plain"
    BY <1>2 DEF IsLastError
  <2>2. e \in Nat /\ next \in Nat /\ next >= 1
    BY <2>1
  <2> HIDE DEF next
  <2>3. p[e] = q[e] /\ \A i \in e + 1..g : p[i] = q[i]
    BY <2>2
  <2>4. \A i \in e + 1..next - 1 : p[i] = q[i]
    BY <2>1, <2>2
  <2>5. next <= g => p[next] = q[next]
    BY <2>2
  <2>6. IF in THEN next = g + 1 ELSE next <= g /\ p[next].kind # "plain"
    BY <2>1, <2>5
  <2> USE DEF next
  <2> QED
    BY <2>1, <2>3, <2>4, <2>6 DEF IsLastError
<1> QED
  BY <1>1, <1>2 DEF Parsed

(* One more line, as Parse takes it.                                       *)
LEMMA ParsedOneMore ==
    ASSUME NEW q, NEW g \in Nat, NEW number \in Seq(Nat), NEW in \in BOOLEAN,
           Parsed(q, g, number, in), q[g + 1].n = g + 1
    PROVE  Parsed(q, g + 1,
                  CASE q[g + 1].kind = "ERROR" -> <<q[g + 1].n>>
                    [] q[g + 1].kind = "plain" /\ in
                           -> Append(number, q[g + 1].n)
                    [] OTHER -> number,
                  \/ q[g + 1].kind = "ERROR"
                  \/ q[g + 1].kind = "plain" /\ in)
<1>1. Len(number) \in Nat
  BY LenProperties
<1>2. CASE q[g + 1].kind = "ERROR"
  <2> DEFINE new == <<q[g + 1].n>>
  <2>1. Len(new) = 1 /\ new[1] = g + 1
    OBVIOUS
  <2>2. g + 1 \in 1..g + 1
    OBVIOUS
  <2> HIDE DEF new
  <2>3. IsLastError(q, g + 1, g + 1, new, TRUE)
    BY <1>2, <2>1, <2>2 DEF IsLastError
  <2>4. Parsed(q, g + 1, new, TRUE)
    BY <2>2, <2>3 DEF Parsed
  <2> QED
    BY <1>2, <2>4 DEF new
<1>3. CASE q[g + 1].kind # "ERROR" /\ ~(q[g + 1].kind = "plain" /\ in)
  <2>1. \A i \in 1..g + 1 : i \in 1..g \/ i = g + 1
    OBVIOUS
  <2>2. ASSUME \A i \in 1..g : q[i].kind # "ERROR", number = <<>>
        PROVE  Parsed(q, g + 1, number, FALSE)
    <3>1. \A i \in 1..g + 1 : q[i].kind # "ERROR"
      BY <1>3, <2>1, <2>2
    <3> QED
      BY <2>2, <3>1 DEF Parsed
  <2>3. ASSUME NEW e \in 1..g, IsLastError(q, g, e, number, in)
        PROVE  Parsed(q, g + 1, number, FALSE)
    <3> DEFINE next == e + Len(number)
    <3>1. /\ q[e].kind = "ERROR" /\ \A i \in e + 1..g : q[i].kind # "ERROR"
          /\ Len(number) >= 1 /\ next <= g + 1
          /\ \A i \in 1..Len(number) : number[i] = e + i - 1
          /\ \A i \in e + 1..next - 1 : q[i].kind = "plain"
          /\ IF in THEN next = g + 1 ELSE next <= g /\ q[next].kind # "plain"
      BY <2>3 DEF IsLastError
    <3>2. e \in 1..g + 1 /\ \A i \in e + 1..g + 1 : q[i].kind # "ERROR"
      <4>1. /\ e \in 1..g + 1
            /\ \A i \in e + 1..g + 1 : i \in e + 1..g \/ i = g + 1
        OBVIOUS
      <4>2. \A i \in e + 1..g : q[i].kind # "ERROR"
        BY <3>1
      <4> QED
        BY <1>3, <4>1, <4>2
    <3>3. next \in Nat /\ next <= g + 1 /\ q[next].kind # "plain"
      <4>1. next \in Nat
        BY <1>1
      <4>2. CASE in
        BY <1>3, <3>1, <4>1, <4>2
      <4>3. CASE ~in
        BY <3>1, <4>1, <4>3
      <4> QED
        BY <4>2, <4>3
    <3>4. IsLastError(q, g + 1, e, number, FALSE)
      BY <3>1, <3>2, <3>3 DEF IsLastError
    <3> QED
      BY <3>2, <3>4 DEF Parsed
  <2>4. Parsed(q, g + 1, number, FALSE)
    BY <2>2, <2>3 DEF Parsed
  <2> QED
    BY <1>3, <2>4
<1>4. CASE q[g + 1].kind = "plain" /\ in
  <2>1. PICK e \in 1..g : IsLastError(q, g, e, number, in)
    BY <1>4 DEF Parsed
  <2> DEFINE new == Append(number, q[g + 1].n)
  <2>2. /\ Len(new) = Len(number) + 1 /\ new[Len(number) + 1] = g + 1
        /\ \A i \in 1..Len(number) : new[i] = number[i]
    BY Appended
  <2> HIDE DEF new
  <2>3. /\ q[e].kind = "ERROR" /\ \A i \in e + 1..g : q[i].kind # "ERROR"
        /\ Len(number) >= 1 /\ e + Len(number) = g + 1
        /\ \A i \in 1..Len(number) : number[i] = e + i - 1
        /\ \A i \in e + 1..e + Len(number) - 1 : q[i].kind = "plain"
    BY <1>4, <2>1 DEF IsLastError
  <2>4. /\ e \in Nat /\ e \in 1..g + 1
        /\ \A i \in e + 1..g + 1 : i \in e + 1..g \/ i = g + 1
        /\ \A i \in 1..Len(new) : i \in 1..Len(number) \/ i = Len(number) + 1
        /\ e + Len(number) - 1 = g /\ e + Len(new) - 1 = g + 1
    BY <1>1, <2>2, <2>3
  <2>5. /\ \A i \in e + 1..g + 1 : q[i].kind # "ERROR"
        /\ \A i \in e + 1..e + Len(new) - 1 : q[i].kind = "plain"
    BY <1>4, <2>3, <2>4
  <2>6. IsLastError(q, g + 1, e, new, TRUE)
    <3>1. \A i \in 1..Len(new) : new[i] = e + i - 1
      BY <1>1, <2>2, <2>3, <2>4
    <3>2. Len(new) >= 1 /\ e + Len(new) = g + 2
      <4>1. /\ Len(number) \in Nat /\ e \in Nat /\ Len(new) = Len(number) + 1
            /\ e + Len(number) = g + 1
        BY <1>1, <2>2, <2>3, <2>4
      <4> QED
        BY <4>1
    <3> QED
      BY <2>3, <2>4, <2>5, <3>1, <3>2 DEF IsLastError
  <2>7. Parsed(q, g + 1, new, TRUE)
    BY <2>4, <2>6 DEF Parsed
  <2> QED
    BY <1>4, <2>7 DEF new
<1> QED
  BY <1>2, <1>3, <1>4

(* Up to the cut, it is the last error of the stream.                      *)
LEMMA ParsedToTheEnd ==
    ASSUME NEW q, Len(q) \in Nat, IsCut(q, Cut(q)),
           NEW number \in Seq(Nat), NEW in \in BOOLEAN,
           Parsed(q, Cut(q) - 1, number, in)
    PROVE  number = LastErrorOf(q)
<1> DEFINE errors == {i \in 1..Cut(q) - 1 : q[i].kind = "ERROR"}
           last == CHOOSE i \in errors : \A j \in errors : j <= i
           IsLength(k) ==
               /\ \A i \in last + 1..last + k - 1 : q[i].kind = "plain"
               /\ last + k = Cut(q) \/ q[last + k].kind # "plain"
           length == CHOOSE k \in 1..Cut(q) - last : IsLength(k)
<1>1. Cut(q) \in Nat /\ Cut(q) >= 1 /\ Len(number) \in Nat
  BY LenProperties DEF IsCut
<1>2. LastErrorOf(q) = IF errors = {} THEN <<>>
                       ELSE [i \in 1..length |-> last + i - 1]
  BY DEF LastErrorOf
<1>3. CASE /\ \A i \in 1..Cut(q) - 1 : q[i].kind # "ERROR"
           /\ number = <<>>
  BY <1>2, <1>3
<1>4. ASSUME NEW e \in 1..Cut(q) - 1,
             IsLastError(q, Cut(q) - 1, e, number, in)
      PROVE  number = LastErrorOf(q)
  <2>1. e \in errors /\ \A j \in errors : j <= e
    BY <1>1, <1>4 DEF IsLastError
  <2>2. last = e
    BY <1>1, <2>1
  <2> HIDE DEF last
  <2>3. Len(number) \in 1..Cut(q) - last
    BY <1>1, <1>4, <2>2 DEF IsLastError
  <2>4. IsLength(Len(number))
    BY <1>1, <1>4, <2>2 DEF IsLastError
  <2>5. \A k \in 1..Cut(q) - last : IsLength(k) => k = Len(number)
    <3> SUFFICES ASSUME NEW k \in 1..Cut(q) - last, IsLength(k)
                 PROVE  k = Len(number)
      OBVIOUS
    <3>1. ~(k < Len(number))
      <4> SUFFICES ASSUME k < Len(number) PROVE FALSE
        OBVIOUS
      <4>1. /\ last + k \in last + 1..last + Len(number) - 1
            /\ last + k # Cut(q)
        BY <1>1, <2>2, <2>3
      <4> QED
        BY <2>4, <4>1
    <3>2. ~(Len(number) < k)
      <4> SUFFICES ASSUME Len(number) < k PROVE FALSE
        OBVIOUS
      <4>1. /\ last + Len(number) \in last + 1..last + k - 1
            /\ last + Len(number) # Cut(q)
        BY <1>1, <2>2, <2>3
      <4> QED
        BY <2>4, <4>1
    <3> QED
      BY <1>1, <2>2, <3>1, <3>2
  <2> HIDE DEF IsLength
  <2>6. length = Len(number)
    BY <2>3, <2>4, <2>5
  <2> HIDE DEF length
  <2>7. LastErrorOf(q) = [i \in 1..Len(number) |-> e + i - 1]
    BY <1>2, <2>1, <2>2, <2>6
  <2>8. number = [i \in 1..Len(number) |-> number[i]]
    BY LenProperties
  <2>9. \A i \in 1..Len(number) : number[i] = e + i - 1
    BY <1>4 DEF IsLastError
  <2> QED
    BY <2>7, <2>8, <2>9
<1> QED
  BY <1>3, <1>4 DEF Parsed
-----------------------------------------------------------------------------
(* What the process writes goes to the end of the OS pipe.                 *)
LEMMA WriteInStep ==
    ASSUME NEW w \in Seq(Lines), NEW p \in Seq(Lines),
           NEW q \in Seq(Lines),
           NEW line \in Lines, InStep(w, p, q)
    PROVE  /\ InStep(Append(w, line), Append(p, line), q)
           /\ Behind(Append(w, line), Append(p, line), q) = Behind(w, p, q)
<1> DEFINE r == Behind(w, p, q)
           w2 == Append(w, line)
           p2 == Append(p, line)
<1>1. Len(w) \in Nat /\ Len(p) \in Nat /\ Len(q) \in Nat
  BY LenProperties
<1>2. /\ Len(w2) = Len(w) + 1 /\ \A i \in 1..Len(w) : w2[i] = w[i]
      /\ w2[Len(w) + 1] = line
  BY Appended
<1>3. /\ Len(p2) = Len(p) + 1 /\ \A i \in 1..Len(p) : p2[i] = p[i]
      /\ p2[Len(p) + 1] = line
  BY Appended
<1> HIDE DEF w2, p2
<1>4. Behind(w2, p2, q) = r
  BY <1>1, <1>2, <1>3 DEF Behind
<1>5. /\ r >= 0 /\ \A i \in 1..r : w[i].kind # "oversize"
      /\ \A i \in 1..Len(q) : q[i] = w[r + i]
      /\ \A i \in 1..Len(p) : p[i] = w[r + Len(q) + i]
  BY DEF InStep
<1>6. r \in Nat /\ r + Len(q) + Len(p) = Len(w)
  BY <1>1, <1>5 DEF Behind
<1> HIDE DEF r
<1>7. \A i \in 1..r : w2[i].kind # "oversize"
  BY <1>1, <1>2, <1>5, <1>6
<1>8. \A i \in 1..Len(q) : q[i] = w2[r + i]
  <2>1. \A i \in 1..Len(q) : r + i \in 1..Len(w)
    BY <1>1, <1>6
  <2> QED
    BY <1>2, <1>5, <2>1
<1>9. \A i \in 1..Len(p2) : p2[i] = w2[r + Len(q) + i]
  <2> SUFFICES ASSUME NEW i \in 1..Len(p2) PROVE p2[i] = w2[r + Len(q) + i]
    OBVIOUS
  <2>1. CASE i \in 1..Len(p)
    <3>1. r + Len(q) + i \in 1..Len(w)
      BY <1>1, <1>6, <2>1
    <3> QED
      BY <1>2, <1>3, <1>5, <2>1, <3>1
  <2>2. CASE i = Len(p) + 1
    <3>1. r + Len(q) + i = Len(w) + 1
      BY <1>1, <1>6, <2>2
    <3> QED
      BY <1>2, <1>3, <2>2, <3>1
  <2> QED
    BY <1>1, <1>3, <2>1, <2>2
<1>10. InStep(w2, p2, q)
  BY <1>4, <1>5, <1>7, <1>8, <1>9 DEF InStep
<1> QED
  BY <1>4, <1>10 DEF w2, p2, r

(* What the copier moves to the scanner comes from the OS pipe's start.    *)
LEMMA CopyInStep ==
    ASSUME NEW w \in Seq(Lines), NEW p \in Seq(Lines),
           NEW n \in 1..Len(p),
           InStep(w, p, <<>>)
    PROVE  /\ InStep(w, SubSeq(p, n + 1, Len(p)), SubSeq(p, 1, n))
           /\ Behind(w, SubSeq(p, n + 1, Len(p)), SubSeq(p, 1, n))
                = Behind(w, p, <<>>)
           /\ SubSeq(p, n + 1, Len(p)) \in Seq(Lines)
           /\ SubSeq(p, 1, n) \in Seq(Lines)
<1> DEFINE r == Behind(w, p, <<>>)
           p2 == SubSeq(p, n + 1, Len(p))
           q2 == SubSeq(p, 1, n)
<1>1. Len(w) \in Nat /\ Len(p) \in Nat /\ Len(<<>>) = 0
  BY LenProperties, EmptySeq
<1>2. /\ p2 \in Seq(Lines) /\ q2 \in Seq(Lines)
      /\ n \in Nat /\ Len(q2) = n /\ Len(p2) = Len(p) - n
      /\ \A i \in 1..n : q2[i] = p[i]
      /\ \A i \in 1..Len(p) - n : p2[i] = p[n + i]
  BY Parted
<1> HIDE DEF p2, q2
<1>3. Behind(w, p2, q2) = r
  <2>1. r = Len(w) - Len(p)
    BY <1>1 DEF Behind
  <2>2. Behind(w, p2, q2) = Len(w) - (Len(p) - n) - n
    BY <1>2 DEF Behind
  <2> HIDE DEF r
  <2> QED
    BY <1>1, <1>2, <2>1, <2>2
<1>4. /\ r >= 0 /\ \A i \in 1..r : w[i].kind # "oversize"
      /\ \A i \in 1..Len(p) : p[i] = w[r + 0 + i]
  BY <1>1 DEF InStep
<1>5. r \in Nat /\ r + 0 = r
  BY <1>1, <1>4 DEF Behind
<1> HIDE DEF r
<1>6. \A i \in 1..Len(q2) : q2[i] = w[r + i]
  BY <1>1, <1>2, <1>4, <1>5
<1>7. \A i \in 1..Len(p2) : p2[i] = w[r + Len(q2) + i]
  <2> SUFFICES ASSUME NEW i \in 1..Len(p) - n PROVE p2[i] = w[r + n + i]
    BY <1>2
  <2>1. n + i \in 1..Len(p) /\ r + (n + i) = r + n + i
    BY <1>1, <1>2, <1>5
  <2> QED
    BY <1>2, <1>4, <1>5, <2>1
<1>8. InStep(w, p2, q2)
  BY <1>3, <1>4, <1>6, <1>7 DEF InStep
<1> QED
  BY <1>2, <1>3, <1>8 DEF r, p2, q2

(* processLogs takes the line after those it has seen.                     *)
LEMMA ReceiveInStep ==
    ASSUME NEW w \in Seq(Lines), NEW p \in Seq(Lines),
           NEW q \in Seq(Lines),
           InStep(w, p, q), q # <<>>, Head(q).kind # "oversize",
           NEW r, r = Behind(w, p, q)
    PROVE  /\ r \in Nat /\ r + 1 \in 1..Len(w) /\ Head(q) = w[r + 1]
           /\ InStep(w, p, Tail(q)) /\ Behind(w, p, Tail(q)) = r + 1
<1>1. Len(w) \in Nat /\ Len(p) \in Nat /\ Len(q) \in Nat
  BY LenProperties
<1>2. /\ Head(q) = q[1] /\ Len(q) >= 1 /\ Len(Tail(q)) = Len(q) - 1
      /\ \A i \in 1..Len(Tail(q)) : Tail(q)[i] = q[i + 1]
  BY HeadTail
<1>3. /\ r >= 0 /\ \A i \in 1..r : w[i].kind # "oversize"
      /\ \A i \in 1..Len(q) : q[i] = w[r + i]
      /\ \A i \in 1..Len(p) : p[i] = w[r + Len(q) + i]
  BY DEF InStep
<1>4. r \in Nat /\ r + Len(q) + Len(p) = Len(w)
  BY <1>1, <1>3 DEF Behind
<1>5. r + 1 \in 1..Len(w) /\ Head(q) = w[r + 1]
  BY <1>1, <1>2, <1>3, <1>4
<1>6. Behind(w, p, Tail(q)) = r + 1
  BY <1>1, <1>2 DEF Behind
<1>7. \A i \in 1..r + 1 : w[i].kind # "oversize"
  <2>1. \A i \in 1..r + 1 : i \in 1..r \/ i = r + 1
    BY <1>4
  <2> QED
    BY <1>3, <1>5, <2>1
<1>8. \A i \in 1..Len(Tail(q)) : Tail(q)[i] = w[r + 1 + i]
  <2> SUFFICES ASSUME NEW i \in 1..Len(Tail(q))
               PROVE  Tail(q)[i] = w[r + 1 + i]
    OBVIOUS
  <2>1. i + 1 \in 1..Len(q) /\ r + (i + 1) = r + 1 + i
    BY <1>1, <1>2, <1>4
  <2> QED
    BY <1>2, <1>3, <2>1
<1>9. \A i \in 1..Len(p) : p[i] = w[r + 1 + Len(Tail(q)) + i]
  <2>1. r + 1 + Len(Tail(q)) = r + Len(q)
    BY <1>1, <1>2, <1>4
  <2> QED
    BY <1>3, <2>1
<1>10. r + 1 >= 0
  BY <1>4
<1>11. InStep(w, p, Tail(q))
  BY <1>6, <1>7, <1>8, <1>9, <1>10 DEF InStep
<1> QED
  BY <1>4, <1>5, <1>6, <1>11

(* A scanner that meets an oversize line, or the end of a stream that is   *)
(* used up, is at the cut.                                                 *)
LEMMA StopsAtCut ==
    ASSUME NEW w \in Seq(Lines), NEW p \in Seq(Lines),
           NEW q \in Seq(Lines),
           InStep(w, p, q), NEW r, r = Behind(w, p, q),
           \/ q # <<>> /\ Head(q).kind = "oversize"
           \/ q = <<>> /\ p = <<>>
    PROVE  /\ IsCut(w, r + 1) /\ Cut(w) = r + 1
           /\ q # <<>> => r + 1 <= Len(w)
<1>1. Len(w) \in Nat /\ Len(p) \in Nat /\ Len(q) \in Nat
  BY LenProperties
<1>2. /\ r >= 0 /\ \A i \in 1..r : w[i].kind # "oversize"
      /\ \A i \in 1..Len(q) : q[i] = w[r + i]
  BY DEF InStep
<1>3. r \in Nat /\ r + Len(q) + Len(p) = Len(w)
  BY <1>1, <1>2 DEF Behind
<1>4. CASE q # <<>> /\ Head(q).kind = "oversize"
  <2>1. Len(q) >= 1 /\ q[1].kind = "oversize"
    BY <1>4, HeadTail
  <2>2. r + 1 \in 1..Len(w) /\ w[r + 1].kind = "oversize"
    BY <1>1, <1>2, <1>3, <2>1
  <2>3. IsCut(w, r + 1)
    BY <1>1, <1>2, <1>3, <2>2 DEF IsCut
  <2> QED
    BY <1>1, <2>2, <2>3, CutUnique
<1>5. CASE q = <<>> /\ p = <<>>
  <2>1. r = Len(w)
    <3>1. Len(q) = 0 /\ Len(p) = 0
      BY <1>5, EmptySeq
    <3> QED
      BY <1>1, <1>3, <3>1
  <2>2. IsCut(w, r + 1)
    BY <1>1, <1>2, <1>3, <2>1 DEF IsCut
  <2> QED
    BY <1>1, <1>5, <2>2, CutUnique
<1> QED
  BY <1>4, <1>5
-----------------------------------------------------------------------------
(* A step that leaves a stream alone, or only closes it, keeps its order.  *)
LEMMA KeptAlone ==
    ASSUME NEW s \in Streams, Kept(s),
           written'[s] = written[s], osPipe'[s] = osPipe[s],
           scanned'[s] = scanned[s], copier'[s] = copier[s],
           s \in scanning' <=> s \in scanning, open' \subseteq open
    PROVE  Kept(s)'
BY DEF Kept, ScanStopped, Numbered

(* The lines of the streams are lines.                                     *)
LEMMA StreamTypes ==
    ASSUME LogsTypeOK, NEW s \in Streams
    PROVE  /\ written[s] \in Seq(Lines) /\ osPipe[s] \in Seq(Lines)
           /\ scanned[s] \in Seq(Lines)
           /\ Len(written[s]) \in Nat
           /\ copier[s] \in {"running", "eof", "failed"}
BY LenProperties DEF LogsTypeOK

(* What is written keeps the order of its stream, and its cut.             *)
LEMMA WriteKeeps ==
    ASSUME LogsTypeOK, Flow, NEW s \in Streams, NEW kind \in Kinds,
           Write(s, kind)
    PROVE  /\ Kept(s)'
           /\ written'[s] \in Seq(Lines) /\ osPipe'[s] \in Seq(Lines)
           /\ Len(written'[s]) = Len(written[s]) + 1
           /\ \A i \in 1..Len(written[s]) : written'[s][i] = written[s][i]
           /\ s \in scanning =>
                  Behind(written'[s], osPipe'[s], scanned'[s])
                    = Behind(written[s], osPipe[s], scanned[s])
           /\ s \notin scanning => Cut(written'[s]) = Cut(written[s])
<1> DEFINE line == Line(s, kind)
<1>1. /\ s \in open /\ written'[s] = Append(written[s], line)
      /\ osPipe'[s] = Append(osPipe[s], line)
      /\ UNCHANGED <<open, copier, scanned, scanning>>
  BY DEF Write, LogsTypeOK
<1>2. line \in Lines /\ line.n = Len(written[s]) + 1
  BY StreamTypes DEF Line, Lines
<1> HIDE DEF line
<1>3. /\ written'[s] \in Seq(Lines)
      /\ Len(written'[s]) = Len(written[s]) + 1
      /\ \A i \in 1..Len(written[s]) : written'[s][i] = written[s][i]
      /\ written'[s][Len(written[s]) + 1] = line
      /\ Len(written[s]) \in Nat /\ osPipe'[s] \in Seq(Lines)
  BY <1>1, <1>2, StreamTypes, Appended
<1>4. Numbered(written'[s])
  <2>1. \A i \in 1..Len(written[s]) + 1 :
            i \in 1..Len(written[s]) \/ i = Len(written[s]) + 1
    BY <1>3
  <2>2. \A i \in 1..Len(written[s]) : written[s][i].n = i
    BY DEF Flow, Kept, Numbered
  <2> QED
    BY <1>2, <1>3, <2>1, <2>2 DEF Numbered
<1>5. copier[s] # "eof"
  BY <1>1 DEF Flow, Kept
<1>6. CASE s \in scanning
  <2>1. copier[s] # "failed" /\ InStep(written[s], osPipe[s], scanned[s])
    BY <1>6 DEF Flow, Kept
  <2>2. /\ InStep(written'[s], osPipe'[s], scanned[s])
        /\ Behind(written'[s], osPipe'[s], scanned[s])
             = Behind(written[s], osPipe[s], scanned[s])
    BY <1>1, <1>2, <2>1, StreamTypes, WriteInStep
  <2> QED
    BY <1>1, <1>3, <1>4, <1>5, <1>6, <2>1, <2>2 DEF Kept
<1>7. CASE s \notin scanning
  <2>1. /\ scanned[s] = <<>> /\ IsCut(written[s], Cut(written[s]))
        /\ Cut(written[s]) <= Len(written[s])
    BY <1>1, <1>7 DEF Flow, Kept, ScanStopped
  <2>2. Len(written'[s]) \in Nat /\ Len(written[s]) <= Len(written'[s])
    BY <1>3
  <2>3. /\ IsCut(written'[s], Cut(written[s]))
        /\ Cut(written'[s]) = Cut(written[s])
    BY <1>3, <2>1, <2>2, CutKept
  <2>4. Cut(written'[s]) <= Len(written'[s])
    <3>1. Cut(written[s]) \in Nat
      BY <1>3, <2>1 DEF IsCut
    <3> QED
      BY <1>3, <2>1, <2>3, <3>1
  <2>5. ScanStopped(s)'
    BY <1>1, <2>1, <2>3, <2>4 DEF ScanStopped
  <2> QED
    BY <1>1, <1>3, <1>4, <1>5, <1>7, <2>3, <2>5 DEF Kept
<1> QED
  BY <1>6, <1>7

(* The copier keeps the order.                                             *)
LEMMA CopyKeeps ==
    ASSUME LogsTypeOK, Flow, NEW s \in Streams, Copy(s)
    PROVE  /\ Kept(s)' /\ s \in scanning
           /\ scanned'[s] \in Seq(Lines) /\ osPipe'[s] \in Seq(Lines)
           /\ Behind(written'[s], osPipe'[s], scanned'[s])
                = Behind(written[s], osPipe[s], scanned[s])
<1>1. PICK n \in 1..Len(osPipe[s]) :
          /\ scanned'[s] = SubSeq(osPipe[s], 1, n)
          /\ osPipe'[s] = SubSeq(osPipe[s], n + 1, Len(osPipe[s]))
  BY DEF Copy, LogsTypeOK
<1>2. /\ s \in scanning /\ scanned[s] = <<>> /\ copier[s] = "running"
      /\ UNCHANGED <<written, open, copier, scanning>>
  BY DEF Copy
<1>3. InStep(written[s], osPipe[s], <<>>)
  BY <1>2 DEF Flow, Kept
<1>4. /\ InStep(written[s], osPipe'[s], scanned'[s])
      /\ Behind(written[s], osPipe'[s], scanned'[s])
           = Behind(written[s], osPipe[s], <<>>)
      /\ scanned'[s] \in Seq(Lines) /\ osPipe'[s] \in Seq(Lines)
  <2>1. written[s] \in Seq(Lines) /\ osPipe[s] \in Seq(Lines)
    BY StreamTypes
  <2>2. /\ InStep(written[s], SubSeq(osPipe[s], n + 1, Len(osPipe[s])),
                  SubSeq(osPipe[s], 1, n))
        /\ Behind(written[s], SubSeq(osPipe[s], n + 1, Len(osPipe[s])),
                  SubSeq(osPipe[s], 1, n))
             = Behind(written[s], osPipe[s], <<>>)
        /\ SubSeq(osPipe[s], n + 1, Len(osPipe[s])) \in Seq(Lines)
        /\ SubSeq(osPipe[s], 1, n) \in Seq(Lines)
    BY <1>3, <2>1, CopyInStep
  <2> QED
    BY <1>1, <2>2
<1> QED
  BY <1>2, <1>4 DEF Flow, Kept, Numbered

(* A scanner stops at the cut.                                             *)
LEMMA ScanEndKeeps ==
    ASSUME LogsTypeOK, Flow, EndOrder, NEW s \in Streams,
           ScanEnds(s)
    PROVE  /\ Kept(s)' /\ s \in scanning /\ s \notin scanning'
           /\ scanned'[s] = <<>>
           /\ Cut(written[s]) - 1
                = Behind(written[s], osPipe[s], scanned[s])
<1> DEFINE r == Behind(written[s], osPipe[s], scanned[s])
<1>1. /\ s \in scanning /\ scanned'[s] = <<>> /\ s \notin scanning'
      /\ UNCHANGED <<written, open, osPipe, copier>>
      /\ Oversize(s) \/ (writersClosed /\ scanned[s] = <<>>)
  BY DEF ScanEnds, ScanStops, LogsTypeOK
<1>2. copier[s] # "failed" /\ InStep(written[s], osPipe[s], scanned[s])
  BY <1>1 DEF Flow, Kept
<1>3. r \in Int
  BY StreamTypes, LenProperties DEF Behind
<1>4. CASE Oversize(s)
  <2>1. /\ IsCut(written[s], r + 1) /\ Cut(written[s]) = r + 1
        /\ r + 1 <= Len(written[s])
    BY <1>2, <1>4, StreamTypes, StopsAtCut DEF Oversize
  <2>2. ScanStopped(s)'
    BY <1>1, <2>1 DEF ScanStopped
  <2> HIDE DEF r
  <2>3. Cut(written[s]) - 1 = r
    BY <1>3, <2>1
  <2> QED
    BY <1>1, <2>2, <2>3 DEF Flow, Kept, r
<1>5. CASE writersClosed /\ scanned[s] = <<>>
  <2>1. copier[s] = "eof"
    BY <1>2, <1>5, StreamTypes DEF EndOrder
  <2>2. s \notin open /\ osPipe[s] = <<>>
    BY <2>1 DEF Flow, Kept
  <2>3. IsCut(written[s], r + 1) /\ Cut(written[s]) = r + 1
    BY <1>2, <1>5, <2>2, StreamTypes, StopsAtCut
  <2>4. ScanStopped(s)'
    BY <1>1, <2>2, <2>3 DEF ScanStopped
  <2> HIDE DEF r
  <2>5. Cut(written[s]) - 1 = r
    BY <1>3, <2>3
  <2> QED
    BY <1>1, <2>4, <2>5 DEF Flow, Kept, r
<1> QED
  BY <1>1, <1>4, <1>5

(* A line that is received is the next, and it is no oversize one.         *)
LEMMA ReceiveKeeps ==
    ASSUME LogsTypeOK, Flow, NEW s \in Streams, Receive(s),
           NEW r, r = Behind(written[s], osPipe[s], scanned[s])
    PROVE  /\ Kept(s)' /\ s \in scanning /\ scanned'[s] \in Seq(Lines)
           /\ r \in Nat /\ r + 1 \in 1..Len(written[s])
           /\ Behind(written'[s], osPipe'[s], scanned'[s]) = r + 1
           /\ Head(scanned[s]) = written[s][r + 1]
           /\ written[s][r + 1].n = r + 1
<1>1. /\ s \in scanning /\ scanned[s] # <<>> /\ ~Oversize(s)
      /\ scanned'[s] = Tail(scanned[s])
      /\ UNCHANGED <<written, open, osPipe, copier, scanning>>
  BY DEF Receive, LogsTypeOK
<1>2. copier[s] # "failed" /\ InStep(written[s], osPipe[s], scanned[s])
  BY <1>1 DEF Flow, Kept
<1>3. /\ r \in Nat /\ r + 1 \in 1..Len(written[s])
      /\ Head(scanned[s]) = written[s][r + 1]
      /\ InStep(written[s], osPipe[s], Tail(scanned[s]))
      /\ Behind(written[s], osPipe[s], Tail(scanned[s])) = r + 1
  BY <1>1, <1>2, StreamTypes, ReceiveInStep DEF Oversize
<1>4. written[s][r + 1].n = r + 1
  BY <1>3 DEF Flow, Kept, Numbered
<1>5. scanned'[s] \in Seq(Lines)
  BY <1>1, StreamTypes, HeadTail
<1> QED
  BY <1>1, <1>2, <1>3, <1>4, <1>5 DEF Flow, Kept
-----------------------------------------------------------------------------
(* Numbers of the lines so far are numbers of the lines to come.           *)
LEMMA MoreLines ==
    ASSUME NEW n \in Nat, NEW m \in Nat, n <= m, NEW q \in Seq(1..n)
    PROVE  q \in Seq(1..m) /\ q \in Seq(Nat)
<1>1. Len(q) \in Nat /\ q \in [1..Len(q) -> 1..n]
  BY LenProperties
<1>2. q \in [1..Len(q) -> 1..m] /\ q \in [1..Len(q) -> Nat]
  BY <1>1
<1> QED
  BY <1>1, <1>2, SeqDef

(* A step of one stream leaves the other alone.                            *)
LEMMA OthersKept ==
    ASSUME LogsTypeOK, Flow, NEW s \in Streams, NEW t \in Streams,
           t # s,
           \/ \E kind \in KindsOf(s) : Write(s, kind)
           \/ CloseStream(s) \/ Copy(s)
           \/ CopyFails(s) \/ CopyEnds(s)
           \/ ScanEnds(s) \/ Receive(s)
    PROVE  Kept(t)'
<1>1. /\ written'[t] = written[t] /\ osPipe'[t] = osPipe[t]
      /\ scanned'[t] = scanned[t] /\ copier'[t] = copier[t]
      /\ t \in scanning' <=> t \in scanning
      /\ open' \subseteq open
  <2>1. CASE \E kind \in KindsOf(s) : Write(s, kind)
    BY <2>1 DEF Write, LogsTypeOK
  <2>2. CASE CloseStream(s)
    BY <2>2 DEF CloseStream
  <2>3. CASE Copy(s)
    BY <2>3 DEF Copy, LogsTypeOK
  <2>4. CASE CopyFails(s) \/ CopyEnds(s)
    BY <2>4 DEF CopyFails, CopyEnds, LogsTypeOK
  <2>5. CASE ScanEnds(s)
    BY <2>5 DEF ScanEnds, LogsTypeOK
  <2>6. CASE Receive(s)
    BY <2>6 DEF Receive, LogsTypeOK
  <2> QED
    BY <2>1, <2>2, <2>3, <2>4, <2>5, <2>6
<1> QED
  BY <1>1, KeptAlone DEF Flow

(* The copiers end without touching what the scanner has.                  *)
LEMMA CopierEndKeeps ==
    ASSUME LogsTypeOK, Flow, NEW s \in Streams,
           CopyFails(s) \/ CopyEnds(s)
    PROVE  /\ Kept(s)' /\ osPipe'[s] \in Seq(Lines)
           /\ s \in scanning => osPipe'[s] = osPipe[s]
<1>1. CASE CopyFails(s)
  <2>1. /\ s \notin scanning /\ copier'[s] = "failed" /\ osPipe'[s] = <<>>
        /\ UNCHANGED <<written, open, scanned, scanning>>
    BY <1>1 DEF CopyFails, LogsTypeOK
  <2>2. ScanStopped(s)'
    BY <2>1 DEF Flow, Kept, ScanStopped
  <2> QED
    BY <2>1, <2>2, EmptySeq DEF Flow, Kept
<1>2. CASE CopyEnds(s)
  <2>1. /\ s \notin open /\ copier'[s] = "eof" /\ osPipe[s] = <<>>
        /\ UNCHANGED <<written, open, osPipe, scanned, scanning>>
    BY <1>2 DEF CopyEnds, LogsTypeOK
  <2>2. s \notin scanning => ScanStopped(s)'
    BY <2>1 DEF Flow, Kept, ScanStopped
  <2> QED
    BY <2>1, <2>2, StreamTypes DEF Flow, Kept, Numbered, InStep, Behind
<1> QED
  BY <1>1, <1>2

(* Every step keeps the lines of both streams in order.                    *)
LEMMA FlowStep ==
    ASSUME LogsIInv, [LogsNext]_logsVars
    PROVE  Flow'
<1> USE DEF LogsIInv
<1>1. ASSUME NEW s \in Streams,
             \/ \E kind \in KindsOf(s) : Write(s, kind)
             \/ CloseStream(s) \/ Copy(s)
             \/ CopyFails(s) \/ CopyEnds(s)
             \/ ScanEnds(s) \/ Receive(s)
      PROVE  Flow'
  <2>1. Kept(s)'
    <3>1. ASSUME NEW kind \in KindsOf(s), Write(s, kind)
          PROVE  Kept(s)'
      BY <3>1, WriteKeeps DEF KindsOf, Kinds
    <3>2. CASE CloseStream(s)
      BY <3>2, KeptAlone DEF CloseStream, Flow
    <3>3. CASE Copy(s)
      BY <3>3, CopyKeeps
    <3>4. CASE CopyFails(s) \/ CopyEnds(s)
      BY <3>4, CopierEndKeeps
    <3>5. CASE ScanEnds(s)
      BY <3>5, ScanEndKeeps
    <3>6. CASE Receive(s)
      BY <3>6, ReceiveKeeps
    <3> QED
      BY <1>1, <3>1, <3>2, <3>3, <3>4, <3>5, <3>6
  <2>2. \A t \in Streams : t # s => Kept(t)'
    BY <1>1, OthersKept
  <2> QED
    BY <2>1, <2>2 DEF Flow
<1>2. ASSUME NEW s \in Streams, ReceiveClosed(s) PROVE Flow'
  BY <1>2, KeptAlone DEF ReceiveClosed, Flow
<1>3. CASE Die
  BY <1>3, KeptAlone DEF Die, Flow
<1>4. CASE WaitReturns
  BY <1>4, KeptAlone DEF WaitReturns, Flow
<1>5. CASE SendExitErr
  BY <1>5, KeptAlone DEF SendExitErr, Flow
<1>6. CASE UNCHANGED logsVars
  BY <1>6, KeptAlone DEF logsVars, Flow
<1> QED
  BY <1>1, <1>2, <1>3, <1>4, <1>5, <1>6 DEF LogsNext, Finished

(* Every step keeps the order in which the goroutines end.                 *)
LEMMA OrderStep ==
    ASSUME LogsIInv, [LogsNext]_logsVars
    PROVE  EndOrder'
<1> USE DEF LogsIInv
<1>1. ASSUME NEW s \in Streams, NEW kind \in KindsOf(s),
             Write(s, kind)
      PROVE  EndOrder'
  BY <1>1 DEF Write, EndOrder
<1>2. ASSUME NEW s \in Streams, CloseStream(s) PROVE EndOrder'
  BY <1>2 DEF CloseStream, EndOrder
<1>3. ASSUME NEW s \in Streams, Copy(s) PROVE EndOrder'
  BY <1>3 DEF Copy, EndOrder
<1>4. ASSUME NEW s \in Streams, CopyFails(s) \/ CopyEnds(s)
      PROVE  EndOrder'
  BY <1>4 DEF CopyFails, CopyEnds, EndOrder, LogsTypeOK
<1>5. ASSUME NEW s \in Streams, ScanEnds(s) PROVE EndOrder'
  BY <1>5 DEF ScanEnds, EndOrder
<1>6. ASSUME NEW s \in Streams, Receive(s) PROVE EndOrder'
  BY <1>6 DEF Receive, EndOrder
<1>7. ASSUME NEW s \in Streams, ReceiveClosed(s) PROVE EndOrder'
  <2>1. /\ s \notin scanning /\ Reads(s) /\ logs' = AfterClose
        /\ UNCHANGED <<copier, scanning, writersClosed, reporter>>
    BY <1>7 DEF ReceiveClosed
  <2>2. \/ logs = "select" /\ logs' = "drainOut"
        \/ logs = "drainOut" /\ s = "out" /\ logs' = "drainErr"
        \/ logs = "drainErr" /\ s = "err" /\ logs' = "offer"
    BY <2>1 DEF Reads, AfterClose
  <2> QED
    BY <2>1, <2>2 DEF EndOrder
<1>8. CASE Die
  BY <1>8 DEF Die, EndOrder
<1>9. CASE WaitReturns
  BY <1>9 DEF WaitReturns, CloseWriters, EndOrder
<1>10. CASE SendExitErr
  BY <1>10 DEF SendExitErr, EndOrder
<1>11. CASE UNCHANGED logsVars
  BY <1>11 DEF logsVars, EndOrder
<1> QED
  BY <1>1, <1>2, <1>3, <1>4, <1>5, <1>6, <1>7, <1>8, <1>9, <1>10, <1>11
     DEF LogsNext, Finished
-----------------------------------------------------------------------------
(* The variables keep their types.                                         *)
LEMMA TypeStep ==
    ASSUME LogsIInv, [LogsNext]_logsVars
    PROVE  LogsTypeOK'
<1> USE DEF LogsIInv
<1>0. /\ Len(written["err"]) \in Nat
      /\ lastError \in Seq(1..Len(written["err"]))
      /\ result \in Seq(1..Len(written["err"]))
      /\ "err" \in Streams
  BY StreamTypes DEF Streams, LogsTypeOK
<1>1. ASSUME NEW s \in Streams, NEW kind \in KindsOf(s),
             Write(s, kind)
      PROVE  LogsTypeOK'
  <2>1. /\ written'[s] \in Seq(Lines) /\ osPipe'[s] \in Seq(Lines)
        /\ Len(written'[s]) = Len(written[s]) + 1
    BY <1>1, WriteKeeps DEF KindsOf, Kinds
  <2>2. /\ written' = [written EXCEPT ![s] = written'[s]]
        /\ osPipe' = [osPipe EXCEPT ![s] = osPipe'[s]]
        /\ UNCHANGED <<alive, open, copier, scans, logs,
                       parse, exits>>
    BY <1>1 DEF Write, LogsTypeOK
  <2>3. /\ written' \in [Streams -> Seq(Lines)]
        /\ osPipe' \in [Streams -> Seq(Lines)]
    BY <2>1, <2>2 DEF LogsTypeOK
  <2>4. /\ Len(written'["err"]) \in Nat
        /\ Len(written["err"]) <= Len(written'["err"])
    <3>1. CASE s = "err"
      BY <1>0, <2>1, <3>1
    <3>2. CASE s # "err"
      <4>1. written'["err"] = written["err"]
        BY <1>0, <2>2, <3>2 DEF LogsTypeOK
      <4> QED
        BY <1>0, <4>1
    <3> QED
      BY <3>1, <3>2
  <2>5. /\ lastError' \in Seq(1..Len(written'["err"]))
        /\ result' \in Seq(1..Len(written'["err"]))
    BY <1>0, <2>2, <2>4, MoreLines
  <2> QED
    BY <2>2, <2>3, <2>5 DEF LogsTypeOK
<1>2. ASSUME NEW s \in Streams, CloseStream(s) PROVE LogsTypeOK'
  BY <1>2 DEF CloseStream, LogsTypeOK
<1>3. ASSUME NEW s \in Streams, Copy(s) PROVE LogsTypeOK'
  <2>1. scanned'[s] \in Seq(Lines) /\ osPipe'[s] \in Seq(Lines)
    BY <1>3, CopyKeeps
  <2>2. /\ scanned' = [scanned EXCEPT ![s] = scanned'[s]]
        /\ osPipe' = [osPipe EXCEPT ![s] = osPipe'[s]]
        /\ UNCHANGED <<process, copier, scanning, logs,
                       parse, exits>>
    BY <1>3 DEF Copy, LogsTypeOK
  <2> QED
    BY <2>1, <2>2 DEF LogsTypeOK
<1>4. ASSUME NEW s \in Streams, CopyFails(s) \/ CopyEnds(s)
      PROVE  LogsTypeOK'
  <2>1. osPipe'[s] \in Seq(Lines)
    BY <1>4, CopierEndKeeps
  <2>2. /\ osPipe' = [osPipe EXCEPT ![s] = osPipe'[s]]
        /\ copier' \in [Streams -> {"running", "eof", "failed"}]
        /\ UNCHANGED <<process, scans, logs, parse, exits>>
    BY <1>4 DEF CopyFails, CopyEnds, LogsTypeOK
  <2> QED
    BY <2>1, <2>2 DEF LogsTypeOK
<1>5. ASSUME NEW s \in Streams, ScanEnds(s) PROVE LogsTypeOK'
  <2>1. /\ scanned' = [scanned EXCEPT ![s] = <<>>]
        /\ scanning' \subseteq Streams
        /\ UNCHANGED <<process, pipes, logs, parse, exits>>
    BY <1>5 DEF ScanEnds, LogsTypeOK
  <2>2. scanned' \in [Streams -> Seq(Lines)]
    BY <2>1, EmptySeq DEF LogsTypeOK
  <2> QED
    BY <2>1, <2>2 DEF LogsTypeOK
<1>6. ASSUME NEW s \in Streams, Receive(s) PROVE LogsTypeOK'
  <2> DEFINE r == Behind(written[s], osPipe[s], scanned[s])
  <2>1. /\ scanned'[s] \in Seq(Lines)
        /\ r + 1 \in 1..Len(written[s])
        /\ Head(scanned[s]).n = r + 1
    BY <1>6, ReceiveKeeps
  <2> HIDE DEF r
  <2>2. /\ scanned' = [scanned EXCEPT ![s] = scanned'[s]]
        /\ UNCHANGED <<process, pipes, scanning, logs, exits>>
    BY <1>6 DEF Receive, LogsTypeOK
  <2>3. \/ UNCHANGED parse
        \/ s = "err" /\ Parse(Head(scanned[s]))
    BY <1>6 DEF Receive, DrainParse, Streams
  <2>4. /\ inError' \in BOOLEAN
        /\ lastError' \in Seq(1..Len(written["err"]))
    <3>1. CASE UNCHANGED parse
      BY <1>0, <3>1 DEF LogsTypeOK
    <3>2. CASE s = "err" /\ Parse(Head(scanned[s]))
      <4> DEFINE number == Head(scanned[s]).n
      <4>1. number \in 1..Len(written["err"])
        BY <2>1, <3>2
      <4>2. \/ lastError' = <<number>>
            \/ lastError' = Append(lastError, number)
            \/ lastError' = lastError
        BY <3>2 DEF Parse
      <4>3. inError' \in BOOLEAN
        BY <3>2 DEF Parse
      <4> HIDE DEF number
      <4>4. <<number>> \in Seq(1..Len(written["err"]))
        BY <4>1
      <4>5. Append(lastError, number) \in Seq(1..Len(written["err"]))
        BY <1>0, <4>1, Appended
      <4> QED
        BY <1>0, <4>2, <4>3, <4>4, <4>5
    <3> QED
      BY <2>3, <3>1, <3>2
  <2> QED
    BY <2>1, <2>2, <2>4 DEF LogsTypeOK
<1>7. ASSUME NEW s \in Streams, ReceiveClosed(s) PROVE LogsTypeOK'
  <2>1. /\ logs' \in {"drainOut", "drainErr", "offer"}
        /\ UNCHANGED <<process, pipes, scans,
                       parse, exits>>
    BY <1>7 DEF ReceiveClosed, Reads, AfterClose
  <2> QED
    BY <2>1 DEF LogsTypeOK
<1>8. CASE Die
  BY <1>8 DEF Die, LogsTypeOK
<1>9. CASE WaitReturns
  BY <1>9 DEF WaitReturns, CloseWriters, LogsTypeOK
<1>10. CASE SendExitErr
  BY <1>0, <1>10 DEF SendExitErr, LogsTypeOK
<1>11. CASE UNCHANGED logsVars
  BY <1>11 DEF logsVars, LogsTypeOK
<1> QED
  BY <1>1, <1>2, <1>3, <1>4, <1>5, <1>6, <1>7, <1>8, <1>9, <1>10, <1>11
     DEF LogsNext, Finished

-----------------------------------------------------------------------------
(* processLogs has seen some of the lines that were written.               *)
LEMMA SeenIsNat ==
    ASSUME LogsTypeOK, Flow
    PROVE  /\ Seen \in Nat /\ Seen <= Len(written["err"])
           /\ "err" \in Streams
<1> DEFINE w == written["err"]
           p == osPipe["err"]
           q == scanned["err"]
<1>1. "err" \in Streams
  BY DEF Streams
<1>2. Len(w) \in Nat /\ Len(p) \in Nat /\ Len(q) \in Nat
  BY <1>1, StreamTypes, LenProperties
<1>3. CASE "err" \in scanning
  <2>1. InStep(w, p, q) /\ Seen = Behind(w, p, q)
    BY <1>1, <1>3 DEF Flow, Kept, Seen
  <2> HIDE DEF w, p, q
  <2>2. Seen = Len(w) - Len(p) - Len(q) /\ Seen >= 0
    BY <2>1 DEF InStep, Behind
  <2> HIDE DEF Seen
  <2>3. Seen \in Nat /\ Seen <= Len(w)
    BY <1>2, <2>2
  <2> QED
    BY <1>1, <2>3 DEF w
<1>4. CASE "err" \notin scanning
  <2>1. IsCut(w, Cut(w)) /\ Seen = Cut(w) - 1
    BY <1>1, <1>4 DEF Flow, Kept, ScanStopped, Seen
  <2> HIDE DEF w, Seen
  <2>2. Seen \in Nat /\ Seen <= Len(w)
    BY <1>2, <2>1 DEF IsCut
  <2> QED
    BY <1>1, <2>2 DEF w
<1> QED
  BY <1>3, <1>4

(* A step that shows processLogs no line of stderr, and leaves its locals  *)
(* and the lines it has seen as they were.                                 *)
LEMMA NothingParsed ==
    ASSUME LogsIInv, Seen' = Seen, UNCHANGED parse,
           \A i \in 1..Len(written["err"]) :
               written'["err"][i] = written["err"][i],
           reporter' = "reported" => result' = lastError'
    PROVE  InParse'
<1>1. /\ Seen \in Nat /\ Seen <= Len(written["err"])
      /\ Len(written["err"]) \in Nat
  BY SeenIsNat, StreamTypes DEF LogsIInv
<1>2. Len(lastError) \in Nat
  BY LenProperties DEF LogsIInv, LogsTypeOK
<1>3. Parsed(written["err"], Seen, lastError, inError)
  BY DEF LogsIInv, InParse
<1>4. \A i \in 1..Seen : written'["err"][i] = written["err"][i]
  BY <1>1
<1> HIDE DEF Seen
<1>5. Parsed(written'["err"], Seen, lastError, inError)
  BY <1>1, <1>2, <1>3, <1>4, ParsedKept
<1> QED
  BY <1>5 DEF InParse

(* A line of stderr that processLogs receives.                             *)
LEMMA LineParsed ==
    ASSUME LogsIInv, Receive("err")
    PROVE  InParse'
<1> DEFINE w == written["err"]
<1>1. "err" \in Streams /\ Seen \in Nat
  BY SeenIsNat DEF LogsIInv
<1>2. /\ "err" \in scanning /\ Parse(Head(scanned["err"]))
      /\ UNCHANGED <<written, osPipe, scanning, reporter, result>>
      /\ logs # "done"
  BY DEF Receive, DrainParse, Reads
<1>3. Seen = Behind(w, osPipe["err"], scanned["err"])
  BY <1>2 DEF Seen
<1>4. /\ Behind(written'["err"], osPipe'["err"], scanned'["err"]) = Seen + 1
      /\ Head(scanned["err"]) = w[Seen + 1]
      /\ w[Seen + 1].n = Seen + 1
  BY <1>1, <1>3, ReceiveKeeps DEF LogsIInv
<1>5. Seen' = Seen + 1
  BY <1>2, <1>4 DEF Seen
<1>6. /\ Parsed(w, Seen, lastError, inError) /\ inError \in BOOLEAN
      /\ lastError \in Seq(Nat)
  BY <1>1, StreamTypes, MoreLines DEF LogsIInv, InParse, LogsTypeOK
<1>7. reporter # "reported"
  BY <1>2 DEF LogsIInv, EndOrder
<1> HIDE DEF Seen, w
<1>8. /\ lastError' = CASE w[Seen + 1].kind = "ERROR" -> <<w[Seen + 1].n>>
                        [] w[Seen + 1].kind = "plain" /\ inError
                               -> Append(lastError, w[Seen + 1].n)
                        [] OTHER -> lastError
      /\ inError' = \/ w[Seen + 1].kind = "ERROR"
                    \/ w[Seen + 1].kind = "plain" /\ inError
  BY <1>2, <1>4 DEF Parse
<1>9. Parsed(w, Seen + 1, lastError', inError')
  <2>1. Parsed(w, Seen + 1,
               CASE w[Seen + 1].kind = "ERROR" -> <<w[Seen + 1].n>>
                 [] w[Seen + 1].kind = "plain" /\ inError
                        -> Append(lastError, w[Seen + 1].n)
                 [] OTHER -> lastError,
               \/ w[Seen + 1].kind = "ERROR"
               \/ w[Seen + 1].kind = "plain" /\ inError)
    BY <1>1, <1>4, <1>6, ParsedOneMore
  <2> QED
    BY <1>8, <2>1
<1>10. w' = w
  BY <1>2 DEF w
<1> QED
  BY <1>2, <1>5, <1>7, <1>9, <1>10 DEF InParse, w

(* Every step keeps what processLogs has made of the lines it has seen.    *)
LEMMA ParseStep ==
    ASSUME LogsIInv, [LogsNext]_logsVars
    PROVE  InParse'
<1>0. /\ "err" \in Streams
      /\ reporter = "reported" => result = lastError
  BY SeenIsNat DEF LogsIInv, InParse
<1>1. ASSUME NEW s \in Streams, NEW kind \in KindsOf(s),
             Write(s, kind)
      PROVE  InParse'
  <2>1. UNCHANGED <<scanned, scanning, parse, reporter, result>>
    BY <1>1 DEF Write
  <2>2. CASE s = "err"
    <3>1. /\ \A i \in 1..Len(written["err"]) :
                 written'["err"][i] = written["err"][i]
          /\ "err" \in scanning =>
                 Behind(written'["err"], osPipe'["err"], scanned'["err"])
                   = Behind(written["err"], osPipe["err"], scanned["err"])
          /\ "err" \notin scanning =>
                 Cut(written'["err"]) = Cut(written["err"])
      BY <1>0, <1>1, <2>2, WriteKeeps DEF KindsOf, LogsIInv
    <3>2. Seen' = Seen
      BY <2>1, <3>1 DEF Seen
    <3> QED
      BY <1>0, <2>1, <3>1, <3>2, NothingParsed
  <2>3. CASE s # "err"
    <3>1. written'["err"] = written["err"] /\ osPipe'["err"] = osPipe["err"]
      BY <1>0, <1>1, <2>3 DEF Write, LogsIInv, LogsTypeOK
    <3> QED
      BY <1>0, <2>1, <3>1, NothingParsed DEF Seen
  <2> QED
    BY <2>2, <2>3
<1>2. ASSUME NEW s \in Streams, CloseStream(s) PROVE InParse'
  BY <1>0, <1>2, NothingParsed DEF CloseStream, Seen
<1>3. ASSUME NEW s \in Streams, Copy(s) PROVE InParse'
  <2>1. UNCHANGED <<written, scanning, parse, reporter, result>>
    BY <1>3 DEF Copy
  <2>2. /\ s \in scanning
        /\ Behind(written'[s], osPipe'[s], scanned'[s])
             = Behind(written[s], osPipe[s], scanned[s])
    BY <1>3, CopyKeeps DEF LogsIInv
  <2>3. s # "err" => /\ osPipe'["err"] = osPipe["err"]
                     /\ scanned'["err"] = scanned["err"]
    BY <1>0, <1>3 DEF Copy, LogsIInv, LogsTypeOK
  <2>4. Seen' = Seen
    BY <2>1, <2>2, <2>3 DEF Seen
  <2> QED
    BY <1>0, <2>1, <2>4, NothingParsed
<1>4. ASSUME NEW s \in Streams, CopyFails(s) \/ CopyEnds(s)
      PROVE  InParse'
  <2>1. UNCHANGED <<written, scanned, scanning, parse, reporter, result>>
    BY <1>4 DEF CopyFails, CopyEnds
  <2>2. "err" \in scanning => osPipe'["err"] = osPipe["err"]
    BY <1>0, <1>4 DEF CopyFails, CopyEnds, LogsIInv, LogsTypeOK
  <2> QED
    BY <1>0, <2>1, <2>2, NothingParsed DEF Seen
<1>5. ASSUME NEW s \in Streams, ScanEnds(s) PROVE InParse'
  <2>1. /\ UNCHANGED <<written, osPipe, parse, reporter, result>>
        /\ scanning' = scanning \ {s}
    BY <1>5 DEF ScanEnds
  <2>2. s # "err" => scanned'["err"] = scanned["err"]
    BY <1>0, <1>5 DEF ScanEnds, LogsIInv, LogsTypeOK
  <2>3. /\ s \in scanning
        /\ Cut(written[s]) - 1 = Behind(written[s], osPipe[s], scanned[s])
    BY <1>5, ScanEndKeeps DEF LogsIInv
  <2>4. Seen' = Seen
    BY <2>1, <2>2, <2>3 DEF Seen
  <2> QED
    BY <1>0, <2>1, <2>4, NothingParsed
<1>6. ASSUME NEW s \in Streams, Receive(s) PROVE InParse'
  <2>1. CASE s = "err"
    BY <1>6, <2>1, LineParsed
  <2>2. CASE s = "out"
    <3>1. /\ UNCHANGED <<written, osPipe, scanning, parse,
                         reporter, result>>
          /\ scanned'["err"] = scanned["err"]
      BY <1>0, <1>6, <2>2 DEF Receive, LogsIInv, LogsTypeOK
    <3> QED
      BY <1>0, <3>1, NothingParsed DEF Seen
  <2> QED
    BY <2>1, <2>2 DEF Streams
<1>7. ASSUME NEW s \in Streams, ReceiveClosed(s) PROVE InParse'
  BY <1>0, <1>7, NothingParsed DEF ReceiveClosed, Seen
<1>8. CASE Die
  BY <1>0, <1>8, NothingParsed DEF Die, Seen
<1>9. CASE WaitReturns
  BY <1>0, <1>9, NothingParsed DEF WaitReturns, Seen
<1>10. CASE SendExitErr
  BY <1>0, <1>10, NothingParsed DEF SendExitErr, Seen
<1>11. CASE UNCHANGED logsVars
  BY <1>0, <1>11, NothingParsed DEF logsVars, Seen
<1> QED
  BY <1>1, <1>2, <1>3, <1>4, <1>5, <1>6, <1>7, <1>8, <1>9, <1>10, <1>11
     DEF LogsNext, Finished

(* Nothing is written and nothing is parsed.                               *)
LEMMA LogsInitIInv == LogsInit => LogsIInv
<1> SUFFICES ASSUME LogsInit PROVE LogsIInv
  OBVIOUS
<1>1. /\ \A S : <<>> \in Seq(S)
      /\ Len(<<>>) = 0
  BY EmptySeq
<1>2. LogsTypeOK
  BY <1>1 DEF LogsInit, LogsTypeOK, Streams
<1>3. Flow
  BY <1>1 DEF LogsInit, Flow, Kept, Numbered, InStep, Behind
<1>4. EndOrder
  BY DEF LogsInit, EndOrder, Streams
<1>5. InParse
  <2>1. Seen = 0
    <3>1. "err" \in scanning /\ Len(written["err"]) = 0
          /\ Len(osPipe["err"]) = 0 /\ Len(scanned["err"]) = 0
      BY <1>1 DEF LogsInit, Streams
    <3> QED
      BY <3>1 DEF Seen, Behind
  <2> QED
    BY <2>1 DEF LogsInit, InParse, Parsed
<1> QED
  BY <1>2, <1>3, <1>4, <1>5 DEF LogsIInv

(* Every reachable state satisfies the inductive invariant.                *)
THEOREM LogsInvariance == LogsSpec => []LogsIInv
<1>1. LogsIInv /\ [LogsNext]_logsVars => LogsIInv'
  BY TypeStep, FlowStep, OrderStep, ParseStep DEF LogsIInv
<1> QED
  BY LogsInitIInv, <1>1, PTL DEF LogsSpec

(* Type correctness.                                                       *)
THEOREM LogsTypeCorrect == LogsSpec => []LogsTypeOK
<1>1. LogsIInv => LogsTypeOK
  BY DEF LogsIInv
<1> QED
  BY LogsInvariance, <1>1, PTL

(* What watchEmulatorExit reports is the last error of all that was        *)
(* written to stderr.                                                      *)
THEOREM LastErrorIsReported == LogsSpec => []LastErrorReported
<1>1. LogsIInv => LastErrorReported
  <2> SUFFICES ASSUME LogsIInv, reporter = "reported"
               PROVE  result = LastErrorOf(written["err"])
    BY DEF LastErrorReported
  <2>1. "err" \in Streams /\ "err" \notin scanning /\ result = lastError
    BY SeenIsNat DEF LogsIInv, EndOrder, InParse
  <2>2. /\ Len(written["err"]) \in Nat
        /\ IsCut(written["err"], Cut(written["err"]))
    BY <2>1, StreamTypes DEF LogsIInv, Flow, Kept, ScanStopped
  <2>3. lastError \in Seq(Nat) /\ inError \in BOOLEAN
    BY <2>2, MoreLines DEF LogsIInv, LogsTypeOK
  <2>4. Parsed(written["err"], Cut(written["err"]) - 1,
               lastError, inError)
    BY <2>1 DEF LogsIInv, InParse, Seen
  <2> QED
    BY <2>1, <2>2, <2>3, <2>4, ParsedToTheEnd
<1> QED
  BY LogsInvariance, <1>1, PTL
-----------------------------------------------------------------------------
(* The end of the output.  The process is dead and nobody writes any more. *)
Ending == ~alive /\ open = {}

(* What each goroutine needs to go on.                                     *)
CanCopy(s) ==
    /\ copier[s] = "running"
    /\ \/ s \notin scanning
       \/ s \notin open /\ osPipe[s] = <<>>
       \/ osPipe[s] # <<>> /\ scanned[s] = <<>>
CanScan(s) == s \in scanning /\ ScanStops(s)
CanReceive(s) ==
    /\ Reads(s)
    /\ s \in scanning => scanned[s] # <<>> /\ ~Oversize(s)
CanWait ==
    /\ reporter = "wait" /\ ~alive
    /\ \A s \in Streams : copier[s] # "running"
CanSend == logs = "offer" /\ reporter = "receive"

SomebodyCanGoOn ==
    \/ \E s \in Streams : CanCopy(s) \/ CanScan(s) \/ CanReceive(s)
    \/ CanWait \/ CanSend

(* At the end of the output no goroutine waits for another that waits for  *)
(* it: until the exit is reported, one of them can go on.                  *)
NobodyIsStuck == Ending /\ reporter # "reported" => SomebodyCanGoOn

(* A stream that processLogs would read is never what holds it up: either  *)
(* the stream can go on, or everything waits for the other's copier.       *)
LEMMA StreamGoesOn ==
    ASSUME LogsIInv, Ending, NEW s \in Streams, Reads(s)
    PROVE  \/ CanCopy(s) \/ CanScan(s) \/ CanReceive(s)
           \/ copier[s] # "running" /\ s \in scanning /\ ~writersClosed
<1>1. copier[s] \in {"running", "eof", "failed"}
  BY StreamTypes DEF LogsIInv
<1>2. s \notin open
  BY DEF Ending
<1>3. s \in scanning => copier[s] # "failed"
  BY DEF LogsIInv, Flow, Kept
<1> QED
  BY <1>1, <1>2, <1>3 DEF CanCopy, CanScan, CanReceive, ScanStops, Oversize

(* The end of an emulator is no deadlock: process, copiers, scanners,      *)
(* processLogs and watchEmulatorExit never wait in a circle.               *)
THEOREM NobodyIsStuckAtTheEnd == LogsSpec => []NobodyIsStuck
<1>1. LogsIInv => NobodyIsStuck
  <2> SUFFICES ASSUME LogsIInv, Ending, reporter # "reported",
                      ~SomebodyCanGoOn
               PROVE  FALSE
    BY DEF NobodyIsStuck
  <2> USE DEF SomebodyCanGoOn
  <2>1. \A s \in Streams : ~CanCopy(s) /\ ~CanScan(s) /\ ~CanReceive(s)
    OBVIOUS
  <2>2. CASE logs = "select"
    <3>1. \A s \in Streams : Reads(s)
      BY <2>2 DEF Reads
    <3>2. \A s \in Streams : copier[s] # "running" /\ ~writersClosed
      BY <2>1, <3>1, StreamGoesOn
    <3> QED
      BY <3>2 DEF CanWait, LogsIInv, EndOrder, Ending, Streams
  <2>3. ASSUME NEW s \in Streams, NEW t \in Streams, t # s,
               Reads(s), t \notin scanning
        PROVE  FALSE
    <3>1. copier[s] # "running" /\ ~writersClosed
      BY <2>1, <2>3, StreamGoesOn
    <3>2. copier[t] # "running"
      BY <2>1, <2>3 DEF CanCopy
    <3>3. reporter = "wait"
      BY <3>1 DEF LogsIInv, EndOrder
    <3>4. \A u \in Streams : copier[u] # "running"
      BY <2>3, <3>1, <3>2 DEF Streams
    <3> QED
      BY <3>3, <3>4 DEF CanWait, Ending
  <2>4. CASE logs = "drainOut"
    <3>1. "out" \in Streams /\ "err" \in Streams /\ Reads("out")
      BY <2>4 DEF Reads, Streams
    <3>2. "out" \in scanning
      BY <2>1, <3>1 DEF CanReceive
    <3>3. "err" \notin scanning
      BY <2>4, <3>2 DEF LogsIInv, EndOrder, LogsTypeOK, Streams
    <3> QED
      BY <2>3, <3>1, <3>3
  <2>5. CASE logs = "drainErr"
    <3>1. "out" \in Streams /\ "err" \in Streams /\ Reads("err")
      BY <2>5 DEF Reads, Streams
    <3>2. "out" \notin scanning
      BY <2>5 DEF LogsIInv, EndOrder
    <3> QED
      BY <2>3, <3>1, <3>2
  <2>6. CASE logs = "offer"
    <3>1. \A s \in Streams : copier[s] # "running"
      BY <2>1, <2>6 DEF LogsIInv, EndOrder, Streams, CanCopy
    <3>2. reporter # "wait" /\ reporter # "receive"
      BY <2>6, <3>1 DEF CanWait, CanSend, Ending
    <3> QED
      BY <3>2 DEF LogsIInv, LogsTypeOK
  <2>7. CASE logs = "done"
    BY <2>7 DEF LogsIInv, EndOrder
  <2> QED
    BY <2>2, <2>4, <2>5, <2>6, <2>7 DEF LogsIInv, LogsTypeOK
<1> QED
  BY LogsInvariance, <1>1, PTL
(* What is left to do of a stream, and of all.  A line in the OS pipe has  *)
(* to be copied and to be received.                                        *)
OneIf(condition) == IF condition THEN 1 ELSE 0

LeftOf(s) ==
    Len(osPipe[s]) + Len(osPipe[s]) + Len(scanned[s])
        + OneIf(s \in scanning) + OneIf(copier[s] = "running")

LeftOfLogs ==
    CASE logs = "select" -> 4 [] logs = "drainOut" -> 3
      [] logs = "drainErr" -> 2 [] logs = "offer" -> 1 [] logs = "done" -> 0

LeftOfReporter ==
    CASE reporter = "wait" -> 2 [] reporter = "receive" -> 1
      [] reporter = "reported" -> 0

Left == LeftOf("out") + LeftOf("err") + LeftOfLogs + LeftOfReporter

(* At the end of the output every step brings the report nearer.           *)
EndsInSteps == [][Ending => Ending' /\ Left' < Left]_logsVars

(* There is a natural number of things to do.                              *)
LeftAreNats ==
    /\ \A s \in Streams : LeftOf(s) \in Nat
    /\ LeftOf("out") \in Nat /\ LeftOf("err") \in Nat
    /\ LeftOfLogs \in Nat /\ LeftOfReporter \in Nat /\ Left \in Nat

(* So it is, whatever the streams hold.                                    *)
LEMMA LeftIsNat == LogsTypeOK => LeftAreNats
<1> SUFFICES ASSUME LogsTypeOK PROVE LeftAreNats
  OBVIOUS
<1>1. ASSUME NEW s \in Streams PROVE LeftOf(s) \in Nat
  <2> DEFINE b == OneIf(s \in scanning)
             c == OneIf(copier[s] = "running")
             p == Len(osPipe[s])
             q == Len(scanned[s])
  <2>1. p \in Nat /\ q \in Nat
    BY StreamTypes, LenProperties
  <2>2. b \in Nat /\ c \in Nat
    BY DEF OneIf
  <2>3. LeftOf(s) = p + p + q + b + c
    BY DEF LeftOf
  <2> HIDE DEF b, c, p, q, LeftOf
  <2> QED
    BY <2>1, <2>2, <2>3
<1>2. LeftOfLogs \in Nat
  BY DEF LogsTypeOK, LeftOfLogs
<1>3. LeftOfReporter \in Nat
  BY DEF LogsTypeOK, LeftOfReporter
<1>4. LeftOf("out") \in Nat /\ LeftOf("err") \in Nat
  BY <1>1 DEF Streams
<1> QED
  BY <1>1, <1>2, <1>3, <1>4 DEF Left, LeftAreNats

(* So it is in the next state.                                             *)
LEMMA LeftIsNatNext == LogsTypeOK' => LeftAreNats'
BY LeftIsNat, PTL

(* Sums of numbers of which some are less.                                 *)
LEMMA LessSum ==
    ASSUME NEW b \in Nat, NEW c \in Nat, NEW c2 \in Nat, c2 < c
    PROVE  c2 + b < c + b
OBVIOUS

(* The same with two of four.                                             *)
LEMMA LessSums ==
    ASSUME NEW a \in Nat, NEW b \in Nat, NEW c \in Nat, NEW d \in Nat,
           NEW c2 \in Nat, NEW d2 \in Nat, c2 + d2 < c + d
    PROVE  a + b + c2 + d2 < a + b + c + d
OBVIOUS

(* A step of one stream that leaves less of it to do leaves less of all.   *)
LEMMA LessOfOne ==
    ASSUME LogsTypeOK, LogsTypeOK', NEW s \in Streams, LeftOf(s)' < LeftOf(s),
           \A t \in Streams : t # s =>
               /\ osPipe'[t] = osPipe[t] /\ scanned'[t] = scanned[t]
               /\ copier'[t] = copier[t]
               /\ t \in scanning' <=> t \in scanning,
           UNCHANGED <<logs, reporter>>
    PROVE  Left' < Left
<1>1. /\ LeftOfLogs' = LeftOfLogs /\ LeftOfReporter' = LeftOfReporter
      /\ \A t \in Streams : t # s => LeftOf(t)' = LeftOf(t)
  BY DEF LeftOfLogs, LeftOfReporter, LeftOf, OneIf
<1>2. /\ LeftOf("out") \in Nat /\ LeftOf("err") \in Nat
      /\ LeftOfLogs \in Nat /\ LeftOfReporter \in Nat
      /\ LeftOf("out")' \in Nat /\ LeftOf("err")' \in Nat
  BY LeftIsNat, LeftIsNatNext DEF LeftAreNats
<1>3. \/ LeftOf("out")' < LeftOf("out") /\ LeftOf("err")' = LeftOf("err")
      \/ LeftOf("err")' < LeftOf("err") /\ LeftOf("out")' = LeftOf("out")
  BY <1>1 DEF Streams
<1> QED
  BY <1>1, <1>2, <1>3 DEF Left

(* At the end of the output every step of a goroutine leaves less to do.   *)
THEOREM ReportComesNearer == LogsSpec => EndsInSteps
<1> DEFINE Nearer == Ending => Ending' /\ Left' < Left
<1>1. ASSUME LogsIInv, LogsIInv', [LogsNext]_logsVars
      PROVE  Nearer \/ UNCHANGED logsVars
  <2> SUFFICES ASSUME Ending, LogsNext PROVE Nearer \/ UNCHANGED logsVars
    BY <1>1
  <2>0. LogsTypeOK /\ LogsTypeOK'
    BY <1>1 DEF LogsIInv
  <2>1. ~alive /\ open = {}
    BY DEF Ending
  <2>2. ASSUME NEW s \in Streams, Copy(s) PROVE Nearer
    <3>1. PICK n \in 1..Len(osPipe[s]) :
              /\ scanned'[s] = SubSeq(osPipe[s], 1, n)
              /\ osPipe'[s] = SubSeq(osPipe[s], n + 1, Len(osPipe[s]))
      BY <2>0, <2>2 DEF Copy, LogsTypeOK
    <3>2. /\ scanned[s] = <<>>
          /\ UNCHANGED <<process, copier, scanning, logs, reporter>>
          /\ \A t \in Streams : t # s => /\ osPipe'[t] = osPipe[t]
                                         /\ scanned'[t] = scanned[t]
      BY <2>0, <2>2 DEF Copy, LogsTypeOK
    <3>3. /\ Len(osPipe[s]) \in Nat /\ n \in Nat /\ n >= 1
          /\ Len(osPipe'[s]) = Len(osPipe[s]) - n /\ Len(scanned'[s]) = n
          /\ Len(scanned[s]) = 0 /\ Len(osPipe'[s]) \in Nat
      <4>1. osPipe[s] \in Seq(Lines)
        BY <2>0, StreamTypes
      <4>2. /\ Len(osPipe[s]) \in Nat /\ n \in Nat
            /\ Len(SubSeq(osPipe[s], 1, n)) = n
            /\ Len(SubSeq(osPipe[s], n + 1, Len(osPipe[s])))
                 = Len(osPipe[s]) - n
        BY <4>1, Parted
      <4> QED
        BY <3>1, <3>2, <4>2, EmptySeq
    <3>4. OneIf(s \in scanning) \in Nat /\ OneIf(copier[s] = "running") \in Nat
      BY DEF OneIf
    <3>5. LeftOf(s)' < LeftOf(s)
      <4> DEFINE b == OneIf(s \in scanning)
                 c == OneIf(copier[s] = "running")
                 p == Len(osPipe[s])
      <4>1. LeftOf(s) = p + p + 0 + b + c
        BY <3>3 DEF LeftOf
      <4>2. LeftOf(s)' = (p - n) + (p - n) + n + b + c
        BY <3>2, <3>3 DEF LeftOf
      <4>3. b \in Nat /\ c \in Nat /\ p \in Nat /\ n \in Nat /\ n >= 1
        BY <3>3, <3>4
      <4> HIDE DEF b, c, p, LeftOf
      <4> QED
        BY <4>1, <4>2, <4>3
    <3> QED
      BY <2>0, <2>1, <3>2, <3>5, LessOfOne DEF Ending
  <2>3. ASSUME NEW s \in Streams, CopyFails(s) \/ CopyEnds(s) PROVE Nearer
    <3>1. /\ copier[s] = "running" /\ copier'[s] # "running"
          /\ osPipe'[s] = osPipe[s] \/ osPipe'[s] = <<>>
          /\ UNCHANGED <<process, scanned, scanning, logs, reporter>>
          /\ \A t \in Streams : t # s => /\ osPipe'[t] = osPipe[t]
                                         /\ copier'[t] = copier[t]
      BY <2>0, <2>3 DEF CopyFails, CopyEnds, LogsTypeOK
    <3>2. /\ Len(osPipe[s]) \in Nat /\ Len(scanned[s]) \in Nat
          /\ Len(osPipe'[s]) \in Nat /\ Len(osPipe'[s]) <= Len(osPipe[s])
      BY <2>0, <3>1, StreamTypes, LenProperties, EmptySeq
    <3>3. LeftOf(s)' < LeftOf(s)
      <4> DEFINE b == OneIf(s \in scanning)
                 p == Len(osPipe[s])
                 p2 == Len(osPipe'[s])
                 q == Len(scanned[s])
      <4>1. LeftOf(s) = p + p + q + b + 1
        BY <3>1 DEF LeftOf, OneIf
      <4>2. LeftOf(s)' = p2 + p2 + q + b + 0
        BY <3>1 DEF LeftOf, OneIf
      <4>3. p \in Nat /\ p2 \in Nat /\ q \in Nat /\ b \in Nat /\ p2 <= p
        BY <3>2 DEF OneIf
      <4> HIDE DEF b, p, p2, q, LeftOf
      <4> QED
        BY <4>1, <4>2, <4>3
    <3> QED
      BY <2>0, <2>1, <3>1, <3>3, LessOfOne DEF Ending
  <2>4. ASSUME NEW s \in Streams, ScanEnds(s) PROVE Nearer
    <3>1. /\ s \in scanning /\ s \notin scanning' /\ scanned'[s] = <<>>
          /\ UNCHANGED <<process, osPipe, copier, logs, reporter>>
          /\ \A t \in Streams : t # s =>
                 /\ scanned'[t] = scanned[t]
                 /\ t \in scanning' <=> t \in scanning
      BY <2>0, <2>4 DEF ScanEnds, LogsTypeOK
    <3>2. /\ Len(osPipe[s]) \in Nat /\ Len(scanned[s]) \in Nat
          /\ Len(scanned'[s]) = 0
      BY <2>0, <3>1, StreamTypes, LenProperties, EmptySeq
    <3>3. LeftOf(s)' < LeftOf(s)
      <4> DEFINE c == OneIf(copier[s] = "running")
                 p == Len(osPipe[s])
                 q == Len(scanned[s])
      <4>1. LeftOf(s) = p + p + q + 1 + c
        BY <3>1 DEF LeftOf, OneIf
      <4>2. LeftOf(s)' = p + p + 0 + 0 + c
        BY <3>1, <3>2 DEF LeftOf, OneIf
      <4>3. p \in Nat /\ q \in Nat /\ c \in Nat
        BY <3>2 DEF OneIf
      <4> HIDE DEF c, p, q, LeftOf
      <4> QED
        BY <4>1, <4>2, <4>3
    <3> QED
      BY <2>0, <2>1, <3>1, <3>3, LessOfOne DEF Ending
  <2>5. ASSUME NEW s \in Streams, Receive(s) PROVE Nearer
    <3>1. /\ scanned[s] # <<>> /\ scanned'[s] = Tail(scanned[s])
          /\ UNCHANGED <<process, osPipe, copier, scanning, logs, reporter>>
          /\ \A t \in Streams : t # s => scanned'[t] = scanned[t]
      BY <2>0, <2>5 DEF Receive, LogsTypeOK
    <3>2. /\ Len(osPipe[s]) \in Nat /\ Len(scanned[s]) \in Nat
          /\ Len(scanned'[s]) = Len(scanned[s]) - 1
      BY <2>0, <3>1, StreamTypes, LenProperties, HeadTail
    <3>3. LeftOf(s)' < LeftOf(s)
      <4> DEFINE b == OneIf(s \in scanning)
                 c == OneIf(copier[s] = "running")
                 p == Len(osPipe[s])
                 q == Len(scanned[s])
      <4>1. LeftOf(s) = p + p + q + b + c
        BY DEF LeftOf
      <4>2. LeftOf(s)' = p + p + (q - 1) + b + c
        BY <3>1, <3>2 DEF LeftOf
      <4>3. p \in Nat /\ q \in Nat /\ b \in Nat /\ c \in Nat
        BY <3>2 DEF OneIf
      <4> HIDE DEF b, c, p, q, LeftOf
      <4> QED
        BY <4>1, <4>2, <4>3
    <3> QED
      BY <2>0, <2>1, <3>1, <3>3, LessOfOne DEF Ending
  <2>6. ASSUME UNCHANGED <<process, pipes, scans>>,
               LeftOfLogs' + LeftOfReporter' < LeftOfLogs + LeftOfReporter
        PROVE  Nearer
    <3>1. LeftOf("out")' = LeftOf("out") /\ LeftOf("err")' = LeftOf("err")
      BY <2>6 DEF LeftOf, OneIf
    <3>2. /\ LeftOf("out") \in Nat /\ LeftOf("err") \in Nat
          /\ LeftOfLogs \in Nat /\ LeftOfReporter \in Nat
          /\ LeftOfLogs' \in Nat /\ LeftOfReporter' \in Nat
      BY <2>0, LeftIsNat, LeftIsNatNext DEF LeftAreNats
    <3>3. Left' < Left
      <4>1. LeftOfLogs' + LeftOfReporter' < LeftOfLogs + LeftOfReporter
        BY <2>6
      <4>2. Left' = LeftOf("out") + LeftOf("err")
                      + LeftOfLogs' + LeftOfReporter'
        BY <3>1 DEF Left
      <4>3. Left = LeftOf("out") + LeftOf("err")
                     + LeftOfLogs + LeftOfReporter
        BY DEF Left
      <4>4. LeftOf("out") + LeftOf("err") + LeftOfLogs' + LeftOfReporter'
              < LeftOf("out") + LeftOf("err") + LeftOfLogs + LeftOfReporter
        BY <3>2, <4>1, LessSums
      <4> QED
        BY <4>2, <4>3, <4>4
    <3> QED
      BY <2>1, <2>6, <3>3 DEF Ending
  <2>7. ASSUME NEW s \in Streams, ReceiveClosed(s) PROVE Nearer
    <3>1. /\ LeftOfLogs' < LeftOfLogs /\ LeftOfReporter' = LeftOfReporter
          /\ UNCHANGED <<process, pipes, scans>>
      BY <2>7 DEF ReceiveClosed, Reads, AfterClose, LeftOfLogs, LeftOfReporter
    <3>2. /\ LeftOfLogs \in Nat /\ LeftOfLogs' \in Nat
          /\ LeftOfReporter \in Nat
      BY <2>0, LeftIsNat, LeftIsNatNext DEF LeftAreNats
    <3>3. LeftOfLogs' + LeftOfReporter' < LeftOfLogs + LeftOfReporter
      <4>1. LeftOfLogs' < LeftOfLogs /\ LeftOfReporter' = LeftOfReporter
        BY <3>1
      <4>2. LeftOfLogs' + LeftOfReporter < LeftOfLogs + LeftOfReporter
        BY <3>2, <4>1, LessSum
      <4> QED
        BY <4>1, <4>2
    <3> QED
      BY <2>6, <3>1, <3>3
  <2>8. CASE WaitReturns
    <3>1. /\ LeftOfReporter = 2 /\ LeftOfReporter' = 1
          /\ LeftOfLogs' = LeftOfLogs /\ UNCHANGED <<process, pipes, scans>>
      BY <2>8 DEF WaitReturns, LeftOfLogs, LeftOfReporter
    <3>2. LeftOfLogs' + LeftOfReporter' < LeftOfLogs + LeftOfReporter
      BY <2>0, <3>1, LeftIsNat DEF LeftAreNats
    <3> QED
      BY <2>6, <3>1, <3>2
  <2>9. CASE SendExitErr
    <3>1. /\ LeftOfReporter = 1 /\ LeftOfReporter' = 0
          /\ LeftOfLogs = 1 /\ LeftOfLogs' = 0
          /\ UNCHANGED <<process, pipes, scans>>
      BY <2>9 DEF SendExitErr, LeftOfLogs, LeftOfReporter
    <3> QED
      BY <2>6, <3>1
  <2>10. CASE Die
    BY <2>1, <2>10 DEF Die
  <2>11. ASSUME NEW s \in Streams,
                CloseStream(s) \/ \E kind \in KindsOf(s) : Write(s, kind)
         PROVE  FALSE
    BY <2>1, <2>11 DEF CloseStream, Write
  <2>12. CASE Finished
    BY <2>12 DEF Finished
  <2> HIDE DEF Nearer
  <2> QED
    BY <2>2, <2>3, <2>4, <2>5, <2>7, <2>8, <2>9, <2>10, <2>11, <2>12
       DEF LogsNext
<1>2. LogsIInv /\ LogsIInv' /\ [LogsNext]_logsVars => [Nearer]_logsVars
  BY <1>1
<1> HIDE DEF Nearer
<1>3. LogsSpec => [][Nearer]_logsVars
  BY LogsInvariance, <1>2, PTL DEF LogsSpec
<1> QED
  BY <1>3 DEF EndsInSteps, Nearer
=============================================================================
