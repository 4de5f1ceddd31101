------------------------------- MODULE Agent -------------------------------
(***************************************************************************)
(* The agent's core: the Server state machine (agent/server/server.go),    *)
(* the StartEmulator, StopEmulator and SendInput handlers                  *)
(* (agent/server/controller.go) and the goroutines of each Emulator        *)
(* (agent/server/emulator/emulator.go), with the emulator process, its     *)
(* gRPC port and the adb server's device list around them.                 *)
(*                                                                         *)
(* Every gRPC handler, the heartbeat and the two emulator callbacks run    *)
(* under Server.mu.  A handler is one step, except where the world can     *)
(* move while it holds the lock: between cmd.Start and the assignments     *)
(* that follow it, between setting forceExitRequested and the kill, and    *)
(* during the two seconds of a SetVmState call.  Emulator.mu is only       *)
(* taken inside Server.mu, and alone by connect for one assignment, so it  *)
(* guards nothing that mu does not and is left out.                        *)
(*                                                                         *)
(* Bound: MaxStarts caps the emulator processes spawned in one agent life. *)
(***************************************************************************)
EXTENDS Integers

CONSTANTS MaxStarts,   (* bound on successful cmd.Start calls              *)
          None         (* nil, or nobody                                   *)

Emulators == 1..MaxStarts

ASSUME BoundIsNat == MaxStarts \in Nat
ASSUME NoneIsNoEmulator == None \notin Emulators

VARIABLES
    up,          (* the agent process lives                                *)
    mu,          (* what holds Server.mu between steps: a Start, a forced  *)
                 (* stop, a SetVmState call, or nobody                     *)
    state, stateError, emu,     (* Server; stateError: it is not nil       *)
    shown,       (* the state stateBroadcaster holds                       *)
    starts,      (* emulators spawned; emulator n is the nth               *)
    proc, exit,  (* each emulator process, and what cmd.Wait says of its   *)
                 (* end; "fail" is an exit code or a failed copy of output *)
    force,       (* Emulator.forceExitRequested                            *)
    watch,       (* where each emulator's watchEmulatorExit is             *)
    conn,        (* where each emulator's connect is                       *)
    port,        (* the process that serves gRPC on :8554                  *)
    device,      (* the emulator that adb lists as "device"                *)
    stopFailed   (* history: some Emulator.Stop returned an error          *)

server    == <<state, stateError, emu, shown>>
threads   == <<force, watch, conn>>
processes == <<proc, exit, port, device>>
history   == <<starts, stopFailed>>
vars == <<up, mu, server, threads, processes, history>>

Init ==
    /\ up = TRUE
    /\ mu = "free"
    /\ state = "Stopped" /\ stateError = FALSE /\ emu = None
    /\ shown = "Stopped"
    /\ proc = [e \in Emulators |-> "unborn"]
    /\ exit = [e \in Emulators |-> "none"]
    /\ force = [e \in Emulators |-> FALSE]
    /\ watch = [e \in Emulators |-> "unborn"]
    /\ conn = [e \in Emulators |-> "unborn"]
    /\ port = None /\ device = None
    /\ starts = 0 /\ stopFailed = FALSE

(* A definition named Mutant... is a bug the code does not have, for       *)
(* testing the properties; nothing refers to it.                           *)

(* Some step finds Server.mu free, takes it and releases it.               *)
Locked == up /\ mu = "free" /\ mu' = "free"
Acquire(holder) == up /\ mu = "free" /\ mu' = holder
MutantNeverReleased(holder) == up /\ mu = holder /\ mu' = mu
Release(holder) == up /\ mu = holder /\ mu' = "free"

(* Emulator.controller is set.                                             *)
HasController(e) == conn[e] \in {"adb", "root", "started", "done"}

(* Spawned, and its exit not yet reported to the Server.                   *)
Unreported(e) == watch[e] \notin {"unborn", "done"}
-----------------------------------------------------------------------------
(* StartEmulator.  A request while the state is Starting or Running is     *)
(* refused and changes nothing.                                            *)

MutantMayStartUnlessRunning == state # "Running"
MayStart == state \in {"Stopped", "Error"}

(* A step before or at cmd.Start fails.                                    *)
StartEmulatorFail ==
    /\ Locked
    /\ MayStart
    /\ state' = "Error" /\ stateError' = TRUE /\ emu' = None
    /\ UNCHANGED <<up, shown, threads, processes, history>>

(* cmd.Start succeeds and the goroutines of the emulator are started.      *)
StartEmulatorSpawn ==
    LET e == starts + 1 IN
    /\ Acquire("start")
    /\ MayStart
    /\ e \in Emulators
    /\ starts' = e
    /\ proc' = [proc EXCEPT ![e] = "alive"]
    /\ watch' = [watch EXCEPT ![e] = "wait"]
    /\ conn' = [conn EXCEPT ![e] = "dial"]
    /\ UNCHANGED <<up, server, force, exit, port, device, stopFailed>>

MutantReturnShowsNil == shown' = None
ReturnAnnounced == shown' = "Starting"

StartEmulatorReturn ==
    /\ Release("start")
    /\ state' = "Starting" /\ stateError' = FALSE /\ emu' = starts
    /\ ReturnAnnounced
    /\ UNCHANGED <<up, threads, processes, history>>
-----------------------------------------------------------------------------
(* StopEmulator, in state Running.  In other states it is refused.         *)

MutantStopErrorLost == stateError' = stateError
StopErrorKept == stateError' = TRUE

(* Emulator.Stop returns an error.                                         *)
StopFails ==
    /\ state' = "Error" /\ StopErrorKept /\ emu' = None
    /\ stopFailed' = TRUE
    /\ UNCHANGED <<up, shown, threads, processes, starts>>

MutantForgetForce == UNCHANGED force
NoteForce == force' = [force EXCEPT ![emu] = TRUE]

StopForce ==
    /\ Acquire("force")
    /\ state = "Running" /\ emu # None
    /\ NoteForce
    /\ UNCHANGED <<up, server, watch, conn, processes, history>>

(* The death of e takes its port and its adb device with it.               *)
Dies(e, how) ==
    /\ proc' = [proc EXCEPT ![e] = "zombie"]
    /\ exit' = [exit EXCEPT ![e] = how]
    /\ port' = IF port = e THEN None ELSE port
    /\ device' = IF device = e THEN None ELSE device

(* syscall.Kill(-pid, SIGKILL) finds something in the process group: the   *)
(* emulator itself, alive or not yet reaped, or children that outlive it.  *)
StopKill ==
    /\ Release("force")
    /\ \/ proc[emu] = "alive" /\ Dies(emu, "forced")
       \/ proc[emu] \in {"zombie", "reaped"} /\ UNCHANGED processes
    /\ UNCHANGED <<up, server, threads, history>>

(* ... finds nothing after watchEmulatorExit has reaped it: ESRCH.         *)
StopKillNoProcess ==
    /\ Release("force")
    /\ proc[emu] = "reaped"
    /\ StopFails

StopNotReady ==
    /\ Locked
    /\ state = "Running" /\ emu # None
    /\ ~HasController(emu)
    /\ StopFails

StopRequestExit ==
    /\ Acquire("exit")
    /\ state = "Running" /\ emu # None
    /\ HasController(emu)
    /\ UNCHANGED <<up, server, threads, processes, history>>

StopExitAnswered ==
    /\ Release("exit")
    /\ port # None
    /\ UNCHANGED <<up, server, threads, processes, history>>

(* The call fails or its two seconds are over.                             *)
StopExitFails ==
    /\ Release("exit")
    /\ StopFails

(* StopEmulator and SendInput call a method of a nil *Emulator, which      *)
(* takes the whole process down.                                           *)
NilEmulator ==
    /\ Locked
    /\ state \in {"Starting", "Running"} /\ emu = None
    /\ up' = FALSE
    /\ UNCHANGED <<server, threads, processes, history>>
-----------------------------------------------------------------------------
MutantSkipErrors == shown' = IF state = "Error" THEN shown ELSE state
ShowState == shown' = state

Heartbeat ==
    /\ Locked
    /\ ShowState
    /\ UNCHANGED <<up, state, stateError, emu, threads, processes, history>>
-----------------------------------------------------------------------------
(* watchEmulatorExit: cmd.Wait, the last error from processLogs, the       *)
(* verdict, the callback.  The flag is read without Emulator.mu.           *)

WatchReap(e) ==
    /\ up
    /\ watch[e] = "wait" /\ proc[e] = "zombie"
    /\ proc' = [proc EXCEPT ![e] = "reaped"]
    /\ watch' = [watch EXCEPT ![e] = "drain"]
    /\ UNCHANGED <<up, mu, server, force, conn, exit, port, device, history>>

CleanExit(e) ==
    \/ exit[e] = "clean"
    \/ force[e] /\ exit[e] \in {"sigkill", "forced"}

WatchLastError(e) ==
    /\ up
    /\ watch[e] = "drain"
    /\ watch' = [watch EXCEPT ![e] = IF CleanExit(e) THEN "clean" ELSE "failed"]
    /\ UNCHANGED <<up, mu, server, force, conn, processes, history>>

MutantExitUnlocked == up /\ mu' = mu
ExitLocked == Locked

(* The callback says nothing of which emulator exited.                     *)
OnEmulatorExit(e) ==
    /\ ExitLocked
    /\ watch[e] \in {"clean", "failed"}
    /\ state' = IF watch[e] = "clean" THEN "Stopped" ELSE "Error"
    /\ stateError' = (watch[e] = "failed")
    /\ shown' = state'
    /\ watch' = [watch EXCEPT ![e] = "done"]
    /\ UNCHANGED <<up, emu, force, conn, processes, history>>
-----------------------------------------------------------------------------
(* connect: grpc.Dial blocks until something serves :8554, WaitForEmulator *)
(* until adb lists a device; neither looks at whose it is.                 *)

Connecting(e, from, to) ==
    /\ up
    /\ conn[e] = from
    /\ conn' = [conn EXCEPT ![e] = to]
    /\ UNCHANGED <<up, mu, server, force, watch, history>>

ConnDial(e) ==
    /\ port # None
    /\ Connecting(e, "dial", "status")
    /\ UNCHANGED processes

ConnStatus(e) ==
    /\ port # None
    /\ Connecting(e, "status", "adb")
    /\ UNCHANGED processes

ConnAdb(e) ==
    /\ device # None
    /\ \E next \in {"root", "started"} : Connecting(e, "adb", next)
    /\ UNCHANGED processes

(* adbd may restart as root, which drops the device for a while.           *)
ConnRoot(e) ==
    /\ device # None
    /\ Connecting(e, "root", "started")
    /\ device' \in {device, None}
    /\ UNCHANGED <<proc, exit, port>>

(* GetStatus or an adb exchange fails: log.Fatal ends the agent.           *)
ConnFatal(e) ==
    /\ up
    /\ conn[e] \in {"status", "adb", "root"}
    /\ up' = FALSE
    /\ UNCHANGED <<mu, server, threads, processes, history>>

OnEmulatorStarted(e) ==
    /\ Locked
    /\ conn[e] = "started"
    /\ conn' = [conn EXCEPT ![e] = "done"]
    /\ state' = "Running" /\ shown' = "Running"
    /\ UNCHANGED <<up, stateError, emu, force, watch, processes, history>>
-----------------------------------------------------------------------------
(* The emulator processes, which are not under src/.                       *)

World == <<up, mu, server, threads, history>>

ProcExit(e, how) ==
    /\ proc[e] = "alive"
    /\ Dies(e, how)
    /\ UNCHANGED World

GrpcServe(e) ==
    /\ proc[e] = "alive" /\ port = None
    /\ port' = e
    /\ UNCHANGED <<World, proc, exit, device>>

AdbAttach(e) ==
    /\ proc[e] = "alive" /\ device = None
    /\ device' = e
    /\ UNCHANGED <<World, proc, exit, port>>

AdbDetach ==
    /\ device # None
    /\ device' = None
    /\ UNCHANGED <<World, proc, exit, port>>
-----------------------------------------------------------------------------
Start == StartEmulatorFail \/ StartEmulatorSpawn \/ StartEmulatorReturn

Stop ==
    \/ StopForce \/ StopKill \/ StopKillNoProcess
    \/ StopNotReady
    \/ StopRequestExit \/ StopExitAnswered \/ StopExitFails

Watch(e) == WatchReap(e) \/ WatchLastError(e) \/ OnEmulatorExit(e)

Connect(e) ==
    \/ ConnDial(e) \/ ConnStatus(e) \/ ConnAdb(e) \/ ConnRoot(e)
    \/ ConnFatal(e)
    \/ OnEmulatorStarted(e)

Process(e) ==
    \/ \E how \in {"clean", "fail", "sigkill"} : ProcExit(e, how)
    \/ GrpcServe(e)
    \/ AdbAttach(e)

(* Nothing restarts an agent that has died.                                *)
Down == ~up /\ UNCHANGED vars

Next ==
    \/ Start \/ Stop \/ NilEmulator \/ Heartbeat
    \/ \E e \in Emulators : Watch(e) \/ Connect(e) \/ Process(e)
    \/ AdbDetach
    \/ Down

Spec == Init /\ [][Next]_vars

(* A handler that holds mu runs on: SetVmState has a timeout, and the      *)
(* steps after cmd.Start and after the flag do not block.  cmd.Wait        *)
(* returns after the process is gone, and processLogs then delivers the    *)
(* last error.  The heartbeat and the exit callback compete for mu, which  *)
(* sync.Mutex hands to whoever has waited for a millisecond.  The process, *)
(* clients, gRPC and adb are under no obligation.                          *)
Fairness ==
    /\ WF_vars(StartEmulatorReturn)
    /\ WF_vars(StopKill \/ StopKillNoProcess)
    /\ WF_vars(StopExitAnswered \/ StopExitFails)
    /\ SF_vars(Heartbeat)
    /\ \A e \in Emulators :
        /\ WF_vars(WatchReap(e))
        /\ WF_vars(WatchLastError(e))
        /\ SF_vars(OnEmulatorExit(e))

FairSpec == Spec /\ Fairness
-----------------------------------------------------------------------------
TypeOK ==
    /\ up \in BOOLEAN
    /\ mu \in {"free", "start", "force", "exit"}
    /\ state \in {"Error", "Stopped", "Starting", "Running"}
    /\ stateError \in BOOLEAN
    /\ emu \in Emulators \cup {None}
    /\ shown \in {"Error", "Stopped", "Starting", "Running"}
    /\ starts \in 0..MaxStarts
    /\ proc \in [Emulators -> {"unborn", "alive", "zombie", "reaped"}]
    /\ exit \in [Emulators -> {"none", "clean", "fail", "sigkill", "forced"}]
    /\ force \in [Emulators -> BOOLEAN]
    /\ watch \in [Emulators -> {"unborn", "wait", "drain", "clean", "failed",
                                "done"}]
    /\ conn \in [Emulators -> {"unborn", "dial", "status", "adb", "root",
                               "started", "done"}]
    /\ port \in Emulators \cup {None}
    /\ device \in Emulators \cup {None}
    /\ stopFailed \in BOOLEAN

(* broadcastState calls stateError.Error() in state Error, from the        *)
(* heartbeat too: a nil there would take the agent down.                   *)
ErrorHasMessage == state = "Error" => stateError

(* As long as no stop has failed, an emulator that may still be alive, or  *)
(* whose exit is still to be reported, is the Server's current one: no two *)
(* run side by side, and no exit is charged to another emulator.           *)
UnreportedIsCurrent ==
    ~stopFailed =>
        \A e \in Emulators : Unreported(e) =>
            e = (IF mu = "start" THEN starts ELSE emu)

(* The verdict on an exit: a kill asked for by StopEmulator is not an      *)
(* error, whichever goroutine is faster, and one nobody asked for is.      *)
ForcedExitIsClean ==
    \A e \in Emulators :
        /\ exit[e] = "forced" => watch[e] # "failed"
        /\ exit[e] = "sigkill" /\ watch[e] = "clean" => force[e]

(* The callback of an emulator that dies at once waits for StartEmulator,  *)
(* which therefore never replaces a reported exit by Starting.             *)
StartingIsNotStale ==
    state = "Starting" => emu # None /\ Unreported(emu)

(* The end of an emulator process reaches the Server.                      *)
ExitReported ==
    \A e \in Emulators : proc[e] = "zombie" ~> watch[e] = "done" \/ ~up

(* A state that lasts is announced.                                        *)
StateShown ==
    \A s \in {"Error", "Stopped", "Starting", "Running"} :
        state = s ~> shown = s \/ state # s \/ ~up
-----------------------------------------------------------------------------
(* What agent.proto says, and the code does not do.                        *)

(* agent.proto:14 "An error will be returned if the emulator is already    *)
(* running."                                                               *)
AtMostOneEmulator ==
    \A e, f \in Emulators : proc[e] = "alive" /\ proc[f] = "alive" => e = f

(* agent.proto:66 "The emulator is running and adb has connected."  Once   *)
(* its exit has been reported, the Server knows better.                    *)
RunningHasEmulator == state = "Running" => emu # None /\ Unreported(emu)

(* agent.proto:10-12 "An initial value will be immediately produced with   *)
(* the current agent state."  A failed start or stop sets Error and does   *)
(* not broadcast it (controller.go:51-54, 80-84): until the heartbeat,     *)
(* whoever subscribes gets the state before.  How far the disagreement     *)
(* goes: no other state is ever kept from a subscriber.                    *)
OnlyErrorsGoUnannounced == shown # state => state = "Error"
=============================================================================
