------------------------------- MODULE Tracer -------------------------------
(***************************************************************************)
(* How an injected init process gets a device agent into zygote: the       *)
(* injector's two processes (init-injector/src/main.rs), the event loop of *)
(* its tracer (init-injector/src/tracer.rs), the device agents that it     *)
(* spawns (device-agent/src/main.rs, ptrace.rs), and what the kernel       *)
(* promises of the processes that they trace.                              *)
(*                                                                         *)
(* A traced process stops at a fork, an exec, a signal and, while it is    *)
(* resumed with PTRACE_SYSCALL, at a system call; it stays stopped until   *)
(* its tracer resumes it.  waitpid(-1) reports the stops of different      *)
(* processes in any order: a new child, which is traced from birth and     *)
(* stops before its first instruction, may be seen before or after the     *)
(* fork event of its parent.  PTRACE_DETACH fails unless the process is    *)
(* stopped, and drops what it had to report.                               *)
(*                                                                         *)
(* A thread made by clone is a process forked.  Assumed of the world: pids *)
(* are given in order and not used again (should_detach keeps the pid of a *)
(* process that has exited), init forks after it has mounted /proc, one    *)
(* zygote is alive at a time, and frida's own calls succeed.               *)
(*                                                                         *)
(* Bounds: MaxPid is the last pid there is; one cause of a panic at a time *)
(* is waiting to be reported.                                              *)
(***************************************************************************)
EXTENDS Naturals

CONSTANT MaxPid

ASSUME MaxPidIsNat == MaxPid \in Nat \ {0}

None == 0
Init == 1
Pids == 2..MaxPid
All  == 1..MaxPid

VARIABLES
    tracer,       (* where the injector's child is                         *)
    awaited,      (* the zygote that it waits for by pid                   *)
    foundProc,    (* found_proc                                            *)
    shouldDetach, (* should_detach                                         *)
    mounted,      (* init has mounted /proc                                *)
    run, image,   (* each process: whether it runs, and what               *)
    parent,       (* who has forked it                                     *)
    tracedBy,     (* who traces it                                         *)
    resumed,      (* how it was last resumed                               *)
    report,       (* what waitpid has to say of it                         *)
    agent         (* the device agent spawned for it                       *)

loop   == <<awaited, foundProc, shouldDetach>>
family == <<image, parent>>
traced == <<run, tracedBy, resumed, report>>
vars == <<tracer, loop, mounted, family, traced, agent>>

Start ==
    /\ tracer = "seize" /\ awaited = None
    /\ foundProc = FALSE /\ shouldDetach = {} /\ mounted = FALSE
    /\ run = [p \in All |-> IF p = Init THEN "parked" ELSE "none"]
    /\ image = [p \in All |-> IF p = Init THEN "injector" ELSE "forked"]
    /\ parent = [p \in All |-> None]
    /\ tracedBy = [p \in All |-> "nobody"]
    /\ resumed = [p \in All |-> "cont"]
    /\ report = [p \in All |-> "none"]
    /\ agent = [p \in All |-> "none"]

Alive(p) == run[p] \notin {"none", "dead"}
Goes(p) == run[p] = "running" /\ tracer # "panic"
Traced(p) == Goes(p) /\ tracedBy[p] = "tracer"
-----------------------------------------------------------------------------
(* The processes under the kernel.  Of those that nobody traces, only a    *)
(* zygote's end matters.                                                   *)

PanicComes == \E p \in All : report[p] \in {"vfork", "signaled"}

Stops(p, why) ==
    /\ Traced(p)
    /\ why = "syscall" => resumed[p] = "syscall"
    /\ why = "vfork" => ~PanicComes
    /\ run' = [run EXCEPT ![p] = "stopped"]
    /\ report' = [report EXCEPT ![p] = why]
    /\ UNCHANGED <<tracer, loop, mounted, family, tracedBy, resumed, agent>>

Mounts ==
    /\ Traced(Init) /\ resumed[Init] = "syscall" /\ image[Init] = "init"
    /\ ~mounted /\ mounted' = TRUE
    /\ run' = [run EXCEPT ![Init] = "stopped"]
    /\ report' = [report EXCEPT ![Init] = "syscall"]
    /\ UNCHANGED <<tracer, loop, family, tracedBy, resumed, agent>>

Forks(p, c) ==
    /\ Traced(p)
    /\ run[c] = "none" /\ \A d \in Pids : d < c => run[d] # "none"
    /\ p = Init => mounted
    /\ run' = [run EXCEPT ![p] = "stopped", ![c] = "newborn"]
    /\ tracedBy' = [tracedBy EXCEPT ![c] = "tracer"]
    /\ report' = [report EXCEPT ![p] = "fork"]
    /\ parent' = [parent EXCEPT ![c] = p]
    /\ UNCHANGED <<tracer, loop, mounted, image, resumed, agent>>

NewStops(c) ==
    /\ run[c] = "newborn" /\ tracer # "panic"
    /\ run' = [run EXCEPT ![c] = "stopped"]
    /\ report' = [report EXCEPT ![c] = "new"]
    /\ UNCHANGED <<tracer, loop, mounted, family, tracedBy, resumed, agent>>

NoZygote == \A p \in Pids : image[p] = "zygote" => ~Alive(p)

(* Init replaces the injector, and later itself; a child of init may       *)
(* become zygote.  Nobody notices an exec of a process nobody traces.      *)
Execs(p, what) ==
    /\ Goes(p) /\ image[p] \notin {"service", "zygote"}
    /\ CASE p = Init -> what = "init"
         [] what = "zygote" -> parent[p] = Init /\ NoZygote
         [] OTHER -> what = "service"
    /\ image' = [image EXCEPT ![p] = what]
    /\ IF tracedBy[p] = "tracer"
         THEN /\ run' = [run EXCEPT ![p] = "stopped"]
              /\ report' = [report EXCEPT ![p] = "exec"]
         ELSE UNCHANGED <<run, report>>
    /\ UNCHANGED <<tracer, loop, mounted, parent, tracedBy, resumed, agent>>

Dies(p, how) ==
    /\ p # Init /\ Alive(p) /\ tracer # "panic"
    /\ tracedBy[p] # "nobody" \/ image[p] = "zygote"
    /\ how = "exited" => run[p] = "running"
    /\ how = "signaled" => ~PanicComes
    /\ run' = [run EXCEPT ![p] = "dead"]
    /\ report' = [report EXCEPT ![p] =
                    IF tracedBy[p] = "tracer" THEN how ELSE "none"]
    /\ tracedBy' = [tracedBy EXCEPT ![p] = "nobody"]
    /\ UNCHANGED <<tracer, loop, mounted, family, resumed, agent>>
-----------------------------------------------------------------------------
(* The tracer and the pipe on which init waits for it.                     *)

Seize ==
    /\ tracer = "seize" /\ tracer' = "unpark"
    /\ tracedBy' = [tracedBy EXCEPT ![Init] = "tracer"]
    /\ UNCHANGED <<loop, mounted, family, run, resumed, report, agent>>

Unpark ==
    /\ tracer = "unpark" /\ tracer' = "loop"
    /\ run' = [run EXCEPT ![Init] = "running"]
    /\ UNCHANGED <<loop, mounted, family, tracedBy, resumed, report, agent>>

Seen(p) == tracer = "loop" /\ report[p] # "none"

Resume(p, found) ==
    /\ run' = [run EXCEPT ![p] = "running"]
    /\ resumed' = [resumed EXCEPT ![p] = IF found THEN "cont" ELSE "syscall"]
    /\ report' = [report EXCEPT ![p] = "none"]
    /\ UNCHANGED tracedBy

Detach(p) ==
    /\ run' = [run EXCEPT ![p] = "running"]
    /\ tracedBy' = [tracedBy EXCEPT ![p] = "nobody"]
    /\ report' = [report EXCEPT ![p] = "none"]
    /\ UNCHANGED resumed

(* wait_for_event drops an exit.                                           *)
Reap(p) ==
    /\ Seen(p) /\ report[p] = "exited"
    /\ report' = [report EXCEPT ![p] = "none"]
    /\ UNCHANGED <<tracer, loop, mounted, family, run, tracedBy, resumed,
                   agent>>

(* wait_for_event has unimplemented! for a kill by a signal, as has the    *)
(* loop for a vfork.  The panic hook never returns (main.rs:20-23), and    *)
(* what happens after it is left out.                                      *)
Panics(p) ==
    /\ Seen(p)
    /\ \/ report[p] = "signaled"
       \/ report[p] = "vfork" /\ p \notin shouldDetach
    /\ tracer' = "panic"
    /\ UNCHANGED <<loop, mounted, family, traced, agent>>

(* wait_for_event has unimplemented! for Continued too: somebody's SIGCONT *)
(* has set p going, which waitpid says as long as p runs and is traced.    *)
PanicsAtContinued(p) ==
    /\ tracer = "loop" /\ Traced(p)
    /\ tracer' = "panic"
    /\ UNCHANGED <<loop, mounted, family, traced, agent>>

LooksForProc(p) == foundProc \/ (report[p] = "syscall" /\ mounted)

(* Whatever a marked process has to report, it is let go and the event     *)
(* itself is not looked at.                                                *)
LateDetach(p) ==
    /\ Seen(p) /\ p \in shouldDetach
    /\ report[p] \notin {"exited", "signaled"}
    /\ foundProc' = LooksForProc(p)
    /\ shouldDetach' = shouldDetach \ {p}
    /\ Detach(p)
    /\ UNCHANGED <<tracer, awaited, mounted, family, agent>>

Handles(p, what) ==
    /\ Seen(p) /\ p \notin shouldDetach /\ report[p] \in what
    /\ UNCHANGED <<mounted, family>>

ResumeStop(p) ==
    /\ Handles(p, {"new", "signal", "syscall"})
    /\ foundProc' = LooksForProc(p)
    /\ Resume(p, foundProc')
    /\ UNCHANGED <<tracer, awaited, shouldDetach, agent>>

(* Twin of Deep for a tracer that follows nobody.                          *)
MutantDeep(p) == TRUE
Deep(p) == p # Init

ForkOfInit(p) ==
    /\ ~Deep(p) /\ Handles(p, {"fork"})
    /\ Resume(p, foundProc)
    /\ UNCHANGED <<tracer, loop, agent>>

CanDetach(c) == run[c] = "stopped" /\ tracedBy[c] = "tracer"

(* Twin of MarkLate for a tracer that drops the error of its detach.       *)
MutantNeverMark(c) == shouldDetach
MarkLate(c) == shouldDetach \cup {c}

(* getevent: the child of the fork that p is stopped at, its last.         *)
NewChild(p) ==
    CHOOSE c \in Pids :
        parent[c] = p /\ \A d \in Pids : parent[d] = p => d <= c

(* The child of a child is not followed.                                   *)
ForkOfOther(p) ==
    /\ Deep(p) /\ Handles(p, {"fork"})
    /\ LET c == NewChild(p) IN
       IF CanDetach(c)
         THEN /\ run' = [run EXCEPT ![p] = "running", ![c] = "running"]
              /\ tracedBy' = [tracedBy EXCEPT ![c] = "nobody"]
              /\ report' = [report EXCEPT ![p] = "none", ![c] = "none"]
              /\ shouldDetach' = shouldDetach
         ELSE /\ run' = [run EXCEPT ![p] = "running"]
              /\ report' = [report EXCEPT ![p] = "none"]
              /\ shouldDetach' = MarkLate(c)
              /\ UNCHANGED tracedBy
    /\ resumed' = [resumed EXCEPT ![p] =
                     IF foundProc THEN "cont" ELSE "syscall"]
    /\ UNCHANGED <<tracer, awaited, foundProc, agent>>

IsZygote(p) == image[p] = "zygote"

ExecOfInit(p) ==
    /\ p = Init \/ ~foundProc
    /\ Handles(p, {"exec"})
    /\ Resume(p, foundProc)
    /\ UNCHANGED <<tracer, loop, agent>>

ExecOfService(p) ==
    /\ p # Init /\ foundProc /\ ~IsZygote(p)
    /\ Handles(p, {"exec"})
    /\ Detach(p)
    /\ UNCHANGED <<tracer, loop, agent>>

ExecOfZygote(p) ==
    /\ p # Init /\ foundProc /\ IsZygote(p)
    /\ Handles(p, {"exec"})
    /\ Resume(p, FALSE)
    /\ tracer' = "await" /\ awaited' = p
    /\ UNCHANGED <<foundProc, shouldDetach, agent>>

(* Whatever zygote stops for, it is paused for a device agent; a signal    *)
(* that it stopped for is lost.                                            *)
HandOver(z) ==
    /\ tracer = "await" /\ z = awaited
    /\ report[z] \notin {"none", "exited", "signaled"}
    /\ tracer' = "loop" /\ awaited' = None
    /\ run' = [run EXCEPT ![z] = "paused"]
    /\ tracedBy' = [tracedBy EXCEPT ![z] = "nobody"]
    /\ report' = [report EXCEPT ![z] = "none"]
    /\ agent' = [agent EXCEPT ![z] = "spawn"]
    /\ UNCHANGED <<foundProc, shouldDetach, mounted, family, resumed>>

HandOverPanics(z) ==
    /\ tracer = "await" /\ z = awaited
    /\ report[z] \in {"exited", "signaled"}
    /\ tracer' = "panic"
    /\ UNCHANGED <<loop, mounted, family, traced, agent>>
-----------------------------------------------------------------------------
(* The device agents.  None of them ever ends.                             *)

AgentStep(z, from, to) ==
    /\ tracer # "panic"
    /\ agent[z] = from /\ agent' = [agent EXCEPT ![z] = to]
    /\ UNCHANGED <<tracer, loop, mounted, family>>

(* The process forked for z does chroot, open, write_all and execve; any   *)
(* of them may fail, and its panic hook then keeps it for ever.  The file  *)
(* of an agent that runs cannot be opened for writing.                     *)
FileBusy == \E y \in Pids : agent[y] \notin {"none", "spawn", "unspawned"}

Spawn(z) ==
    /\ ~FileBusy /\ AgentStep(z, "spawn", "seize")
    /\ UNCHANGED traced

SpawnFails(z) ==
    /\ AgentStep(z, "spawn", "unspawned")
    /\ UNCHANGED traced

(* Seize, wait for the pause, SIGCONT, and on to the next system call.     *)
AgentSeizes(z) ==
    /\ run[z] = "paused" /\ AgentStep(z, "seize", "hunt")
    /\ run' = [run EXCEPT ![z] = "running"]
    /\ tracedBy' = [tracedBy EXCEPT ![z] = "agent"]
    /\ UNCHANGED <<resumed, report>>

(* Stops at other system calls, signals and events are resumed at once and *)
(* left out; at a poll the call is made to fail with EINTR.                *)
Polls(z) ==
    /\ run[z] = "running" /\ AgentStep(z, "hunt", "inject")
    /\ run' = [run EXCEPT ![z] = "stopped"]
    /\ UNCHANGED <<tracedBy, resumed, report>>

(* Twin of LetsGo for an agent that forgets its detach.                    *)
MutantKeeps(z) == UNCHANGED traced
LetsGo(z) ==
    /\ run' = [run EXCEPT ![z] = "running"]
    /\ tracedBy' = [tracedBy EXCEPT ![z] = "nobody"]
    /\ UNCHANGED <<resumed, report>>

Injects(z) ==
    /\ run[z] = "stopped" /\ AgentStep(z, "inject", "active")
    /\ LetsGo(z)

(* Zygote died first: the agent panics or waits for it for ever.           *)
AgentLoses(z) ==
    /\ run[z] = "dead"
    /\ \E from \in {"seize", "hunt", "inject"} : AgentStep(z, from, "lost")
    /\ UNCHANGED traced
-----------------------------------------------------------------------------
AgentNext(z) ==
    \/ Spawn(z) \/ SpawnFails(z) \/ AgentSeizes(z) \/ Polls(z)
    \/ Injects(z) \/ AgentLoses(z)

Handle(p) ==
    \/ Reap(p) \/ Panics(p) \/ LateDetach(p) \/ ResumeStop(p)
    \/ ForkOfInit(p) \/ ForkOfOther(p)
    \/ ExecOfInit(p) \/ ExecOfService(p) \/ ExecOfZygote(p)

Tell(z) == HandOver(z) \/ HandOverPanics(z)

World ==
    \/ \E p \in All, why \in {"syscall", "signal", "vfork"} : Stops(p, why)
    \/ \E p \in All : PanicsAtContinued(p)
    \/ Mounts
    \/ \E p \in All, c \in Pids : Forks(p, c)
    \/ \E c \in Pids : NewStops(c)
    \/ \E p \in All, what \in {"init", "service", "zygote"} : Execs(p, what)
    \/ \E p \in Pids, how \in {"exited", "signaled"} : Dies(p, how)

Next ==
    \/ World \/ Seize \/ Unpark
    \/ \E p \in All : Handle(p)
    \/ \E z \in Pids : Tell(z) \/ AgentNext(z)

Spec == Start /\ [][Next]_vars

(* A waitpid in a loop gets to every stop; the agents and the kernel go    *)
(* on; and a zygote that is being started makes a system call.  Nothing is *)
(* asked of other processes.                                               *)
FairSpec ==
    /\ Spec
    /\ \A p \in All : WF_vars(Handle(p))
    /\ \A z \in Pids :
         /\ WF_vars(Tell(z)) /\ WF_vars(AgentNext(z))
         /\ WF_vars(awaited = z /\ Stops(z, "syscall"))
-----------------------------------------------------------------------------
(* What each part of the tracers and the kernel can be.  Only a stopped or *)
(* dead process has something to report, only children of children are     *)
(* ever marked, and an agent traces its zygote only until it has injected. *)
TypeOK ==
    /\ tracer \in {"seize", "unpark", "loop", "await", "panic"}
    /\ awaited \in Pids \cup {None}
    /\ tracer = "await" => awaited \in Pids
    /\ foundProc \in BOOLEAN /\ mounted \in BOOLEAN
    /\ shouldDetach \subseteq {c \in Pids : parent[c] \in Pids}
    /\ run \in [All -> {"parked", "none", "newborn", "running", "stopped",
                         "paused", "dead"}]
    /\ image \in [All -> {"injector", "init", "forked", "service", "zygote"}]
    /\ parent \in [All -> All \cup {None}]
    /\ tracedBy \in [All -> {"nobody", "tracer", "agent"}]
    /\ resumed \in [All -> {"cont", "syscall"}]
    /\ report \in [All -> {"none", "new", "fork", "exec", "syscall", "signal",
                            "vfork", "exited", "signaled"}]
    /\ agent \in [All -> {"none", "spawn", "unspawned", "seize", "hunt",
                           "inject", "active", "lost"}]
    /\ \A p \in All :
         /\ report[p] # "none" => run[p] \in {"stopped", "dead"}
         /\ tracedBy[p] = "agent" => agent[p] \in {"hunt", "inject"}

(* A child of init that becomes zygote is never let go without a device    *)
(* agent: until then the tracer has its exec before it, or waits for it.   *)
ZygoteTakenOver ==
    \A z \in Pids : image[z] = "zygote" /\ Alive(z) =>
        \/ agent[z] # "none"
        \/ /\ tracedBy[z] = "tracer"
           /\ report[z] = "exec" \/ awaited = z

(* "No need to track deeper than 1 level": while a child of init is traced *)
(* itself, each child of its own that is traced is one that the tracer has *)
(* still to hear of or has marked for a late detach, in whatever order the *)
(* stop of the new process and the fork event are seen.  It says nothing   *)
(* of a process let go in the middle of a fork: its child stays traced.    *)
GrandchildAccounted ==
    \A c \in Pids :
        /\ parent[c] \in Pids
        /\ tracedBy[c] = "tracer" /\ tracedBy[parent[c]] = "tracer"
        => \/ report[parent[c]] = "fork" /\ NewChild(parent[c]) = c
           \/ c \in shouldDetach

=============================================================================
