---------------------------- MODULE TracerProofs ---------------------------
(***************************************************************************)
(* The invariants of Tracer, for any number of processes.                  *)
(***************************************************************************)
EXTENDS Tracer, TLAPS

(* All that the proofs need to know of pids.                               *)
LEMMA PidFacts ==
    /\ All = Pids \cup {Init} /\ Init \notin Pids
    /\ None \notin All /\ Pids \subseteq Nat
BY MaxPidIsNat DEF All, Pids, Init, None

USE PidFacts DEF loop, family, traced, Goes, Traced, Alive, Seen, Handles,
                 Resume, Detach, LooksForProc, AgentStep

IsLast(p, c) == parent[c] = p /\ \A d \in Pids : parent[d] = p => d <= c

(* The last child of a process is one and no other.                        *)
LEMMA LastIsNewChild ==
    ASSUME NEW p \in All, NEW c \in Pids, IsLast(p, c)
    PROVE  NewChild(p) = c
<1>1. \A d \in Pids : IsLast(p, d) => d = c
  BY DEF IsLast
<1> QED
  BY <1>1 DEF NewChild, IsLast

(* Until init is let go, there is nothing but init.                        *)
Handshake ==
    tracer \in {"seize", "unpark"} =>
        /\ ~mounted /\ report[Init] = "none" /\ run[Init] = "parked"
        /\ awaited = None
        /\ \A c \in Pids : run[c] = "none"

(* Pids are given in order, and only a process that has been forked has a  *)
(* parent, another process than itself.                                    *)
Births ==
    /\ \A c, d \in Pids : run[c] = "none" /\ c < d => run[d] = "none"
    /\ \A c \in Pids : parent[c] = None <=> run[c] = "none"
    /\ \A c \in Pids : parent[c] # c
    /\ \A c \in Pids : parent[c] \in Pids => run[parent[c]] # "none"
    /\ parent[Init] = None

(* A fork that is to be reported has a child, and an exec has happened.    *)
Reports ==
    /\ \A p \in All : report[p] = "fork" => \E c \in Pids : IsLast(p, c)
    /\ \A p \in Pids : report[p] = "exec" => image[p] # "forked"

(* Who is dead or not born is not traced; of who is not traced there is    *)
(* nothing to report; and a zygote that has an agent is not the tracer's.  *)
Ownership ==
    /\ \A p \in Pids :
         run[p] \in {"none", "dead"} => tracedBy[p] = "nobody"
    /\ \A p \in All :
         run[p] = "dead" => report[p] \in {"none", "exited", "signaled"}
    /\ \A p \in Pids :
         tracedBy[p] # "tracer" /\ run[p] # "dead" => report[p] = "none"
    /\ \A p \in Pids : run[p] = "newborn" => tracedBy[p] = "tracer"
    /\ \A p \in Pids :
         agent[p] # "none" => run[p] # "none" /\ tracedBy[p] # "tracer"

(* Init stops for its mount of /proc, and /proc is found before it forks.  *)
ProcFound ==
    /\ mounted /\ ~foundProc =>
         run[Init] = "stopped" /\ report[Init] = "syscall"
    /\ \A c \in Pids : parent[c] # None => foundProc

KernelInv ==
    TypeOK /\ Handshake /\ Births /\ Reports /\ Ownership /\ ProcFound

(* The kernel's part of the state and the tracer's own is inductive.       *)
LEMMA KernelInvariant == Spec => []KernelInv
<1>1. Start => KernelInv
  <2> SUFFICES ASSUME Start PROVE KernelInv
    OBVIOUS
  <2>1. TypeOK
    BY DEF Start, TypeOK
  <2>2. Handshake /\ Births
    BY DEF Start, Handshake, Births
  <2>3. Reports /\ Ownership /\ ProcFound
    BY DEF Start, Reports, Ownership, ProcFound
  <2> QED
    BY <2>1, <2>2, <2>3 DEF KernelInv
<1>2. KernelInv /\ [Next]_vars => KernelInv'
  <2> SUFFICES ASSUME KernelInv, [Next]_vars PROVE KernelInv'
    OBVIOUS
  <2>1. ASSUME NEW p \in All, NEW why \in {"syscall", "signal", "vfork"},
                Stops(p, why)
        PROVE  KernelInv'
    BY <2>1
       DEF KernelInv, TypeOK, Handshake, Births, Reports, IsLast, Ownership,
           ProcFound, Stops
  <2>2. ASSUME Mounts
        PROVE  KernelInv'
    BY <2>2
       DEF KernelInv, TypeOK, Handshake, Births, Reports, IsLast, Ownership,
           ProcFound, Mounts
  <2>3. ASSUME NEW p \in All, NEW c \in Pids, Forks(p, c)
        PROVE  KernelInv'
    <3>0. shouldDetach \subseteq {d \in Pids : parent'[d] \in Pids}
      <4>1. parent[c] = None /\ None \notin Pids
        BY <2>3 DEF KernelInv, Births, Forks
      <4>2. parent' = [parent EXCEPT ![c] = p] /\ c \notin shouldDetach
        BY <2>3, <4>1 DEF KernelInv, TypeOK, Forks
      <4> QED
        BY <4>2 DEF KernelInv, TypeOK
    <3>1. TypeOK'
      BY <2>3, <3>0 DEF KernelInv, TypeOK, Births, Forks
    <3>2. Handshake'
      BY <2>3 DEF KernelInv, TypeOK, Handshake, Forks
    <3>3. Births'
      <4>1. /\ p # c /\ run[p] # "none"
            /\ \A x \in Pids : run'[x] = "none" <=> run[x] = "none" /\ x # c
        BY <2>3 DEF KernelInv, TypeOK, Forks
      <4>2. /\ parent'[c] = p /\ p \in All
            /\ \A x \in All : x # c => parent'[x] = parent[x]
        BY <2>3 DEF KernelInv, TypeOK, Forks
      <4>3. \A d \in Pids : d < c => run[d] # "none"
        BY <2>3 DEF Forks
      <4> QED
        BY <4>1, <4>2, <4>3 DEF KernelInv, Births
    <3>4. Reports'
      BY <2>3 DEF KernelInv, TypeOK, Births, Reports, IsLast, Forks
    <3>5. Ownership'
      BY <2>3 DEF KernelInv, TypeOK, Ownership, Forks
    <3>6. ProcFound'
      BY <2>3 DEF KernelInv, TypeOK, ProcFound, Births, Forks
    <3> QED
      BY <3>1, <3>2, <3>3, <3>4, <3>5, <3>6 DEF KernelInv
  <2>4. ASSUME NEW c \in Pids, NewStops(c)
        PROVE  KernelInv'
    BY <2>4
       DEF KernelInv, TypeOK, Handshake, Births, Reports, IsLast, Ownership,
           ProcFound, NewStops
  <2>5. ASSUME NEW p \in All, NEW what \in {"init", "service", "zygote"},
                Execs(p, what)
        PROVE  KernelInv'
    BY <2>5
       DEF KernelInv, TypeOK, Handshake, Births, Reports, IsLast, Ownership,
           ProcFound, Execs
  <2>6. ASSUME NEW p \in Pids, NEW how \in {"exited", "signaled"},
                Dies(p, how)
        PROVE  KernelInv'
    BY <2>6
       DEF KernelInv, TypeOK, Handshake, Births, Reports, IsLast, Ownership,
           ProcFound, Dies
  <2>7. ASSUME Seize
        PROVE  KernelInv'
    BY <2>7
       DEF KernelInv, TypeOK, Handshake, Births, Reports, IsLast, Ownership,
           ProcFound, Seize
  <2>8. ASSUME Unpark
        PROVE  KernelInv'
    BY <2>8
       DEF KernelInv, TypeOK, Handshake, Births, Reports, IsLast, Ownership,
           ProcFound, Unpark
  <2>9. ASSUME NEW p \in All, Reap(p)
        PROVE  KernelInv'
    BY <2>9
       DEF KernelInv, TypeOK, Handshake, Births, Reports, IsLast, Ownership,
           ProcFound, Reap
  <2>10. ASSUME NEW p \in All, Panics(p)
        PROVE  KernelInv'
    BY <2>10
       DEF KernelInv, TypeOK, Handshake, Births, Reports, IsLast, Ownership,
           ProcFound, Panics
  <2>11. ASSUME NEW p \in All, LateDetach(p)
        PROVE  KernelInv'
    BY <2>11
       DEF KernelInv, TypeOK, Handshake, Births, Reports, IsLast, Ownership,
           ProcFound, LateDetach
  <2>12. ASSUME NEW p \in All, ResumeStop(p)
        PROVE  KernelInv'
    BY <2>12
       DEF KernelInv, TypeOK, Handshake, Births, Reports, IsLast, Ownership,
           ProcFound, ResumeStop
  <2>13. ASSUME NEW p \in All, ForkOfInit(p)
        PROVE  KernelInv'
    BY <2>13
       DEF KernelInv, TypeOK, Handshake, Births, Reports, IsLast, Ownership,
           ProcFound, ForkOfInit, Deep
  <2>14. ASSUME NEW p \in All, ForkOfOther(p)
        PROVE  KernelInv'
    <3> DEFINE c == NewChild(p)
    <3>1. c \in Pids /\ c # p /\ parent[c] = p /\ IsLast(p, c)
      BY <2>14, LastIsNewChild
         DEF KernelInv, Births, Reports, IsLast, ForkOfOther
    <3>2. /\ tracer = "loop" /\ report[p] = "fork" /\ p \in Pids
          /\ p \notin shouldDetach
          /\ UNCHANGED <<tracer, awaited, foundProc, mounted, image, parent,
                         agent>>
          /\ resumed' = [resumed EXCEPT ![p] =
                           IF foundProc THEN "cont" ELSE "syscall"]
      BY <2>14 DEF ForkOfOther, Deep
    <3>3. CASE CanDetach(c)
      <4>1. /\ run' = [run EXCEPT ![p] = "running", ![c] = "running"]
            /\ tracedBy' = [tracedBy EXCEPT ![c] = "nobody"]
            /\ report' = [report EXCEPT ![p] = "none", ![c] = "none"]
            /\ shouldDetach' = shouldDetach
        BY <2>14, <3>3 DEF ForkOfOther
      <4> HIDE DEF c
      <4>2. TypeOK'
        BY <3>1, <3>2, <3>3, <4>1 DEF KernelInv, TypeOK, CanDetach
      <4>3. Handshake'
        BY <3>1, <3>2, <3>3, <4>1 DEF KernelInv, TypeOK, Handshake, CanDetach
      <4>4. Births'
        BY <3>1, <3>2, <3>3, <4>1 DEF KernelInv, TypeOK, Births, CanDetach
      <4>5. Reports'
        BY <3>1, <3>2, <3>3, <4>1
           DEF KernelInv, TypeOK, Reports, IsLast, CanDetach
      <4>6. Ownership'
        BY <3>1, <3>2, <3>3, <4>1 DEF KernelInv, TypeOK, Ownership, CanDetach
      <4>7. ProcFound'
        BY <3>1, <3>2, <3>3, <4>1 DEF KernelInv, TypeOK, ProcFound, CanDetach
      <4> QED
        BY <4>2, <4>3, <4>4, <4>5, <4>6, <4>7 DEF KernelInv
    <3>4. CASE ~CanDetach(c)
      <4>1. /\ run' = [run EXCEPT ![p] = "running"]
            /\ report' = [report EXCEPT ![p] = "none"]
            /\ shouldDetach' = shouldDetach \cup {c}
            /\ UNCHANGED tracedBy
        BY <2>14, <3>4 DEF ForkOfOther, MarkLate
      <4> HIDE DEF c
      <4> QED
        BY <3>1, <3>2, <3>4, <4>1
           DEF KernelInv, TypeOK, Handshake, Births, Reports, IsLast,
               Ownership, ProcFound, CanDetach
    <3> QED
      BY <3>3, <3>4
  <2>15. ASSUME NEW p \in All, ExecOfInit(p)
        PROVE  KernelInv'
    BY <2>15
       DEF KernelInv, TypeOK, Handshake, Births, Reports, IsLast, Ownership,
           ProcFound, ExecOfInit
  <2>16. ASSUME NEW p \in All, ExecOfService(p)
        PROVE  KernelInv'
    BY <2>16
       DEF KernelInv, TypeOK, Handshake, Births, Reports, IsLast, Ownership,
           ProcFound, ExecOfService, IsZygote
  <2>17. ASSUME NEW p \in All, ExecOfZygote(p)
        PROVE  KernelInv'
    BY <2>17
       DEF KernelInv, TypeOK, Handshake, Births, Reports, IsLast, Ownership,
           ProcFound, ExecOfZygote, IsZygote
  <2>18. ASSUME NEW z \in Pids, HandOver(z)
        PROVE  KernelInv'
    BY <2>18
       DEF KernelInv, TypeOK, Handshake, Births, Reports, IsLast, Ownership,
           ProcFound, HandOver
  <2>19. ASSUME NEW z \in Pids, HandOverPanics(z)
        PROVE  KernelInv'
    BY <2>19
       DEF KernelInv, TypeOK, Handshake, Births, Reports, IsLast, Ownership,
           ProcFound, HandOverPanics
  <2>20. ASSUME NEW z \in Pids, AgentNext(z)
        PROVE  KernelInv'
    <3>1. CASE Spawn(z)
      BY <3>1
         DEF KernelInv, TypeOK, Handshake, Births, Reports, IsLast,
             Ownership, ProcFound, Spawn
    <3>2. CASE SpawnFails(z)
      BY <3>2
         DEF KernelInv, TypeOK, Handshake, Births, Reports, IsLast,
             Ownership, ProcFound, SpawnFails
    <3>3. CASE AgentSeizes(z)
      BY <3>3
         DEF KernelInv, TypeOK, Handshake, Births, Reports, IsLast,
             Ownership, ProcFound, AgentSeizes
    <3>4. CASE Polls(z)
      BY <3>4
         DEF KernelInv, TypeOK, Handshake, Births, Reports, IsLast,
             Ownership, ProcFound, Polls
    <3>5. CASE Injects(z)
      BY <3>5
         DEF KernelInv, TypeOK, Handshake, Births, Reports, IsLast,
             Ownership, ProcFound, Injects, LetsGo
    <3>6. CASE AgentLoses(z)
      BY <3>6
         DEF KernelInv, TypeOK, Handshake, Births, Reports, IsLast,
             Ownership, ProcFound, AgentLoses
    <3> QED
      BY <2>20, <3>1, <3>2, <3>3, <3>4, <3>5, <3>6 DEF AgentNext
  <2>21. CASE UNCHANGED vars
    BY <2>21
       DEF KernelInv, TypeOK, Handshake, Births, Reports, IsLast, Ownership,
           ProcFound, vars
  <2>22. ASSUME NEW p \in All, PanicsAtContinued(p)
        PROVE  KernelInv'
    BY <2>22
       DEF KernelInv, TypeOK, Handshake, Births, Reports, IsLast, Ownership,
           ProcFound, PanicsAtContinued
  <2> QED
    BY <2>1, <2>2, <2>3, <2>4, <2>5, <2>6, <2>7, <2>8, <2>9, <2>10, <2>11,
       <2>12, <2>13, <2>14, <2>15, <2>16, <2>17, <2>18, <2>19, <2>20, <2>21,
       <2>22
       DEF Next, World, Handle, Tell
<1> QED
  BY <1>1, <1>2, PTL DEF Spec

(* Tracers, processes and agents keep their types; only what is stopped or *)
(* dead is reported, only the children of children are marked, and no      *)
(* agent goes on tracing a zygote that it has injected.                    *)
THEOREM TypeCorrect == Spec => []TypeOK
<1>1. KernelInv => TypeOK
  BY DEF KernelInv
<1> QED
  BY <1>1, KernelInvariant, PTL
-----------------------------------------------------------------------------
(* Only children of init become zygote, they are traced until they do, and *)
(* the tracer waits for none but a zygote.                                 *)
Zygotes ==
    /\ \A z \in Pids : image[z] \in {"forked", "service", "zygote"}
    /\ \A z \in Pids : image[z] = "zygote" => parent[z] = Init
    /\ \A z \in Pids : agent[z] # "none" => image[z] = "zygote"
    /\ \A p \in Pids :
         /\ parent[p] = Init /\ image[p] = "forked" /\ Alive(p)
         => tracedBy[p] = "tracer"
    /\ awaited # None => image[awaited] = "zygote"
    /\ tracer \notin {"await", "panic"} => awaited = None

ZygoteInv == Zygotes /\ ZygoteTakenOver

(* In whatever order stops are reported and however many children are let  *)
(* go, no zygote gets away without a device agent.                         *)
THEOREM ZygotesAreTakenOver == Spec => []ZygoteTakenOver
<1>1. Start => ZygoteInv
  BY DEF Start, ZygoteInv, Zygotes, ZygoteTakenOver
<1>2. KernelInv /\ ZygoteInv /\ [Next]_vars => ZygoteInv'
  <2> SUFFICES ASSUME KernelInv, ZygoteInv, [Next]_vars PROVE ZygoteInv'
    OBVIOUS
  <2>1. ASSUME NEW p \in All, NEW why \in {"syscall", "signal", "vfork"},
                Stops(p, why)
        PROVE  ZygoteInv'
    BY <2>1
       DEF KernelInv, TypeOK, Handshake, Births, Reports, Ownership,
           ProcFound, ZygoteInv, Zygotes, NoZygote, ZygoteTakenOver, Stops
  <2>2. ASSUME Mounts
        PROVE  ZygoteInv'
    BY <2>2
       DEF KernelInv, TypeOK, Handshake, Births, Reports, Ownership,
           ProcFound, ZygoteInv, Zygotes, NoZygote, ZygoteTakenOver, Mounts
  <2>3. ASSUME NEW p \in All, NEW c \in Pids, Forks(p, c)
        PROVE  ZygoteInv'
    BY <2>3
       DEF KernelInv, TypeOK, Handshake, Births, Reports, Ownership,
           ProcFound, ZygoteInv, Zygotes, NoZygote, ZygoteTakenOver, Forks
  <2>4. ASSUME NEW c \in Pids, NewStops(c)
        PROVE  ZygoteInv'
    BY <2>4
       DEF KernelInv, TypeOK, Handshake, Births, Reports, Ownership,
           ProcFound, ZygoteInv, Zygotes, NoZygote, ZygoteTakenOver, NewStops
  <2>5. ASSUME NEW p \in All, NEW what \in {"init", "service", "zygote"},
                Execs(p, what)
        PROVE  ZygoteInv'
    BY <2>5
       DEF KernelInv, TypeOK, Handshake, Births, Reports, Ownership,
           ProcFound, ZygoteInv, Zygotes, NoZygote, ZygoteTakenOver, Execs
  <2>6. ASSUME NEW p \in Pids, NEW how \in {"exited", "signaled"},
                Dies(p, how)
        PROVE  ZygoteInv'
    BY <2>6
       DEF KernelInv, TypeOK, Handshake, Births, Reports, Ownership,
           ProcFound, ZygoteInv, Zygotes, NoZygote, ZygoteTakenOver, Dies
  <2>7. ASSUME Seize
        PROVE  ZygoteInv'
    BY <2>7
       DEF KernelInv, TypeOK, Handshake, Births, Reports, Ownership,
           ProcFound, ZygoteInv, Zygotes, NoZygote, ZygoteTakenOver, Seize
  <2>8. ASSUME Unpark
        PROVE  ZygoteInv'
    BY <2>8
       DEF KernelInv, TypeOK, Handshake, Births, Reports, Ownership,
           ProcFound, ZygoteInv, Zygotes, NoZygote, ZygoteTakenOver, Unpark
  <2>9. ASSUME NEW p \in All, Reap(p)
        PROVE  ZygoteInv'
    BY <2>9
       DEF KernelInv, TypeOK, Handshake, Births, Reports, Ownership,
           ProcFound, ZygoteInv, Zygotes, NoZygote, ZygoteTakenOver, Reap
  <2>10. ASSUME NEW p \in All, Panics(p)
        PROVE  ZygoteInv'
    BY <2>10
       DEF KernelInv, TypeOK, Handshake, Births, Reports, Ownership,
           ProcFound, ZygoteInv, Zygotes, NoZygote, ZygoteTakenOver, Panics
  <2>11. ASSUME NEW p \in All, LateDetach(p)
        PROVE  ZygoteInv'
    BY <2>11
       DEF KernelInv, TypeOK, Handshake, Births, Reports, Ownership,
           ProcFound, ZygoteInv, Zygotes, NoZygote, ZygoteTakenOver,
           LateDetach
  <2>12. ASSUME NEW p \in All, ResumeStop(p)
        PROVE  ZygoteInv'
    <3>1. Zygotes'
      BY <2>12
         DEF KernelInv, TypeOK, Births, Ownership, ZygoteInv, Zygotes,
             ResumeStop
    <3>2. ZygoteTakenOver'
      BY <2>12, <3>1
         DEF KernelInv, TypeOK, Ownership, ZygoteInv, Zygotes,
             ZygoteTakenOver, ResumeStop
    <3> QED
      BY <3>1, <3>2 DEF ZygoteInv
  <2>13. ASSUME NEW p \in All, ForkOfInit(p)
        PROVE  ZygoteInv'
    BY <2>13
       DEF KernelInv, TypeOK, Handshake, Births, Reports, Ownership,
           ProcFound, ZygoteInv, Zygotes, NoZygote, ZygoteTakenOver,
           ForkOfInit, Deep
  <2>14. ASSUME NEW p \in All, ForkOfOther(p)
        PROVE  ZygoteInv'
    <3> DEFINE c == NewChild(p)
    <3>1. c \in Pids /\ c # p /\ parent[c] = p /\ IsLast(p, c)
      BY <2>14, LastIsNewChild
         DEF KernelInv, Births, Reports, IsLast, ForkOfOther
    <3>2. /\ tracer = "loop" /\ report[p] = "fork" /\ p \in Pids
          /\ p \notin shouldDetach
          /\ UNCHANGED <<tracer, awaited, foundProc, mounted, image, parent,
                         agent>>
          /\ resumed' = [resumed EXCEPT ![p] =
                           IF foundProc THEN "cont" ELSE "syscall"]
      BY <2>14 DEF ForkOfOther, Deep
    <3>3. CASE CanDetach(c)
      <4>1. /\ run' = [run EXCEPT ![p] = "running", ![c] = "running"]
            /\ tracedBy' = [tracedBy EXCEPT ![c] = "nobody"]
            /\ report' = [report EXCEPT ![p] = "none", ![c] = "none"]
            /\ shouldDetach' = shouldDetach
        BY <2>14, <3>3 DEF ForkOfOther
      <4> HIDE DEF c
      <4> QED
        BY <3>1, <3>2, <3>3, <4>1
           DEF KernelInv, TypeOK, Handshake, Births, Reports, Ownership,
               ProcFound, ZygoteInv, Zygotes, NoZygote, ZygoteTakenOver,
               CanDetach
    <3>4. CASE ~CanDetach(c)
      <4>1. /\ run' = [run EXCEPT ![p] = "running"]
            /\ report' = [report EXCEPT ![p] = "none"]
            /\ shouldDetach' = shouldDetach \cup {c}
            /\ UNCHANGED tracedBy
        BY <2>14, <3>4 DEF ForkOfOther, MarkLate
      <4> HIDE DEF c
      <4> QED
        BY <3>1, <3>2, <3>4, <4>1
           DEF KernelInv, TypeOK, Handshake, Births, Reports, Ownership,
               ProcFound, ZygoteInv, Zygotes, NoZygote, ZygoteTakenOver,
               CanDetach
    <3> QED
      BY <3>3, <3>4
  <2>15. ASSUME NEW p \in All, ExecOfInit(p)
        PROVE  ZygoteInv'
    BY <2>15
       DEF KernelInv, TypeOK, Handshake, Births, Reports, Ownership,
           ProcFound, ZygoteInv, Zygotes, NoZygote, ZygoteTakenOver,
           ExecOfInit
  <2>16. ASSUME NEW p \in All, ExecOfService(p)
        PROVE  ZygoteInv'
    BY <2>16
       DEF KernelInv, TypeOK, Handshake, Births, Reports, Ownership,
           ProcFound, ZygoteInv, Zygotes, NoZygote, ZygoteTakenOver,
           ExecOfService, IsZygote
  <2>17. ASSUME NEW p \in All, ExecOfZygote(p)
        PROVE  ZygoteInv'
    <3>1. Zygotes'
      BY <2>17
         DEF KernelInv, TypeOK, Births, Ownership, ZygoteInv, Zygotes,
             ExecOfZygote, IsZygote
    <3>2. ZygoteTakenOver'
      BY <2>17, <3>1
         DEF KernelInv, TypeOK, Ownership, ZygoteInv, Zygotes,
             ZygoteTakenOver, ExecOfZygote, IsZygote
    <3> QED
      BY <3>1, <3>2 DEF ZygoteInv
  <2>18. ASSUME NEW z \in Pids, HandOver(z)
        PROVE  ZygoteInv'
    BY <2>18
       DEF KernelInv, TypeOK, Handshake, Births, Reports, Ownership,
           ProcFound, ZygoteInv, Zygotes, NoZygote, ZygoteTakenOver, HandOver
  <2>19. ASSUME NEW z \in Pids, HandOverPanics(z)
        PROVE  ZygoteInv'
    BY <2>19
       DEF KernelInv, TypeOK, Handshake, Births, Reports, Ownership,
           ProcFound, ZygoteInv, Zygotes, NoZygote, ZygoteTakenOver,
           HandOverPanics
  <2>20. ASSUME NEW z \in Pids, AgentNext(z)
        PROVE  ZygoteInv'
    BY <2>20
       DEF KernelInv, TypeOK, Handshake, Births, Reports, Ownership,
           ProcFound, ZygoteInv, Zygotes, NoZygote, ZygoteTakenOver,
           AgentNext, Spawn, SpawnFails, AgentSeizes, Polls, Injects, LetsGo,
           AgentLoses
  <2>21. CASE UNCHANGED vars
    BY <2>21
       DEF KernelInv, TypeOK, Handshake, Births, Reports, Ownership,
           ProcFound, ZygoteInv, Zygotes, NoZygote, ZygoteTakenOver, vars
  <2>22. ASSUME NEW p \in All, PanicsAtContinued(p)
        PROVE  ZygoteInv'
    BY <2>22
       DEF KernelInv, TypeOK, Handshake, Births, Reports, Ownership,
           ProcFound, ZygoteInv, Zygotes, NoZygote, ZygoteTakenOver,
           PanicsAtContinued
  <2> QED
    BY <2>1, <2>2, <2>3, <2>4, <2>5, <2>6, <2>7, <2>8, <2>9, <2>10, <2>11,
       <2>12, <2>13, <2>14, <2>15, <2>16, <2>17, <2>18, <2>19, <2>20, <2>21,
       <2>22
       DEF Next, World, Handle, Tell
<1>3. ZygoteInv => ZygoteTakenOver
  BY DEF ZygoteInv
<1> QED
  BY <1>1, <1>2, <1>3, KernelInvariant, PTL DEF Spec
-----------------------------------------------------------------------------
(* GrandchildAccounted, with the last child for the new one.               *)
Accounted ==
    \A c \in Pids :
        /\ parent[c] \in Pids
        /\ tracedBy[c] = "tracer" /\ tracedBy[parent[c]] = "tracer"
        => \/ report[parent[c]] = "fork" /\ IsLast(parent[c], c)
           \/ c \in shouldDetach

(* A grandchild stays traced only while its fork is unreported or it is    *)
(* marked, whichever of the two stops is seen first.                       *)
THEOREM GrandchildrenAreAccounted == Spec => []GrandchildAccounted
<1>1. Start => Accounted
  BY DEF Start, Accounted
<1>2. KernelInv /\ Accounted /\ [Next]_vars => Accounted'
  <2> SUFFICES ASSUME KernelInv, Accounted, [Next]_vars PROVE Accounted'
    OBVIOUS
  <2>1. ASSUME NEW p \in All, NEW why \in {"syscall", "signal", "vfork"},
                Stops(p, why)
        PROVE  Accounted'
    BY <2>1
       DEF KernelInv, TypeOK, Births, Ownership, IsLast, Accounted, Stops
  <2>2. ASSUME Mounts
        PROVE  Accounted'
    BY <2>2
       DEF KernelInv, TypeOK, Births, Ownership, IsLast, Accounted, Mounts
  <2>3. ASSUME NEW p \in All, NEW c \in Pids, Forks(p, c)
        PROVE  Accounted'
    <3>1. IsLast(p, c)'
      BY <2>3 DEF KernelInv, TypeOK, Births, IsLast, Forks
    <3>2. ASSUME NEW g \in Pids, g # c, parent[g] \in Pids,
                 tracedBy'[g] = "tracer", tracedBy'[parent[g]] = "tracer"
          PROVE  \/ /\ report'[parent[g]] = "fork"
                    /\ IsLast(parent[g], g)'
                 \/ g \in shouldDetach
      <4>1. /\ parent[g] # c /\ tracedBy[g] = "tracer"
            /\ tracedBy[parent[g]] = "tracer"
        BY <2>3, <3>2 DEF KernelInv, TypeOK, Births, Ownership, Forks
      <4>2. report[p] # "fork"
        BY <2>3 DEF KernelInv, TypeOK, Forks
      <4>3. parent[g] # p => (IsLast(parent[g], g) => IsLast(parent[g], g)')
        BY <2>3, <3>2 DEF KernelInv, TypeOK, IsLast, Forks
      <4> QED
        BY <2>3, <3>2, <4>1, <4>2, <4>3
           DEF KernelInv, TypeOK, Accounted, Forks
    <3> QED
      BY <2>3, <3>1, <3>2 DEF KernelInv, TypeOK, Accounted, Forks
  <2>4. ASSUME NEW c \in Pids, NewStops(c)
        PROVE  Accounted'
    BY <2>4
       DEF KernelInv, TypeOK, Births, Ownership, IsLast, Accounted, NewStops
  <2>5. ASSUME NEW p \in All, NEW what \in {"init", "service", "zygote"},
                Execs(p, what)
        PROVE  Accounted'
    BY <2>5
       DEF KernelInv, TypeOK, Births, Ownership, IsLast, Accounted, Execs
  <2>6. ASSUME NEW p \in Pids, NEW how \in {"exited", "signaled"},
                Dies(p, how)
        PROVE  Accounted'
    BY <2>6 DEF KernelInv, TypeOK, Births, Ownership, IsLast, Accounted, Dies
  <2>7. ASSUME Seize
        PROVE  Accounted'
    BY <2>7
       DEF KernelInv, TypeOK, Births, Ownership, IsLast, Accounted, Seize
  <2>8. ASSUME Unpark
        PROVE  Accounted'
    BY <2>8
       DEF KernelInv, TypeOK, Births, Ownership, IsLast, Accounted, Unpark
  <2>9. ASSUME NEW p \in All, Reap(p)
        PROVE  Accounted'
    BY <2>9 DEF KernelInv, TypeOK, Births, Ownership, IsLast, Accounted, Reap
  <2>10. ASSUME NEW p \in All, Panics(p)
        PROVE  Accounted'
    BY <2>10
       DEF KernelInv, TypeOK, Births, Ownership, IsLast, Accounted, Panics
  <2>11. ASSUME NEW p \in All, LateDetach(p)
        PROVE  Accounted'
    BY <2>11
       DEF KernelInv, TypeOK, Births, Ownership, IsLast, Accounted,
           LateDetach
  <2>12. ASSUME NEW p \in All, ResumeStop(p)
        PROVE  Accounted'
    BY <2>12
       DEF KernelInv, TypeOK, Births, Ownership, IsLast, Accounted,
           ResumeStop
  <2>13. ASSUME NEW p \in All, ForkOfInit(p)
        PROVE  Accounted'
    BY <2>13
       DEF KernelInv, TypeOK, Births, Ownership, IsLast, Accounted,
           ForkOfInit, Deep
  <2>14. ASSUME NEW p \in All, ForkOfOther(p)
        PROVE  Accounted'
    <3> DEFINE c == NewChild(p)
    <3>1. c \in Pids /\ c # p /\ parent[c] = p /\ IsLast(p, c)
      BY <2>14, LastIsNewChild
         DEF KernelInv, Births, Reports, IsLast, ForkOfOther
    <3>2. /\ tracer = "loop" /\ report[p] = "fork" /\ p \in Pids
          /\ p \notin shouldDetach
          /\ UNCHANGED <<tracer, awaited, foundProc, mounted, image, parent,
                         agent>>
          /\ resumed' = [resumed EXCEPT ![p] =
                           IF foundProc THEN "cont" ELSE "syscall"]
      BY <2>14 DEF ForkOfOther, Deep
    <3>3. CASE CanDetach(c)
      <4>1. /\ run' = [run EXCEPT ![p] = "running", ![c] = "running"]
            /\ tracedBy' = [tracedBy EXCEPT ![c] = "nobody"]
            /\ report' = [report EXCEPT ![p] = "none", ![c] = "none"]
            /\ shouldDetach' = shouldDetach
        BY <2>14, <3>3 DEF ForkOfOther
      <4> HIDE DEF c
      <4>2. SUFFICES ASSUME NEW g \in Pids, parent[g] \in Pids,
                            tracedBy'[g] = "tracer",
                            tracedBy'[parent[g]] = "tracer"
                     PROVE  \/ /\ report'[parent[g]] = "fork"
                               /\ IsLast(parent[g], g)
                            \/ g \in shouldDetach
        BY <3>2, <4>1 DEF Accounted, IsLast
      <4>3. g # c /\ parent[g] # c /\ tracedBy[g] = "tracer"
            /\ tracedBy[parent[g]] = "tracer"
        BY <3>1, <4>1, <4>2 DEF KernelInv, TypeOK
      <4>4. parent[g] = p => ~IsLast(parent[g], g)
        BY <3>1, <4>3 DEF IsLast
      <4> QED
        BY <3>1, <3>2, <4>1, <4>2, <4>3, <4>4
           DEF KernelInv, TypeOK, Accounted
    <3>4. CASE ~CanDetach(c)
      <4>1. /\ run' = [run EXCEPT ![p] = "running"]
            /\ report' = [report EXCEPT ![p] = "none"]
            /\ shouldDetach' = shouldDetach \cup {c}
            /\ UNCHANGED tracedBy
        BY <2>14, <3>4 DEF ForkOfOther, MarkLate
      <4> HIDE DEF c
      <4> QED
        BY <3>1, <3>2, <3>4, <4>1
           DEF KernelInv, TypeOK, Births, Ownership, IsLast, Accounted,
               CanDetach
    <3> QED
      BY <3>3, <3>4
  <2>15. ASSUME NEW p \in All, ExecOfInit(p)
        PROVE  Accounted'
    BY <2>15
       DEF KernelInv, TypeOK, Births, Ownership, IsLast, Accounted,
           ExecOfInit
  <2>16. ASSUME NEW p \in All, ExecOfService(p)
        PROVE  Accounted'
    BY <2>16
       DEF KernelInv, TypeOK, Births, Ownership, IsLast, Accounted,
           ExecOfService, IsZygote
  <2>17. ASSUME NEW p \in All, ExecOfZygote(p)
        PROVE  Accounted'
    BY <2>17
       DEF KernelInv, TypeOK, Births, Ownership, IsLast, Accounted,
           ExecOfZygote, IsZygote
  <2>18. ASSUME NEW z \in Pids, HandOver(z)
        PROVE  Accounted'
    BY <2>18
       DEF KernelInv, TypeOK, Births, Ownership, IsLast, Accounted, HandOver
  <2>19. ASSUME NEW z \in Pids, HandOverPanics(z)
        PROVE  Accounted'
    BY <2>19
       DEF KernelInv, TypeOK, Births, Ownership, IsLast, Accounted,
           HandOverPanics
  <2>20. ASSUME NEW z \in Pids, AgentNext(z)
        PROVE  Accounted'
    <3>1. CASE Spawn(z)
      BY <3>1
         DEF KernelInv, TypeOK, Births, Ownership, IsLast, Accounted, Spawn
    <3>2. CASE SpawnFails(z)
      BY <3>2
         DEF KernelInv, TypeOK, Births, Ownership, IsLast, Accounted,
             SpawnFails
    <3>3. CASE AgentSeizes(z)
      BY <3>3
         DEF KernelInv, TypeOK, Births, Ownership, IsLast, Accounted,
             AgentSeizes
    <3>4. CASE Polls(z)
      BY <3>4
         DEF KernelInv, TypeOK, Births, Ownership, IsLast, Accounted, Polls
    <3>5. CASE Injects(z)
      BY <3>5
         DEF KernelInv, TypeOK, Births, Ownership, IsLast, Accounted,
             Injects, LetsGo
    <3>6. CASE AgentLoses(z)
      BY <3>6
         DEF KernelInv, TypeOK, Births, Ownership, IsLast, Accounted,
             AgentLoses
    <3> QED
      BY <2>20, <3>1, <3>2, <3>3, <3>4, <3>5, <3>6 DEF AgentNext
  <2>21. CASE UNCHANGED vars
    BY <2>21
       DEF KernelInv, TypeOK, Births, Ownership, IsLast, Accounted, vars
  <2>22. ASSUME NEW p \in All, PanicsAtContinued(p)
        PROVE  Accounted'
    BY <2>22
       DEF KernelInv, TypeOK, Births, Ownership, IsLast, Accounted,
           PanicsAtContinued
  <2> QED
    BY <2>1, <2>2, <2>3, <2>4, <2>5, <2>6, <2>7, <2>8, <2>9, <2>10, <2>11,
       <2>12, <2>13, <2>14, <2>15, <2>16, <2>17, <2>18, <2>19, <2>20, <2>21,
       <2>22
       DEF Next, World, Handle, Tell
<1>3. Accounted => GrandchildAccounted
  BY LastIsNewChild DEF Accounted, GrandchildAccounted
<1> QED
  BY <1>1, <1>2, <1>3, KernelInvariant, PTL DEF Spec
-----------------------------------------------------------------------------
(* The safety half of NobodyLeftStopped.  waitpid returns in the loop, and *)
(* so it does for a zygote that has stopped or is on its way to a call.    *)
WaitReturns ==
    \/ tracer = "loop"
    \/ /\ tracer = "await"
       /\ \/ report[awaited] # "none"
          \/ /\ run[awaited] = "running" /\ tracedBy[awaited] = "tracer"
             /\ resumed[awaited] = "syscall"

(* Whoever has stopped or paused a process is about to let it go: it is    *)
(* stopped for the tracer, which hears of it, or paused or stopped for an  *)
(* agent at the very step that goes on from there.                         *)
NobodyIsForgotten ==
    \A p \in All :
        /\ run[p] = "stopped" =>
             \/ report[p] # "none" /\ (WaitReturns \/ tracer = "panic")
             \/ agent[p] = "inject"
        /\ run[p] = "paused" => agent[p] \in {"spawn", "seize", "unspawned"}

(* Who is stopped is known to who traces it.                               *)
StopsAreKnown ==
    /\ \A p \in All :
         /\ run[p] = "stopped" => report[p] # "none" \/ agent[p] = "inject"
         /\ run[p] = "paused" => agent[p] \in {"spawn", "seize", "unspawned"}
         /\ report[p] \in {"exited", "signaled"} => run[p] = "dead"
    /\ tracer = "await" => WaitReturns

(* ... is inductive on top of what the kernel holds.                       *)
LEMMA StopsStayKnown == Spec => []StopsAreKnown
<1>1. Start => StopsAreKnown
  BY DEF Start, StopsAreKnown
<1>2. KernelInv /\ StopsAreKnown /\ [Next]_vars => StopsAreKnown'
  <2> SUFFICES ASSUME KernelInv, StopsAreKnown, [Next]_vars
               PROVE  StopsAreKnown'
    OBVIOUS
  <2> USE DEF StopsAreKnown, WaitReturns
  <2>1. ASSUME NEW p \in All, NEW why \in {"syscall", "signal", "vfork"},
              Stops(p, why)
       PROVE  StopsAreKnown'
    BY <2>1 DEF KernelInv, TypeOK, Ownership, Stops
  <2>2. ASSUME Mounts
       PROVE  StopsAreKnown'
    BY <2>2 DEF KernelInv, TypeOK, Ownership, Mounts
  <2>3. ASSUME NEW p \in All, NEW c \in Pids, Forks(p, c)
       PROVE  StopsAreKnown'
    BY <2>3 DEF KernelInv, TypeOK, Ownership, Forks
  <2>4. ASSUME NEW c \in Pids, NewStops(c)
       PROVE  StopsAreKnown'
    BY <2>4 DEF KernelInv, TypeOK, Ownership, NewStops
  <2>5. ASSUME NEW p \in All, NEW what \in {"init", "service", "zygote"},
              Execs(p, what)
       PROVE  StopsAreKnown'
    BY <2>5 DEF KernelInv, TypeOK, Ownership, Execs
  <2>6. ASSUME NEW p \in Pids, NEW how \in {"exited", "signaled"},
              Dies(p, how)
       PROVE  StopsAreKnown'
    BY <2>6 DEF KernelInv, TypeOK, Ownership, Dies
  <2>7. ASSUME Seize \/ Unpark
       PROVE  StopsAreKnown'
    BY <2>7 DEF KernelInv, TypeOK, Ownership, Handshake, Seize, Unpark
  <2>8. ASSUME NEW p \in All, Reap(p)
        PROVE  StopsAreKnown'
    BY <2>8 DEF KernelInv, TypeOK, Ownership, Reap
  <2>9. ASSUME NEW p \in All, Panics(p)
        PROVE  StopsAreKnown'
    BY <2>9 DEF KernelInv, TypeOK, Ownership, Panics
  <2>10. ASSUME NEW p \in All, LateDetach(p)
        PROVE  StopsAreKnown'
    BY <2>10 DEF KernelInv, TypeOK, Ownership, LateDetach
  <2>11. ASSUME NEW p \in All, ResumeStop(p)
        PROVE  StopsAreKnown'
    BY <2>11 DEF KernelInv, TypeOK, Ownership, ResumeStop
  <2>12. ASSUME NEW p \in All, ForkOfInit(p)
        PROVE  StopsAreKnown'
    BY <2>12 DEF KernelInv, TypeOK, Ownership, ForkOfInit
  <2>13. ASSUME NEW p \in All, ForkOfOther(p)
        PROVE  StopsAreKnown'
    <3> DEFINE c == NewChild(p)
    <3>1. c \in Pids /\ c # p
      BY <2>13, LastIsNewChild
         DEF KernelInv, Births, Reports, IsLast, ForkOfOther
    <3>2. tracer = "loop" /\ tracer' = "loop" /\ agent' = agent
      BY <2>13 DEF ForkOfOther
    <3>3. \/ /\ run' = [run EXCEPT ![p] = "running", ![c] = "running"]
             /\ report' = [report EXCEPT ![p] = "none", ![c] = "none"]
          \/ /\ run' = [run EXCEPT ![p] = "running"]
             /\ report' = [report EXCEPT ![p] = "none"]
      BY <2>13 DEF ForkOfOther
    <3> HIDE DEF c
    <3> QED
      BY <3>1, <3>2, <3>3 DEF KernelInv, TypeOK
  <2>14. ASSUME NEW p \in All, ExecOfInit(p)
        PROVE  StopsAreKnown'
    BY <2>14 DEF KernelInv, TypeOK, Ownership, ExecOfInit
  <2>15. ASSUME NEW p \in All, ExecOfService(p)
        PROVE  StopsAreKnown'
    BY <2>15 DEF KernelInv, TypeOK, Ownership, ExecOfService, IsZygote
  <2>16. ASSUME NEW p \in All, ExecOfZygote(p)
        PROVE  StopsAreKnown'
    BY <2>16 DEF KernelInv, TypeOK, Ownership, ExecOfZygote, IsZygote
  <2>17. ASSUME NEW z \in Pids, HandOver(z)
        PROVE  StopsAreKnown'
    BY <2>17 DEF KernelInv, TypeOK, Ownership, HandOver
  <2>18. ASSUME NEW z \in Pids, HandOverPanics(z)
        PROVE  StopsAreKnown'
    BY <2>18 DEF KernelInv, TypeOK, Ownership, HandOverPanics
  <2>19. ASSUME NEW z \in Pids, Spawn(z)
        PROVE  StopsAreKnown'
    BY <2>19 DEF KernelInv, TypeOK, Ownership, Spawn
  <2>20. ASSUME NEW z \in Pids, SpawnFails(z)
        PROVE  StopsAreKnown'
    BY <2>20 DEF KernelInv, TypeOK, Ownership, SpawnFails
  <2>21. ASSUME NEW z \in Pids, AgentSeizes(z)
        PROVE  StopsAreKnown'
    BY <2>21 DEF KernelInv, TypeOK, Ownership, AgentSeizes
  <2>22. ASSUME NEW z \in Pids, Polls(z)
        PROVE  StopsAreKnown'
    BY <2>22 DEF KernelInv, TypeOK, Ownership, Polls
  <2>23. ASSUME NEW z \in Pids, Injects(z)
        PROVE  StopsAreKnown'
    BY <2>23 DEF KernelInv, TypeOK, Ownership, Injects, LetsGo
  <2>24. ASSUME NEW z \in Pids, AgentLoses(z)
        PROVE  StopsAreKnown'
    BY <2>24 DEF KernelInv, TypeOK, Ownership, AgentLoses
  <2>25. CASE UNCHANGED vars
    BY <2>25 DEF vars
  <2>26. ASSUME NEW p \in All, PanicsAtContinued(p)
        PROVE  StopsAreKnown'
    BY <2>26 DEF KernelInv, TypeOK, Ownership, PanicsAtContinued
  <2> QED
    BY <2>1, <2>2, <2>3, <2>4, <2>5, <2>6, <2>7, <2>8, <2>9, <2>10, <2>11,
       <2>12, <2>13, <2>14, <2>15, <2>16, <2>17, <2>18, <2>19, <2>20,
       <2>21, <2>22, <2>23, <2>24, <2>25,
       <2>26
       DEF Next, World, Handle, Tell, AgentNext
<1> QED
  BY <1>1, <1>2, KernelInvariant, PTL DEF Spec

(* No process is stopped by a tracer that has lost track of it, however    *)
(* many there are and in whatever order their stops are reported: from     *)
(* each one that is stopped, one step of the tracer or of its agent leads  *)
(* on, unless the tracer has panicked or the agent was not started.        *)
THEOREM StoppedForAReason == Spec => []NobodyIsForgotten
<1>1. KernelInv /\ StopsAreKnown => NobodyIsForgotten
  <2> SUFFICES ASSUME KernelInv, StopsAreKnown, NEW p \in All,
                      run[p] = "stopped", agent[p] # "inject"
               PROVE  report[p] # "none" /\ (WaitReturns \/ tracer = "panic")
    BY DEF NobodyIsForgotten, StopsAreKnown
  <2>1. report[p] # "none"
    BY DEF StopsAreKnown
  <2>2. tracer \in {"loop", "await", "panic"}
    <3>1. p \in Pids => run[p] # "none"
      OBVIOUS
    <3>2. p = Init => run[Init] # "parked"
      OBVIOUS
    <3> QED
      BY <3>1, <3>2 DEF KernelInv, TypeOK, Handshake
  <2> QED
    BY <2>1, <2>2 DEF StopsAreKnown, WaitReturns
<1> QED
  BY <1>1, KernelInvariant, StopsStayKnown, PTL
=============================================================================
