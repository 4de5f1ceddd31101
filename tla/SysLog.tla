------------------------------- MODULE SysLog -------------------------------
(***************************************************************************)
(* The system log of the guest, from the emulators' serial sockets to the  *)
(* clients: the processor goroutine and the listeners                      *)
(* (agent/server/syslog/syslog.go), the StreamSysLog handlers              *)
(* (agent/server/controller.go) and their gRPC streams.                    *)
(*                                                                         *)
(* SysLog.mu covers the registration of a listener and the sending of one  *)
(* line to all of them; both are single steps.                             *)
(*                                                                         *)
(* Bounds: Capacity stands for the 100 lines a channel holds, MaxLines and *)
(* MaxBoots for what emulators log and how often one connects.             *)
(***************************************************************************)
EXTENDS Naturals, Sequences, SequencesExt

CONSTANTS Handlers, Capacity, MaxLines, MaxBoots

ASSUME BoundsAreNat ==
    Capacity \in Nat \ {0} /\ MaxLines \in Nat /\ MaxBoots \in Nat

VARIABLES
    boots, logged,   (* emulators started; lines logged; both only grow    *)
    oversize,        (* the lines among them too long for the scanner      *)
    socket,          (* per emulator: lines written and not yet scanned    *)
    hungUp,          (* emulators that are gone                            *)
    reading,         (* the one whose connection is being scanned, or 0    *)
    accepted,        (* how many connections have been accepted            *)
    distributed,     (* history: lines sent to the listeners, in order     *)
    clients,         (* SysLog.clients                                     *)
    handler,         (* where each StreamSysLog call is                    *)
    channel, sending,   (* its listener's channel, the line it is sending  *)
    since,           (* history: how many lines had been distributed       *)
    dropped,         (* history: the lines that met its channel full       *)
    stream,          (* what gRPC has taken of a call, in order            *)
    full,            (* calls whose client does not read: gRPC takes no    *)
                     (* more of them                                       *)
    cancelled        (* calls whose client is gone                         *)

world == <<boots, logged, oversize, socket, hungUp>>
scan  == <<reading, accepted>>
calls == <<handler, sending, since, stream, full, cancelled>>
fanout == <<distributed, clients, channel, dropped>>
vars == <<world, scan, fanout, calls>>

Emulators == 1..MaxBoots

Init ==
    /\ boots = 0 /\ logged = 0 /\ oversize = {}
    /\ socket = [e \in Emulators |-> <<>>]
    /\ hungUp = {}
    /\ reading = 0 /\ accepted = 0
    /\ distributed = <<>> /\ clients = {}
    /\ handler = [h \in Handlers |-> "off"]
    /\ channel = [h \in Handlers |-> <<>>]
    /\ sending = [h \in Handlers |-> <<>>]
    /\ since = [h \in Handlers |-> 0]
    /\ dropped = [h \in Handlers |-> {}]
    /\ stream = [h \in Handlers |-> <<>>]
    /\ full = {} /\ cancelled = {}
-----------------------------------------------------------------------------
(* The emulators, which are not under src/.                                *)

Boot ==
    /\ boots < MaxBoots
    /\ boots' = boots + 1
    /\ UNCHANGED <<logged, oversize, socket, hungUp, scan, fanout, calls>>

(* The lines are numbered as they are written.                             *)
Log(e, tooLong) ==
    /\ e \in 1..boots \ hungUp
    /\ logged < MaxLines
    /\ logged' = logged + 1
    /\ oversize' = IF tooLong THEN oversize \cup {logged'} ELSE oversize
    /\ socket' = [socket EXCEPT ![e] = Append(@, logged')]
    /\ UNCHANGED <<boots, hungUp, scan, fanout, calls>>

(* The connections still to be scanned to their end; on the others it      *)
(* makes no difference when the emulator goes.                             *)
Open == (accepted + 1)..boots \cup ({reading} \ {0})

HangUp(e) ==
    /\ e \in Open \ hungUp
    /\ hungUp' = hungUp \cup {e}
    /\ UNCHANGED <<boots, logged, oversize, socket, scan, fanout, calls>>
-----------------------------------------------------------------------------
(* processor: one connection at a time, in the order they came, until its  *)
(* end or an oversize line.  The connection is not closed then: what is    *)
(* left on it, and what its emulator goes on to write, is never read.      *)

Accept ==
    /\ reading = 0 /\ accepted < boots
    /\ accepted' = accepted + 1
    /\ reading' = accepted'
    /\ UNCHANGED <<world, fanout, calls>>

CanScan(line) == line \notin oversize

ScanEnds ==
    /\ reading # 0
    /\ IF socket[reading] = <<>> THEN reading \in hungUp
       ELSE ~CanScan(Head(socket[reading]))
    /\ reading' = 0
    /\ UNCHANGED <<world, accepted, fanout, calls>>

(* Listener.send to each client in turn; closed is never set, for nothing  *)
(* calls Listener.Close, so that no client is ever removed.                *)
MutantOneTooMany(h) == Len(channel[h]) <= Capacity
CanTake(h) == Len(channel[h]) < Capacity

(* MutantServed: the loop over the clients stops one short.                *)
MutantServed == {h \in clients : h # CHOOSE c \in clients : TRUE}
Served == clients

MutantSendBlocks == \A h \in clients : CanTake(h)
SendNeverBlocks == TRUE

Distribute ==
    /\ reading # 0 /\ socket[reading] # <<>>
    /\ SendNeverBlocks
    /\ LET line == Head(socket[reading]) IN
        /\ CanScan(line)
        /\ channel' = [h \in Handlers |->
                        IF h \in Served /\ CanTake(h)
                        THEN Append(channel[h], line) ELSE channel[h]]
        /\ dropped' = [h \in Handlers |->
                        IF h \in clients /\ ~CanTake(h)
                        THEN dropped[h] \cup {line} ELSE dropped[h]]
        /\ distributed' = Append(distributed, line)
    /\ socket' = [socket EXCEPT ![reading] = Tail(@)]
    /\ UNCHANGED <<boots, logged, oversize, hungUp, scan, clients, calls>>
-----------------------------------------------------------------------------
(* StreamSysLog.  It does not look at its context while it waits for a     *)
(* line: only Send tells it that the client is gone.                       *)

Listen(h) ==
    /\ handler[h] = "off"
    /\ handler' = [handler EXCEPT ![h] = "recv"]
    /\ clients' = clients \cup {h}
    /\ since' = [since EXCEPT ![h] = Len(distributed)]
    /\ UNCHANGED <<world, scan, distributed, channel, dropped, sending, stream,
                   full, cancelled>>

Recv(h) ==
    /\ handler[h] = "recv" /\ channel[h] # <<>>
    /\ handler' = [handler EXCEPT ![h] = "send"]
    /\ sending' = [sending EXCEPT ![h] = <<Head(channel[h])>>]
    /\ channel' = [channel EXCEPT ![h] = Tail(@)]
    /\ UNCHANGED <<world, scan, distributed, clients, dropped, since, stream,
                   full, cancelled>>

Send(h) ==
    /\ handler[h] = "send" /\ h \notin cancelled \cup full
    /\ stream' = [stream EXCEPT ![h] = @ \o sending[h]]
    /\ sending' = [sending EXCEPT ![h] = <<>>]
    /\ handler' = [handler EXCEPT ![h] = "recv"]
    /\ UNCHANGED <<world, scan, fanout, since, full, cancelled>>

MutantIgnoreError == "recv"
OnSendError == "done"

SendFails(h) ==
    /\ handler[h] = "send" /\ h \in cancelled
    /\ handler' = [handler EXCEPT ![h] = OnSendError]
    /\ UNCHANGED <<world, scan, fanout, sending, since, stream, full,
                   cancelled>>

(* The client.                                                             *)
ClientStops(h) ==
    /\ handler[h] \in {"recv", "send"} /\ h \notin full \cup cancelled
    /\ full' = full \cup {h}
    /\ UNCHANGED <<world, scan, fanout, handler, sending, since, stream,
                   cancelled>>

ClientReads(h) ==
    /\ h \in full \ cancelled
    /\ full' = full \ {h}
    /\ UNCHANGED <<world, scan, fanout, handler, sending, since, stream,
                   cancelled>>

ClientCancels(h) ==
    /\ handler[h] \in {"recv", "send"} /\ h \notin cancelled
    /\ cancelled' = cancelled \cup {h} /\ full' = full \ {h}
    /\ UNCHANGED <<world, scan, fanout, handler, sending, since, stream>>
-----------------------------------------------------------------------------
Next ==
    \/ Boot
    \/ \E e \in Emulators :
        \/ \E tooLong \in BOOLEAN : Log(e, tooLong)
        \/ HangUp(e)
    \/ Accept \/ ScanEnds \/ Distribute
    \/ \E h \in Handlers :
        \/ Listen(h) \/ Recv(h) \/ Send(h) \/ SendFails(h)
        \/ ClientStops(h) \/ ClientReads(h) \/ ClientCancels(h)

Spec == Init /\ [][Next]_vars

(* The agent's goroutines run when they can.  Emulators, their lines and   *)
(* clients come and go as they like, and a client need not read.           *)
Fairness ==
    /\ WF_vars(Accept \/ ScanEnds \/ Distribute)
    /\ \A h \in Handlers : WF_vars(Recv(h) \/ Send(h) \/ SendFails(h))

FairSpec == Spec /\ Fairness
-----------------------------------------------------------------------------
TypeOK ==
    /\ boots \in 0..MaxBoots /\ logged \in 0..MaxLines
    /\ oversize \subseteq 1..logged /\ hungUp \subseteq 1..boots
    /\ accepted \in 0..boots /\ reading \in {0, accepted}
    /\ clients \subseteq Handlers
    /\ cancelled \subseteq clients /\ full \subseteq clients
    /\ handler \in [Handlers -> {"off", "recv", "send", "done"}]
    /\ \A h \in Handlers :
        /\ Len(channel[h]) <= Capacity
        /\ Len(sending[h]) = (IF handler[h] = "send" \/
                                 (handler[h] = "done" /\ h \in cancelled)
                              THEN 1 ELSE 0)
        /\ since[h] \in 0..Len(distributed)
        /\ dropped[h] \subseteq Nat

(* What a call has of the log, from the client's end back to the channel.  *)
Got(h) == stream[h] \o sending[h] \o channel[h]

(* It has them in the order of the scan, each once, and none from before.  *)
InOrder(h) ==
    \A i, j \in 1..Len(Got(h)) : i <= j =>
        \E k, l \in (since[h] + 1)..Len(distributed) :
            /\ distributed[k] = Got(h)[i] /\ distributed[l] = Got(h)[j]
            /\ i < j => k < l

(* A line yet to be scanned, or left behind an oversize one.               *)
OnSocket(n) ==
    \E e \in 1..boots :
        /\ Contains(socket[e], n)
        /\ e \in Open \/ Head(socket[e]) \in oversize

(* agent.proto:27-28 says of this call: "This stream can and should be     *)
(* started before the emulator is started to ensure no messages are        *)
(* missed."  The code does not ensure it; this is what it does ensure.  Of *)
(* all that emulators log, but for what had been distributed when a call   *)
(* registered, the call misses, first, the lines that met its channel full *)
(* (syslog.go:101-105) and, second, those on a connection from an oversize *)
(* line on, however soon its client reads (syslog.go:56: Scan gives up for *)
(* good).  Every other line it has or will be sent, and in order.          *)
MissesOnlyDroppedOrCutOff ==
    \A h \in clients :
        /\ \A n \in 1..logged :
             \/ n \in dropped[h] \/ Contains(Got(h), n) \/ OnSocket(n)
             \/ \E i \in 1..since[h] : distributed[i] = n
        /\ InOrder(h)

(* A line written on the connection being scanned reaches the listeners,   *)
(* whatever their clients do: a client that does not read holds up nobody. *)
NoHeadOfLineBlocking ==
    \A n \in 1..MaxLines :
        (reading # 0 /\ Contains(socket[reading], n))
            ~> (Contains(distributed, n) \/ reading = 0)

(* The handler of a client that is gone ends, if another line comes.       *)
CancelledCallEnds ==
    \A h \in Handlers :
        (h \in cancelled /\ channel[h] # <<>>) ~> handler[h] = "done"
=============================================================================
