------------------------------- MODULE Shell -------------------------------
(***************************************************************************)
(* One OpenShell call: the handler (agent/server/shell/shell.go) with its  *)
(* two pump goroutines, the adb connection (agent/server/adb/raw.go), the  *)
(* Go client (agent/client/shell/shell.go) and the shell service of the    *)
(* device.                                                                 *)
(*                                                                         *)
(*   client --requests--> pump --+          +--> toDevice --> device       *)
(*                               +-> main --+                              *)
(*   client <--responses---------+    ^                                    *)
(*                                    +-- pump <--packets-- device         *)
(*                                                                         *)
(* The channels between the pumps and main are not buffered; the streams   *)
(* hold what flow control and the sockets let them hold.  The atomic flag  *)
(* "exited" only silences a log line and is left out.                      *)
(*                                                                         *)
(* Bounds: Window is the capacity of each stream; MaxRequests and          *)
(* MaxPackets cap what the client and the device write in one call.        *)
(***************************************************************************)
EXTENDS Naturals, Sequences

CONSTANTS Window, MaxRequests, MaxPackets

ASSUME BoundsAreNat ==
    Window \in Nat \ {0} /\ MaxRequests \in Nat /\ MaxPackets \in Nat

Pumps == {"request", "response"}

(* An "input" is any message that is written to the device: data, close or *)
(* resize; "empty" is a stdin message with neither data nor close; "junk"  *)
(* is one the handler does not know; a "bare" packet is an exit without    *)
(* its code.                                                               *)
Requests == {"input", "empty", "junk"}
Packets == {"output", "exit", "bare", "junk"}

VARIABLES
    main,        (* where the handler is                                   *)
    sending,     (* the packet that main is sending to the client          *)
    status,      (* what the handler returned or is about to return        *)
    conn,        (* the adb connection                                     *)
    refused,     (* history: adb answered FAIL to the shell command        *)
    chansClosed, (* requestChan and responseChan are closed                *)
    pump, held,  (* where each pump goroutine is, and what it offers       *)
    requests, clientEnd, asked,      (* the client's stream; asked: how    *)
                                     (* many requests it has sent          *)
    responses, received, sawExit,    (* ... and what it got; Shell.exited  *)
    toDevice, packets, device, produced   (* the device and its streams    *)

mains   == <<main, sending, status>>
adb     == <<conn, refused>>
pumps   == <<pump, held>>
client  == <<requests, clientEnd, asked, received, sawExit>>
devices == <<toDevice, packets, device, produced>>
vars == <<mains, adb, chansClosed, pumps, client, responses, devices>>

Init ==
    /\ main = "start" /\ sending = "none" /\ status = "none"
    /\ conn = "none" /\ refused = FALSE
    /\ chansClosed = FALSE
    /\ pump = [p \in Pumps |-> "off"] /\ held = [p \in Pumps |-> "none"]
    /\ requests = <<>> /\ clientEnd = "open" /\ asked = 0
    /\ responses = <<>> /\ received = <<>> /\ sawExit = FALSE
    /\ toDevice = <<>> /\ packets = <<>>
    /\ device = "running" /\ produced = <<>>

Room(stream) == Len(stream) < Window
-----------------------------------------------------------------------------
(* The handler up to its loop: OpenEmulator and SendCommand each wait for  *)
(* an answer of adb, for which nobody has set a limit.  The connection is  *)
(* counted from the answer to the command on.                              *)

Begin(from, to, result) ==
    /\ main = from
    /\ main' = to /\ status' = result
    /\ UNCHANGED <<sending, chansClosed, held, client, responses, devices>>

(* The first message is not a start, or a bad one.                         *)
StartRejected ==
    /\ Begin("start", "done", "error")
    /\ UNCHANGED <<adb, pump>>

Open ==
    /\ Begin("start", "open", "none")
    /\ UNCHANGED <<adb, pump>>

(* No connection to the emulator: OpenEmulator has closed it.              *)
OpenFails ==
    /\ Begin("open", "done", "error")
    /\ UNCHANGED <<adb, pump>>

(* SendCommand closes the connection when reading or writing fails ...     *)
CommandFails ==
    /\ Begin("open", "done", "error")
    /\ conn' = "closed"
    /\ UNCHANGED <<refused, pump>>

(* ... and not when adb answers FAIL; neither does the handler.            *)
CommandRefused ==
    /\ Begin("open", "done", "error")
    /\ conn' = "open" /\ refused' = TRUE
    /\ UNCHANGED pump

CommandOkay ==
    /\ Begin("open", "select", "none")
    /\ conn' = "open"
    /\ pump' = [p \in Pumps |-> "read"]
    /\ UNCHANGED refused
-----------------------------------------------------------------------------
(* The pumps.                                                              *)

Offer(p, msg) ==
    /\ pump[p] = "read" /\ main # "down"
    /\ pump' = [pump EXCEPT ![p] = "offer"]
    /\ held' = [held EXCEPT ![p] = msg]
    /\ UNCHANGED <<mains, refused, chansClosed, responses>>

ReadRequest ==
    /\ requests # <<>> /\ main # "done"
    /\ Offer("request", Head(requests))
    /\ requests' = Tail(requests)
    /\ UNCHANGED <<conn, clientEnd, asked, received, sawExit, devices>>

(* server.Recv fails at the end of the client's stream, when the call is   *)
(* cancelled, and after the handler has returned.                          *)
ReadRequestFails ==
    /\ \/ requests = <<>> /\ clientEnd = "eof"
       \/ clientEnd = "cancelled"
       \/ main = "done"
    /\ Offer("request", "error")
    /\ UNCHANGED <<conn, client, devices>>

ReadPacket ==
    /\ conn = "open" /\ packets # <<>>
    /\ Offer("response", Head(packets))
    /\ packets' = Tail(packets)
    /\ UNCHANGED <<conn, client, toDevice, device, produced>>

ReadPacketFails ==
    /\ conn = "closed" \/ (packets = <<>> /\ device # "running")
    /\ Offer("response", "error")
    /\ conn' = "closed"
    /\ UNCHANGED <<client, devices>>

(* Sending on a closed channel panics, and the pump recovers.              *)
PumpPanics(p) ==
    /\ pump[p] = "offer" /\ chansClosed
    /\ pump' = [pump EXCEPT ![p] = "ended"]
    /\ UNCHANGED <<mains, adb, chansClosed, held, client, responses, devices>>
-----------------------------------------------------------------------------
(* The handler's loop.                                                     *)

Take(p) ==
    /\ main = "select" /\ pump[p] = "offer"
    /\ pump' = [pump EXCEPT ![p] = IF held[p] = "error" THEN "ended" ELSE "read"]
    /\ UNCHANGED <<adb, chansClosed, held, client, responses, devices>>

MutantEndIsSuccess(p) == IF held[p] = "error" THEN "ok" ELSE "error"
Failure(p) == "error"

MutantGoOn(p) == main' = "select" /\ UNCHANGED <<sending, status>>
Break(p) == main' = "break" /\ status' = Failure(p) /\ UNCHANGED sending

TakeRequest ==
    /\ Take("request")
    /\ CASE held["request"] = "input" ->
                main' = "write" /\ UNCHANGED <<sending, status>>
         [] held["request"] = "empty" -> UNCHANGED mains
         [] OTHER -> Break("request")

MutantSkipJunk(packet) == packet \in {"output", "exit", "junk"}
Known(packet) == packet \in {"output", "exit"}

TakePacket ==
    /\ held["response"] # "bare"
    /\ Take("response")
    /\ IF Known(held["response"])
       THEN main' = "send" /\ sending' = held["response"] /\ UNCHANGED status
       ELSE Break("response")

(* The handler takes the code of an exit without looking whether there is  *)
(* one, and the panic takes the whole agent down.                          *)
TakeBareExit ==
    /\ main = "select" /\ pump["response"] = "offer"
    /\ held["response"] = "bare"
    /\ main' = "down" /\ conn' = "closed"
    /\ UNCHANGED <<sending, status, refused, chansClosed, pumps, client,
                   responses, devices>>

WriteDone ==
    /\ main = "write" /\ conn = "open"
    /\ IF device = "running"
       THEN Room(toDevice) /\ toDevice' = Append(toDevice, "input")
       ELSE UNCHANGED toDevice
    /\ main' = "select"
    /\ UNCHANGED <<sending, status, adb, chansClosed, pumps, client, responses,
                   packets, device, produced>>

WriteFails ==
    /\ main = "write"
    /\ conn = "closed" \/ device # "running"
    /\ conn' = "closed"
    /\ main' = "break" /\ status' = "error"
    /\ UNCHANGED <<sending, refused, chansClosed, pumps, client, responses,
                   devices>>

MutantDropWhenFull ==
    responses' = IF Room(responses) THEN Append(responses, sending)
                 ELSE responses
Respond == Room(responses) /\ responses' = Append(responses, sending)

AfterSend == IF sending = "exit" THEN "break" ELSE "select"

SendDone ==
    /\ main = "send" /\ clientEnd # "cancelled"
    /\ Respond
    /\ main' = AfterSend
    /\ status' = IF sending = "exit" THEN "ok" ELSE status
    /\ UNCHANGED <<sending, adb, chansClosed, pumps, client, devices>>

SendFails ==
    /\ main = "send" /\ clientEnd = "cancelled"
    /\ main' = "break" /\ status' = "error"
    /\ UNCHANGED <<sending, adb, chansClosed, pumps, client, responses, devices>>

MutantKeepConn == UNCHANGED conn
CloseConn == conn' = "closed"

Cleanup ==
    /\ main = "break"
    /\ chansClosed' = TRUE
    /\ CloseConn
    /\ main' = "done"
    /\ UNCHANGED <<sending, status, refused, pumps, client, responses, devices>>
-----------------------------------------------------------------------------
(* The client: SendInput, CloseInput and Resize; the end of its stream or  *)
(* of its context; Recv, which stops at the exit.                          *)

World == <<mains, adb, chansClosed, pumps>>

ClientSends(msg) ==
    /\ clientEnd = "open" /\ asked < MaxRequests /\ Room(requests)
    /\ requests' = Append(requests, msg) /\ asked' = asked + 1
    /\ UNCHANGED <<World, clientEnd, received, sawExit, responses, devices>>

ClientEnds(how) ==
    /\ clientEnd = "open"
    /\ clientEnd' = how
    /\ UNCHANGED <<World, requests, asked, received, sawExit, responses,
                   devices>>

ClientRecv ==
    /\ ~sawExit /\ responses # <<>>
    /\ received' = Append(received, Head(responses))
    /\ responses' = Tail(responses)
    /\ sawExit' = (Head(responses) = "exit")
    /\ UNCHANGED <<World, requests, clientEnd, asked, devices>>

(* The device: its shell service does one thing at a time, so that it      *)
(* reads no input while it waits to write.  Nothing follows an exit.       *)
DeviceWrites(packet) ==
    /\ device = "running" /\ conn = "open" /\ ~refused
    /\ Len(produced) < MaxPackets /\ Room(packets)
    /\ packets' = Append(packets, packet)
    /\ produced' = Append(produced, packet)
    /\ device' = IF packet = "exit" THEN "exited" ELSE device
    /\ UNCHANGED <<World, client, responses, toDevice>>

DeviceReads ==
    /\ device = "running" /\ toDevice # <<>> /\ Room(packets)
    /\ toDevice' = Tail(toDevice)
    /\ UNCHANGED <<World, client, responses, packets, device, produced>>

(* The emulator dies, or adb drops the connection, maybe with what was on  *)
(* its way.                                                                *)
DeviceGone ==
    /\ device = "running" /\ conn = "open"
    /\ device' = "gone"
    /\ \E n \in 0..Len(packets) : packets' = SubSeq(packets, 1, n)
    /\ UNCHANGED <<World, client, responses, toDevice, produced>>
-----------------------------------------------------------------------------
Answer == OpenFails \/ CommandFails \/ CommandRefused \/ CommandOkay

Main ==
    \/ StartRejected \/ Open
    \/ TakeRequest \/ TakePacket \/ TakeBareExit
    \/ WriteDone \/ WriteFails \/ SendDone \/ SendFails
    \/ Cleanup

Pump ==
    \/ ReadRequest \/ ReadRequestFails
    \/ ReadPacket \/ ReadPacketFails
    \/ \E p \in Pumps : PumpPanics(p)

Peers ==
    \/ \E msg \in Requests : ClientSends(msg)
    \/ \E how \in {"eof", "cancelled"} : ClientEnds(how)
    \/ ClientRecv
    \/ \E packet \in Packets : DeviceWrites(packet)
    \/ DeviceReads
    \/ DeviceGone

Next == Answer \/ Main \/ Pump \/ Peers

Spec == Init /\ [][Next]_vars

(* The goroutines of the agent run when they can, and a select that finds  *)
(* both channels ready picks either.  Client, adb and device owe nothing.  *)
Fairness ==
    /\ WF_vars(Main)
    /\ SF_vars(TakeRequest) /\ SF_vars(TakePacket \/ TakeBareExit)
    /\ WF_vars(ReadRequest \/ ReadRequestFails)
    /\ WF_vars(ReadPacket \/ ReadPacketFails)
    /\ \A p \in Pumps : WF_vars(PumpPanics(p))

FairSpec == Spec /\ Fairness
-----------------------------------------------------------------------------
IsStream(q, S) == Len(q) <= Window /\ \A i \in 1..Len(q) : q[i] \in S

TypeOK ==
    /\ main \in {"start", "open", "select", "write", "send", "break", "done",
                 "down"}
    /\ sending \in {"none", "output", "exit"}
    /\ status \in {"none", "ok", "error"}
    /\ conn \in {"none", "open", "closed"}
    /\ refused \in BOOLEAN /\ chansClosed \in BOOLEAN /\ sawExit \in BOOLEAN
    /\ pump \in [Pumps -> {"off", "read", "offer", "ended"}]
    /\ held \in [Pumps -> Requests \cup Packets \cup {"none", "error"}]
    /\ clientEnd \in {"open", "eof", "cancelled"}
    /\ device \in {"running", "exited", "gone"}
    /\ asked \in 0..MaxRequests /\ Len(produced) <= MaxPackets
    /\ IsStream(requests, Requests) /\ IsStream(toDevice, Requests)
    /\ IsStream(responses, Packets) /\ IsStream(packets, Packets)

Delivered == received \o responses

(* What reaches the client is what the device wrote, from the start,       *)
(* without gaps and in order.                                              *)
DeliveredInOrder ==
    /\ Len(Delivered) <= Len(produced)
    /\ Delivered = SubSeq(produced, 1, Len(Delivered))

(* The call succeeds only after an exit notification, and that comes after *)
(* the whole output: a client that sees the exit has missed nothing.  All  *)
(* other ends of the call, the end of the client's own stream among them,  *)
(* are errors.                                                             *)
SuccessIsComplete ==
    main \in {"break", "done"} /\ status = "ok" =>
        /\ Delivered = produced
        /\ \E i \in 1..Len(produced) : produced[i] = "exit"

(* After a call the adb connection is closed, unless adb refused the       *)
(* command: that one is left to the garbage collector.                     *)
ConnReleased == main = "done" /\ conn = "open" => refused

(* Both pumps end after the handler, whatever they are doing.              *)
PumpsEnd ==
    main = "done" ~> \A p \in Pumps : pump[p] \in {"off", "ended"}

(* A cancelled call ends, unless the handler waits for adb to open the     *)
(* connection or to answer its command, or is writing to a device that has *)
(* stopped reading: nothing but adb and the device end these.              *)
CancelledCallEnds ==
    clientEnd = "cancelled" ~>
        (main \in {"done", "down"} \/ [](main = "open") \/ [](main = "write"))
=============================================================================
