---------------------------- MODULE FileTransfer ----------------------------
(***************************************************************************)
(* One file call: ListDirectory, StatFile, PullFile or PushFile, from the  *)
(* Go client (agent/client/sync/sync.go) over the handler                  *)
(* (agent/server/controller.go, agent/server/sync/sync.go) and the adb     *)
(* sync session (agent/server/adb/sync.go, raw.go) to the device.          *)
(*                                                                         *)
(*   client --requests--> handler --toDevice--> device       (push)        *)
(*   client <--responses- handler <-fromDevice- device                     *)
(*                                                                         *)
(* The sender is the client of a push and the device of the other calls;   *)
(* a directory entry, a stat result and a piece of a file are all blocks.  *)
(* A packet whose header and body are read or written apart is one         *)
(* message: half of one ends the call like none at all.                    *)
(*                                                                         *)
(* Bounds: Window is the capacity of each stream, MaxBlocks caps what the  *)
(* sender offers.                                                          *)
(***************************************************************************)
EXTENDS Naturals, Sequences

CONSTANTS Window, MaxBlocks

ASSUME BoundsAreNat == Window \in Nat \ {0} /\ MaxBlocks \in Nat

Data(block) == [kind |-> "data", block |-> block]
Signal(kind) == [kind |-> kind, block |-> 0]

VARIABLES
    op,              (* which call this is                                 *)
    pc,              (* where the handler is                               *)
    held,            (* the blocks in its hands                            *)
    result,          (* what it returned                                   *)
    conn,            (* the adb connection                                 *)
    toDevice, fromDevice,         (* ... and its two directions            *)
    device,          (* the sync service of the device                     *)
    requests, responses,          (* the gRPC streams                      *)
    client,          (* the client's end of the call                       *)
    source, ended,   (* history: what the sender offered                   *)
    copy,            (* what the receiver has                              *)
    published        (* the receiver takes its copy for the file:          *)
                     (* PullStream.complete, or the device got DONE        *)

handler == <<pc, held, result>>
session == <<conn, toDevice, fromDevice>>
streams == <<requests, responses>>
ends    == <<source, ended, copy, published>>
vars == <<op, handler, session, device, streams, client, ends>>

Init ==
    /\ op \in {"list", "stat", "pull", "push"}
    /\ pc = "check" /\ held = <<>> /\ result = "none"
    /\ conn = "none" /\ toDevice = <<>> /\ fromDevice = <<>>
    /\ device = "idle"
    /\ requests \in IF op = "push" THEN {<<Signal("start")>>, <<Signal("junk")>>}
                    ELSE {<<>>}
    /\ responses = <<>> /\ client = "open"
    /\ source = <<>> /\ ended = FALSE
    /\ copy = <<>> /\ published = FALSE

Room(stream) == Len(stream) < Window

Goto(place) == pc' = place /\ UNCHANGED result
Return(outcome) == pc' = "done" /\ result' = outcome

MutantKeepConn == UNCHANGED conn
CloseConn == conn' = IF conn = "open" THEN "closed" ELSE conn
-----------------------------------------------------------------------------
(* The handler: the check of the server's state, the client's start        *)
(* message of a push, and the connection to the device.                    *)

CheckFails ==
    /\ pc = "check"
    /\ Return("error")
    /\ UNCHANGED <<op, held, session, device, streams, client, ends>>

CheckPasses ==
    /\ pc = "check"
    /\ Goto(IF op = "push" THEN "start" ELSE "open")
    /\ UNCHANGED <<op, held, session, device, streams, client, ends>>

(* server.Recv of a push.                                                  *)
Recv(place) ==
    /\ pc = place /\ requests # <<>>
    /\ requests' = Tail(requests)
    /\ UNCHANGED <<op, toDevice, fromDevice, device, responses, client, ends>>

TakeStart ==
    /\ Recv("start")
    /\ IF Head(requests).kind = "start" THEN Goto("open") ELSE Return("error")
    /\ UNCHANGED <<held, conn>>

RecvFails ==
    /\ pc \in {"start", "recv"}
    /\ client = "cancelled" \/ (client = "eof" /\ requests = <<>>)
    /\ Return("error") /\ CloseConn
    /\ UNCHANGED <<op, held, toDevice, fromDevice, device, streams, client,
                   ends>>

(* OpenEmulator and the sync: command each wait for an answer of adb, for  *)
(* which nobody has set a limit.  One of them or the request fails, and    *)
(* whoever notices closes the connection, if there is one; or it is open.  *)
OpenFails ==
    /\ pc = "open"
    /\ Return("error") /\ conn' \in {"none", "closed"}
    /\ UNCHANGED <<op, held, toDevice, fromDevice, device, streams, client,
                   ends>>

Open(place) ==
    /\ pc = "open"
    /\ Goto(place)
    /\ conn' = "open" /\ device' = "serving"
    /\ UNCHANGED <<op, held, toDevice, fromDevice, streams, client, ends>>

OpenToRead == op # "push" /\ Open("read")

OpenToWrite == op = "push" /\ Open("recv")
-----------------------------------------------------------------------------
(* Push: Send for each block of the client, Done for its end.              *)

TakeBlock ==
    /\ Recv("recv") /\ Head(requests).kind = "data"
    /\ held' = <<Head(requests).block>>
    /\ Goto("write")
    /\ UNCHANGED conn

(* A block larger than MaxData, which the device would refuse.             *)
TakeOversize ==
    /\ Recv("recv") /\ Head(requests).kind = "data"
    /\ Return("error") /\ CloseConn
    /\ UNCHANGED held

TakeEnd ==
    /\ Recv("recv") /\ Head(requests).kind = "end"
    /\ Goto("finish")
    /\ UNCHANGED <<held, conn>>

TakeJunk ==
    /\ Recv("recv") /\ Head(requests).kind \notin {"data", "end"}
    /\ Return("error") /\ CloseConn
    /\ UNCHANGED held

(* Writing to a device that has gone may still seem to work.               *)
Write(msg) ==
    /\ conn = "open"
    /\ IF device = "ended" THEN UNCHANGED toDevice
       ELSE Room(toDevice) /\ toDevice' = Append(toDevice, msg)

WriteBlock ==
    /\ pc = "write" /\ Write(Data(Head(held)))
    /\ Goto("recv") /\ held' = <<>>
    /\ UNCHANGED <<op, conn, fromDevice, device, streams, client, ends>>

WriteBlockFails ==
    /\ pc = "write" /\ device = "ended"
    /\ Return("error") /\ CloseConn
    /\ UNCHANGED <<op, held, toDevice, fromDevice, device, streams, client,
                   ends>>

WriteDone ==
    /\ pc = "finish" /\ Write(Signal("done"))
    /\ Goto("receipt")
    /\ UNCHANGED <<op, held, conn, fromDevice, device, streams, client, ends>>

(* Done goes on after a failed write, with the connection closed.          *)
MutantDoneGivesUp == Return("ok")
AfterFailedDone == Goto("receipt")

WriteDoneFails ==
    /\ pc = "finish" /\ device = "ended"
    /\ CloseConn /\ AfterFailedDone
    /\ UNCHANGED <<op, held, toDevice, fromDevice, device, streams, client,
                   ends>>

Receipt(kind) == IF kind = "okay" THEN "ok" ELSE "error"

ReadReceipt ==
    /\ pc = "receipt" /\ conn = "open" /\ fromDevice # <<>>
    /\ Return(Receipt(Head(fromDevice).kind))
    /\ CloseConn /\ fromDevice' = Tail(fromDevice)
    /\ UNCHANGED <<op, held, toDevice, device, streams, client, ends>>
-----------------------------------------------------------------------------
(* List, stat and pull.                                                    *)

ReadFails ==
    /\ pc \in {"read", "receipt"}
    /\ conn = "closed" \/ (device = "ended" /\ fromDevice = <<>>)
    /\ Return("error") /\ CloseConn
    /\ UNCHANGED <<op, held, toDevice, fromDevice, device, streams, client,
                   ends>>

Read ==
    /\ pc = "read" /\ conn = "open" /\ fromDevice # <<>>
    /\ fromDevice' = Tail(fromDevice)
    /\ UNCHANGED <<op, toDevice, device, streams, client, ends>>

(* A list collects the entries, a pull forwards each block, and a stat has *)
(* only one.                                                               *)
ReadBlock ==
    /\ Read /\ Head(fromDevice).kind = "data"
    /\ held' = IF op = "list" THEN Append(held, Head(fromDevice).block)
               ELSE <<Head(fromDevice).block>>
    /\ Goto(CASE op = "list" -> "read"
              [] op = "stat" -> "reply"
              [] op = "pull" -> "send")
    /\ UNCHANGED conn

(* Recv closes the connection at DONE; ListDirectory leaves it to defer.   *)
ReadEnd ==
    /\ Read /\ Head(fromDevice).kind = "done" /\ op # "stat"
    /\ IF op = "list" THEN Goto("reply") /\ UNCHANGED conn
       ELSE Goto("last") /\ CloseConn
    /\ UNCHANGED held

(* FAIL, or a packet that does not belong here.                            *)
ReadRefusal ==
    /\ Read
    /\ \/ Head(fromDevice).kind \notin {"data", "done"}
       \/ Head(fromDevice).kind = "done" /\ op = "stat"
    /\ Return("error") /\ CloseConn
    /\ UNCHANGED held

Send(blocks, last) ==
    /\ Room(responses) /\ client # "cancelled"
    /\ responses' = Append(responses, [data |-> blocks, last |-> last])
    /\ UNCHANGED <<op, toDevice, fromDevice, device, requests, client, ends>>

SendBlock ==
    /\ pc = "send" /\ Send(held, FALSE)
    /\ Goto("read") /\ held' = <<>>
    /\ UNCHANGED conn

SendLast ==
    /\ pc = "last" /\ Send(<<>>, TRUE)
    /\ Return("ok") /\ CloseConn
    /\ UNCHANGED held

MutantRetry == UNCHANGED <<pc, result, conn>>
OnSendError == Return("error") /\ CloseConn

SendFails ==
    /\ pc \in {"send", "last"} /\ client = "cancelled"
    /\ OnSendError
    /\ UNCHANGED <<op, held, toDevice, fromDevice, device, streams, client,
                   ends>>

(* The answer of a unary call needs no room: it is the handler's return.   *)
Reply ==
    /\ pc = "reply"
    /\ responses' = <<[data |-> held, last |-> TRUE]>>
    /\ Return("ok") /\ CloseConn
    /\ UNCHANGED <<op, held, toDevice, fromDevice, device, requests, client,
                   ends>>
-----------------------------------------------------------------------------
(* The client.                                                             *)

Ask(msg) ==
    /\ op = "push" /\ client = "open" /\ Room(requests)
    /\ requests' = Append(requests, msg)
    /\ UNCHANGED <<op, handler, session, device, responses, copy, published>>

ClientSend ==
    /\ Len(source) < MaxBlocks
    /\ Ask(Data(Len(source) + 1))
    /\ source' = Append(source, Len(source) + 1)
    /\ UNCHANGED <<client, ended>>

(* PushStream.End also closes the client's direction.                      *)
ClientEnd ==
    /\ Ask(Signal("end"))
    /\ ended' = TRUE /\ client' = "eof"
    /\ UNCHANGED source

(* A client that does not use the library.                                 *)
ClientJunk ==
    /\ Ask(Signal("junk"))
    /\ UNCHANGED <<client, source, ended>>

ClientStops(how) ==
    /\ client # "cancelled" /\ client' = how
    /\ how = "eof" => op = "push" /\ client = "open"
    /\ UNCHANGED <<op, handler, session, device, streams, ends>>

(* PullStream.Recv, and the response of a unary call.                      *)
ClientRecv ==
    /\ responses # <<>> /\ client # "cancelled" /\ ~published
    /\ copy' = copy \o Head(responses).data
    /\ published' = Head(responses).last
    /\ responses' = Tail(responses)
    /\ UNCHANGED <<op, handler, session, device, requests, client, source,
                   ended>>
-----------------------------------------------------------------------------
(* The device's sync service.                                              *)

DeviceWrites(msg) ==
    /\ device = "serving" /\ Room(fromDevice)
    /\ fromDevice' = Append(fromDevice, msg)
    /\ UNCHANGED <<op, handler, conn, streams, client>>

DeviceSends ==
    /\ op # "push" /\ ~ended /\ Len(source) < MaxBlocks
    /\ DeviceWrites(Data(Len(source) + 1))
    /\ source' = Append(source, Len(source) + 1)
    /\ ended' = (op = "stat")
    /\ UNCHANGED <<toDevice, device, copy, published>>

DeviceDone ==
    /\ op \in {"list", "pull"} /\ ~ended
    /\ DeviceWrites(Signal("done"))
    /\ ended' = TRUE
    /\ UNCHANGED <<toDevice, device, source, copy, published>>

(* A device that fails a push reads on up to its end.                      *)
DeviceFails(kind) ==
    /\ op = "push" \/ ~ended
    /\ DeviceWrites(Signal(kind))
    /\ device' = IF op = "push" THEN "draining" ELSE "ended"
    /\ UNCHANGED <<toDevice, ends>>

DeviceStores ==
    /\ device = "serving" /\ toDevice # <<>>
    /\ Head(toDevice).kind = "data"
    /\ copy' = Append(copy, Head(toDevice).block)
    /\ toDevice' = Tail(toDevice)
    /\ UNCHANGED <<op, handler, conn, fromDevice, device, streams, client,
                   source, ended, published>>

DevicePublishes ==
    /\ toDevice # <<>> /\ Head(toDevice).kind = "done"
    /\ DeviceWrites(Signal("okay"))
    /\ toDevice' = Tail(toDevice)
    /\ published' = TRUE /\ device' = "ended"
    /\ UNCHANGED <<source, ended, copy>>

DeviceDrains ==
    /\ device = "draining" /\ toDevice # <<>>
    /\ toDevice' = Tail(toDevice)
    /\ device' = IF Head(toDevice).kind = "done" THEN "ended" ELSE device
    /\ UNCHANGED <<op, handler, conn, fromDevice, streams, client, ends>>

(* The emulator dies, or adb drops the connection, maybe with what was on  *)
(* its way.                                                                *)
DeviceGone ==
    /\ device \in {"serving", "draining"}
    /\ device' = "ended"
    /\ \E n \in 0..Len(fromDevice) : fromDevice' = SubSeq(fromDevice, 1, n)
    /\ UNCHANGED <<op, handler, conn, toDevice, streams, client, ends>>
-----------------------------------------------------------------------------
Answer == OpenFails \/ OpenToRead \/ OpenToWrite

Handler ==
    \/ CheckFails \/ CheckPasses \/ TakeStart \/ RecvFails
    \/ TakeBlock \/ TakeOversize \/ TakeEnd \/ TakeJunk
    \/ WriteBlock \/ WriteBlockFails \/ WriteDone \/ WriteDoneFails
    \/ ReadReceipt \/ ReadFails \/ ReadBlock \/ ReadEnd \/ ReadRefusal
    \/ SendBlock \/ SendLast \/ SendFails \/ Reply

Peers ==
    \/ ClientSend \/ ClientEnd \/ ClientJunk \/ ClientRecv
    \/ \E how \in {"eof", "cancelled"} : ClientStops(how)
    \/ DeviceSends \/ DeviceDone
    \/ \E kind \in {"fail", "junk"} : DeviceFails(kind)
    \/ DeviceStores \/ DevicePublishes \/ DeviceDrains \/ DeviceGone

Next == Handler \/ Answer \/ Peers

Spec == Init /\ [][Next]_vars

(* The handler runs when it can; client, adb and device owe nothing.       *)
FairSpec == Spec /\ WF_vars(Handler)
-----------------------------------------------------------------------------
Blocks == 1..MaxBlocks

IsStream(q) ==
    /\ Len(q) <= Window
    /\ \A i \in 1..Len(q) :
          q[i].kind \in {"start", "data", "end", "done", "okay", "fail", "junk"}

(* The fields of the call keep their types, and a handler that has         *)
(* returned has an outcome and no open connection, whichever of the many   *)
(* ways out it took.                                                       *)
TypeOK ==
    /\ op \in {"list", "stat", "pull", "push"}
    /\ pc \in {"check", "start", "open", "recv", "write", "finish", "receipt",
               "read", "send", "last", "reply", "done"}
    /\ result \in {"none", "ok", "error"}
    /\ conn \in {"none", "open", "closed"}
    /\ device \in {"idle", "serving", "draining", "ended"}
    /\ client \in {"open", "eof", "cancelled"}
    /\ IsStream(toDevice) /\ IsStream(fromDevice) /\ IsStream(requests)
    /\ held \in Seq(Blocks) /\ source \in Seq(Blocks) /\ copy \in Seq(Blocks)
    /\ ended \in BOOLEAN /\ published \in BOOLEAN
    /\ pc = "done" <=> result # "none"
    /\ pc = "done" => conn # "open"

(* Every call is a transfer: what the receiver has is a prefix of what the *)
(* sender offered, no file counts as whole before the sender has ended and *)
(* everything has arrived, and the handler of a push only succeeds for a   *)
(* file that is whole on the device.  This is so although Done forgets     *)
(* the error of its write and devices and clients go away at any point.    *)
T == INSTANCE Transfer WITH verdict <- IF op = "push" THEN result ELSE "none"

TransferSpec == T!Spec

(* The call of a client that has gone ends, unless the handler is waiting  *)
(* for adb or the device at that moment and they never react: no deadline  *)
(* and no cancelled context reaches the adb connection, nor its opening.   *)
OnDevice ==
    /\ pc \in {"open", "read", "receipt", "write", "finish"}
    /\ device # "ended"

CancelledCallEnds == client = "cancelled" ~> (pc = "done" \/ []OnDevice)
=============================================================================
