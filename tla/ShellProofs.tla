---------------------------- MODULE ShellProofs ----------------------------
(***************************************************************************)
(* The safety properties of Shell, for any capacity of the streams and any *)
(* number of messages.                                                     *)
(***************************************************************************)
EXTENDS Shell, SequenceTheorems, TLAPS

USE DEF mains, adb, pumps, client, devices

(* Streams hold messages of their kind, each pump offers something of its  *)
(* own, and the pumps run only for a call that has its connection.         *)
TypeInv ==
    /\ TypeOK
    /\ requests \in Seq(Requests) /\ toDevice \in Seq(Requests)
    /\ packets \in Seq(Packets) /\ produced \in Seq(Packets)
    /\ responses \in Seq(Packets) /\ received \in Seq(Packets)
    /\ pump["request"] = "offer" => held["request"] \in Requests \cup {"error"}
    /\ pump["response"] = "offer" =>
           held["response"] \in Packets \cup {"error"}
    /\ main = "send" => sending \in {"output", "exit"}
    /\ main \in {"start", "open"} =>
           conn = "none" /\ \A p \in Pumps : pump[p] = "off"
    /\ chansClosed => main = "done"

(* What is taken from a stream leaves a stream of its kind.                *)
LEMMA StreamsShrink ==
    ASSUME NEW S, NEW q \in Seq(S), q # <<>>, Len(q) <= Window
    PROVE  /\ Head(q) \in S /\ Tail(q) \in Seq(S)
           /\ Len(Tail(q)) <= Window /\ IsStream(Tail(q), S)
<1>1. /\ Head(q) \in S /\ Tail(q) \in Seq(S)
      /\ Len(Tail(q)) = Len(q) - 1
  BY HeadTailProperties
<1>2. Len(q) \in Nat
  BY LenProperties
<1> QED
  BY <1>1, <1>2, BoundsAreNat DEF IsStream

(* What is put on a stream that has room leaves one that fits.             *)
LEMMA StreamsGrow ==
    ASSUME NEW S, NEW q \in Seq(S), NEW e \in S, Room(q)
    PROVE  /\ Append(q, e) \in Seq(S) /\ Len(Append(q, e)) <= Window
           /\ IsStream(Append(q, e), S)
<1>1. Append(q, e) \in Seq(S) /\ Len(Append(q, e)) = Len(q) + 1
  BY AppendProperties
<1>2. Len(q) \in Nat
  BY LenProperties
<1> QED
  BY <1>1, <1>2, BoundsAreNat DEF IsStream, Room

(* The types, with those of the streams, are inductive.                    *)
LEMMA TypeInvariant == Spec => []TypeInv
<1>1. Init => TypeInv
  <2> SUFFICES ASSUME Init PROVE TypeInv
    OBVIOUS
  <2>1. Len(<<>>) = 0 /\ <<>> \in Seq(Requests) /\ <<>> \in Seq(Packets)
    BY EmptySeq
  <2>2. IsStream(<<>>, Requests) /\ IsStream(<<>>, Packets)
    BY <2>1, BoundsAreNat DEF IsStream
  <2>3. asked \in 0..MaxRequests /\ Len(produced) <= MaxPackets
    BY <2>1, BoundsAreNat DEF Init
  <2>4. /\ pump \in [Pumps -> {"off", "read", "offer", "ended"}]
        /\ held \in [Pumps -> Requests \cup Packets \cup {"none", "error"}]
    BY DEF Init
  <2>5. TypeOK
    BY <2>2, <2>3, <2>4 DEF Init, TypeOK
  <2> QED
    BY <2>1, <2>5 DEF Init, TypeInv, Pumps
<1>2. TypeInv /\ [Next]_vars => TypeInv'
  <2> SUFFICES ASSUME TypeInv, [Next]_vars PROVE TypeInv'
    OBVIOUS
  <2>1. ASSUME StartRejected
        PROVE  TypeInv'
    BY <2>1
       DEF TypeInv, TypeOK, Pumps, Requests, Packets, StartRejected,
           Begin
  <2>2. ASSUME CommandFails
        PROVE  TypeInv'
    BY <2>2
       DEF TypeInv, TypeOK, Pumps, Requests, Packets, CommandFails, Begin
  <2>3. ASSUME CommandRefused
        PROVE  TypeInv'
    BY <2>3
       DEF TypeInv, TypeOK, Pumps, Requests, Packets, CommandRefused,
           Begin
  <2>4. ASSUME CommandOkay
        PROVE  TypeInv'
    BY <2>4
       DEF TypeInv, TypeOK, Pumps, Requests, Packets, CommandOkay, Begin
  <2>5. ASSUME TakeRequest
        PROVE  TypeInv'
    BY <2>5
       DEF TypeInv, TypeOK, Pumps, Requests, Packets, TakeRequest, Take,
           Break, Failure
  <2>6. ASSUME TakePacket
        PROVE  TypeInv'
    BY <2>6
       DEF TypeInv, TypeOK, Pumps, Requests, Packets, TakePacket, Take,
           Break, Failure, Known
  <2>7. ASSUME WriteDone
        PROVE  TypeInv'
    <3>1. toDevice' \in Seq(Requests) /\ IsStream(toDevice', Requests)
      <4>1. "input" \in Requests
        BY DEF Requests
      <4> QED
        <5>1. CASE toDevice' = toDevice
          BY <5>1 DEF TypeInv, TypeOK, IsStream
        <5>2. CASE Room(toDevice) /\ toDevice' = Append(toDevice, "input")
          BY <4>1, <5>2, StreamsGrow DEF TypeInv
        <5> QED
          BY <2>7, <5>1, <5>2 DEF WriteDone
    <3> QED
      BY <2>7, <3>1 DEF TypeInv, TypeOK, WriteDone
  <2>8. ASSUME WriteFails
        PROVE  TypeInv'
    BY <2>8 DEF TypeInv, TypeOK, Pumps, Requests, Packets, WriteFails
  <2>9. ASSUME SendDone
        PROVE  TypeInv'
    <3>1. sending \in Packets
      BY <2>9 DEF TypeInv, SendDone, Packets
    <3>2. responses' \in Seq(Packets) /\ IsStream(responses', Packets)
      BY <2>9, <3>1, StreamsGrow DEF TypeInv, TypeOK, SendDone, Respond
    <3> QED
      BY <2>9, <3>2 DEF TypeInv, TypeOK, SendDone, AfterSend
  <2>10. ASSUME SendFails
        PROVE  TypeInv'
    BY <2>10 DEF TypeInv, TypeOK, Pumps, Requests, Packets, SendFails
  <2>11. ASSUME Cleanup
        PROVE  TypeInv'
    BY <2>11
       DEF TypeInv, TypeOK, Pumps, Requests, Packets, Cleanup, CloseConn
  <2>12. ASSUME ReadRequest
        PROVE  TypeInv'
    <3>1. /\ Head(requests) \in Requests /\ Tail(requests) \in Seq(Requests)
          /\ IsStream(Tail(requests), Requests)
      BY <2>12, StreamsShrink DEF TypeInv, TypeOK, ReadRequest, IsStream
    <3> QED
      BY <2>12, <3>1 DEF TypeInv, TypeOK, ReadRequest, Offer, Pumps
  <2>13. ASSUME ReadRequestFails
        PROVE  TypeInv'
    BY <2>13
       DEF TypeInv, TypeOK, Pumps, Requests, Packets, ReadRequestFails, Offer
  <2>14. ASSUME ReadPacket
        PROVE  TypeInv'
    <3>1. /\ Head(packets) \in Packets /\ Tail(packets) \in Seq(Packets)
          /\ IsStream(Tail(packets), Packets)
      BY <2>14, StreamsShrink DEF TypeInv, TypeOK, ReadPacket, IsStream
    <3> QED
      BY <2>14, <3>1 DEF TypeInv, TypeOK, ReadPacket, Offer, Pumps
  <2>15. ASSUME ReadPacketFails
        PROVE  TypeInv'
    BY <2>15
       DEF TypeInv, TypeOK, Pumps, Requests, Packets, ReadPacketFails, Offer
  <2>16. ASSUME NEW p \in Pumps, PumpPanics(p)
        PROVE  TypeInv'
    BY <2>16 DEF TypeInv, TypeOK, Pumps, Requests, Packets, PumpPanics
  <2>17. ASSUME NEW msg \in Requests, ClientSends(msg)
        PROVE  TypeInv'
    <3>1. requests' \in Seq(Requests) /\ IsStream(requests', Requests)
      BY <2>17, StreamsGrow DEF TypeInv, TypeOK, ClientSends
    <3>2. asked' \in 0..MaxRequests
      BY <2>17, BoundsAreNat DEF TypeInv, TypeOK, ClientSends
    <3> QED
      BY <2>17, <3>1, <3>2 DEF TypeInv, TypeOK, ClientSends, World
  <2>18. ASSUME NEW how \in {"eof", "cancelled"}, ClientEnds(how)
        PROVE  TypeInv'
    BY <2>18 DEF TypeInv, TypeOK, Pumps, Requests, Packets, ClientEnds, World
  <2>19. ASSUME ClientRecv
        PROVE  TypeInv'
    <3>1. /\ Head(responses) \in Packets /\ Tail(responses) \in Seq(Packets)
          /\ IsStream(Tail(responses), Packets)
      BY <2>19, StreamsShrink DEF TypeInv, TypeOK, ClientRecv, IsStream
    <3>2. received' \in Seq(Packets)
      BY <2>19, <3>1, AppendProperties DEF TypeInv, ClientRecv
    <3> QED
      BY <2>19, <3>1, <3>2 DEF TypeInv, TypeOK, ClientRecv, World
  <2>20. ASSUME NEW packet \in Packets, DeviceWrites(packet)
        PROVE  TypeInv'
    <3>1. packets' \in Seq(Packets) /\ IsStream(packets', Packets)
      BY <2>20, StreamsGrow DEF TypeInv, TypeOK, DeviceWrites
    <3>2. produced' \in Seq(Packets) /\ Len(produced') <= MaxPackets
      <4>1. /\ Append(produced, packet) \in Seq(Packets)
            /\ Len(Append(produced, packet)) = Len(produced) + 1
        BY AppendProperties DEF TypeInv
      <4> QED
        BY <2>20, <4>1, BoundsAreNat, LenProperties DEF TypeInv, DeviceWrites
    <3>3. device' \in {"running", "exited", "gone"}
      BY <2>20 DEF DeviceWrites
    <3> QED
      BY <2>20, <3>1, <3>2, <3>3 DEF TypeInv, TypeOK, DeviceWrites, World
  <2>21. ASSUME DeviceReads
        PROVE  TypeInv'
    <3>1. /\ Tail(toDevice) \in Seq(Requests)
          /\ IsStream(Tail(toDevice), Requests)
      BY <2>21, StreamsShrink DEF TypeInv, TypeOK, DeviceReads, IsStream
    <3> QED
      BY <2>21, <3>1 DEF TypeInv, TypeOK, DeviceReads, World
  <2>22. ASSUME DeviceGone
        PROVE  TypeInv'
    <3>1. packets' \in Seq(Packets) /\ IsStream(packets', Packets)
      <4>1. PICK n \in 0..Len(packets) : packets' = SubSeq(packets, 1, n)
        BY <2>22 DEF DeviceGone
      <4>2. Len(packets) \in Nat /\ Len(packets) <= Window
        BY LenProperties DEF TypeInv, TypeOK, IsStream
      <4>3. \A i \in 1..n : packets[i] \in Packets
        BY <4>2, ElementOfSeq DEF TypeInv
      <4>4. /\ SubSeq(packets, 1, n) \in Seq(Packets)
            /\ Len(SubSeq(packets, 1, n)) <= n
        BY <4>2, <4>3, SubSeqProperties
      <4> QED
        BY <4>1, <4>2, <4>4, BoundsAreNat DEF IsStream
    <3> QED
      BY <2>22, <3>1 DEF TypeInv, TypeOK, DeviceGone, World
  <2>23. CASE UNCHANGED vars
    BY <2>23 DEF TypeInv, TypeOK, Pumps, Requests, Packets, vars
  <2>24. ASSUME Open
        PROVE  TypeInv'
    BY <2>24
       DEF TypeInv, TypeOK, Pumps, Requests, Packets, Open, Begin
  <2>25. ASSUME OpenFails
        PROVE  TypeInv'
    BY <2>25
       DEF TypeInv, TypeOK, Pumps, Requests, Packets, OpenFails, Begin
  <2>26. ASSUME TakeBareExit
        PROVE  TypeInv'
    BY <2>26
       DEF TypeInv, TypeOK, Pumps, Requests, Packets, TakeBareExit
  <2> QED
    BY <2>1, <2>2, <2>3, <2>4, <2>5, <2>6, <2>7, <2>8, <2>9, <2>10, <2>11,
       <2>12, <2>13, <2>14, <2>15, <2>16, <2>17, <2>18, <2>19, <2>20, <2>21,
       <2>22, <2>23, <2>24, <2>25, <2>26
       DEF Next, Answer, Main, Pump, Peers
<1> QED
  BY <1>1, <1>2, PTL DEF Spec

(* Every field keeps its type, and no stream gets more than fits.          *)
THEOREM TypeCorrect == Spec => []TypeOK
<1>1. TypeInv => TypeOK
  BY DEF TypeInv
<1> QED
  BY <1>1, TypeInvariant, PTL

(* Whatever way a call ends, it leaves a connection open only if adb has   *)
(* refused its command.                                                    *)
THEOREM ConnectionsAreReleased == Spec => []ConnReleased
<1>1. Init => ConnReleased
  BY DEF Init, ConnReleased
<1>2. TypeInv /\ ConnReleased /\ [Next]_vars => ConnReleased'
  <2> SUFFICES ASSUME TypeInv, ConnReleased, [Next]_vars
               PROVE  ConnReleased'
    OBVIOUS
  <2>1. ASSUME StartRejected
        PROVE  ConnReleased'
    BY <2>1 DEF TypeInv, ConnReleased, StartRejected, Begin
  <2>2. ASSUME CommandFails
        PROVE  ConnReleased'
    BY <2>2 DEF TypeInv, ConnReleased, CommandFails, Begin
  <2>3. ASSUME CommandRefused
        PROVE  ConnReleased'
    BY <2>3 DEF TypeInv, ConnReleased, CommandRefused, Begin
  <2>4. ASSUME CommandOkay
        PROVE  ConnReleased'
    BY <2>4 DEF TypeInv, ConnReleased, CommandOkay, Begin
  <2>5. ASSUME TakeRequest
        PROVE  ConnReleased'
    BY <2>5 DEF TypeInv, ConnReleased, TakeRequest, Take, Break, Failure
  <2>6. ASSUME TakePacket
        PROVE  ConnReleased'
    BY <2>6
       DEF TypeInv, ConnReleased, TakePacket, Take, Break, Failure, Known
  <2>7. ASSUME WriteDone
        PROVE  ConnReleased'
    BY <2>7 DEF TypeInv, ConnReleased, WriteDone, Room
  <2>8. ASSUME WriteFails
        PROVE  ConnReleased'
    BY <2>8 DEF TypeInv, ConnReleased, WriteFails
  <2>9. ASSUME SendDone
        PROVE  ConnReleased'
    BY <2>9 DEF TypeInv, ConnReleased, SendDone, Respond, Room, AfterSend
  <2>10. ASSUME SendFails
        PROVE  ConnReleased'
    BY <2>10 DEF TypeInv, ConnReleased, SendFails
  <2>11. ASSUME Cleanup
        PROVE  ConnReleased'
    BY <2>11 DEF TypeInv, ConnReleased, Cleanup, CloseConn
  <2>12. ASSUME ReadRequest
        PROVE  ConnReleased'
    BY <2>12 DEF TypeInv, ConnReleased, ReadRequest, Offer
  <2>13. ASSUME ReadRequestFails
        PROVE  ConnReleased'
    BY <2>13 DEF TypeInv, ConnReleased, ReadRequestFails, Offer
  <2>14. ASSUME ReadPacket
        PROVE  ConnReleased'
    BY <2>14 DEF TypeInv, ConnReleased, ReadPacket, Offer
  <2>15. ASSUME ReadPacketFails
        PROVE  ConnReleased'
    BY <2>15 DEF TypeInv, ConnReleased, ReadPacketFails, Offer
  <2>16. ASSUME NEW p \in Pumps, PumpPanics(p)
        PROVE  ConnReleased'
    BY <2>16 DEF TypeInv, ConnReleased, PumpPanics
  <2>17. ASSUME NEW msg \in Requests, ClientSends(msg)
        PROVE  ConnReleased'
    BY <2>17 DEF TypeInv, ConnReleased, ClientSends, World, Room
  <2>18. ASSUME NEW how \in {"eof", "cancelled"}, ClientEnds(how)
        PROVE  ConnReleased'
    BY <2>18 DEF TypeInv, ConnReleased, ClientEnds, World
  <2>19. ASSUME ClientRecv
        PROVE  ConnReleased'
    BY <2>19 DEF TypeInv, ConnReleased, ClientRecv, World
  <2>20. ASSUME NEW packet \in Packets, DeviceWrites(packet)
        PROVE  ConnReleased'
    BY <2>20 DEF TypeInv, ConnReleased, DeviceWrites, World, Room
  <2>21. ASSUME DeviceReads
        PROVE  ConnReleased'
    BY <2>21 DEF TypeInv, ConnReleased, DeviceReads, World, Room
  <2>22. ASSUME DeviceGone
        PROVE  ConnReleased'
    BY <2>22 DEF TypeInv, ConnReleased, DeviceGone, World
  <2>23. CASE UNCHANGED vars
    BY <2>23 DEF TypeInv, ConnReleased, vars
  <2>24. ASSUME Open
        PROVE  ConnReleased'
    BY <2>24
       DEF TypeInv, ConnReleased, Open, Begin
  <2>25. ASSUME OpenFails
        PROVE  ConnReleased'
    BY <2>25
       DEF TypeInv, ConnReleased, OpenFails, Begin
  <2>26. ASSUME TakeBareExit
        PROVE  ConnReleased'
    BY <2>26
       DEF TypeInv, ConnReleased, TakeBareExit
  <2> QED
    BY <2>1, <2>2, <2>3, <2>4, <2>5, <2>6, <2>7, <2>8, <2>9, <2>10, <2>11,
       <2>12, <2>13, <2>14, <2>15, <2>16, <2>17, <2>18, <2>19, <2>20, <2>21,
       <2>22, <2>23, <2>24, <2>25, <2>26
       DEF Next, Answer, Main, Pump, Peers
<1> QED
  BY <1>1, <1>2, TypeInvariant, PTL DEF Spec

(* What the device has written is, in order: delivered, in main's hands,   *)
(* offered by the response pump, and on the adb connection.  Only a device *)
(* that went away can have lost something, and only from the end.          *)
Active == main \in {"start", "open", "select", "write", "send"}
Sent == IF main = "send" THEN 1 ELSE 0
Offered ==
    IF pump["response"] = "offer" /\ held["response"] # "error" THEN 1 ELSE 0
Way == Len(Delivered) + Sent + Offered

Reaches ==
    /\ Len(Delivered) <= Len(produced)
    /\ \A i \in 1..Len(Delivered) : Delivered[i] = produced[i]

(* Nothing follows an exit, and success means that it was delivered.       *)
Exited ==
    \A i \in 1..Len(produced) :
        produced[i] = "exit" => i = Len(produced) /\ device = "exited"
Succeeds ==
    status = "ok" =>
        /\ ~Active /\ Len(Delivered) = Len(produced)
        /\ \E i \in 1..Len(produced) : produced[i] = "exit"

OrderInv ==
    /\ Reaches /\ Exited /\ Succeeds
    /\ Active =>
        /\ Sent = 1 => produced[Len(Delivered) + 1] = sending
        /\ Offered = 1 =>
               produced[Len(Delivered) + Sent + 1] = held["response"]
        /\ \A i \in 1..Len(packets) : packets[i] = produced[Way + i]
        /\ Way + Len(packets) <= Len(produced)
        /\ device = "running" => Way + Len(packets) = Len(produced)

(* The first element of a sequence may move to the end of the one before.  *)
LEMMA HeadMoves ==
    ASSUME NEW S, NEW s \in Seq(S), NEW t \in Seq(S), t # <<>>
    PROVE  (s \o <<Head(t)>>) \o Tail(t) = s \o t
<1>1. Head(t) \in S /\ Tail(t) \in Seq(S)
  BY HeadTailProperties
<1>2. <<Head(t)>> \in Seq(S)
  BY <1>1
<1>3. <<Head(t)>> \o Tail(t) = t
  BY <1>1
<1> QED
  BY <1>1, <1>2, <1>3, ConcatAssociative

(* What is appended to the second sequence is appended to both.            *)
LEMMA AppendAfter ==
    ASSUME NEW S, NEW s \in Seq(S), NEW t \in Seq(S), NEW e \in S
    PROVE  s \o Append(t, e) = Append(s \o t, e)
<1>1. s \o t \in Seq(S) /\ <<e>> \in Seq(S)
  BY ConcatProperties
<1>2. Append(t, e) = t \o <<e>> /\ Append(s \o t, e) = (s \o t) \o <<e>>
  BY <1>1, AppendIsConcat
<1> QED
  BY <1>1, <1>2, ConcatAssociative

(* The handler and the pump hold one packet each, or none.                 *)
LEMMA WayCounts ==
    ASSUME TypeInv
    PROVE  /\ Len(Delivered) \in Nat /\ Way \in Nat
           /\ Sent \in {0, 1} /\ Offered \in {0, 1}
           /\ Way = Len(Delivered) + Sent + Offered
<1>1. Len(Delivered) \in Nat
  BY ConcatProperties, LenProperties DEF TypeInv, Delivered
<1>2. Sent \in {0, 1} /\ Offered \in {0, 1}
  BY DEF Sent, Offered
<1> QED
  BY <1>1, <1>2 DEF Way

(* The pipeline from the device to the client keeps this order.            *)
LEMMA OrderInvariant == Spec => []OrderInv
<1>1. Init => OrderInv
  <2> SUFFICES ASSUME Init PROVE OrderInv
    OBVIOUS
  <2>1. Delivered = <<>> /\ Len(<<>>) = 0
    BY ConcatEmptySeq, EmptySeq DEF Init, Delivered
  <2> QED
    BY <2>1 DEF Init, OrderInv, Reaches, Active, Way, Sent, Offered, Exited,
                Succeeds, Pumps
<1>2. TypeInv /\ OrderInv /\ [Next]_vars => OrderInv'
  <2> SUFFICES ASSUME TypeInv, OrderInv, [Next]_vars PROVE OrderInv'
    OBVIOUS
  <2>1. ASSUME StartRejected
        PROVE  OrderInv'
    <3>1. Delivered' = Delivered
      BY <2>1 DEF Delivered, StartRejected, Begin
    <3> QED
      BY <2>1, <3>1
         DEF OrderInv, Reaches, Active, Way, Sent, Offered, Exited, Succeeds,
             TypeInv, TypeOK, Pumps, StartRejected, Begin
  <2>2. ASSUME CommandFails
        PROVE  OrderInv'
    <3>1. Delivered' = Delivered
      BY <2>2 DEF Delivered, CommandFails, Begin
    <3> QED
      BY <2>2, <3>1
         DEF OrderInv, Reaches, Active, Way, Sent, Offered, Exited, Succeeds,
             TypeInv, TypeOK, Pumps, CommandFails, Begin
  <2>3. ASSUME CommandRefused
        PROVE  OrderInv'
    <3>1. Delivered' = Delivered
      BY <2>3 DEF Delivered, CommandRefused, Begin
    <3> QED
      BY <2>3, <3>1
         DEF OrderInv, Reaches, Active, Way, Sent, Offered, Exited, Succeeds,
             TypeInv, TypeOK, Pumps, CommandRefused, Begin
  <2>4. ASSUME CommandOkay
        PROVE  OrderInv'
    <3>1. Delivered' = Delivered
      BY <2>4 DEF Delivered, CommandOkay, Begin
    <3> QED
      BY <2>4, <3>1
         DEF OrderInv, Reaches, Active, Way, Sent, Offered, Exited, Succeeds,
             TypeInv, TypeOK, Pumps, CommandOkay, Begin
  <2>5. ASSUME TakeRequest
        PROVE  OrderInv'
    <3>1. Delivered' = Delivered
      BY <2>5 DEF Delivered, TakeRequest, Take, Break, Failure
    <3> QED
      BY <2>5, <3>1
         DEF OrderInv, Reaches, Active, Way, Sent, Offered, Exited, Succeeds,
             TypeInv, TypeOK, Pumps, TakeRequest, Take, Break, Failure
  <2>6. ASSUME TakePacket
        PROVE  OrderInv'
    <3>1. Delivered' = Delivered
      BY <2>6 DEF Delivered, TakePacket, Take, Break, Failure, Known
    <3> QED
      BY <2>6, <3>1
         DEF OrderInv, Reaches, Active, Way, Sent, Offered, Exited, Succeeds,
             TypeInv, TypeOK, Pumps, TakePacket, Take, Break, Failure, Known
  <2>7. ASSUME WriteDone
        PROVE  OrderInv'
    <3>1. Delivered' = Delivered
      BY <2>7 DEF Delivered, WriteDone, Room
    <3> QED
      BY <2>7, <3>1
         DEF OrderInv, Reaches, Active, Way, Sent, Offered, Exited, Succeeds,
             TypeInv, TypeOK, Pumps, WriteDone, Room
  <2>8. ASSUME WriteFails
        PROVE  OrderInv'
    <3>1. Delivered' = Delivered
      BY <2>8 DEF Delivered, WriteFails
    <3> QED
      BY <2>8, <3>1
         DEF OrderInv, Reaches, Active, Way, Sent, Offered, Exited, Succeeds,
             TypeInv, TypeOK, Pumps, WriteFails
  <2>9. ASSUME SendDone
        PROVE  OrderInv'
    <3>1. /\ sending \in Packets /\ Delivered \in Seq(Packets)
          /\ Delivered' = Append(Delivered, sending)
      BY <2>9, AppendAfter, ConcatProperties
         DEF TypeInv, Packets, Delivered, SendDone, Respond
    <3>2. /\ Len(Delivered) \in Nat /\ Len(produced) \in Nat
          /\ Len(Delivered') = Len(Delivered) + 1
          /\ \A i \in 1..Len(Delivered) : Delivered'[i] = Delivered[i]
          /\ Delivered'[Len(Delivered) + 1] = sending
      BY <3>1, AppendProperties, LenProperties DEF TypeInv
    <3>3. /\ Len(Delivered) + 1 <= Len(produced)
          /\ produced[Len(Delivered) + 1] = sending
          /\ UNCHANGED <<produced, packets, device, pump, held>>
      BY <2>9, <3>2, LenProperties
         DEF OrderInv, Active, Way, Sent, Offered, TypeInv, SendDone
    <3>4. Reaches'
      BY <3>2, <3>3 DEF OrderInv, Reaches
    <3>5. Exited'
      BY <3>3 DEF OrderInv, Exited
    <3>6. Succeeds'
      <4>1. CASE sending = "exit"
        <5>1. Len(Delivered) + 1 = Len(produced)
          BY <3>2, <3>3, <4>1 DEF OrderInv, Exited
        <5> QED
          BY <2>9, <3>2, <3>3, <4>1, <5>1
             DEF Succeeds, Active, SendDone, AfterSend
      <4>2. CASE sending # "exit"
        BY <2>9, <4>2 DEF OrderInv, Succeeds, Active, SendDone
      <4> QED
        BY <4>1, <4>2
    <3> QED
      BY <2>9, <3>2, <3>3, <3>4, <3>5, <3>6
         DEF OrderInv, Active, Way, Sent, Offered, SendDone, AfterSend
  <2>10. ASSUME SendFails
        PROVE  OrderInv'
    <3>1. Delivered' = Delivered
      BY <2>10 DEF Delivered, SendFails
    <3> QED
      BY <2>10, <3>1
         DEF OrderInv, Reaches, Active, Way, Sent, Offered, Exited, Succeeds,
             TypeInv, TypeOK, Pumps, SendFails
  <2>11. ASSUME Cleanup
        PROVE  OrderInv'
    <3>1. Delivered' = Delivered
      BY <2>11 DEF Delivered, Cleanup, CloseConn
    <3> QED
      BY <2>11, <3>1
         DEF OrderInv, Reaches, Active, Way, Sent, Offered, Exited, Succeeds,
             TypeInv, TypeOK, Pumps, Cleanup, CloseConn
  <2>12. ASSUME ReadRequest
        PROVE  OrderInv'
    <3>1. Delivered' = Delivered
      BY <2>12 DEF Delivered, ReadRequest, Offer
    <3> QED
      BY <2>12, <3>1
         DEF OrderInv, Reaches, Active, Way, Sent, Offered, Exited, Succeeds,
             TypeInv, TypeOK, Pumps, ReadRequest, Offer
  <2>13. ASSUME ReadRequestFails
        PROVE  OrderInv'
    <3>1. Delivered' = Delivered
      BY <2>13 DEF Delivered, ReadRequestFails, Offer
    <3> QED
      BY <2>13, <3>1
         DEF OrderInv, Reaches, Active, Way, Sent, Offered, Exited, Succeeds,
             TypeInv, TypeOK, Pumps, ReadRequestFails, Offer
  <2>14. ASSUME ReadPacket
        PROVE  OrderInv'
    <3>1. Delivered' = Delivered
      BY <2>14 DEF Delivered, ReadPacket, Offer
    <3>2. /\ packets # <<>> /\ packets' = Tail(packets)
          /\ pump["response"] = "read" /\ pump'["response"] = "offer"
          /\ held'["response"] = Head(packets)
          /\ UNCHANGED <<main, sending, status, device, produced>>
      BY <2>14 DEF ReadPacket, Offer, TypeInv, TypeOK, Pumps
    <3>3. /\ Head(packets) = packets[1] /\ Len(packets) \in Nat \ {0}
          /\ Len(Tail(packets)) = Len(packets) - 1
          /\ \A i \in 1..Len(Tail(packets)) : Tail(packets)[i] = packets[i + 1]
          /\ Head(packets) \in Packets
      BY <3>2, HeadTailProperties, LenProperties, EmptySeq DEF TypeInv
    <3>4. Sent' = Sent /\ Offered = 0 /\ Offered' = 1
      BY <3>2, <3>3 DEF Sent, Offered, Packets
    <3>5. Way' = Way + 1 /\ Len(Delivered) + Sent = Way
      BY <3>1, <3>4, WayCounts DEF Way
    <3>6. Reaches' /\ Exited' /\ Succeeds'
      BY <3>1, <3>2 DEF OrderInv, Reaches, Exited, Succeeds, Active
    <3>7. Len(produced) \in Nat
      BY LenProperties DEF TypeInv
    <3>8. Active' => Active
      BY <3>2 DEF Active
    <3>9. ASSUME Active'
          PROVE  \A i \in 1..Len(packets') : packets'[i] = produced[Way' + i]
      <4>1. \A i \in 1..Len(packets) : packets[i] = produced[Way + i]
        BY <3>8, <3>9 DEF OrderInv
      <4> SUFFICES ASSUME NEW i \in 1..Len(packets')
                   PROVE  packets'[i] = produced[Way' + i]
        OBVIOUS
      <4>2. i + 1 \in 1..Len(packets) /\ packets'[i] = packets[i + 1]
        BY <3>2, <3>3
      <4> QED
        BY <3>5, <4>1, <4>2, WayCounts
    <3>10. ASSUME Active'
           PROVE  /\ Offered' = 1 =>
                       produced[Len(Delivered) + Sent + 1] = held'["response"]
                  /\ Way' + Len(packets') <= Len(produced)
                  /\ device = "running" =>
                       Way' + Len(packets') = Len(produced)
      BY <3>2, <3>3, <3>5, <3>7, <3>8, <3>10, WayCounts DEF OrderInv
    <3> QED
      BY <3>1, <3>2, <3>4, <3>6, <3>8, <3>9, <3>10 DEF OrderInv
  <2>15. ASSUME ReadPacketFails
        PROVE  OrderInv'
    <3>1. Delivered' = Delivered
      BY <2>15 DEF Delivered, ReadPacketFails, Offer
    <3> QED
      BY <2>15, <3>1
         DEF OrderInv, Reaches, Active, Way, Sent, Offered, Exited, Succeeds,
             TypeInv, TypeOK, Pumps, ReadPacketFails, Offer
  <2>16. ASSUME NEW p \in Pumps, PumpPanics(p)
        PROVE  OrderInv'
    <3>1. Delivered' = Delivered
      BY <2>16 DEF Delivered, PumpPanics
    <3> QED
      BY <2>16, <3>1
         DEF OrderInv, Reaches, Active, Way, Sent, Offered, Exited, Succeeds,
             TypeInv, TypeOK, Pumps, PumpPanics
  <2>17. ASSUME NEW msg \in Requests, ClientSends(msg)
        PROVE  OrderInv'
    <3>1. Delivered' = Delivered
      BY <2>17 DEF Delivered, ClientSends, World, Room
    <3> QED
      BY <2>17, <3>1
         DEF OrderInv, Reaches, Active, Way, Sent, Offered, Exited, Succeeds,
             TypeInv, TypeOK, Pumps, ClientSends, World, Room
  <2>18. ASSUME NEW how \in {"eof", "cancelled"}, ClientEnds(how)
        PROVE  OrderInv'
    <3>1. Delivered' = Delivered
      BY <2>18 DEF Delivered, ClientEnds, World
    <3> QED
      BY <2>18, <3>1
         DEF OrderInv, Reaches, Active, Way, Sent, Offered, Exited, Succeeds,
             TypeInv, TypeOK, Pumps, ClientEnds, World
  <2>19. ASSUME ClientRecv
        PROVE  OrderInv'
    <3>1. Delivered' = Delivered
      <4>1. received' = received \o <<Head(responses)>>
        BY <2>19, AppendIsConcat, HeadTailProperties DEF TypeInv, ClientRecv
      <4> QED
        BY <2>19, <4>1, HeadMoves DEF TypeInv, Delivered, ClientRecv
    <3> QED
      BY <2>19, <3>1
         DEF OrderInv, Reaches, Active, Way, Sent, Offered, Exited, Succeeds,
             TypeInv, TypeOK, ClientRecv, World
  <2>20. ASSUME NEW packet \in Packets, DeviceWrites(packet)
        PROVE  OrderInv'
    <3>1. Delivered' = Delivered
      BY <2>20 DEF Delivered, DeviceWrites, World
    <3>2. /\ Len(packets) \in Nat /\ Len(produced) \in Nat
          /\ Len(packets') = Len(packets) + 1
          /\ Len(produced') = Len(produced) + 1
          /\ \A i \in 1..Len(packets) : packets'[i] = packets[i]
          /\ \A i \in 1..Len(produced) : produced'[i] = produced[i]
          /\ packets'[Len(packets) + 1] = packet
          /\ produced'[Len(produced) + 1] = packet
      BY <2>20, AppendProperties, LenProperties DEF TypeInv, DeviceWrites
    <3>3. Len(Delivered) \in Nat /\ Way \in Nat /\ Way' = Way
      <4>1. UNCHANGED <<main, pump, held>>
        BY <2>20 DEF DeviceWrites, World
      <4>2. Sent' = Sent /\ Offered' = Offered
        BY <4>1 DEF Sent, Offered
      <4> QED
        BY <3>1, <4>2, WayCounts DEF Way
    <3>4. /\ device = "running" /\ UNCHANGED <<main, sending, status, held>>
          /\ Sent' = Sent /\ Offered' = Offered
          /\ device' = IF packet = "exit" THEN "exited" ELSE device
      BY <2>20 DEF DeviceWrites, World, Sent, Offered
    <3>5. Reaches'
      BY <3>1, <3>2, <3>3 DEF OrderInv, Reaches
    <3>6. Exited'
      BY <3>2, <3>4 DEF OrderInv, Exited
    <3>7. Succeeds'
      BY <3>4 DEF OrderInv, Exited, Succeeds
    <3>8. Active' = Active
      BY <3>4 DEF Active
    <3>9. ASSUME Active
          PROVE  /\ Way + Len(packets) = Len(produced)
                 /\ Sent = 1 => produced[Len(Delivered) + 1] = sending
                 /\ Offered = 1 =>
                      produced[Len(Delivered) + Sent + 1] = held["response"]
                 /\ \A i \in 1..Len(packets) :
                        packets[i] = produced[Way + i]
      BY <3>4, <3>9 DEF OrderInv
    <3>10. ASSUME Active
           PROVE  \A i \in 1..Len(packets') :
                      packets'[i] = produced'[Way + i]
      <4> SUFFICES ASSUME NEW i \in 1..Len(packets')
                   PROVE  packets'[i] = produced'[Way + i]
        OBVIOUS
      <4>1. CASE i <= Len(packets)
        <5>1. i \in 1..Len(packets) /\ Way + i \in 1..Len(produced)
          BY <3>2, <3>9, <3>10, <4>1, WayCounts
        <5> QED
          BY <3>2, <3>9, <3>10, <5>1
      <4>2. CASE i = Len(packets) + 1
        BY <3>2, <3>9, <3>10, <4>2, WayCounts
      <4> QED
        BY <3>2, <4>1, <4>2
    <3>11. ASSUME Active
           PROVE  /\ Sent = 1 => produced'[Len(Delivered) + 1] = sending
                  /\ Offered = 1 =>
                       produced'[Len(Delivered) + Sent + 1] = held["response"]
                  /\ Way + Len(packets') = Len(produced')
                  /\ Way + Len(packets') <= Len(produced')
      <4>1. Sent = 1 => Len(Delivered) + 1 \in 1..Len(produced)
        BY <3>2, <3>9, <3>11, WayCounts
      <4>2. Offered = 1 => Len(Delivered) + Sent + 1 \in 1..Len(produced)
        BY <3>2, <3>9, <3>11, WayCounts
      <4>3. Way + Len(packets') = Len(produced')
        <5>1. Way + Len(packets) = Len(produced)
          BY <3>9, <3>11
        <5> QED
          BY <3>2, <3>3, <5>1
      <4>4. Way + Len(packets') <= Len(produced')
        BY <3>2, <4>3
      <4>5. Sent = 1 => produced'[Len(Delivered) + 1] = sending
        BY <3>2, <3>9, <3>11, <4>1
      <4>6. Offered = 1 =>
              produced'[Len(Delivered) + Sent + 1] = held["response"]
        BY <3>2, <3>9, <3>11, <4>2
      <4> QED
        BY <4>3, <4>4, <4>5, <4>6
    <3> QED
      BY <3>1, <3>3, <3>4, <3>5, <3>6, <3>7, <3>8, <3>10, <3>11
         DEF OrderInv
  <2>21. ASSUME DeviceReads
        PROVE  OrderInv'
    <3>1. Delivered' = Delivered
      BY <2>21 DEF Delivered, DeviceReads, World, Room
    <3> QED
      BY <2>21, <3>1
         DEF OrderInv, Reaches, Active, Way, Sent, Offered, Exited, Succeeds,
             TypeInv, TypeOK, Pumps, DeviceReads, World, Room
  <2>22. ASSUME DeviceGone
        PROVE  OrderInv'
    <3>1. Delivered' = Delivered
      BY <2>22 DEF Delivered, DeviceGone, World
    <3>2. /\ Len(packets') <= Len(packets) /\ Len(packets') \in Nat
          /\ Len(packets) \in Nat
          /\ \A i \in 1..Len(packets') : packets'[i] = packets[i]
      <4>1. PICK n \in 0..Len(packets) : packets' = SubSeq(packets, 1, n)
        BY <2>22 DEF DeviceGone
      <4>2. Len(packets) \in Nat
        BY LenProperties DEF TypeInv
      <4>3. \A i \in 1..n : packets[i] \in Packets
        BY <4>2, ElementOfSeq DEF TypeInv
      <4>4. /\ Len(SubSeq(packets, 1, n)) = n
            /\ \A i \in 1..n : SubSeq(packets, 1, n)[i] = packets[i]
        <5>1. CASE n = 0
          BY <4>2, <4>3, <5>1, SubSeqProperties
        <5>2. CASE n > 0
          BY <4>2, <4>3, <5>2, SubSeqProperties
        <5> QED
          BY <4>2, <5>1, <5>2
      <4> QED
        BY <4>1, <4>2, <4>4
    <3>3. Way \in Nat /\ Way' = Way
      <4>1. UNCHANGED <<main, pump, held>>
        BY <2>22 DEF DeviceGone, World
      <4>2. Sent' = Sent /\ Offered' = Offered
        BY <4>1 DEF Sent, Offered
      <4> QED
        BY <3>1, <4>2, WayCounts DEF Way
    <3>4. Len(produced) \in Nat
      BY LenProperties DEF TypeInv
    <3> QED
      BY <2>22, <3>1, <3>2, <3>3, <3>4
         DEF OrderInv, Reaches, Active, Sent, Offered, Exited, Succeeds,
             DeviceGone, World
  <2>23. CASE UNCHANGED vars
    BY <2>23
       DEF OrderInv, Reaches, Active, Way, Sent, Offered, Exited, Succeeds,
           TypeInv, TypeOK, Delivered, vars
  <2>24. ASSUME Open
        PROVE  OrderInv'
    <3>1. Delivered' = Delivered
      BY <2>24 DEF Delivered, Open, Begin
    <3> QED
      BY <2>24, <3>1
         DEF OrderInv, Reaches, Active, Way, Sent, Offered, Exited, Succeeds,
             TypeInv, TypeOK, Pumps, Open, Begin
  <2>25. ASSUME OpenFails
        PROVE  OrderInv'
    <3>1. Delivered' = Delivered
      BY <2>25 DEF Delivered, OpenFails, Begin
    <3> QED
      BY <2>25, <3>1
         DEF OrderInv, Reaches, Active, Way, Sent, Offered, Exited, Succeeds,
             TypeInv, TypeOK, Pumps, OpenFails, Begin
  <2>26. ASSUME TakeBareExit
        PROVE  OrderInv'
    <3>1. Delivered' = Delivered
      BY <2>26 DEF Delivered, TakeBareExit
    <3> QED
      BY <2>26, <3>1
         DEF OrderInv, Reaches, Active, Way, Sent, Offered, Exited, Succeeds,
             TypeInv, TypeOK, Pumps, TakeBareExit
  <2> QED
    BY <2>1, <2>2, <2>3, <2>4, <2>5, <2>6, <2>7, <2>8, <2>9, <2>10, <2>11,
       <2>12, <2>13, <2>14, <2>15, <2>16, <2>17, <2>18, <2>19, <2>20, <2>21,
       <2>22, <2>23, <2>24, <2>25, <2>26
       DEF Next, Answer, Main, Pump, Peers
<1> QED
  BY <1>1, <1>2, TypeInvariant, PTL DEF Spec

(* A sequence that agrees with the start of another is its start.          *)
LEMMA StartsEqual ==
    ASSUME NEW S, NEW s \in Seq(S), NEW t \in Seq(S), Len(s) <= Len(t),
           \A i \in 1..Len(s) : s[i] = t[i]
    PROVE  s = SubSeq(t, 1, Len(s)) /\ (Len(s) = Len(t) => s = t)
<1> DEFINE u == SubSeq(t, 1, Len(s))
<1>1. Len(s) \in Nat /\ Len(t) \in Nat
  BY LenProperties
<1>2. \A i \in 1..Len(s) : t[i] \in S
  BY <1>1, ElementOfSeq
<1>3. /\ u \in Seq(S) /\ Len(u) = Len(s)
      /\ \A i \in 1..Len(s) : u[i] = t[i]
  BY <1>1, <1>2, SubSeqProperties
<1>4. s = u
  <2>1. \A i \in 1..Len(s) : s[i] = u[i]
    BY <1>3
  <2> HIDE DEF u
  <2> QED
    BY <1>3, <2>1, SeqEqual
<1>5. Len(s) = Len(t) => s = t
  BY SeqEqual
<1> QED
  BY <1>4, <1>5

(* What the client has been sent is the start of what the device wrote.    *)
THEOREM DeliveryIsInOrder == Spec => []DeliveredInOrder
<1>1. TypeInv /\ OrderInv => DeliveredInOrder
  <2> SUFFICES ASSUME TypeInv, OrderInv PROVE DeliveredInOrder
    OBVIOUS
  <2>1. Delivered \in Seq(Packets) /\ produced \in Seq(Packets)
    BY ConcatProperties DEF TypeInv, Delivered
  <2> QED
    BY <2>1, StartsEqual DEF OrderInv, Reaches, DeliveredInOrder
<1> QED
  BY <1>1, TypeInvariant, OrderInvariant, PTL

(* A call that ends well has delivered all that the device wrote, up to    *)
(* and with its exit.                                                      *)
THEOREM SuccessIsWhole == Spec => []SuccessIsComplete
<1>1. TypeInv /\ OrderInv => SuccessIsComplete
  <2> SUFFICES ASSUME TypeInv, OrderInv, status = "ok"
               PROVE  /\ Delivered = produced
                      /\ \E i \in 1..Len(produced) : produced[i] = "exit"
    BY DEF SuccessIsComplete
  <2>1. Delivered \in Seq(Packets) /\ produced \in Seq(Packets)
    BY ConcatProperties DEF TypeInv, Delivered
  <2> QED
    BY <2>1, StartsEqual DEF OrderInv, Reaches, Succeeds
<1> QED
  BY <1>1, TypeInvariant, OrderInvariant, PTL
-----------------------------------------------------------------------------
(* What each goroutine of a call needs to go on.                           *)
MainCanGoOn ==
    \/ main \in {"start", "break"}
    \/ main = "select" /\ \E p \in Pumps : pump[p] = "offer"
    \/ /\ main = "write"
       /\ device = "running" => conn = "closed" \/ Room(toDevice)
    \/ main = "send" /\ (clientEnd = "cancelled" \/ Room(responses))

PumpCanGoOn(p) ==
    \/ pump[p] = "offer" /\ chansClosed
    \/ /\ p = "request" /\ pump[p] = "read"
       /\ \/ requests # <<>> \/ clientEnd # "open" \/ main = "done"
    \/ /\ p = "response" /\ pump[p] = "read"
       /\ conn = "closed" \/ packets # <<>> \/ device # "running"

(* A call that does not go on waits for an answer of adb, or for its       *)
(* client or its device: for something to do, or for room for what it has  *)
(* to hand over.  Handler and pumps never wait for each other only.        *)
WaitsForPeers ==
    \/ main = "open"
    \/ main = "select" /\ clientEnd = "open" /\ requests = <<>>
                       /\ device = "running" /\ packets = <<>>
    \/ main = "write" /\ device = "running" /\ ~Room(toDevice)
    \/ main = "send" /\ clientEnd # "cancelled" /\ ~Room(responses)

NoInnerDeadlock ==
    main \notin {"done", "down"} =>
        \/ MainCanGoOn \/ \E p \in Pumps : PumpCanGoOn(p)
        \/ WaitsForPeers

(* After a call each of its pumps has ended or can go on ...               *)
PumpsCanEnd ==
    main = "done" =>
        \A p \in Pumps : pump[p] \in {"off", "ended"} \/ PumpCanGoOn(p)

(* ... towards its end: it offers what it has read, if anything, and ends. *)
PumpsOnlyEnd ==
    [][main = "done" =>
          /\ main' = "done"
          /\ \A p \in Pumps :
                 \/ pump'[p] = pump[p]
                 \/ pump[p] = "read" /\ pump'[p] = "offer"
                 \/ pump[p] = "offer" /\ pump'[p] = "ended"]_vars

(* The pumps run as long as the handler's loop, and what they need to end  *)
(* is there when the handler returns.                                      *)
PumpInv ==
    /\ main \in {"start", "open"} => \A p \in Pumps : pump[p] = "off"
    /\ main \in {"select", "write", "send"} =>
           /\ conn # "none"
           /\ \A p \in Pumps : pump[p] \in {"read", "offer"}
    /\ main = "break" => conn # "none"
    /\ main = "done" =>
           \/ chansClosed /\ conn = "closed"
           \/ \A p \in Pumps : pump[p] = "off"

(* The invariant of the pumps is inductive.                                *)
LEMMA PumpInvariant == Spec => [](TypeInv /\ PumpInv)
<1>1. Init => PumpInv
  BY DEF Init, PumpInv
<1>2. TypeInv /\ PumpInv /\ [Next]_vars => PumpInv'
  <2> SUFFICES ASSUME TypeInv, PumpInv, [Next]_vars PROVE PumpInv'
    OBVIOUS
  <2> USE DEF PumpInv
  <2>1. CASE StartRejected \/ Open \/ OpenFails \/ CommandFails
               \/ CommandRefused \/ TakeBareExit
    BY <2>1 DEF TypeInv, StartRejected, Open, OpenFails, CommandFails,
                CommandRefused, TakeBareExit, Begin
  <2>2. CASE CommandOkay
    BY <2>2 DEF CommandOkay, Begin
  <2>3. CASE TakeRequest
    BY <2>3 DEF TypeInv, TypeOK, TakeRequest, Take, Break, Failure,
                Pumps, Requests
  <2>4. CASE TakePacket
    BY <2>4 DEF TypeInv, TypeOK, TakePacket, Take, Break, Failure, Known,
                Pumps, Packets
  <2>5. CASE WriteDone \/ WriteFails
    BY <2>5 DEF WriteDone, WriteFails
  <2>6. CASE SendDone \/ SendFails
    BY <2>6 DEF SendDone, SendFails, AfterSend
  <2>7. CASE Cleanup
    BY <2>7 DEF Cleanup, CloseConn
  <2>8. CASE ReadRequest \/ ReadRequestFails
    BY <2>8 DEF TypeInv, TypeOK, ReadRequest, ReadRequestFails, Offer, Pumps
  <2>9. CASE ReadPacket
    BY <2>9 DEF TypeInv, TypeOK, ReadPacket, Offer, Pumps
  <2>10. CASE ReadPacketFails
    BY <2>10 DEF TypeInv, TypeOK, ReadPacketFails, Offer, Pumps
  <2>11. ASSUME NEW p \in Pumps, PumpPanics(p) PROVE PumpInv'
    BY <2>11 DEF TypeInv, TypeOK, PumpPanics, Pumps
  <2>12. CASE Peers
    <3>1. UNCHANGED <<main, conn, chansClosed, pump>>
      BY <2>12 DEF Peers, ClientSends, ClientEnds, ClientRecv, DeviceWrites,
                   DeviceReads, DeviceGone, World
    <3> QED
      BY <3>1
  <2>13. CASE UNCHANGED vars
    BY <2>13 DEF vars
  <2> QED
    BY <2>1, <2>2, <2>3, <2>4, <2>5, <2>6, <2>7, <2>8, <2>9, <2>10, <2>11,
       <2>12, <2>13 DEF Next, Answer, Main, Pump
<1> QED
  BY <1>1, <1>2, TypeInvariant, PTL DEF Spec

(* The unbuffered channels between the pumps and the handler are no trap.  *)
THEOREM CallsWaitForPeersOnly == Spec => []NoInnerDeadlock
<1>1. TypeInv /\ PumpInv => NoInnerDeadlock
  <2> SUFFICES ASSUME TypeInv, PumpInv, main \notin {"done", "down"},
                      \A p \in Pumps : ~PumpCanGoOn(p), ~MainCanGoOn
               PROVE  WaitsForPeers
    BY DEF NoInnerDeadlock
  <2>1. main \in {"open", "select", "write", "send"}
    BY DEF MainCanGoOn, TypeInv, TypeOK
  <2>2. CASE main = "select"
    <3>1. pump["request"] = "read" /\ pump["response"] = "read"
      BY <2>2 DEF PumpInv, MainCanGoOn, Pumps
    <3>2. ~PumpCanGoOn("request") /\ ~PumpCanGoOn("response")
      BY DEF Pumps
    <3> QED
      BY <2>2, <3>1, <3>2 DEF PumpCanGoOn, WaitsForPeers
  <2>3. CASE main = "write"
    BY <2>3 DEF MainCanGoOn, WaitsForPeers
  <2>4. CASE main = "send"
    BY <2>4 DEF MainCanGoOn, WaitsForPeers
  <2> QED
    BY <2>1, <2>2, <2>3, <2>4 DEF WaitsForPeers
<1> QED
  BY <1>1, PumpInvariant, PTL

(* No pump of a call that is over is left behind: whatever it was doing,   *)
(* what it waits for has come.                                             *)
THEOREM NoPumpIsLeftBehind == Spec => []PumpsCanEnd /\ PumpsOnlyEnd
<1>1. TypeInv /\ PumpInv => PumpsCanEnd
  BY DEF TypeInv, TypeOK, PumpInv, PumpsCanEnd, PumpCanGoOn, Pumps
<1> DEFINE OnlyEnd ==
        main = "done" =>
          /\ main' = "done"
          /\ \A p \in Pumps :
                 \/ pump'[p] = pump[p]
                 \/ pump[p] = "read" /\ pump'[p] = "offer"
                 \/ pump[p] = "offer" /\ pump'[p] = "ended"
<1>2. TypeInv /\ [Next]_vars => [OnlyEnd]_vars
  <2> SUFFICES ASSUME TypeInv, main = "done", Next PROVE OnlyEnd
    OBVIOUS
  <2>1. CASE Main \/ Answer
    BY <2>1 DEF Main, Answer, StartRejected, Open, OpenFails, CommandFails,
                CommandRefused, CommandOkay, Begin, TakeRequest, TakePacket,
                TakeBareExit, Take, WriteDone, WriteFails, SendDone, SendFails,
                Cleanup
  <2>2. CASE Pump
    BY <2>2 DEF TypeInv, TypeOK, Pump, ReadRequest, ReadRequestFails,
                ReadPacket, ReadPacketFails, PumpPanics, Offer, Pumps
  <2>3. CASE Peers
    BY <2>3 DEF Peers, ClientSends, ClientEnds, ClientRecv, DeviceWrites,
                DeviceReads, DeviceGone, World
  <2> QED
    BY <2>1, <2>2, <2>3 DEF Next
<1>3. Spec => [][OnlyEnd]_vars
  BY TypeInvariant, <1>2, PTL DEF Spec
<1>4. Spec => PumpsOnlyEnd
  BY <1>3 DEF PumpsOnlyEnd, OnlyEnd
<1> QED
  BY <1>1, <1>4, PumpInvariant, PTL
=============================================================================
