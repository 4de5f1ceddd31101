------------------------- MODULE FileTransferProofs -------------------------
(***************************************************************************)
(* FileTransfer implements Transfer, for any capacity of the streams and   *)
(* files of any length.                                                    *)
(***************************************************************************)
EXTENDS FileTransfer, Integers, SequenceTheorems, TLAPS

USE DEF handler, session, streams, ends

(* What each stream carries, and the places a handler goes through.        *)
Kinds == {"start", "data", "end", "done", "okay", "fail", "junk"}
Messages ==
    {m \in [kind : Kinds, block : Nat] : m.kind = "data" => m.block \in Blocks}
Answers == [data : Seq(Blocks), last : BOOLEAN]

Opening == {"check", "start", "open"}
Pushing == {"recv", "write", "finish", "receipt"}
Fetching == {"read", "send", "last", "reply"}

(* Each call keeps to its own part of the handler, no push has a response  *)
(* and no other call a request, and nothing runs before the connection.    *)
TypeInv ==
    /\ TypeOK
    /\ requests \in Seq(Messages) /\ toDevice \in Seq(Messages)
    /\ fromDevice \in Seq(Messages) /\ responses \in Seq(Answers)
    /\ Len(source) <= MaxBlocks
    /\ op = "push" => pc \notin Fetching /\ responses = <<>>
    /\ op # "push" => /\ pc \notin Pushing \cup {"start"}
                      /\ requests = <<>> /\ toDevice = <<>>
                      /\ device # "draining"
    /\ op = "list" => pc \notin {"send", "last"}
    /\ op = "stat" => pc \notin {"send", "last"}
    /\ op = "pull" => pc # "reply"
    /\ pc \in Opening => device = "idle" /\ conn = "none" /\ held = <<>>
    /\ pc = "write" => held # <<>>
    /\ device = "idle" =>
         toDevice = <<>> /\ fromDevice = <<>> /\ pc \in Opening \cup {"done"}

(* What is left of a stream when its first message is taken.               *)
LEMMA HeadTail ==
    ASSUME NEW S, NEW q \in Seq(S), q # <<>>
    PROVE  /\ Head(q) = q[1] /\ Head(q) \in S /\ Tail(q) \in Seq(S)
           /\ Len(q) \in Nat /\ Len(q) >= 1 /\ Len(Tail(q)) = Len(q) - 1
           /\ \A i \in 1..Len(Tail(q)) : Tail(q)[i] = q[i + 1]
<1>1. Len(q) \in Nat /\ Len(q) # 0
  BY LenProperties, EmptySeq
<1> QED
  BY <1>1, HeadTailProperties

(* What there is of a stream when a message has been put on it.            *)
LEMMA Appended ==
    ASSUME NEW S, NEW q \in Seq(S), NEW e \in S
    PROVE  /\ Append(q, e) \in Seq(S) /\ Append(q, e) # <<>>
           /\ Len(q) \in Nat /\ Len(Append(q, e)) = Len(q) + 1
           /\ \A i \in 1..Len(q) : Append(q, e)[i] = q[i]
           /\ Append(q, e)[Len(q) + 1] = e
BY AppendProperties, LenProperties

(* A sequence of messages that is short enough is a stream.                *)
LEMMA StreamsAreTyped ==
    ASSUME NEW q \in Seq(Messages), Len(q) <= Window
    PROVE  IsStream(q)
<1>1. \A i \in 1..Len(q) : q[i] \in Messages
  BY ElementOfSeq
<1> QED
  BY <1>1 DEF IsStream, Messages, Kinds

(* One message taken keeps a stream.                                       *)
LEMMA StreamsShrink ==
    ASSUME NEW q \in Seq(Messages), q # <<>>, IsStream(q)
    PROVE  /\ Tail(q) \in Seq(Messages) /\ IsStream(Tail(q))
           /\ Head(q) \in Messages
<1>1. Tail(q) \in Seq(Messages) /\ Len(Tail(q)) <= Window
  BY HeadTail, BoundsAreNat DEF IsStream
<1> QED
  BY <1>1, StreamsAreTyped, HeadTail

(* One message put where there is room keeps a stream.                     *)
LEMMA StreamsGrow ==
    ASSUME NEW q \in Seq(Messages), Room(q), NEW m \in Messages
    PROVE  Append(q, m) \in Seq(Messages) /\ IsStream(Append(q, m))
<1>1. Append(q, m) \in Seq(Messages) /\ Len(Append(q, m)) <= Window
  BY Appended, BoundsAreNat DEF Room
<1> QED
  BY <1>1, StreamsAreTyped

(* Signals and the sender's blocks are messages.                           *)
LEMMA MessageFacts ==
    /\ \A kind \in Kinds \ {"data"} : Signal(kind) \in Messages
    /\ \A b \in Blocks : Data(b) \in Messages
    /\ Blocks \subseteq Nat
BY BoundsAreNat DEF Signal, Data, Messages, Kinds, Blocks

(* What arrives of a stream that is cut is its start.                      *)
LEMMA StreamsCut ==
    ASSUME NEW q \in Seq(Messages), IsStream(q), NEW n \in 0..Len(q)
    PROVE  /\ SubSeq(q, 1, n) \in Seq(Messages) /\ IsStream(SubSeq(q, 1, n))
           /\ Len(SubSeq(q, 1, n)) = n
           /\ \A i \in 1..n : SubSeq(q, 1, n)[i] = q[i]
<1>1. Len(q) \in Nat /\ Len(q) <= Window /\ n \in Nat
  BY LenProperties DEF IsStream
<1>2. \A i \in 1..n : q[i] \in Messages
  BY <1>1, ElementOfSeq
<1>3. /\ SubSeq(q, 1, n) \in Seq(Messages) /\ Len(SubSeq(q, 1, n)) = n
      /\ \A i \in 1..n : SubSeq(q, 1, n)[i] = q[i]
  <2>1. CASE n = 0
    BY <1>1, <1>2, <2>1, SubSeqProperties
  <2>2. CASE n > 0
    BY <1>1, <1>2, <2>2, SubSeqProperties
  <2> QED
    BY <1>1, <2>1, <2>2
<1>4. Len(SubSeq(q, 1, n)) <= Window
  BY <1>1, <1>3, BoundsAreNat
<1> HIDE DEF IsStream
<1>5. IsStream(SubSeq(q, 1, n))
  BY <1>3, <1>4, StreamsAreTyped
<1> QED
  BY <1>3, <1>5

(* The types, with those of the streams, are inductive.                    *)
LEMMA TypeInvariant == Spec => []TypeInv
<1>1. Init => TypeInv
  <2> SUFFICES ASSUME Init PROVE TypeInv
    OBVIOUS
  <2>1. /\ <<>> \in Seq(Messages) /\ IsStream(<<>>) /\ <<>> \in Seq(Answers)
        /\ <<>> \in Seq(Blocks) /\ Len(<<>>) <= MaxBlocks
    <3>1. /\ \A S : <<>> \in Seq(S)
          /\ Len(<<>>) = 0 /\ 0 <= Window /\ 0 <= MaxBlocks
      BY EmptySeq, BoundsAreNat
    <3> QED
      BY <3>1, StreamsAreTyped
  <2>2. requests \in Seq(Messages) /\ Len(requests) <= Window
    <3>1. Signal("start") \in Messages /\ Signal("junk") \in Messages
      BY MessageFacts DEF Kinds
    <3>2. \A m \in Messages : <<m>> \in Seq(Messages) /\ Len(<<m>>) = 1
      OBVIOUS
    <3> QED
      <4>1. CASE requests = <<>>
        BY <2>1, <4>1 DEF IsStream
      <4>2. CASE requests \in {<<Signal("start")>>, <<Signal("junk")>>}
        <5>1. PICK m \in Messages : requests = <<m>>
          BY <3>1, <4>2
        <5>2. 1 <= Window
          BY BoundsAreNat
        <5> QED
          BY <3>2, <5>1, <5>2
      <4> QED
        BY <4>1, <4>2 DEF Init
  <2> QED
    BY <2>1, <2>2, StreamsAreTyped
       DEF Init, TypeInv, TypeOK, Opening, Pushing, Fetching
<1>2. TypeInv /\ [Next]_vars => TypeInv'
  <2> SUFFICES ASSUME TypeInv, [Next]_vars PROVE TypeInv'
    OBVIOUS
  <2>1. ASSUME CheckFails
        PROVE  TypeInv'
    BY <2>1
       DEF TypeInv, TypeOK, Opening, Pushing, Fetching, CheckFails, Return
  <2>2. ASSUME CheckPasses
        PROVE  TypeInv'
    BY <2>2
       DEF TypeInv, TypeOK, Opening, Pushing, Fetching, CheckPasses, Goto
  <2>3. ASSUME TakeStart
        PROVE  TypeInv'
    <3>1. /\ Tail(requests) \in Seq(Messages) /\ IsStream(Tail(requests))
          /\ Head(requests) \in Messages
      BY <2>3, StreamsShrink DEF TypeInv, TypeOK, TakeStart, Recv, Goto, Return
    <3> QED
      BY <2>3, <3>1
         DEF TypeInv, TypeOK, Opening, Pushing, Fetching, TakeStart, Recv,
             Goto, Return
  <2>4. ASSUME RecvFails
        PROVE  TypeInv'
    BY <2>4
       DEF TypeInv, TypeOK, Opening, Pushing, Fetching, RecvFails, Return,
           CloseConn
  <2>5. ASSUME OpenFails
        PROVE  TypeInv'
    BY <2>5
       DEF TypeInv, TypeOK, Opening, Pushing, Fetching, OpenFails, Return
  <2>6. ASSUME OpenToRead
        PROVE  TypeInv'
    BY <2>6
       DEF TypeInv, TypeOK, Opening, Pushing, Fetching, OpenToRead, Open,
           Goto
  <2>7. ASSUME OpenToWrite
        PROVE  TypeInv'
    BY <2>7
       DEF TypeInv, TypeOK, Opening, Pushing, Fetching, OpenToWrite, Open,
           Goto
  <2>8. ASSUME TakeBlock
        PROVE  TypeInv'
    <3>1. /\ Tail(requests) \in Seq(Messages) /\ IsStream(Tail(requests))
          /\ Head(requests) \in Messages
      BY <2>8, StreamsShrink DEF TypeInv, TypeOK, TakeBlock, Recv, Goto
    <3>2. <<Head(requests).block>> \in Seq(Blocks)
      BY <2>8, <3>1 DEF Messages, TakeBlock, Recv, Goto
    <3> QED
      BY <2>8, <3>1, <3>2
         DEF TypeInv, TypeOK, Opening, Pushing, Fetching, TakeBlock, Recv,
             Goto
  <2>9. ASSUME TakeOversize
        PROVE  TypeInv'
    <3>1. /\ Tail(requests) \in Seq(Messages) /\ IsStream(Tail(requests))
          /\ Head(requests) \in Messages
      BY <2>9, StreamsShrink
         DEF TypeInv, TypeOK, TakeOversize, Recv, Return, CloseConn
    <3> QED
      BY <2>9, <3>1
         DEF TypeInv, TypeOK, Opening, Pushing, Fetching, TakeOversize, Recv,
             Return, CloseConn
  <2>10. ASSUME TakeEnd
         PROVE  TypeInv'
    <3>1. /\ Tail(requests) \in Seq(Messages) /\ IsStream(Tail(requests))
          /\ Head(requests) \in Messages
      BY <2>10, StreamsShrink DEF TypeInv, TypeOK, TakeEnd, Recv, Goto
    <3> QED
      BY <2>10, <3>1
         DEF TypeInv, TypeOK, Opening, Pushing, Fetching, TakeEnd, Recv, Goto
  <2>11. ASSUME TakeJunk
         PROVE  TypeInv'
    <3>1. /\ Tail(requests) \in Seq(Messages) /\ IsStream(Tail(requests))
          /\ Head(requests) \in Messages
      BY <2>11, StreamsShrink
         DEF TypeInv, TypeOK, TakeJunk, Recv, Return, CloseConn
    <3> QED
      BY <2>11, <3>1
         DEF TypeInv, TypeOK, Opening, Pushing, Fetching, TakeJunk, Recv,
             Return, CloseConn
  <2>12. ASSUME WriteBlock
         PROVE  TypeInv'
    <3>1. Data(Head(held)) \in Messages
      BY <2>12, HeadTail, MessageFacts DEF TypeInv, TypeOK, WriteBlock
    <3>2. toDevice' \in Seq(Messages) /\ IsStream(toDevice')
      BY <2>12, <3>1, StreamsGrow DEF TypeInv, TypeOK, WriteBlock, Write
    <3>3. held' \in Seq(Blocks)
      BY <2>12, EmptySeq DEF WriteBlock
    <3> QED
      BY <2>12, <3>2, <3>3
         DEF TypeInv, TypeOK, Opening, Pushing, Fetching, WriteBlock, Write,
             Goto
  <2>13. ASSUME WriteBlockFails
         PROVE  TypeInv'
    BY <2>13
       DEF TypeInv, TypeOK, Opening, Pushing, Fetching, WriteBlockFails,
           Return, CloseConn
  <2>14. ASSUME WriteDone
         PROVE  TypeInv'
    <3>1. Signal("done") \in Messages
      BY MessageFacts DEF Kinds
    <3>2. toDevice' \in Seq(Messages) /\ IsStream(toDevice')
      BY <2>14, <3>1, StreamsGrow DEF TypeInv, TypeOK, WriteDone, Write
    <3> QED
      BY <2>14, <3>2
         DEF TypeInv, TypeOK, Opening, Pushing, Fetching, WriteDone, Write,
             Goto
  <2>15. ASSUME WriteDoneFails
         PROVE  TypeInv'
    BY <2>15
       DEF TypeInv, TypeOK, Opening, Pushing, Fetching, WriteDoneFails,
           CloseConn, AfterFailedDone, Goto
  <2>16. ASSUME ReadReceipt
         PROVE  TypeInv'
    <3>1. /\ Tail(fromDevice) \in Seq(Messages) /\ IsStream(Tail(fromDevice))
          /\ Head(fromDevice) \in Messages
      BY <2>16, StreamsShrink
         DEF TypeInv, TypeOK, ReadReceipt, Return, Receipt, CloseConn
    <3> QED
      BY <2>16, <3>1
         DEF TypeInv, TypeOK, Opening, Pushing, Fetching, ReadReceipt,
             Return, Receipt, CloseConn
  <2>17. ASSUME ReadFails
         PROVE  TypeInv'
    BY <2>17
       DEF TypeInv, TypeOK, Opening, Pushing, Fetching, ReadFails, Return,
           CloseConn
  <2>18. ASSUME ReadBlock
         PROVE  TypeInv'
    <3>1. /\ Tail(fromDevice) \in Seq(Messages) /\ IsStream(Tail(fromDevice))
          /\ Head(fromDevice) \in Messages
      BY <2>18, StreamsShrink DEF TypeInv, TypeOK, ReadBlock, Read, Goto
    <3>2. held' \in Seq(Blocks)
      <4>1. Head(fromDevice).block \in Blocks
        BY <2>18, <3>1 DEF Messages, ReadBlock
      <4> QED
        BY <2>18, <4>1, Appended DEF TypeInv, TypeOK, ReadBlock
    <3> QED
      BY <2>18, <3>1, <3>2
         DEF TypeInv, TypeOK, Opening, Pushing, Fetching, ReadBlock, Read,
             Goto
  <2>19. ASSUME ReadEnd
         PROVE  TypeInv'
    <3>1. /\ Tail(fromDevice) \in Seq(Messages) /\ IsStream(Tail(fromDevice))
          /\ Head(fromDevice) \in Messages
      BY <2>19, StreamsShrink
         DEF TypeInv, TypeOK, ReadEnd, Read, Goto, CloseConn
    <3> QED
      BY <2>19, <3>1
         DEF TypeInv, TypeOK, Opening, Pushing, Fetching, ReadEnd, Read,
             Goto, CloseConn
  <2>20. ASSUME ReadRefusal
         PROVE  TypeInv'
    <3>1. /\ Tail(fromDevice) \in Seq(Messages) /\ IsStream(Tail(fromDevice))
          /\ Head(fromDevice) \in Messages
      BY <2>20, StreamsShrink
         DEF TypeInv, TypeOK, ReadRefusal, Read, Return, CloseConn
    <3> QED
      BY <2>20, <3>1
         DEF TypeInv, TypeOK, Opening, Pushing, Fetching, ReadRefusal, Read,
             Return, CloseConn
  <2>21. ASSUME SendBlock
         PROVE  TypeInv'
    <3>1. [data |-> held, last |-> FALSE] \in Answers
      BY DEF TypeInv, TypeOK, Answers
    <3>2. responses' \in Seq(Answers) /\ held' \in Seq(Blocks)
      BY <2>21, <3>1, Appended, EmptySeq DEF TypeInv, SendBlock, Send
    <3> QED
      BY <2>21, <3>2
         DEF TypeInv, TypeOK, Opening, Pushing, Fetching, SendBlock, Send,
             Goto
  <2>22. ASSUME SendLast
         PROVE  TypeInv'
    <3>1. [data |-> <<>>, last |-> TRUE] \in Answers
      BY EmptySeq DEF Answers
    <3>2. responses' \in Seq(Answers)
      BY <2>22, <3>1, Appended DEF TypeInv, SendLast, Send
    <3> QED
      BY <2>22, <3>2
         DEF TypeInv, TypeOK, Opening, Pushing, Fetching, SendLast, Send,
             Return, CloseConn
  <2>23. ASSUME SendFails
         PROVE  TypeInv'
    BY <2>23
       DEF TypeInv, TypeOK, Opening, Pushing, Fetching, SendFails,
           OnSendError, Return, CloseConn
  <2>24. ASSUME Reply
         PROVE  TypeInv'
    <3>1. [data |-> held, last |-> TRUE] \in Answers
      BY DEF TypeInv, TypeOK, Answers
    <3>2. responses' \in Seq(Answers)
      BY <2>24, <3>1 DEF Reply
    <3> QED
      BY <2>24, <3>2
         DEF TypeInv, TypeOK, Opening, Pushing, Fetching, Reply, Return,
             CloseConn
  <2>25. ASSUME ClientSend
         PROVE  TypeInv'
    <3>1. Len(source) \in Nat /\ Len(source) + 1 \in Blocks
      BY <2>25, LenProperties, BoundsAreNat
         DEF TypeInv, TypeOK, Blocks, ClientSend
    <3>2. Data(Len(source) + 1) \in Messages
      BY <3>1, MessageFacts
    <3>3. requests' \in Seq(Messages) /\ IsStream(requests')
      BY <2>25, <3>2, StreamsGrow DEF TypeInv, TypeOK, ClientSend, Ask
    <3>4. source' \in Seq(Blocks) /\ Len(source') <= MaxBlocks
      BY <2>25, <3>1, Appended DEF TypeInv, TypeOK, Blocks, ClientSend
    <3> QED
      BY <2>25, <3>3, <3>4
         DEF TypeInv, TypeOK, Opening, Pushing, Fetching, ClientSend, Ask
  <2>26. ASSUME ClientEnd
         PROVE  TypeInv'
    <3>1. Signal("end") \in Messages
      BY <2>26, MessageFacts DEF Kinds
    <3>2. requests' \in Seq(Messages) /\ IsStream(requests')
      BY <2>26, <3>1, StreamsGrow DEF TypeInv, TypeOK, ClientEnd, Ask
    <3> QED
      BY <2>26, <3>2
         DEF TypeInv, TypeOK, Opening, Pushing, Fetching, ClientEnd, Ask
  <2>27. ASSUME ClientJunk
         PROVE  TypeInv'
    <3>1. Signal("junk") \in Messages
      BY <2>27, MessageFacts DEF Kinds
    <3>2. requests' \in Seq(Messages) /\ IsStream(requests')
      BY <2>27, <3>1, StreamsGrow DEF TypeInv, TypeOK, ClientJunk, Ask
    <3> QED
      BY <2>27, <3>2
         DEF TypeInv, TypeOK, Opening, Pushing, Fetching, ClientJunk, Ask
  <2>28. ASSUME NEW how \in {"eof", "cancelled"}, ClientStops(how)
         PROVE  TypeInv'
    BY <2>28 DEF TypeInv, TypeOK, Opening, Pushing, Fetching, ClientStops
  <2>29. ASSUME ClientRecv
         PROVE  TypeInv'
    <3>1. Head(responses) \in Answers /\ responses' \in Seq(Answers)
      BY <2>29, HeadTail DEF TypeInv, ClientRecv
    <3>2. copy' \in Seq(Blocks) /\ published' \in BOOLEAN
      BY <2>29, <3>1, ConcatProperties DEF TypeInv, TypeOK, Answers, ClientRecv
    <3>3. op = "push" => FALSE
      BY <2>29 DEF TypeInv, ClientRecv
    <3> QED
      BY <2>29, <3>1, <3>2, <3>3
         DEF TypeInv, TypeOK, Opening, Pushing, Fetching, ClientRecv
  <2>30. ASSUME DeviceSends
         PROVE  TypeInv'
    <3>1. Len(source) \in Nat /\ Len(source) + 1 \in Blocks
      BY <2>30, LenProperties, BoundsAreNat
         DEF TypeInv, TypeOK, Blocks, DeviceSends
    <3>2. Data(Len(source) + 1) \in Messages
      BY <3>1, MessageFacts
    <3>3. fromDevice' \in Seq(Messages) /\ IsStream(fromDevice')
      BY <2>30, <3>2, StreamsGrow
         DEF TypeInv, TypeOK, DeviceSends, DeviceWrites
    <3>4. source' \in Seq(Blocks) /\ Len(source') <= MaxBlocks
      BY <2>30, <3>1, Appended DEF TypeInv, TypeOK, Blocks, DeviceSends
    <3> QED
      BY <2>30, <3>3, <3>4
         DEF TypeInv, TypeOK, Opening, Pushing, Fetching, DeviceSends,
             DeviceWrites
  <2>31. ASSUME DeviceDone
         PROVE  TypeInv'
    <3>1. Signal("done") \in Messages
      BY <2>31, MessageFacts DEF Kinds
    <3>2. fromDevice' \in Seq(Messages) /\ IsStream(fromDevice')
      BY <2>31, <3>1, StreamsGrow DEF TypeInv, TypeOK, DeviceDone, DeviceWrites
    <3> QED
      BY <2>31, <3>2
         DEF TypeInv, TypeOK, Opening, Pushing, Fetching, DeviceDone,
             DeviceWrites
  <2>32. ASSUME NEW kind \in {"fail", "junk"}, DeviceFails(kind)
         PROVE  TypeInv'
    <3>1. Signal(kind) \in Messages
      BY <2>32, MessageFacts DEF Kinds
    <3>2. fromDevice' \in Seq(Messages) /\ IsStream(fromDevice')
      BY <2>32, <3>1, StreamsGrow
         DEF TypeInv, TypeOK, DeviceFails, DeviceWrites
    <3> QED
      BY <2>32, <3>2
         DEF TypeInv, TypeOK, Opening, Pushing, Fetching, DeviceFails,
             DeviceWrites
  <2>33. ASSUME DeviceStores
         PROVE  TypeInv'
    <3>1. /\ Tail(toDevice) \in Seq(Messages) /\ IsStream(Tail(toDevice))
          /\ Head(toDevice) \in Messages
      BY <2>33, StreamsShrink DEF TypeInv, TypeOK, DeviceStores
    <3>2. copy' \in Seq(Blocks)
      <4>1. Head(toDevice).block \in Blocks
        BY <2>33, <3>1 DEF Messages, DeviceStores
      <4> QED
        BY <2>33, <4>1, Appended DEF TypeInv, TypeOK, DeviceStores
    <3> QED
      BY <2>33, <3>1, <3>2
         DEF TypeInv, TypeOK, Opening, Pushing, Fetching, DeviceStores
  <2>34. ASSUME DevicePublishes
         PROVE  TypeInv'
    <3>1. Tail(toDevice) \in Seq(Messages) /\ IsStream(Tail(toDevice))
      BY <2>34, StreamsShrink DEF TypeInv, TypeOK, DevicePublishes
    <3>2. Signal("okay") \in Messages
      BY MessageFacts DEF Kinds
    <3>3. fromDevice' \in Seq(Messages) /\ IsStream(fromDevice')
      BY <2>34, <3>2, StreamsGrow
         DEF TypeInv, TypeOK, DevicePublishes, DeviceWrites
    <3> QED
      BY <2>34, <3>1, <3>3
         DEF TypeInv, TypeOK, Opening, Pushing, Fetching, DevicePublishes,
             DeviceWrites
  <2>35. ASSUME DeviceDrains
         PROVE  TypeInv'
    <3>1. /\ Tail(toDevice) \in Seq(Messages) /\ IsStream(Tail(toDevice))
          /\ Head(toDevice) \in Messages
      BY <2>35, StreamsShrink DEF TypeInv, TypeOK, DeviceDrains
    <3> QED
      BY <2>35, <3>1
         DEF TypeInv, TypeOK, Opening, Pushing, Fetching, DeviceDrains
  <2>36. ASSUME DeviceGone
         PROVE  TypeInv'
    <3>1. fromDevice' \in Seq(Messages) /\ IsStream(fromDevice')
      BY <2>36, StreamsCut DEF TypeInv, TypeOK, DeviceGone
    <3> QED
      BY <2>36, <3>1
         DEF TypeInv, TypeOK, Opening, Pushing, Fetching, DeviceGone
  <2>37. CASE UNCHANGED vars
    BY <2>37 DEF TypeInv, TypeOK, Opening, Pushing, Fetching, vars
  <2> QED
    BY <2>1, <2>2, <2>3, <2>4, <2>5, <2>6, <2>7, <2>8, <2>9, <2>10, <2>11,
       <2>12, <2>13, <2>14, <2>15, <2>16, <2>17, <2>18, <2>19, <2>20, <2>21,
       <2>22, <2>23, <2>24, <2>25, <2>26, <2>27, <2>28, <2>29, <2>30, <2>31,
       <2>32, <2>33, <2>34, <2>35, <2>36, <2>37
       DEF Next, Handler, Answer, Peers
<1> QED
  BY <1>1, <1>2, PTL DEF Spec

(* Every field keeps its type, no stream gets more than fits, and a        *)
(* handler that has returned has an outcome and no open connection.        *)
THEOREM TypeCorrect == Spec => []TypeOK
<1>1. TypeInv => TypeOK
  BY DEF TypeInv
<1> QED
  BY <1>1, TypeInvariant, PTL
-----------------------------------------------------------------------------
(* What was offered and what was received start with the same blocks,      *)
(* and only the whole of a finished source is published.                   *)
Numbered(s) == \A i \in 1..Len(s) : s[i] = i

Copies ==
    /\ Numbered(source) /\ Numbered(copy)
    /\ Len(copy) <= Len(source)
    /\ published => ended /\ Len(copy) = Len(source)

(* A push.  Up to its first message that is neither start nor data, the    *)
(* requests stream goes on where the handler is, at the block after the    *)
(* one it holds; Pending is the start message, which is no block.          *)
Taken == Len(copy) + Len(toDevice) + Len(held)
Pending == IF pc \in {"check", "start"} THEN 1 ELSE 0
Clean(q, n) == \A j \in 1..n : q[j].kind \in {"start", "data"}

Queue(q, base, n, end) ==
    /\ \A i \in 1..Len(q) : Clean(q, i - 1) =>
         /\ q[i].kind = "data" => q[i].block = base + i /\ base + i <= n
         /\ q[i].kind = "end" => end /\ n = base + i - 1
    /\ Clean(q, Len(q)) => n = base + Len(q)

(* The device says OKAY, and the handler success, of what is published.    *)
Verdicts ==
    /\ \A i \in 1..Len(fromDevice) : fromDevice[i].kind = "okay" => published
    /\ result = "ok" => published
    /\ device \in {"idle", "serving"} => ~published

(* A client that is at its end has closed, and only the first message of   *)
(* a well-behaved one is the start.                                        *)
Asked ==
    /\ ended => client # "open"
    /\ pc \in {"check", "start"} =>
         requests # <<>> /\ requests[1].kind \in {"start", "junk"}
    /\ \A i \in 1..Len(requests) :
         requests[i].kind = "start" =>
             i = 1 /\ pc \in {"check", "start", "done"}

(* What is under way to the device: the next blocks, then perhaps DONE.    *)
ToDevice ==
    \A i \in 1..Len(toDevice) :
        \/ /\ toDevice[i].kind = "data" /\ toDevice[i].block = Len(copy) + i
           /\ Len(copy) + i <= Len(source)
        \/ /\ toDevice[i].kind = "done" /\ pc \in {"receipt", "done"}
           /\ ended /\ Len(source) = Len(copy) + i - 1

(* What the handler holds, and what the client has yet to be taken from.   *)
ToCome ==
    /\ held = IF pc = "write" THEN <<Taken>> ELSE <<>>
    /\ Taken <= Len(source)
    /\ Queue(requests, Taken - Pending, Len(source), ended)

(* A device that has failed the push takes no more part in it.             *)
PushInv ==
    /\ Verdicts /\ Asked
    /\ device \in {"idle", "serving"} =>
         /\ ToDevice
         /\ pc \in Opening \cup {"recv", "write"} => ToCome
         /\ pc = "finish" => ended /\ Len(source) = Len(copy) + Len(toDevice)

(* The other calls: the copy, then the responses, then what the handler    *)
(* holds, then what comes from the device.                                 *)
Fetched == Len(copy) + Len(responses) + Len(held)

(* A last response completes the copy; any other brings one block.         *)
Answered ==
    \A i \in 1..Len(responses) :
        IF responses[i].last
        THEN /\ pc = "done" /\ ended /\ i = Len(responses)
             /\ \A j \in 1..Len(responses[i].data) :
                  responses[i].data[j] = Len(copy) + i - 1 + j
             /\ Len(source) = Len(copy) + i - 1 + Len(responses[i].data)
        ELSE /\ responses[i].data = <<Len(copy) + i>>
             /\ Len(copy) + i <= Len(source)

(* Only a pull sends before it has everything.                             *)
InHand ==
    /\ \A j \in 1..Len(held) : held[j] = Len(copy) + Len(responses) + j
    /\ Fetched <= Len(source)
    /\ op = "pull" => Len(held) = IF pc = "send" THEN 1 ELSE 0
    /\ op # "pull" => responses = <<>> /\ copy = <<>>
    /\ op = "stat" /\ pc = "read" => held = <<>>

(* The device's packets go on where the handler is, up to the end.         *)
Supply(q, base, n, end) ==
    \A i \in 1..Len(q) :
        /\ q[i].kind = "data" =>
             /\ q[i].block = base + i /\ base + i <= n
             /\ op = "stat" => end /\ n = base + i
        /\ q[i].kind = "done" => end /\ n = base + i - 1

FromDevice ==
    /\ Supply(fromDevice, Fetched, Len(source), ended)
    /\ device \in {"idle", "serving"} /\ ~ended =>
         Len(source) = Fetched + Len(fromDevice)

(* What the handler still reads, sends or has sent, by where it is.        *)
FetchInv ==
    /\ Answered
    /\ pc # "done" => InHand /\ ~published
    /\ pc \in {"check", "open", "read", "send"} => FromDevice
    /\ pc \in {"last", "reply"} => ended /\ Len(source) = Fetched

(* The lengths of all streams are numbers.                                 *)
LEMMA Lengths ==
    ASSUME TypeInv
    PROVE  /\ Len(requests) \in Nat /\ Len(toDevice) \in Nat
           /\ Len(fromDevice) \in Nat /\ Len(responses) \in Nat
           /\ Len(held) \in Nat /\ Len(source) \in Nat /\ Len(copy) \in Nat
BY LenProperties DEF TypeInv, TypeOK

(* When the handler has taken a message, the next is where it was.         *)
LEMMA QueueShifts ==
    ASSUME NEW q \in Seq(Messages), q # <<>>, NEW base \in Int, NEW n \in Nat,
           NEW end \in BOOLEAN, Queue(q, base, n, end),
           q[1].kind \in {"start", "data"}
    PROVE  Queue(Tail(q), base + 1, n, end)
<1>1. /\ Len(q) \in Nat /\ Len(q) >= 1 /\ Len(Tail(q)) = Len(q) - 1
      /\ \A i \in 1..Len(Tail(q)) : Tail(q)[i] = q[i + 1]
  BY HeadTail
<1>2. \A k \in 0..Len(Tail(q)) : Clean(Tail(q), k) => Clean(q, k + 1)
  <2> SUFFICES ASSUME NEW k \in 0..Len(Tail(q)), Clean(Tail(q), k),
                      NEW j \in 1..k + 1
               PROVE  q[j].kind \in {"start", "data"}
    BY DEF Clean
  <2>1. CASE j = 1
    BY <2>1
  <2>2. CASE j # 1
    <3>1. j - 1 \in 1..k /\ j - 1 \in 1..Len(Tail(q)) /\ (j - 1) + 1 = j
      BY <1>1, <2>2
    <3> QED
      BY <1>1, <3>1 DEF Clean
  <2> QED
    BY <2>1, <2>2
<1>3. ASSUME NEW i \in 1..Len(Tail(q)), Clean(Tail(q), i - 1)
      PROVE  /\ Tail(q)[i].kind = "data" =>
                  /\ Tail(q)[i].block = base + 1 + i
                  /\ base + 1 + i <= n
             /\ Tail(q)[i].kind = "end" => end /\ n = base + 1 + i - 1
  <2>1. /\ i - 1 \in 0..Len(Tail(q)) /\ (i - 1) + 1 = i
        /\ i + 1 \in 1..Len(q) /\ (i + 1) - 1 = i
    BY <1>1
  <2>2. Clean(q, (i + 1) - 1)
    BY <1>2, <1>3, <2>1
  <2>3. /\ q[i + 1].kind = "data" =>
             q[i + 1].block = base + (i + 1) /\ base + (i + 1) <= n
        /\ q[i + 1].kind = "end" => end /\ n = base + (i + 1) - 1
    BY <2>1, <2>2 DEF Queue
  <2> QED
    BY <1>1, <2>3
<1>4. Clean(Tail(q), Len(Tail(q))) => n = base + 1 + Len(Tail(q))
  <2>1. Len(Tail(q)) \in 0..Len(Tail(q)) /\ Len(Tail(q)) + 1 = Len(q)
    BY <1>1
  <2>2. Clean(q, Len(q)) => n = base + Len(q)
    BY DEF Queue
  <2> QED
    BY <1>1, <1>2, <2>1, <2>2
<1> QED
  BY <1>3, <1>4 DEF Queue

(* What the client adds comes after all that it has offered.               *)
LEMMA QueueGrows ==
    ASSUME NEW q \in Seq(Messages), NEW base \in Int, NEW n \in Nat,
           Queue(q, base, n, FALSE), NEW m \in Messages
    PROVE  /\ m.kind = "data" /\ m.block = n + 1
                => Queue(Append(q, m), base, n + 1, FALSE)
           /\ m.kind = "end" => Queue(Append(q, m), base, n, TRUE)
           /\ m.kind = "junk" => Queue(Append(q, m), base, n, FALSE)
<1> DEFINE r == Append(q, m)
<1>1. /\ Len(q) \in Nat /\ Len(r) = Len(q) + 1
      /\ \A i \in 1..Len(q) : r[i] = q[i]
      /\ r[Len(q) + 1] = m
  BY Appended
<1> HIDE DEF r
<1>2. \A k \in 0..Len(q) : Clean(r, k) => Clean(q, k)
  BY <1>1 DEF Clean
<1>3. Clean(r, Len(r)) => m.kind \in {"start", "data"} /\ Clean(q, Len(q))
  BY <1>1 DEF Clean
<1>4. ASSUME NEW i \in 1..Len(q), Clean(r, i - 1)
      PROVE  /\ r[i].kind = "data" => r[i].block = base + i /\ base + i <= n
             /\ r[i].kind # "end"
  <2>1. Clean(q, i - 1)
    BY <1>1, <1>2, <1>4
  <2> QED
    BY <1>1, <2>1 DEF Queue
<1>5. Clean(r, Len(q)) => n = base + Len(q)
  BY <1>1, <1>2 DEF Queue
<1>6. \A i \in 1..Len(r) : i \in 1..Len(q) \/ i = Len(q) + 1
  BY <1>1
<1>7. ASSUME m.kind = "data", m.block = n + 1
      PROVE  Queue(r, base, n + 1, FALSE)
  <2>1. ASSUME NEW i \in 1..Len(r), Clean(r, i - 1)
        PROVE  /\ r[i].kind = "data" =>
                    r[i].block = base + i /\ base + i <= n + 1
               /\ r[i].kind # "end"
    <3>1. CASE i \in 1..Len(q)
      <4>1. base + i <= n => base + i <= n + 1
        BY <3>1
      <4> QED
        BY <1>4, <2>1, <3>1, <4>1
    <3>2. CASE i = Len(q) + 1
      BY <1>1, <1>5, <1>7, <2>1, <3>2
    <3> QED
      BY <1>6, <3>1, <3>2
  <2>2. Clean(r, Len(r)) => n + 1 = base + Len(r)
    BY <1>1, <1>3, <1>2, <1>5 DEF Queue
  <2> QED
    BY <2>1, <2>2 DEF Queue
<1>8. ASSUME m.kind = "end" PROVE Queue(r, base, n, TRUE)
  <2>1. ASSUME NEW i \in 1..Len(r), Clean(r, i - 1)
        PROVE  /\ r[i].kind = "data" => r[i].block = base + i /\ base + i <= n
               /\ r[i].kind = "end" => n = base + i - 1
    <3>1. CASE i \in 1..Len(q)
      BY <1>4, <2>1, <3>1
    <3>2. CASE i = Len(q) + 1
      BY <1>1, <1>5, <1>8, <2>1, <3>2
    <3> QED
      BY <1>6, <3>1, <3>2
  <2> QED
    BY <1>3, <1>8, <2>1 DEF Queue
<1>9. ASSUME m.kind = "junk" PROVE Queue(r, base, n, FALSE)
  <2>1. ASSUME NEW i \in 1..Len(r), Clean(r, i - 1)
        PROVE  /\ r[i].kind = "data" => r[i].block = base + i /\ base + i <= n
               /\ r[i].kind # "end"
    <3>1. CASE i \in 1..Len(q)
      BY <1>4, <2>1, <3>1
    <3>2. CASE i = Len(q) + 1
      BY <1>1, <1>9, <3>2
    <3> QED
      BY <1>6, <3>1, <3>2
  <2> QED
    BY <1>3, <1>9, <2>1 DEF Queue
<1> QED
  BY <1>7, <1>8, <1>9 DEF r

(* What the handler reads from the device comes one by one.                *)
LEMMA SupplyShifts ==
    ASSUME NEW q \in Seq(Messages), q # <<>>, NEW base \in Nat, NEW n \in Nat,
           NEW end \in BOOLEAN, Supply(q, base, n, end), op # "stat"
    PROVE  Supply(Tail(q), base + 1, n, end)
<1>1. /\ Len(q) \in Nat /\ Len(q) >= 1 /\ Len(Tail(q)) = Len(q) - 1
      /\ \A i \in 1..Len(Tail(q)) : Tail(q)[i] = q[i + 1]
  BY HeadTail
<1> SUFFICES ASSUME NEW i \in 1..Len(Tail(q))
             PROVE  /\ Tail(q)[i].kind = "data" =>
                         /\ Tail(q)[i].block = base + 1 + i
                         /\ base + 1 + i <= n
                    /\ Tail(q)[i].kind = "done" =>
                         end /\ n = base + 1 + i - 1
  BY DEF Supply
<1>2. i + 1 \in 1..Len(q) /\ Tail(q)[i] = q[i + 1]
  BY <1>1
<1>3. /\ q[i + 1].kind = "data" =>
           q[i + 1].block = base + (i + 1) /\ base + (i + 1) <= n
      /\ q[i + 1].kind = "done" => end /\ n = base + (i + 1) - 1
  BY <1>2 DEF Supply
<1> QED
  BY <1>2, <1>3

(* What the device adds comes after all that it has offered.               *)
LEMMA SupplyGrows ==
    ASSUME NEW q \in Seq(Messages), NEW base \in Nat, NEW n \in Nat,
           Supply(q, base, n, FALSE), NEW m \in Messages,
           NEW new \in Nat, n <= new, NEW end \in BOOLEAN,
           op = "stat" => \A i \in 1..Len(q) : q[i].kind # "data",
           m.kind = "data" => /\ m.block = base + Len(q) + 1
                              /\ new = base + Len(q) + 1
                              /\ op = "stat" => end,
           m.kind = "done" => end /\ new = base + Len(q)
    PROVE  Supply(Append(q, m), base, new, end)
<1> DEFINE r == Append(q, m)
<1>1. /\ Len(q) \in Nat /\ Len(r) = Len(q) + 1
      /\ \A i \in 1..Len(q) : r[i] = q[i]
      /\ r[Len(q) + 1] = m
  BY Appended
<1> HIDE DEF r
<1>2. ASSUME NEW i \in 1..Len(r)
      PROVE  /\ r[i].kind = "data" =>
                  /\ r[i].block = base + i /\ base + i <= new
                  /\ op = "stat" => end /\ new = base + i
             /\ r[i].kind = "done" => end /\ new = base + i - 1
  <2>1. CASE i \in 1..Len(q)
    <3>1. /\ q[i].kind = "data" => /\ q[i].block = base + i /\ base + i <= n
                                   /\ op # "stat"
          /\ q[i].kind # "done"
      BY <2>1 DEF Supply
    <3>2. base + i <= n => base + i <= new
      BY <2>1
    <3> QED
      BY <1>1, <2>1, <3>1, <3>2
  <2>2. CASE i = Len(q) + 1
    BY <1>1, <2>2
  <2> QED
    BY <1>1, <2>1, <2>2
<1> QED
  BY <1>2 DEF Supply, r

(* Every step of a push keeps the order of its blocks.                     *)
LEMMA PushStep ==
    ASSUME op = "push", TypeInv, Copies, PushInv, Next
    PROVE  PushInv'
<1>1. ASSUME CheckFails
      PROVE  PushInv'
  BY <1>1
     DEF TypeInv, TypeOK, PushInv, Verdicts, Asked, ToDevice, ToCome, Taken,
         Pending, Opening, Pushing, Fetching, Signal, Data, CheckFails,
         Return
<1>2. ASSUME CheckPasses
      PROVE  PushInv'
  BY <1>2
     DEF TypeInv, TypeOK, PushInv, Verdicts, Asked, ToDevice, ToCome, Taken,
         Pending, Opening, Pushing, Fetching, Signal, Data, CheckPasses, Goto
<1>3. ASSUME TakeStart
      PROVE  PushInv'
  <2>1. /\ requests \in Seq(Messages) /\ requests # <<>>
        /\ Head(requests) = requests[1] /\ requests' = Tail(requests)
        /\ Len(requests) \in Nat /\ Len(Tail(requests)) = Len(requests) - 1
        /\ \A i \in 1..Len(Tail(requests)) :
               Tail(requests)[i] = requests[i + 1]
    BY <1>3, HeadTail DEF TypeInv, TakeStart, Recv, Goto, Return
  <2>2. Asked'
    <3>1. \A i \in 1..Len(Tail(requests)) :
              requests[i + 1].kind # "start" /\ i + 1 # 1
      BY <2>1, LenProperties DEF PushInv, Asked
    <3> QED
      BY <1>3, <2>1, <3>1 DEF PushInv, Asked, TakeStart, Recv, Goto, Return
  <2>3. ASSUME device \in {"idle", "serving"}, pc' = "open"
        PROVE  ToCome'
    <3>1. /\ requests[1].kind \in {"start", "data"} /\ Pending = 1
          /\ ToCome
      BY <1>3, <2>1, <2>3
         DEF PushInv, Opening, Pending, TakeStart, Recv, Goto, Return
    <3>2. Taken' = Taken /\ Pending' = 0 /\ Taken \in Nat
      BY <1>3, <2>3, Lengths DEF Taken, Pending, TakeStart, Recv, Goto, Return
    <3>3. Queue(Tail(requests), Taken - Pending + 1, Len(source), ended)
      <4>1. Taken - Pending \in Int /\ Len(source) \in Nat /\ ended \in BOOLEAN
        BY <3>1, <3>2, Lengths DEF TypeInv, TypeOK
      <4> QED
        BY <2>1, <3>1, <4>1, QueueShifts DEF ToCome
    <3>4. Taken - Pending + 1 = Taken' - Pending'
      BY <3>1, <3>2
    <3> QED
      BY <1>3, <2>1, <2>3, <3>1, <3>2, <3>3, <3>4
         DEF ToCome, TakeStart, Recv, Goto, Return
  <2> QED
    BY <1>3, <2>1, <2>2, <2>3
       DEF PushInv, Verdicts, ToDevice, Opening, TakeStart, Recv, Goto,
           Return
<1>4. ASSUME RecvFails
      PROVE  PushInv'
  BY <1>4
     DEF TypeInv, TypeOK, PushInv, Verdicts, Asked, ToDevice, ToCome, Taken,
         Pending, Opening, Pushing, Fetching, Signal, Data, RecvFails,
         Return, CloseConn
<1>5. ASSUME OpenFails
      PROVE  PushInv'
  BY <1>5
     DEF TypeInv, TypeOK, PushInv, Verdicts, Asked, ToDevice, ToCome, Taken,
         Pending, Opening, Pushing, Fetching, Signal, Data, OpenFails, Return
<1>6. ASSUME OpenToRead
      PROVE  PushInv'
  BY <1>6 DEF TypeInv, Opening, Pushing, Fetching, OpenToRead, Open, Goto
<1>7. ASSUME OpenToWrite
      PROVE  PushInv'
  BY <1>7
     DEF TypeInv, TypeOK, PushInv, Verdicts, Asked, ToDevice, ToCome, Taken,
         Pending, Opening, Pushing, Fetching, Signal, Data, OpenToWrite,
         Open, Goto
<1>8. ASSUME TakeBlock
      PROVE  PushInv'
  <2>1. /\ requests \in Seq(Messages) /\ requests # <<>>
        /\ Head(requests) = requests[1] /\ requests' = Tail(requests)
        /\ Len(requests) \in Nat /\ Len(Tail(requests)) = Len(requests) - 1
        /\ \A i \in 1..Len(Tail(requests)) :
               Tail(requests)[i] = requests[i + 1]
    BY <1>8, HeadTail DEF TypeInv, TakeBlock, Recv, Goto
  <2>2. Asked'
    <3>1. \A i \in 1..Len(Tail(requests)) :
              requests[i + 1].kind # "start" /\ i + 1 # 1
      BY <2>1, LenProperties DEF PushInv, Asked
    <3> QED
      BY <1>8, <2>1, <3>1 DEF PushInv, Asked, TakeBlock, Recv, Goto
  <2>3. ASSUME device \in {"idle", "serving"}
        PROVE  ToCome'
    <3>1. requests[1].kind = "data" /\ Pending = 0 /\ ToCome /\ pc = "recv"
      BY <1>8, <2>1, <2>3 DEF PushInv, Pending, TakeBlock, Recv, Goto
    <3>2. held = <<>> /\ Len(held) = 0 /\ Taken \in Nat
      BY <3>1, EmptySeq, Lengths DEF ToCome, Taken
    <3>3. held' = <<requests[1].block>> /\ Taken' = Taken + 1 /\ Pending' = 0
      BY <1>8, <2>1, <3>2, Lengths DEF Taken, Pending, TakeBlock, Recv, Goto
    <3>4. requests[1].block = Taken + 1 /\ Taken + 1 <= Len(source)
      <4>1. Clean(requests, 1 - 1) /\ 1 \in 1..Len(requests)
        BY <2>1, HeadTail DEF Clean
      <4> QED
        BY <3>1, <3>2, <4>1 DEF ToCome, Queue
    <3>5. Queue(Tail(requests), Taken - Pending + 1, Len(source), ended)
      <4>1. Taken - Pending \in Int /\ Len(source) \in Nat /\ ended \in BOOLEAN
        BY <3>1, <3>2, Lengths DEF TypeInv, TypeOK
      <4> QED
        BY <2>1, <3>1, <4>1, QueueShifts DEF ToCome
    <3>6. Taken - Pending + 1 = Taken' - Pending'
      BY <3>1, <3>2, <3>3
    <3> QED
      BY <1>8, <2>1, <3>1, <3>2, <3>3, <3>4, <3>5, <3>6
         DEF ToCome, TakeBlock, Recv, Goto
  <2> QED
    BY <1>8, <2>1, <2>2, <2>3
       DEF PushInv, Verdicts, ToDevice, Opening, TakeBlock, Recv, Goto
<1>9. ASSUME TakeOversize
      PROVE  PushInv'
  <2>1. /\ requests \in Seq(Messages) /\ requests # <<>>
        /\ Head(requests) = requests[1] /\ requests' = Tail(requests)
        /\ Len(requests) \in Nat /\ Len(Tail(requests)) = Len(requests) - 1
        /\ \A i \in 1..Len(Tail(requests)) :
               Tail(requests)[i] = requests[i + 1]
    BY <1>9, HeadTail DEF TypeInv, TakeOversize, Recv, Return, CloseConn
  <2>2. Asked'
    <3>1. \A i \in 1..Len(Tail(requests)) :
              requests[i + 1].kind # "start" /\ i + 1 # 1
      BY <2>1, LenProperties DEF PushInv, Asked
    <3> QED
      BY <1>9, <2>1, <3>1
         DEF PushInv, Asked, TakeOversize, Recv, Return, CloseConn
  <2> QED
    BY <1>9, <2>1, <2>2
       DEF PushInv, Verdicts, ToDevice, Opening, TakeOversize, Recv, Return,
           CloseConn
<1>10. ASSUME TakeEnd
       PROVE  PushInv'
  <2>1. /\ requests \in Seq(Messages) /\ requests # <<>>
        /\ Head(requests) = requests[1] /\ requests' = Tail(requests)
        /\ Len(requests) \in Nat /\ Len(Tail(requests)) = Len(requests) - 1
        /\ \A i \in 1..Len(Tail(requests)) :
               Tail(requests)[i] = requests[i + 1]
    BY <1>10, HeadTail DEF TypeInv, TakeEnd, Recv, Goto
  <2>2. Asked'
    <3>1. \A i \in 1..Len(Tail(requests)) :
              requests[i + 1].kind # "start" /\ i + 1 # 1
      BY <2>1, LenProperties DEF PushInv, Asked
    <3> QED
      BY <1>10, <2>1, <3>1 DEF PushInv, Asked, TakeEnd, Recv, Goto
  <2>3. ASSUME device \in {"idle", "serving"}
        PROVE  ended /\ Len(source) = Len(copy) + Len(toDevice)
    <3>1. requests[1].kind = "end" /\ Pending = 0 /\ ToCome /\ pc = "recv"
      BY <1>10, <2>1, <2>3 DEF PushInv, Pending, TakeEnd, Recv, Goto
    <3>2. Len(held) = 0 /\ Taken = Len(copy) + Len(toDevice) /\ Taken \in Nat
      BY <3>1, EmptySeq, Lengths DEF ToCome, Taken
    <3>3. Clean(requests, 1 - 1) /\ 1 \in 1..Len(requests)
      BY <2>1, HeadTail DEF Clean
    <3> QED
      BY <3>1, <3>2, <3>3 DEF ToCome, Queue
  <2> QED
    BY <1>10, <2>1, <2>2, <2>3
       DEF PushInv, Verdicts, ToDevice, Opening, TakeEnd, Recv, Goto
<1>11. ASSUME TakeJunk
       PROVE  PushInv'
  <2>1. /\ requests \in Seq(Messages) /\ requests # <<>>
        /\ Head(requests) = requests[1] /\ requests' = Tail(requests)
        /\ Len(requests) \in Nat /\ Len(Tail(requests)) = Len(requests) - 1
        /\ \A i \in 1..Len(Tail(requests)) :
               Tail(requests)[i] = requests[i + 1]
    BY <1>11, HeadTail DEF TypeInv, TakeJunk, Recv, Return, CloseConn
  <2>2. Asked'
    <3>1. \A i \in 1..Len(Tail(requests)) :
              requests[i + 1].kind # "start" /\ i + 1 # 1
      BY <2>1, LenProperties DEF PushInv, Asked
    <3> QED
      BY <1>11, <2>1, <3>1
         DEF PushInv, Asked, TakeJunk, Recv, Return, CloseConn
  <2> QED
    BY <1>11, <2>1, <2>2
       DEF PushInv, Verdicts, ToDevice, Opening, TakeJunk, Recv, Return,
           CloseConn
<1>12. ASSUME WriteBlock
       PROVE  PushInv'
  <2>1. ASSUME device = "serving"
        PROVE  ToDevice' /\ ToCome'
    <3>1. ToCome /\ ToDevice /\ pc = "write"
      BY <1>12, <2>1 DEF PushInv, WriteBlock
    <3>2. Data(Head(held)) = [kind |-> "data", block |-> Taken]
      BY <3>1 DEF ToCome, Data
    <3>3. /\ toDevice' = Append(toDevice, Data(Head(held)))
          /\ Len(toDevice') = Len(toDevice) + 1
          /\ \A i \in 1..Len(toDevice) : toDevice'[i] = toDevice[i]
          /\ toDevice'[Len(toDevice) + 1] = Data(Head(held))
      <4>1. Data(Head(held)) \in Messages
        BY <1>12, HeadTail, MessageFacts DEF TypeInv, TypeOK, WriteBlock
      <4>2. toDevice' = Append(toDevice, Data(Head(held)))
        BY <1>12, <2>1 DEF WriteBlock, Write
      <4> QED
        BY <4>1, <4>2, Appended DEF TypeInv
    <3>4. Len(held) = 1 /\ Len(held') = 0 /\ held' = <<>>
      BY <1>12, <3>1, EmptySeq DEF ToCome, WriteBlock
    <3>5. Taken' = Taken /\ Taken = Len(copy) + Len(toDevice) + 1
      BY <1>12, <3>3, <3>4, Lengths DEF Taken, WriteBlock
    <3>6. pc' = "recv" /\ Pending' = 0 /\ Pending = 0
      BY <1>12, <3>1 DEF Pending, WriteBlock, Write, Goto
    <3>7. ToDevice'
      <4>1. UNCHANGED <<copy, source, ended>>
        BY <1>12 DEF WriteBlock
      <4> SUFFICES ASSUME NEW i \in 1..Len(toDevice')
                   PROVE  /\ toDevice'[i].kind = "data"
                          /\ toDevice'[i].block = Len(copy) + i
                          /\ Len(copy) + i <= Len(source)
        BY <4>1 DEF ToDevice
      <4>2. CASE i = Len(toDevice) + 1
        BY <3>1, <3>2, <3>3, <3>5, <4>2, Lengths DEF ToCome
      <4>3. CASE i # Len(toDevice) + 1
        <5>1. i \in 1..Len(toDevice)
          BY <3>3, <4>3, Lengths
        <5> QED
          BY <3>1, <3>3, <5>1 DEF ToDevice
      <4> QED
        BY <4>2, <4>3
    <3>8. ToCome'
      BY <1>12, <3>1, <3>4, <3>5, <3>6 DEF ToCome, WriteBlock
    <3> QED
      BY <3>7, <3>8
  <2> QED
    BY <1>12, <2>1
       DEF TypeInv, TypeOK, PushInv, Verdicts, Asked, Opening, WriteBlock,
           Write, Goto
<1>13. ASSUME WriteBlockFails
       PROVE  PushInv'
  BY <1>13
     DEF TypeInv, TypeOK, PushInv, Verdicts, Asked, ToDevice, ToCome, Taken,
         Pending, Opening, Pushing, Fetching, Signal, Data, WriteBlockFails,
         Return, CloseConn
<1>14. ASSUME WriteDone
       PROVE  PushInv'
  <2>1. ASSUME device = "serving"
        PROVE  ToDevice'
    <3>1. ToDevice /\ ended /\ Len(source) = Len(copy) + Len(toDevice)
      BY <1>14, <2>1 DEF PushInv, WriteDone
    <3>2. /\ Len(toDevice') = Len(toDevice) + 1
          /\ \A i \in 1..Len(toDevice) : toDevice'[i] = toDevice[i]
          /\ toDevice'[Len(toDevice) + 1].kind = "done"
      <4>1. Signal("done") \in Messages /\ Signal("done").kind = "done"
        BY MessageFacts DEF Kinds, Signal
      <4>2. toDevice' = Append(toDevice, Signal("done"))
        BY <1>14, <2>1 DEF WriteDone, Write
      <4> QED
        BY <4>1, <4>2, Appended DEF TypeInv
    <3>3. UNCHANGED <<copy, source, ended>> /\ pc = "finish" /\ pc' = "receipt"
      BY <1>14 DEF WriteDone, Goto
    <3> SUFFICES ASSUME NEW i \in 1..Len(toDevice')
                 PROVE  \/ /\ toDevice'[i].kind = "data"
                           /\ toDevice'[i].block = Len(copy) + i
                           /\ Len(copy) + i <= Len(source)
                        \/ /\ toDevice'[i].kind = "done"
                           /\ Len(source) = Len(copy) + i - 1
      BY <3>1, <3>3 DEF ToDevice
    <3>4. CASE i = Len(toDevice) + 1
      BY <3>1, <3>2, <3>4, Lengths
    <3>5. CASE i # Len(toDevice) + 1
      <4>1. i \in 1..Len(toDevice)
        BY <3>2, <3>5, Lengths
      <4> QED
        BY <3>1, <3>2, <3>3, <4>1 DEF ToDevice
    <3> QED
      BY <3>4, <3>5
  <2> QED
    BY <1>14, <2>1
       DEF TypeInv, TypeOK, PushInv, Verdicts, Asked, Opening, WriteDone,
           Write, Goto
<1>15. ASSUME WriteDoneFails
       PROVE  PushInv'
  BY <1>15
     DEF TypeInv, TypeOK, PushInv, Verdicts, Asked, ToDevice, ToCome, Taken,
         Pending, Opening, Pushing, Fetching, Signal, Data, WriteDoneFails,
         CloseConn, AfterFailedDone, Goto
<1>16. ASSUME ReadReceipt
       PROVE  PushInv'
  BY <1>16
     DEF TypeInv, TypeOK, PushInv, Verdicts, Asked, ToDevice, ToCome, Taken,
         Pending, Opening, Pushing, Fetching, Signal, Data, ReadReceipt,
         Return, Receipt, CloseConn
<1>17. ASSUME ReadFails
       PROVE  PushInv'
  BY <1>17
     DEF TypeInv, TypeOK, PushInv, Verdicts, Asked, ToDevice, ToCome, Taken,
         Pending, Opening, Pushing, Fetching, Signal, Data, ReadFails,
         Return, CloseConn
<1>18. ASSUME ReadBlock
       PROVE  PushInv'
  BY <1>18 DEF TypeInv, Opening, Pushing, Fetching, ReadBlock, Read, Goto
<1>19. ASSUME ReadEnd
       PROVE  PushInv'
  BY <1>19
     DEF TypeInv, Opening, Pushing, Fetching, ReadEnd, Read, Goto, CloseConn
<1>20. ASSUME ReadRefusal
       PROVE  PushInv'
  BY <1>20
     DEF TypeInv, Opening, Pushing, Fetching, ReadRefusal, Read, Return,
         CloseConn
<1>21. ASSUME SendBlock
       PROVE  PushInv'
  BY <1>21 DEF TypeInv, Opening, Pushing, Fetching, SendBlock, Send, Goto
<1>22. ASSUME SendLast
       PROVE  PushInv'
  BY <1>22
     DEF TypeInv, Opening, Pushing, Fetching, SendLast, Send, Return,
         CloseConn
<1>23. ASSUME SendFails
       PROVE  PushInv'
  BY <1>23
     DEF TypeInv, Opening, Pushing, Fetching, SendFails, OnSendError, Return,
         CloseConn
<1>24. ASSUME Reply
       PROVE  PushInv'
  BY <1>24 DEF TypeInv, Opening, Pushing, Fetching, Reply, Return, CloseConn
<1>25. ASSUME ClientSend
       PROVE  PushInv'
  <2>1. ~ended /\ ~published /\ client = "open"
    BY <1>25 DEF PushInv, Asked, Copies, ClientSend, Ask
  <2>2. /\ Data(Len(source) + 1) \in Messages
        /\ requests' = Append(requests, Data(Len(source) + 1))
        /\ requests' # <<>> /\ Len(requests') = Len(requests) + 1
        /\ \A i \in 1..Len(requests) : requests'[i] = requests[i]
        /\ requests'[Len(requests) + 1] = Data(Len(source) + 1)
    <3>1. Data(Len(source) + 1) \in Messages
      <4>1. Len(source) + 1 \in Blocks
        BY <1>25, Lengths, BoundsAreNat DEF Blocks, ClientSend
      <4> QED
        BY <4>1, MessageFacts
    <3>2. requests' = Append(requests, Data(Len(source) + 1))
      BY <1>25 DEF ClientSend, Ask
    <3> QED
      BY <3>1, <3>2, Appended DEF TypeInv
  <2>3. Data(Len(source) + 1).kind # "start"
    BY DEF Data, Signal
  <2>4. Asked'
    <3>1. /\ client' # "open" \/ ~ended'
          /\ pc' = pc
      BY <1>25, <2>1 DEF ClientSend, Ask
    <3>2. \A i \in 1..Len(requests') : i \in 1..Len(requests)
                                       \/ i = Len(requests) + 1
      BY <2>2, Lengths
    <3>3. pc \in {"check", "start"} => 1 \in 1..Len(requests)
      BY HeadTail DEF TypeInv, PushInv, Asked
    <3> QED
      BY <2>2, <2>3, <3>1, <3>2, <3>3 DEF PushInv, Asked
  <2>5. /\ UNCHANGED <<pc, held, result, device, toDevice, fromDevice, copy,
                       published>>
        /\ Len(source') = Len(source) + 1 /\ ended' = FALSE
    <3>1. Len(source) \in Nat /\ Len(source) + 1 \in Nat
      BY Lengths
    <3> QED
      BY <1>25, <2>1, <3>1, Appended DEF TypeInv, TypeOK, ClientSend, Ask
  <2>6. ASSUME device \in {"idle", "serving"},
               pc \in Opening \cup {"recv", "write"}
        PROVE  ToCome'
    <3>1. ToCome
      BY <2>6 DEF PushInv
    <3>2. Taken' = Taken /\ Pending' = Pending /\ Taken \in Nat
          /\ Taken - Pending \in Int
      BY <2>5, Lengths DEF Taken, Pending
    <3>3. Queue(requests', Taken - Pending, Len(source'), ended')
      <4>1. /\ Queue(requests, Taken - Pending, Len(source), FALSE)
            /\ requests \in Seq(Messages) /\ Len(source) \in Nat
        BY <2>1, <3>1, Lengths DEF ToCome, TypeInv, TypeOK
      <4> QED
        BY <2>2, <2>5, <3>2, <4>1, QueueGrows DEF Data, Signal
    <3> QED
      BY <2>5, <3>1, <3>2, <3>3, Lengths DEF ToCome
  <2>7. device \in {"idle", "serving"} => ToDevice' /\ pc # "finish"
    BY <2>1, <2>5, Lengths DEF PushInv, ToDevice
  <2> QED
    BY <2>1, <2>4, <2>5, <2>6, <2>7 DEF PushInv, Verdicts
<1>26. ASSUME ClientEnd
       PROVE  PushInv'
  <2>1. ~ended /\ ~published /\ client = "open"
    BY <1>26 DEF PushInv, Asked, Copies, ClientEnd, Ask
  <2>2. /\ Signal("end") \in Messages
        /\ requests' = Append(requests, Signal("end"))
        /\ requests' # <<>> /\ Len(requests') = Len(requests) + 1
        /\ \A i \in 1..Len(requests) : requests'[i] = requests[i]
        /\ requests'[Len(requests) + 1] = Signal("end")
    <3>1. Signal("end") \in Messages
      BY MessageFacts DEF Kinds
    <3>2. requests' = Append(requests, Signal("end"))
      BY <1>26 DEF ClientEnd, Ask
    <3> QED
      BY <3>1, <3>2, Appended DEF TypeInv
  <2>3. Signal("end").kind # "start"
    BY DEF Data, Signal
  <2>4. Asked'
    <3>1. /\ client' # "open" \/ ~ended'
          /\ pc' = pc
      BY <1>26, <2>1 DEF ClientEnd, Ask
    <3>2. \A i \in 1..Len(requests') : i \in 1..Len(requests)
                                       \/ i = Len(requests) + 1
      BY <2>2, Lengths
    <3>3. pc \in {"check", "start"} => 1 \in 1..Len(requests)
      BY HeadTail DEF TypeInv, PushInv, Asked
    <3> QED
      BY <2>2, <2>3, <3>1, <3>2, <3>3 DEF PushInv, Asked
  <2>5. /\ UNCHANGED <<pc, held, result, device, toDevice, fromDevice, copy,
                       published>>
        /\ Len(source') = Len(source) /\ ended' = TRUE
    <3>1. Len(source) \in Nat /\ Len(source) + 1 \in Nat
      BY Lengths
    <3> QED
      BY <1>26, <2>1, <3>1, Appended DEF TypeInv, TypeOK, ClientEnd, Ask
  <2>6. ASSUME device \in {"idle", "serving"},
               pc \in Opening \cup {"recv", "write"}
        PROVE  ToCome'
    <3>1. ToCome
      BY <2>6 DEF PushInv
    <3>2. Taken' = Taken /\ Pending' = Pending /\ Taken \in Nat
          /\ Taken - Pending \in Int
      BY <2>5, Lengths DEF Taken, Pending
    <3>3. Queue(requests', Taken - Pending, Len(source'), ended')
      <4>1. /\ Queue(requests, Taken - Pending, Len(source), FALSE)
            /\ requests \in Seq(Messages) /\ Len(source) \in Nat
        BY <2>1, <3>1, Lengths DEF ToCome, TypeInv, TypeOK
      <4> QED
        BY <2>2, <2>5, <3>2, <4>1, QueueGrows DEF Data, Signal
    <3> QED
      BY <2>5, <3>1, <3>2, <3>3, Lengths DEF ToCome
  <2>7. device \in {"idle", "serving"} => ToDevice' /\ pc # "finish"
    BY <2>1, <2>5, Lengths DEF PushInv, ToDevice
  <2> QED
    BY <2>1, <2>4, <2>5, <2>6, <2>7 DEF PushInv, Verdicts
<1>27. ASSUME ClientJunk
       PROVE  PushInv'
  <2>1. ~ended /\ ~published /\ client = "open"
    BY <1>27 DEF PushInv, Asked, Copies, ClientJunk, Ask
  <2>2. /\ Signal("junk") \in Messages
        /\ requests' = Append(requests, Signal("junk"))
        /\ requests' # <<>> /\ Len(requests') = Len(requests) + 1
        /\ \A i \in 1..Len(requests) : requests'[i] = requests[i]
        /\ requests'[Len(requests) + 1] = Signal("junk")
    <3>1. Signal("junk") \in Messages
      BY MessageFacts DEF Kinds
    <3>2. requests' = Append(requests, Signal("junk"))
      BY <1>27 DEF ClientJunk, Ask
    <3> QED
      BY <3>1, <3>2, Appended DEF TypeInv
  <2>3. Signal("junk").kind # "start"
    BY DEF Data, Signal
  <2>4. Asked'
    <3>1. /\ client' # "open" \/ ~ended'
          /\ pc' = pc
      BY <1>27, <2>1 DEF ClientJunk, Ask
    <3>2. \A i \in 1..Len(requests') : i \in 1..Len(requests)
                                       \/ i = Len(requests) + 1
      BY <2>2, Lengths
    <3>3. pc \in {"check", "start"} => 1 \in 1..Len(requests)
      BY HeadTail DEF TypeInv, PushInv, Asked
    <3> QED
      BY <2>2, <2>3, <3>1, <3>2, <3>3 DEF PushInv, Asked
  <2>5. /\ UNCHANGED <<pc, held, result, device, toDevice, fromDevice, copy,
                       published>>
        /\ Len(source') = Len(source) /\ ended' = FALSE
    <3>1. Len(source) \in Nat /\ Len(source) + 1 \in Nat
      BY Lengths
    <3> QED
      BY <1>27, <2>1, <3>1, Appended DEF TypeInv, TypeOK, ClientJunk, Ask
  <2>6. ASSUME device \in {"idle", "serving"},
               pc \in Opening \cup {"recv", "write"}
        PROVE  ToCome'
    <3>1. ToCome
      BY <2>6 DEF PushInv
    <3>2. Taken' = Taken /\ Pending' = Pending /\ Taken \in Nat
          /\ Taken - Pending \in Int
      BY <2>5, Lengths DEF Taken, Pending
    <3>3. Queue(requests', Taken - Pending, Len(source'), ended')
      <4>1. /\ Queue(requests, Taken - Pending, Len(source), FALSE)
            /\ requests \in Seq(Messages) /\ Len(source) \in Nat
        BY <2>1, <3>1, Lengths DEF ToCome, TypeInv, TypeOK
      <4> QED
        BY <2>2, <2>5, <3>2, <4>1, QueueGrows DEF Data, Signal
    <3> QED
      BY <2>5, <3>1, <3>2, <3>3, Lengths DEF ToCome
  <2>7. device \in {"idle", "serving"} => ToDevice' /\ pc # "finish"
    BY <2>1, <2>5, Lengths DEF PushInv, ToDevice
  <2> QED
    BY <2>1, <2>4, <2>5, <2>6, <2>7 DEF PushInv, Verdicts
<1>28. ASSUME NEW how \in {"eof", "cancelled"}, ClientStops(how)
       PROVE  PushInv'
  BY <1>28
     DEF TypeInv, TypeOK, PushInv, Verdicts, Asked, ToDevice, ToCome, Taken,
         Pending, Opening, Pushing, Fetching, Signal, Data, ClientStops
<1>29. ASSUME ClientRecv
       PROVE  PushInv'
  BY <1>29 DEF TypeInv, Opening, Pushing, Fetching, ClientRecv
<1>30. ASSUME DeviceSends
       PROVE  PushInv'
  BY <1>30 DEF TypeInv, Opening, Pushing, Fetching, DeviceSends, DeviceWrites
<1>31. ASSUME DeviceDone
       PROVE  PushInv'
  BY <1>31 DEF TypeInv, Opening, Pushing, Fetching, DeviceDone, DeviceWrites
<1>32. ASSUME NEW kind \in {"fail", "junk"}, DeviceFails(kind)
       PROVE  PushInv'
  <2>1. /\ Len(fromDevice') = Len(fromDevice) + 1
        /\ \A i \in 1..Len(fromDevice) : fromDevice'[i] = fromDevice[i]
        /\ fromDevice'[Len(fromDevice) + 1].kind # "okay"
    <3>1. Signal(kind) \in Messages /\ Signal(kind).kind # "okay"
      BY MessageFacts DEF Kinds, Signal
    <3>2. fromDevice' = Append(fromDevice, Signal(kind))
      BY <1>32 DEF DeviceFails, DeviceWrites
    <3> QED
      BY <3>1, <3>2, Appended DEF TypeInv
  <2>2. \A i \in 1..Len(fromDevice') :
            fromDevice'[i].kind = "okay" => published
    <3>1. \A i \in 1..Len(fromDevice') : i \in 1..Len(fromDevice)
                                         \/ i = Len(fromDevice) + 1
      BY <2>1, Lengths
    <3> QED
      BY <2>1, <3>1 DEF PushInv, Verdicts
  <2> QED
    BY <1>32, <2>2 DEF PushInv, Verdicts, Asked, DeviceFails, DeviceWrites
<1>33. ASSUME DeviceStores
       PROVE  PushInv'
  <2>1. /\ toDevice # <<>> /\ toDevice' = Tail(toDevice)
        /\ Head(toDevice) = toDevice[1] /\ Head(toDevice) \in Messages
        /\ Len(toDevice) >= 1 /\ Len(toDevice') = Len(toDevice) - 1
        /\ \A i \in 1..Len(toDevice') : toDevice'[i] = toDevice[i + 1]
    BY <1>33, HeadTail DEF TypeInv, DeviceStores
  <2>2. Len(copy') = Len(copy) + 1
    <3>1. Head(toDevice).block \in Blocks
      BY <1>33, <2>1 DEF Messages, DeviceStores
    <3> QED
      BY <1>33, <3>1, Appended DEF TypeInv, TypeOK, DeviceStores
  <2>3. ToDevice'
    <3>1. UNCHANGED <<pc, source, ended>> /\ ToDevice
      BY <1>33 DEF DeviceStores, PushInv
    <3> SUFFICES ASSUME NEW i \in 1..Len(toDevice')
                 PROVE  \/ /\ toDevice'[i].kind = "data"
                           /\ toDevice'[i].block = Len(copy') + i
                           /\ Len(copy') + i <= Len(source)
                        \/ /\ toDevice'[i].kind = "done"
                           /\ pc \in {"receipt", "done"}
                           /\ ended /\ Len(source) = Len(copy') + i - 1
      BY <3>1 DEF ToDevice
    <3>2. /\ i + 1 \in 1..Len(toDevice) /\ Len(copy) + (i + 1) = Len(copy') + i
          /\ Len(copy) + (i + 1) - 1 = Len(copy') + i - 1
      BY <2>1, <2>2, Lengths
    <3> QED
      BY <2>1, <3>1, <3>2 DEF ToDevice
  <2>4. Taken' = Taken /\ Pending' = Pending
    BY <1>33, <2>1, <2>2, Lengths DEF Taken, Pending, DeviceStores
  <2>5. pc = "finish" => Len(source) = Len(copy') + Len(toDevice')
    BY <1>33, <2>1, <2>2, Lengths DEF PushInv, DeviceStores
  <2> QED
    BY <1>33, <2>3, <2>4, <2>5
       DEF PushInv, Verdicts, Asked, ToCome, DeviceStores
<1>34. ASSUME DevicePublishes
       PROVE  PushInv'
  BY <1>34
     DEF TypeInv, TypeOK, PushInv, Verdicts, Asked, ToDevice, ToCome, Taken,
         Pending, Opening, Pushing, Fetching, Signal, Data, DevicePublishes,
         DeviceWrites
<1>35. ASSUME DeviceDrains
       PROVE  PushInv'
  BY <1>35
     DEF TypeInv, TypeOK, PushInv, Verdicts, Asked, ToDevice, ToCome, Taken,
         Pending, Opening, Pushing, Fetching, Signal, Data, DeviceDrains
<1>36. ASSUME DeviceGone
       PROVE  PushInv'
  BY <1>36
     DEF TypeInv, TypeOK, PushInv, Verdicts, Asked, ToDevice, ToCome, Taken,
         Pending, Opening, Pushing, Fetching, Signal, Data, DeviceGone
<1> QED
  BY <1>1, <1>2, <1>3, <1>4, <1>5, <1>6, <1>7, <1>8, <1>9, <1>10, <1>11,
     <1>12, <1>13, <1>14, <1>15, <1>16, <1>17, <1>18, <1>19, <1>20, <1>21,
     <1>22, <1>23, <1>24, <1>25, <1>26, <1>27, <1>28, <1>29, <1>30, <1>31,
     <1>32, <1>33, <1>34, <1>35, <1>36
     DEF Next, Handler, Answer, Peers

(* Every step of the other calls keeps the order of their blocks.          *)
LEMMA FetchStep ==
    ASSUME op # "push", TypeInv, Copies, FetchInv, Next
    PROVE  FetchInv'
<1>1. ASSUME CheckFails
      PROVE  FetchInv'
  BY <1>1
     DEF TypeInv, TypeOK, FetchInv, Answered, InHand, FromDevice, Fetched,
         Opening, Pushing, Fetching, Supply, CheckFails, Return
<1>2. ASSUME CheckPasses
      PROVE  FetchInv'
  BY <1>2
     DEF TypeInv, TypeOK, FetchInv, Answered, InHand, FromDevice, Fetched,
         Opening, Pushing, Fetching, Supply, CheckPasses, Goto
<1>3. ASSUME TakeStart
      PROVE  FetchInv'
  BY <1>3
     DEF TypeInv, Opening, Pushing, Fetching, TakeStart, Recv, Goto, Return
<1>4. ASSUME RecvFails
      PROVE  FetchInv'
  BY <1>4
     DEF TypeInv, Opening, Pushing, Fetching, RecvFails, Return, CloseConn
<1>5. ASSUME OpenFails
      PROVE  FetchInv'
  BY <1>5
     DEF TypeInv, TypeOK, FetchInv, Answered, InHand, FromDevice, Fetched,
         Opening, Pushing, Fetching, Supply, OpenFails, Return
<1>6. ASSUME OpenToRead
      PROVE  FetchInv'
  BY <1>6
     DEF TypeInv, TypeOK, FetchInv, Answered, InHand, FromDevice, Fetched,
         Opening, Pushing, Fetching, Supply, OpenToRead, Open, Goto
<1>7. ASSUME OpenToWrite
      PROVE  FetchInv'
  BY <1>7 DEF TypeInv, Opening, Pushing, Fetching, OpenToWrite, Open, Goto
<1>8. ASSUME TakeBlock
      PROVE  FetchInv'
  BY <1>8 DEF TypeInv, Opening, Pushing, Fetching, TakeBlock, Recv, Goto
<1>9. ASSUME TakeOversize
      PROVE  FetchInv'
  BY <1>9
     DEF TypeInv, Opening, Pushing, Fetching, TakeOversize, Recv, Return,
         CloseConn
<1>10. ASSUME TakeEnd
       PROVE  FetchInv'
  BY <1>10 DEF TypeInv, Opening, Pushing, Fetching, TakeEnd, Recv, Goto
<1>11. ASSUME TakeJunk
       PROVE  FetchInv'
  BY <1>11
     DEF TypeInv, Opening, Pushing, Fetching, TakeJunk, Recv, Return,
         CloseConn
<1>12. ASSUME WriteBlock
       PROVE  FetchInv'
  BY <1>12 DEF TypeInv, Opening, Pushing, Fetching, WriteBlock, Write, Goto
<1>13. ASSUME WriteBlockFails
       PROVE  FetchInv'
  BY <1>13
     DEF TypeInv, Opening, Pushing, Fetching, WriteBlockFails, Return,
         CloseConn
<1>14. ASSUME WriteDone
       PROVE  FetchInv'
  BY <1>14 DEF TypeInv, Opening, Pushing, Fetching, WriteDone, Write, Goto
<1>15. ASSUME WriteDoneFails
       PROVE  FetchInv'
  BY <1>15
     DEF TypeInv, Opening, Pushing, Fetching, WriteDoneFails, CloseConn,
         AfterFailedDone, Goto
<1>16. ASSUME ReadReceipt
       PROVE  FetchInv'
  BY <1>16
     DEF TypeInv, Opening, Pushing, Fetching, ReadReceipt, Return, Receipt,
         CloseConn
<1>17. ASSUME ReadFails
       PROVE  FetchInv'
  BY <1>17
     DEF TypeInv, TypeOK, FetchInv, Answered, InHand, FromDevice, Fetched,
         Opening, Pushing, Fetching, Supply, ReadFails, Return, CloseConn
<1>18. ASSUME ReadBlock
       PROVE  FetchInv'
  <2>1. /\ fromDevice # <<>> /\ fromDevice' = Tail(fromDevice)
        /\ Head(fromDevice) = fromDevice[1] /\ 1 \in 1..Len(fromDevice)
        /\ Len(fromDevice') = Len(fromDevice) - 1
        /\ fromDevice[1] \in Messages /\ fromDevice[1].kind = "data"
    BY <1>18, HeadTail DEF TypeInv, ReadBlock, Read
  <2>2. /\ InHand /\ FromDevice /\ ~published /\ pc = "read"
        /\ Fetched \in Nat /\ Len(source) \in Nat /\ ended \in BOOLEAN
    BY <1>18, Lengths DEF FetchInv, TypeInv, TypeOK, Fetched, ReadBlock, Read
  <2>3. /\ fromDevice[1].block = Fetched + 1 /\ Fetched + 1 <= Len(source)
        /\ op = "stat" => ended /\ Len(source) = Fetched + 1
    BY <2>1, <2>2 DEF FromDevice, Supply
  <2>4. /\ Len(held') = Len(held) + 1 /\ held'[Len(held) + 1] = Fetched + 1
        /\ \A j \in 1..Len(held) : held'[j] = held[j]
        /\ op \in {"pull", "stat"} => Len(held) = 0
    <3>1. fromDevice[1].block \in Blocks
      BY <2>1 DEF Messages
    <3>2. CASE op = "list"
      BY <1>18, <2>1, <2>3, <3>1, <3>2, Appended DEF TypeInv, TypeOK, ReadBlock
    <3>3. CASE op \in {"pull", "stat"}
      <4>1. Len(held) = 0
        BY <2>2, <3>3, EmptySeq DEF InHand
      <4>2. held' = <<fromDevice[1].block>>
        BY <1>18, <2>1, <3>3 DEF ReadBlock
      <4> QED
        BY <2>3, <3>1, <4>1, <4>2
    <3> QED
      BY <3>2, <3>3 DEF TypeInv, TypeOK
  <2>5. /\ UNCHANGED <<op, copy, responses, source, ended, device, published>>
        /\ pc' = CASE op = "list" -> "read"
                   [] op = "stat" -> "reply"
                   [] op = "pull" -> "send"
    BY <1>18 DEF ReadBlock, Read, Goto
  <2>6. Fetched' = Fetched + 1
    BY <2>4, <2>5, Lengths DEF Fetched
  <2>7. InHand'
    <3>1. ASSUME NEW j \in 1..Len(held')
          PROVE  held'[j] = Len(copy) + Len(responses) + j
      <4>1. CASE j = Len(held) + 1
        BY <2>4, <4>1, Lengths DEF Fetched
      <4>2. CASE j # Len(held) + 1
        <5>1. j \in 1..Len(held)
          BY <2>4, <4>2, Lengths
        <5> QED
          BY <2>2, <2>4, <5>1 DEF InHand
      <4> QED
        BY <4>1, <4>2
    <3>2. op = "pull" => Len(held') = 1 /\ pc' = "send"
      BY <2>4, <2>5
    <3>3. op = "stat" => pc' # "read"
      BY <2>5
    <3> QED
      BY <2>2, <2>3, <2>5, <2>6, <3>1, <3>2, <3>3 DEF InHand
  <2>8. op # "stat" => FromDevice'
    <3>1. op # "stat" => Supply(fromDevice', Fetched + 1, Len(source), ended)
      BY <2>1, <2>2, SupplyShifts DEF FromDevice, TypeInv
    <3>2. device \in {"idle", "serving"} /\ ~ended =>
            Len(source) = Fetched + 1 + Len(fromDevice')
      BY <2>1, <2>2, Lengths DEF FromDevice
    <3> QED
      BY <2>5, <2>6, <3>1, <3>2 DEF FromDevice, Supply
  <2>9. Answered'
    BY <2>2, <2>5 DEF FetchInv, Answered
  <2>10. op = "stat" => pc' = "reply" /\ ended /\ Len(source) = Fetched'
    BY <2>3, <2>5, <2>6
  <2> QED
    BY <2>2, <2>5, <2>7, <2>8, <2>9, <2>10 DEF FetchInv, TypeInv, TypeOK
<1>19. ASSUME ReadEnd
       PROVE  FetchInv'
  <2>1. /\ fromDevice # <<>> /\ Head(fromDevice) = fromDevice[1]
        /\ 1 \in 1..Len(fromDevice) /\ fromDevice[1].kind = "done"
    BY <1>19, HeadTail DEF TypeInv, ReadEnd, Read
  <2>2. ended /\ Len(source) = Fetched
    BY <1>19, <2>1, Lengths
       DEF FetchInv, FromDevice, Supply, Fetched, ReadEnd, Read
  <2> QED
    BY <1>19, <2>2
       DEF FetchInv, Answered, InHand, Fetched, TypeInv, TypeOK, ReadEnd, Read,
           Goto
<1>20. ASSUME ReadRefusal
       PROVE  FetchInv'
  BY <1>20
     DEF TypeInv, TypeOK, FetchInv, Answered, InHand, FromDevice, Fetched,
         Opening, Pushing, Fetching, Supply, ReadRefusal, Read, Return,
         CloseConn
<1>21. ASSUME SendBlock
       PROVE  FetchInv'
  <2>1. /\ InHand /\ FromDevice /\ op = "pull" /\ Len(held) = 1 /\ ~published
        /\ held \in Seq(Blocks)
    BY <1>21 DEF FetchInv, TypeInv, TypeOK, InHand, SendBlock
  <2>2. held = <<Len(copy) + Len(responses) + 1>>
    BY <2>1 DEF InHand
  <2>3. /\ Len(responses') = Len(responses) + 1
        /\ \A i \in 1..Len(responses) : responses'[i] = responses[i]
        /\ responses'[Len(responses) + 1] = [data |-> held, last |-> FALSE]
    <3>1. [data |-> held, last |-> FALSE] \in Answers
      BY DEF TypeInv, TypeOK, Answers
    <3> QED
      BY <1>21, <3>1, Appended DEF TypeInv, SendBlock, Send
  <2>4. /\ UNCHANGED <<op, copy, source, ended, device, published, fromDevice>>
        /\ pc = "send" /\ pc' = "read" /\ held' = <<>> /\ Len(held') = 0
    BY <1>21, EmptySeq DEF SendBlock, Send, Goto
  <2>5. Fetched' = Fetched
    BY <2>1, <2>3, <2>4, Lengths DEF Fetched
  <2>6. Answered'
    <3> SUFFICES ASSUME NEW i \in 1..Len(responses')
                 PROVE  /\ ~responses'[i].last
                        /\ responses'[i].data = <<Len(copy) + i>>
                        /\ Len(copy) + i <= Len(source)
      BY <2>4 DEF Answered
    <3>1. CASE i = Len(responses) + 1
      <4>1. Len(copy) + i <= Len(source)
        BY <2>1, <3>1, Lengths DEF InHand, Fetched
      <4>2. Len(copy) + i = Len(copy) + Len(responses) + 1
        BY <3>1, Lengths
      <4> QED
        BY <2>2, <2>3, <3>1, <4>1, <4>2
    <3>2. CASE i # Len(responses) + 1
      <4>1. i \in 1..Len(responses)
        BY <2>3, <3>2, Lengths
      <4> QED
        BY <2>3, <2>4, <4>1 DEF FetchInv, Answered
    <3> QED
      BY <3>1, <3>2
  <2>7. InHand'
    BY <2>1, <2>4, <2>5 DEF InHand
  <2>8. FromDevice'
    BY <2>1, <2>4, <2>5 DEF FromDevice, Supply
  <2> QED
    BY <2>1, <2>4, <2>6, <2>7, <2>8 DEF FetchInv
<1>22. ASSUME SendLast
       PROVE  FetchInv'
  <2>1. /\ op = "pull" /\ Len(held) = 0 /\ pc = "last"
        /\ ended /\ Len(source) = Fetched
    BY <1>22 DEF FetchInv, InHand, TypeInv, TypeOK, SendLast
  <2>2. Len(source) = Len(copy) + Len(responses)
    BY <2>1, Lengths DEF Fetched
  <2>3. /\ Len(responses') = Len(responses) + 1
        /\ \A i \in 1..Len(responses) : responses'[i] = responses[i]
        /\ responses'[Len(responses) + 1] = [data |-> <<>>, last |-> TRUE]
    <3>1. [data |-> <<>>, last |-> TRUE] \in Answers
      BY EmptySeq DEF Answers
    <3> QED
      BY <1>22, <3>1, Appended DEF TypeInv, SendLast, Send
  <2>4. UNCHANGED <<copy, source, ended>> /\ pc' = "done"
    BY <1>22 DEF SendLast, Send, Return
  <2>5. Answered'
    <3>1. ASSUME NEW i \in 1..Len(responses), i \in 1..Len(responses')
          PROVE  /\ ~responses'[i].last
                 /\ responses'[i].data = <<Len(copy) + i>>
                 /\ Len(copy) + i <= Len(source)
      BY <2>1, <2>3 DEF FetchInv, Answered
    <3>2. \A i \in 1..Len(responses') : i \in 1..Len(responses)
                                        \/ i = Len(responses')
      BY <2>3, Lengths
    <3>3. /\ responses'[Len(responses')].last
          /\ Len(responses'[Len(responses')].data) = 0
          /\ Len(source) = Len(copy) + Len(responses') - 1 + 0
      BY <2>2, <2>3, EmptySeq, Lengths
    <3> SUFFICES ASSUME NEW i \in 1..Len(responses')
                 PROVE  IF responses'[i].last
                        THEN /\ i = Len(responses')
                             /\ \A j \in 1..Len(responses'[i].data) :
                                  responses'[i].data[j] = Len(copy) + i - 1 + j
                             /\ Len(source) = Len(copy) + i - 1
                                                + Len(responses'[i].data)
                        ELSE /\ responses'[i].data = <<Len(copy) + i>>
                             /\ Len(copy) + i <= Len(source)
      BY <2>1, <2>4 DEF Answered
    <3>4. CASE i \in 1..Len(responses)
      BY <3>1, <3>4
    <3>5. CASE i = Len(responses')
      <4>1. \A j \in 1..Len(responses'[i].data) : FALSE
        BY <3>3, <3>5
      <4> QED
        BY <3>3, <3>5, <4>1
    <3> QED
      BY <3>2, <3>4, <3>5
  <2> QED
    BY <2>4, <2>5 DEF FetchInv
<1>23. ASSUME SendFails
       PROVE  FetchInv'
  BY <1>23
     DEF TypeInv, TypeOK, FetchInv, Answered, InHand, FromDevice, Fetched,
         Opening, Pushing, Fetching, Supply, SendFails, OnSendError, Return,
         CloseConn
<1>24. ASSUME Reply
       PROVE  FetchInv'
  <2>1. /\ op # "pull" /\ InHand /\ ended /\ Len(source) = Fetched
        /\ responses = <<>> /\ copy = <<>>
    BY <1>24 DEF FetchInv, InHand, TypeInv, TypeOK, Reply
  <2>2. /\ Len(copy) = 0 /\ Len(responses) = 0 /\ Len(source) = Len(held)
        /\ \A j \in 1..Len(held) : held[j] = j
    BY <2>1, EmptySeq, Lengths DEF InHand, Fetched
  <2>3. /\ Len(responses') = 1
        /\ responses'[1] = [data |-> held, last |-> TRUE]
    BY <1>24 DEF Reply
  <2>4. UNCHANGED <<copy, source, ended>> /\ pc' = "done"
    BY <1>24 DEF Reply, Return
  <2>5. \A j \in 1..Len(held) : held[j] = Len(copy) + 1 - 1 + j
    BY <2>2
  <2>6. Len(source) = Len(copy) + 1 - 1 + Len(held)
    BY <2>2, Lengths
  <2>7. Answered'
    BY <2>1, <2>3, <2>4, <2>5, <2>6 DEF Answered
  <2> QED
    BY <2>4, <2>7 DEF FetchInv
<1>25. ASSUME ClientSend
       PROVE  FetchInv'
  BY <1>25 DEF TypeInv, Opening, Pushing, Fetching, ClientSend, Ask
<1>26. ASSUME ClientEnd
       PROVE  FetchInv'
  BY <1>26 DEF TypeInv, Opening, Pushing, Fetching, ClientEnd, Ask
<1>27. ASSUME ClientJunk
       PROVE  FetchInv'
  BY <1>27 DEF TypeInv, Opening, Pushing, Fetching, ClientJunk, Ask
<1>28. ASSUME NEW how \in {"eof", "cancelled"}, ClientStops(how)
       PROVE  FetchInv'
  <2>1. UNCHANGED <<op, pc, held, device, fromDevice, responses, copy,
                    published, source, ended>>
    BY <1>28 DEF ClientStops
  <2>2. Fetched' = Fetched
    BY <2>1 DEF Fetched
  <2>3. FromDevice => FromDevice'
    BY <2>1, <2>2 DEF FromDevice, Supply
  <2> QED
    BY <2>1, <2>2, <2>3 DEF FetchInv, Answered, InHand
<1>29. ASSUME ClientRecv
       PROVE  FetchInv'
  <2>1. /\ responses # <<>> /\ responses' = Tail(responses)
        /\ Head(responses) = responses[1] /\ Head(responses) \in Answers
        /\ Len(responses) >= 1 /\ Len(responses') = Len(responses) - 1
        /\ \A i \in 1..Len(responses') : responses'[i] = responses[i + 1]
        /\ 1 \in 1..Len(responses)
    BY <1>29, HeadTail DEF TypeInv, ClientRecv
  <2>2. /\ UNCHANGED <<op, pc, held, fromDevice, device, source, ended>>
        /\ copy' = copy \o responses[1].data
        /\ published' = responses[1].last
    BY <1>29, <2>1 DEF ClientRecv
  <2>3. /\ Len(copy') = Len(copy) + Len(responses[1].data)
        /\ Len(responses[1].data) \in Nat
    BY <2>1, <2>2, ConcatProperties, LenProperties
       DEF Answers, TypeInv, TypeOK
  <2>4. CASE responses[1].last
    <3>1. Len(responses') = 0 /\ pc = "done"
      <4>1. Answered
        BY DEF FetchInv
      <4>2. pc = "done" /\ 1 = Len(responses)
        BY <2>1, <2>4, <4>1 DEF Answered
      <4>3. pc = "done" /\ Len(responses') = Len(responses) - 1
        BY <2>1, <4>2
      <4> QED
        BY <4>2, <4>3
    <3>2. Answered'
      BY <3>1 DEF Answered
    <3> QED
      BY <2>2, <3>1, <3>2 DEF FetchInv
  <2>5. CASE ~responses[1].last
    <3>1. Len(copy') = Len(copy) + 1
      <4>1. Answered
        BY DEF FetchInv
      <4>2. responses[1].data = <<Len(copy) + 1>>
        BY <2>1, <2>5, <4>1 DEF Answered
      <4> QED
        BY <2>3, <4>2
    <3>2. Answered'
      <4> SUFFICES ASSUME NEW i \in 1..Len(responses')
                   PROVE  IF responses'[i].last
                          THEN /\ pc = "done" /\ ended /\ i = Len(responses')
                               /\ \A j \in 1..Len(responses'[i].data) :
                                    responses'[i].data[j]
                                      = Len(copy') + i - 1 + j
                               /\ Len(source) = Len(copy') + i - 1
                                                  + Len(responses'[i].data)
                          ELSE /\ responses'[i].data = <<Len(copy') + i>>
                               /\ Len(copy') + i <= Len(source)
        BY <2>2 DEF Answered
      <4>1. /\ i + 1 \in 1..Len(responses)
            /\ Len(copy) + (i + 1) = Len(copy') + i
            /\ Len(copy) + (i + 1) - 1 = Len(copy') + i - 1
            /\ i + 1 = Len(responses) => i = Len(responses')
        <5>1. /\ Len(responses') = Len(responses) - 1
              /\ Len(responses) \in Nat /\ Len(copy) \in Nat
          BY <2>1, Lengths
        <5>2. i \in Nat /\ i >= 1 /\ i <= Len(responses) - 1
          BY <5>1
        <5> QED
          BY <3>1, <5>1, <5>2
      <4> QED
        BY <2>1, <4>1 DEF FetchInv, Answered
    <3>3. Fetched' = Fetched
      BY <2>1, <2>2, <3>1, Lengths DEF Fetched
    <3>4. Len(copy') + Len(responses') = Len(copy) + Len(responses)
      BY <2>1, <3>1, Lengths
    <3>5. pc # "done" => InHand' /\ ~published'
      <4>1. pc # "done" => op = "pull" /\ InHand
        BY <2>1 DEF FetchInv, InHand
      <4> QED
        BY <2>2, <2>5, <3>3, <3>4, <4>1 DEF InHand
    <3>6. FromDevice => FromDevice'
      BY <2>2, <3>3 DEF FromDevice, Supply
    <3> QED
      BY <2>2, <3>2, <3>3, <3>5, <3>6 DEF FetchInv
  <2> QED
    BY <2>4, <2>5
<1>30. ASSUME DeviceSends
       PROVE  FetchInv'
  <2>1. /\ Data(Len(source) + 1) \in Messages
        /\ fromDevice' = Append(fromDevice, Data(Len(source) + 1))
        /\ Len(fromDevice') = Len(fromDevice) + 1
    <3>1. Data(Len(source) + 1) \in Messages
      <4>1. Len(source) + 1 \in Blocks
        BY <1>30, Lengths, BoundsAreNat DEF Blocks, DeviceSends
      <4> QED
        BY <4>1, MessageFacts
    <3>2. fromDevice' = Append(fromDevice, Data(Len(source) + 1))
      BY <1>30 DEF DeviceSends, DeviceWrites
    <3> QED
      BY <3>1, <3>2, Appended DEF TypeInv
  <2>2. /\ ~ended /\ device = "serving" /\ ~published
        /\ UNCHANGED <<op, pc, held, responses, copy, published>>
        /\ Len(source') = Len(source) + 1 /\ Len(source') \in Nat
        /\ ended' = (op = "stat") /\ ended' \in BOOLEAN
    <3>1. Len(source) \in Nat /\ Len(source) + 1 \in Nat
      BY Lengths
    <3> QED
      BY <1>30, <3>1, Appended
         DEF TypeInv, TypeOK, Copies, DeviceSends, DeviceWrites
  <2>3. Fetched' = Fetched /\ Fetched \in Nat
    BY <2>2, Lengths DEF Fetched
  <2>4. Answered'
    <3>1. \A i \in 1..Len(responses) : ~responses[i].last
      BY <2>2 DEF FetchInv, Answered
    <3>2. \A i \in 1..Len(responses) : Len(copy) + i <= Len(source')
      <4> SUFFICES ASSUME NEW i \in 1..Len(responses)
                   PROVE  Len(copy) + i <= Len(source')
        OBVIOUS
      <4>1. Len(copy) + i <= Len(source)
        BY <3>1 DEF FetchInv, Answered
      <4> QED
        BY <2>2, <4>1, Lengths
    <3> QED
      BY <2>2, <3>1, <3>2 DEF FetchInv, Answered
  <2>5. pc # "done" => InHand'
    <3>1. pc # "done" => Fetched <= Len(source')
      BY <2>2, <2>3, Lengths DEF FetchInv, InHand
    <3> QED
      BY <2>2, <2>3, <3>1 DEF FetchInv, InHand
  <2>6. pc \in {"check", "open", "read", "send"} => FromDevice'
    <3>1. ASSUME pc \in {"check", "open", "read", "send"}
          PROVE  /\ Supply(fromDevice, Fetched, Len(source), FALSE)
                 /\ Len(source) = Fetched + Len(fromDevice)
      <4>1. ended = FALSE
        BY <2>2 DEF TypeInv, TypeOK
      <4>2. FromDevice
        BY <3>1 DEF FetchInv
      <4> QED
        BY <2>2, <4>1, <4>2 DEF FromDevice
    <3>2. ASSUME pc \in {"check", "open", "read", "send"}, op = "stat",
                 NEW i \in 1..Len(fromDevice)
          PROVE  fromDevice[i].kind # "data"
      BY <3>1, <3>2 DEF Supply
    <3>3. ASSUME pc \in {"check", "open", "read", "send"}
          PROVE  Supply(fromDevice', Fetched, Len(source'), ended')
      <4>1. Len(source) <= Len(source') /\ Len(source) \in Nat
        BY <2>2, Lengths
      <4>2. /\ Data(Len(source) + 1).kind = "data" =>
                 /\ Data(Len(source) + 1).block = Fetched + Len(fromDevice) + 1
                 /\ Len(source') = Fetched + Len(fromDevice) + 1
                 /\ op = "stat" => ended'
            /\ Data(Len(source) + 1).kind = "done" =>
                 ended' /\ Len(source') = Fetched + Len(fromDevice)
        BY <1>30, <2>2, <2>3, <3>1, <3>3, Lengths DEF Data, Signal, DeviceSends
      <4> QED
        BY <2>1, <2>2, <2>3, <3>1, <3>2, <3>3, <4>1, <4>2, SupplyGrows
           DEF TypeInv
    <3>4. ASSUME pc \in {"check", "open", "read", "send"}, ~ended',
                 device' \in {"idle", "serving"}
          PROVE  Len(source') = Fetched + Len(fromDevice')
      <4>1. Len(source) = Fetched + Len(fromDevice)
        BY <3>1, <3>4
      <4>2. Len(fromDevice') = Len(fromDevice) + 1
        BY <2>1
      <4> QED
        BY <2>2, <2>3, <4>1, <4>2, Lengths
    <3> QED
      BY <2>2, <2>3, <3>3, <3>4 DEF FromDevice, Supply
  <2>7. pc \notin {"last", "reply"}
    BY <2>2 DEF FetchInv
  <2> QED
    BY <2>2, <2>4, <2>5, <2>6, <2>7 DEF FetchInv
<1>31. ASSUME DeviceDone
       PROVE  FetchInv'
  <2>1. /\ Signal("done") \in Messages
        /\ fromDevice' = Append(fromDevice, Signal("done"))
        /\ Len(fromDevice') = Len(fromDevice) + 1
    <3>1. Signal("done") \in Messages
      BY MessageFacts DEF Kinds
    <3>2. fromDevice' = Append(fromDevice, Signal("done"))
      BY <1>31 DEF DeviceDone, DeviceWrites
    <3> QED
      BY <3>1, <3>2, Appended DEF TypeInv
  <2>2. /\ ~ended /\ device = "serving" /\ ~published
        /\ UNCHANGED <<op, pc, held, responses, copy, published>>
        /\ Len(source') = Len(source) /\ Len(source') \in Nat
        /\ ended' = TRUE /\ ended' \in BOOLEAN
    <3>1. Len(source) \in Nat /\ Len(source) + 1 \in Nat
      BY Lengths
    <3> QED
      BY <1>31, <3>1, Appended
         DEF TypeInv, TypeOK, Copies, DeviceDone, DeviceWrites
  <2>3. Fetched' = Fetched /\ Fetched \in Nat
    BY <2>2, Lengths DEF Fetched
  <2>4. Answered'
    <3>1. \A i \in 1..Len(responses) : ~responses[i].last
      BY <2>2 DEF FetchInv, Answered
    <3>2. \A i \in 1..Len(responses) : Len(copy) + i <= Len(source')
      <4> SUFFICES ASSUME NEW i \in 1..Len(responses)
                   PROVE  Len(copy) + i <= Len(source')
        OBVIOUS
      <4>1. Len(copy) + i <= Len(source)
        BY <3>1 DEF FetchInv, Answered
      <4> QED
        BY <2>2, <4>1, Lengths
    <3> QED
      BY <2>2, <3>1, <3>2 DEF FetchInv, Answered
  <2>5. pc # "done" => InHand'
    <3>1. pc # "done" => Fetched <= Len(source')
      BY <2>2, <2>3, Lengths DEF FetchInv, InHand
    <3> QED
      BY <2>2, <2>3, <3>1 DEF FetchInv, InHand
  <2>6. pc \in {"check", "open", "read", "send"} => FromDevice'
    <3>1. ASSUME pc \in {"check", "open", "read", "send"}
          PROVE  /\ Supply(fromDevice, Fetched, Len(source), FALSE)
                 /\ Len(source) = Fetched + Len(fromDevice)
      <4>1. ended = FALSE
        BY <2>2 DEF TypeInv, TypeOK
      <4>2. FromDevice
        BY <3>1 DEF FetchInv
      <4> QED
        BY <2>2, <4>1, <4>2 DEF FromDevice
    <3>2. ASSUME pc \in {"check", "open", "read", "send"}, op = "stat",
                 NEW i \in 1..Len(fromDevice)
          PROVE  fromDevice[i].kind # "data"
      BY <3>1, <3>2 DEF Supply
    <3>3. ASSUME pc \in {"check", "open", "read", "send"}
          PROVE  Supply(fromDevice', Fetched, Len(source'), ended')
      <4>1. Len(source) <= Len(source') /\ Len(source) \in Nat
        BY <2>2, Lengths
      <4>2. /\ Signal("done").kind = "data" =>
                 /\ Signal("done").block = Fetched + Len(fromDevice) + 1
                 /\ Len(source') = Fetched + Len(fromDevice) + 1
                 /\ op = "stat" => ended'
            /\ Signal("done").kind = "done" =>
                 ended' /\ Len(source') = Fetched + Len(fromDevice)
        BY <1>31, <2>2, <2>3, <3>1, <3>3, Lengths DEF Data, Signal, DeviceDone
      <4> QED
        BY <2>1, <2>2, <2>3, <3>1, <3>2, <3>3, <4>1, <4>2, SupplyGrows
           DEF TypeInv
    <3>4. ASSUME pc \in {"check", "open", "read", "send"}, ~ended',
                 device' \in {"idle", "serving"}
          PROVE  Len(source') = Fetched + Len(fromDevice')
      BY <2>2, <3>4
    <3> QED
      BY <2>2, <2>3, <3>3, <3>4 DEF FromDevice, Supply
  <2>7. pc \notin {"last", "reply"}
    BY <2>2 DEF FetchInv
  <2> QED
    BY <2>2, <2>4, <2>5, <2>6, <2>7 DEF FetchInv
<1>32. ASSUME NEW kind \in {"fail", "junk"}, DeviceFails(kind)
       PROVE  FetchInv'
  <2>1. /\ Signal(kind) \in Messages
        /\ fromDevice' = Append(fromDevice, Signal(kind))
        /\ Len(fromDevice') = Len(fromDevice) + 1
    <3>1. Signal(kind) \in Messages
      BY <1>32, MessageFacts DEF Kinds
    <3>2. fromDevice' = Append(fromDevice, Signal(kind))
      BY <1>32 DEF DeviceFails, DeviceWrites
    <3> QED
      BY <3>1, <3>2, Appended DEF TypeInv
  <2>2. /\ ~ended /\ device = "serving" /\ ~published
        /\ UNCHANGED <<op, pc, held, responses, copy, published>>
        /\ Len(source') = Len(source) /\ Len(source') \in Nat
        /\ ended' = FALSE /\ ended' \in BOOLEAN
    <3>1. Len(source) \in Nat /\ Len(source) + 1 \in Nat
      BY Lengths
    <3> QED
      BY <1>32, <3>1, Appended
         DEF TypeInv, TypeOK, Copies, DeviceFails, DeviceWrites
  <2>3. Fetched' = Fetched /\ Fetched \in Nat
    BY <2>2, Lengths DEF Fetched
  <2>4. Answered'
    <3>1. \A i \in 1..Len(responses) : ~responses[i].last
      BY <2>2 DEF FetchInv, Answered
    <3>2. \A i \in 1..Len(responses) : Len(copy) + i <= Len(source')
      <4> SUFFICES ASSUME NEW i \in 1..Len(responses)
                   PROVE  Len(copy) + i <= Len(source')
        OBVIOUS
      <4>1. Len(copy) + i <= Len(source)
        BY <3>1 DEF FetchInv, Answered
      <4> QED
        BY <2>2, <4>1, Lengths
    <3> QED
      BY <2>2, <3>1, <3>2 DEF FetchInv, Answered
  <2>5. pc # "done" => InHand'
    <3>1. pc # "done" => Fetched <= Len(source')
      BY <2>2, <2>3, Lengths DEF FetchInv, InHand
    <3> QED
      BY <2>2, <2>3, <3>1 DEF FetchInv, InHand
  <2>6. pc \in {"check", "open", "read", "send"} => FromDevice'
    <3>1. ASSUME pc \in {"check", "open", "read", "send"}
          PROVE  /\ Supply(fromDevice, Fetched, Len(source), FALSE)
                 /\ Len(source) = Fetched + Len(fromDevice)
      <4>1. ended = FALSE
        BY <2>2 DEF TypeInv, TypeOK
      <4>2. FromDevice
        BY <3>1 DEF FetchInv
      <4> QED
        BY <2>2, <4>1, <4>2 DEF FromDevice
    <3>2. ASSUME pc \in {"check", "open", "read", "send"}, op = "stat",
                 NEW i \in 1..Len(fromDevice)
          PROVE  fromDevice[i].kind # "data"
      BY <3>1, <3>2 DEF Supply
    <3>3. ASSUME pc \in {"check", "open", "read", "send"}
          PROVE  Supply(fromDevice', Fetched, Len(source'), ended')
      <4>1. Len(source) <= Len(source') /\ Len(source) \in Nat
        BY <2>2, Lengths
      <4>2. /\ Signal(kind).kind = "data" =>
                 /\ Signal(kind).block = Fetched + Len(fromDevice) + 1
                 /\ Len(source') = Fetched + Len(fromDevice) + 1
                 /\ op = "stat" => ended'
            /\ Signal(kind).kind = "done" =>
                 ended' /\ Len(source') = Fetched + Len(fromDevice)
        BY <1>32, <2>2, <2>3, <3>1, <3>3, Lengths DEF Data, Signal, DeviceFails
      <4> QED
        BY <2>1, <2>2, <2>3, <3>1, <3>2, <3>3, <4>1, <4>2, SupplyGrows
           DEF TypeInv
    <3>4. ASSUME pc \in {"check", "open", "read", "send"}, ~ended',
                 device' \in {"idle", "serving"}
          PROVE  Len(source') = Fetched + Len(fromDevice')
      BY <1>32, <3>4 DEF DeviceFails
    <3> QED
      BY <2>2, <2>3, <3>3, <3>4 DEF FromDevice, Supply
  <2>7. pc \notin {"last", "reply"}
    BY <2>2 DEF FetchInv
  <2> QED
    BY <2>2, <2>4, <2>5, <2>6, <2>7 DEF FetchInv
<1>33. ASSUME DeviceStores
       PROVE  FetchInv'
  BY <1>33 DEF TypeInv, Opening, Pushing, Fetching, DeviceStores
<1>34. ASSUME DevicePublishes
       PROVE  FetchInv'
  BY <1>34
     DEF TypeInv, Opening, Pushing, Fetching, DevicePublishes, DeviceWrites
<1>35. ASSUME DeviceDrains
       PROVE  FetchInv'
  BY <1>35 DEF TypeInv, Opening, Pushing, Fetching, DeviceDrains
<1>36. ASSUME DeviceGone
       PROVE  FetchInv'
  <2>1. /\ Len(fromDevice') <= Len(fromDevice) /\ Len(fromDevice') \in Nat
        /\ \A i \in 1..Len(fromDevice') : fromDevice'[i] = fromDevice[i]
    BY <1>36, StreamsCut, Lengths DEF TypeInv, TypeOK, DeviceGone
  <2>2. /\ UNCHANGED <<op, pc, held, responses, copy, published,
                     source, ended>>
        /\ device' = "ended"
    BY <1>36 DEF DeviceGone
  <2>3. Fetched' = Fetched
    BY <2>2 DEF Fetched
  <2>4. \A i \in 1..Len(fromDevice') : i \in 1..Len(fromDevice)
    BY <2>1, Lengths
  <2>5. FromDevice => FromDevice'
    BY <2>1, <2>2, <2>3, <2>4 DEF FromDevice, Supply
  <2> QED
    BY <2>2, <2>3, <2>5 DEF FetchInv, Answered, InHand
<1> QED
  BY <1>1, <1>2, <1>3, <1>4, <1>5, <1>6, <1>7, <1>8, <1>9, <1>10, <1>11,
     <1>12, <1>13, <1>14, <1>15, <1>16, <1>17, <1>18, <1>19, <1>20, <1>21,
     <1>22, <1>23, <1>24, <1>25, <1>26, <1>27, <1>28, <1>29, <1>30, <1>31,
     <1>32, <1>33, <1>34, <1>35, <1>36
     DEF Next, Handler, Answer, Peers
-----------------------------------------------------------------------------
(* Both halves together: the copy is the start of the source.              *)
FlowInv ==
    /\ Copies
    /\ op = "push" => PushInv
    /\ op # "push" => FetchInv

(* The next block continues what is there.                                 *)
LEMMA NumberedGrows ==
    ASSUME NEW s \in Seq(Blocks), Numbered(s), Len(s) + 1 \in Blocks
    PROVE  /\ Numbered(Append(s, Len(s) + 1))
           /\ Append(s, Len(s) + 1) \in Seq(Blocks)
           /\ Len(Append(s, Len(s) + 1)) = Len(s) + 1
<1> DEFINE t == Append(s, Len(s) + 1)
<1>1. /\ t \in Seq(Blocks) /\ Len(s) \in Nat /\ Len(t) = Len(s) + 1
      /\ \A i \in 1..Len(s) : t[i] = s[i]
      /\ t[Len(s) + 1] = Len(s) + 1
  BY Appended
<1> HIDE DEF t
<1>2. Numbered(t)
  <2> SUFFICES ASSUME NEW i \in 1..Len(t) PROVE t[i] = i
    BY DEF Numbered
  <2>1. i \in 1..Len(s) \/ i = Len(s) + 1
    BY <1>1
  <2> QED
    BY <1>1, <2>1 DEF Numbered
<1> QED
  BY <1>1, <1>2 DEF t

(* Of two files with the same blocks, the shorter is the other's start.    *)
LEMMA StartOf ==
    ASSUME NEW s \in Seq(Blocks), NEW t \in Seq(Blocks),
           Numbered(s), Numbered(t), Len(s) <= Len(t)
    PROVE  s = SubSeq(t, 1, Len(s)) /\ (Len(s) = Len(t) => s = t)
<1> DEFINE u == SubSeq(t, 1, Len(s))
<1>1. Len(s) \in Nat /\ Len(t) \in Nat
  BY LenProperties
<1>2. \A i \in 1..Len(s) : t[i] \in Blocks /\ s[i] = t[i]
  BY <1>1, ElementOfSeq DEF Numbered
<1>3. /\ u \in Seq(Blocks) /\ Len(u) = Len(s)
      /\ \A i \in 1..Len(s) : u[i] = t[i]
  BY <1>1, <1>2, SubSeqProperties
<1> HIDE DEF u
<1>4. s = u
  BY <1>2, <1>3, SeqEqual
<1>5. Len(s) = Len(t) => s = t
  BY <1>2, SeqEqual
<1> QED
  BY <1>4, <1>5 DEF u

(* What a handler may do to the transfer: return, which of a push is told  *)
(* to the sender.                                                          *)
Reports ==
    /\ result = "none"
    /\ result' = "error" \/ (result' = "ok" /\ (op = "push" => published))

(* A step that only returns is a report or no step of the transfer.        *)
LEMMA HandlerReports ==
    ASSUME FlowInv, UNCHANGED <<op, source, ended, copy, published>>,
           result' = result \/ Reports
    PROVE  [T!Next]_(T!vars) /\ Copies'
<1>1. Copies'
  BY DEF FlowInv, Copies, Numbered
<1>2. CASE UNCHANGED T!vars
  BY <1>1, <1>2
<1>3. CASE op = "push" /\ Reports
  BY <1>1, <1>3 DEF Reports, T!Next, T!Report
<1>4. UNCHANGED T!vars \/ (op = "push" /\ Reports)
  BY DEF T!vars
<1> QED
  BY <1>2, <1>3, <1>4

(* What is received is a delivery, if it leaves a start of the source, and *)
(* all of it if it is published.                                           *)
LEMMA Delivers ==
    ASSUME TypeInv, Copies', UNCHANGED <<op, result, source, ended>>,
           copy' \in Seq(Blocks), published' \in BOOLEAN,
           Len(copy) <= Len(copy'), published => published'
    PROVE  [T!Next]_(T!vars)
<1>1. /\ copy' = SubSeq(source, 1, Len(copy'))
      /\ Len(copy') = Len(source) => copy' = source
  BY StartOf DEF Copies, TypeInv, TypeOK
<1>2. Len(copy') \in Len(copy)..Len(source)
  <2>1. Len(copy') \in Nat /\ Len(copy) \in Nat /\ Len(source) \in Nat
    BY LenProperties, Lengths
  <2>2. Len(copy') <= Len(source)
    BY DEF Copies
  <2> QED
    BY <2>1, <2>2
<1>3. published' = published \/ published' = (ended /\ copy' = source)
  <2>1. CASE published'
    BY <1>1, <2>1 DEF Copies
  <2>2. CASE ~published'
    BY <2>2 DEF TypeInv, TypeOK
  <2> QED
    BY <2>1, <2>2
<1>4. T!Deliver
  BY <1>1, <1>2, <1>3 DEF T!Deliver
<1> QED
  BY <1>4 DEF T!Next

(* Every step is a step of the transfer, or leaves it as it is.            *)
LEMMA StepImplements ==
    ASSUME TypeInv, FlowInv, Next
    PROVE  [T!Next]_(T!vars) /\ Copies'
<1>1. ASSUME CheckFails
      PROVE  [T!Next]_(T!vars) /\ Copies'
  <2>1. UNCHANGED <<op, source, ended, copy, published>>
    BY <1>1 DEF CheckFails, Return
  <2>2. result' = result \/ Reports
    BY <1>1
       DEF Reports, TypeInv, TypeOK, Opening, Pushing, Fetching, CheckFails,
           Return
  <2> QED
    BY <2>1, <2>2, HandlerReports
<1>2. ASSUME CheckPasses
      PROVE  [T!Next]_(T!vars) /\ Copies'
  <2>1. UNCHANGED <<op, source, ended, copy, published>>
    BY <1>2 DEF CheckPasses, Goto
  <2>2. result' = result \/ Reports
    BY <1>2
       DEF Reports, TypeInv, TypeOK, Opening, Pushing, Fetching, CheckPasses,
           Goto
  <2> QED
    BY <2>1, <2>2, HandlerReports
<1>3. ASSUME TakeStart
      PROVE  [T!Next]_(T!vars) /\ Copies'
  <2>1. UNCHANGED <<op, source, ended, copy, published>>
    BY <1>3 DEF TakeStart, Recv, Goto, Return
  <2>2. result' = result \/ Reports
    BY <1>3
       DEF Reports, TypeInv, TypeOK, Opening, Pushing, Fetching, TakeStart,
           Recv, Goto, Return
  <2> QED
    BY <2>1, <2>2, HandlerReports
<1>4. ASSUME RecvFails
      PROVE  [T!Next]_(T!vars) /\ Copies'
  <2>1. UNCHANGED <<op, source, ended, copy, published>>
    BY <1>4 DEF RecvFails, Return, CloseConn
  <2>2. result' = result \/ Reports
    BY <1>4
       DEF Reports, TypeInv, TypeOK, Opening, Pushing, Fetching, RecvFails,
           Return, CloseConn
  <2> QED
    BY <2>1, <2>2, HandlerReports
<1>5. ASSUME OpenFails
      PROVE  [T!Next]_(T!vars) /\ Copies'
  <2>1. UNCHANGED <<op, source, ended, copy, published>>
    BY <1>5 DEF OpenFails, Return
  <2>2. result' = result \/ Reports
    BY <1>5
       DEF Reports, TypeInv, TypeOK, Opening, Pushing, Fetching, OpenFails,
           Return
  <2> QED
    BY <2>1, <2>2, HandlerReports
<1>6. ASSUME OpenToRead
      PROVE  [T!Next]_(T!vars) /\ Copies'
  <2>1. UNCHANGED <<op, source, ended, copy, published>>
    BY <1>6 DEF OpenToRead, Open, Goto
  <2>2. result' = result \/ Reports
    BY <1>6
       DEF Reports, TypeInv, TypeOK, Opening, Pushing, Fetching, OpenToRead,
           Open, Goto
  <2> QED
    BY <2>1, <2>2, HandlerReports
<1>7. ASSUME OpenToWrite
      PROVE  [T!Next]_(T!vars) /\ Copies'
  <2>1. UNCHANGED <<op, source, ended, copy, published>>
    BY <1>7 DEF OpenToWrite, Open, Goto
  <2>2. result' = result \/ Reports
    BY <1>7
       DEF Reports, TypeInv, TypeOK, Opening, Pushing, Fetching, OpenToWrite,
           Open, Goto
  <2> QED
    BY <2>1, <2>2, HandlerReports
<1>8. ASSUME TakeBlock
      PROVE  [T!Next]_(T!vars) /\ Copies'
  <2>1. UNCHANGED <<op, source, ended, copy, published>>
    BY <1>8 DEF TakeBlock, Recv, Goto
  <2>2. result' = result \/ Reports
    BY <1>8
       DEF Reports, TypeInv, TypeOK, Opening, Pushing, Fetching, TakeBlock,
           Recv, Goto
  <2> QED
    BY <2>1, <2>2, HandlerReports
<1>9. ASSUME TakeOversize
      PROVE  [T!Next]_(T!vars) /\ Copies'
  <2>1. UNCHANGED <<op, source, ended, copy, published>>
    BY <1>9 DEF TakeOversize, Recv, Return, CloseConn
  <2>2. result' = result \/ Reports
    BY <1>9
       DEF Reports, TypeInv, TypeOK, Opening, Pushing, Fetching,
           TakeOversize, Recv, Return, CloseConn
  <2> QED
    BY <2>1, <2>2, HandlerReports
<1>10. ASSUME TakeEnd
       PROVE  [T!Next]_(T!vars) /\ Copies'
  <2>1. UNCHANGED <<op, source, ended, copy, published>>
    BY <1>10 DEF TakeEnd, Recv, Goto
  <2>2. result' = result \/ Reports
    BY <1>10
       DEF Reports, TypeInv, TypeOK, Opening, Pushing, Fetching, TakeEnd,
           Recv, Goto
  <2> QED
    BY <2>1, <2>2, HandlerReports
<1>11. ASSUME TakeJunk
       PROVE  [T!Next]_(T!vars) /\ Copies'
  <2>1. UNCHANGED <<op, source, ended, copy, published>>
    BY <1>11 DEF TakeJunk, Recv, Return, CloseConn
  <2>2. result' = result \/ Reports
    BY <1>11
       DEF Reports, TypeInv, TypeOK, Opening, Pushing, Fetching, TakeJunk,
           Recv, Return, CloseConn
  <2> QED
    BY <2>1, <2>2, HandlerReports
<1>12. ASSUME WriteBlock
       PROVE  [T!Next]_(T!vars) /\ Copies'
  <2>1. UNCHANGED <<op, source, ended, copy, published>>
    BY <1>12 DEF WriteBlock, Write, Goto
  <2>2. result' = result \/ Reports
    BY <1>12
       DEF Reports, TypeInv, TypeOK, Opening, Pushing, Fetching, WriteBlock,
           Write, Goto
  <2> QED
    BY <2>1, <2>2, HandlerReports
<1>13. ASSUME WriteBlockFails
       PROVE  [T!Next]_(T!vars) /\ Copies'
  <2>1. UNCHANGED <<op, source, ended, copy, published>>
    BY <1>13 DEF WriteBlockFails, Return, CloseConn
  <2>2. result' = result \/ Reports
    BY <1>13
       DEF Reports, TypeInv, TypeOK, Opening, Pushing, Fetching,
           WriteBlockFails, Return, CloseConn
  <2> QED
    BY <2>1, <2>2, HandlerReports
<1>14. ASSUME WriteDone
       PROVE  [T!Next]_(T!vars) /\ Copies'
  <2>1. UNCHANGED <<op, source, ended, copy, published>>
    BY <1>14 DEF WriteDone, Write, Goto
  <2>2. result' = result \/ Reports
    BY <1>14
       DEF Reports, TypeInv, TypeOK, Opening, Pushing, Fetching, WriteDone,
           Write, Goto
  <2> QED
    BY <2>1, <2>2, HandlerReports
<1>15. ASSUME WriteDoneFails
       PROVE  [T!Next]_(T!vars) /\ Copies'
  <2>1. UNCHANGED <<op, source, ended, copy, published>>
    BY <1>15 DEF WriteDoneFails, CloseConn, AfterFailedDone, Goto
  <2>2. result' = result \/ Reports
    BY <1>15
       DEF Reports, TypeInv, TypeOK, Opening, Pushing, Fetching,
           WriteDoneFails, CloseConn, AfterFailedDone, Goto
  <2> QED
    BY <2>1, <2>2, HandlerReports
<1>16. ASSUME ReadReceipt
       PROVE  [T!Next]_(T!vars) /\ Copies'
  <2>1. UNCHANGED <<op, source, ended, copy, published>>
    BY <1>16 DEF ReadReceipt
  <2>2. /\ op = "push" /\ fromDevice # <<>> /\ result = "none"
        /\ Head(fromDevice) = fromDevice[1] /\ 1 \in 1..Len(fromDevice)
    BY <1>16, HeadTail DEF ReadReceipt, TypeInv, TypeOK, Pushing
  <2>3. fromDevice[1].kind = "okay" => published
    BY <2>2 DEF FlowInv, PushInv, Verdicts
  <2>4. Reports
    BY <1>16, <2>2, <2>3 DEF ReadReceipt, Return, Receipt, Reports
  <2> QED
    BY <2>1, <2>4, HandlerReports
<1>17. ASSUME ReadFails
       PROVE  [T!Next]_(T!vars) /\ Copies'
  <2>1. UNCHANGED <<op, source, ended, copy, published>>
    BY <1>17 DEF ReadFails, Return, CloseConn
  <2>2. result' = result \/ Reports
    BY <1>17
       DEF Reports, TypeInv, TypeOK, Opening, Pushing, Fetching, ReadFails,
           Return, CloseConn
  <2> QED
    BY <2>1, <2>2, HandlerReports
<1>18. ASSUME ReadBlock
       PROVE  [T!Next]_(T!vars) /\ Copies'
  <2>1. UNCHANGED <<op, source, ended, copy, published>>
    BY <1>18 DEF ReadBlock, Read, Goto
  <2>2. result' = result \/ Reports
    BY <1>18
       DEF Reports, TypeInv, TypeOK, Opening, Pushing, Fetching, ReadBlock,
           Read, Goto
  <2> QED
    BY <2>1, <2>2, HandlerReports
<1>19. ASSUME ReadEnd
       PROVE  [T!Next]_(T!vars) /\ Copies'
  <2>1. UNCHANGED <<op, source, ended, copy, published>>
    BY <1>19 DEF ReadEnd, Read, Goto, CloseConn
  <2>2. result' = result \/ Reports
    BY <1>19
       DEF Reports, TypeInv, TypeOK, Opening, Pushing, Fetching, ReadEnd,
           Read, Goto, CloseConn
  <2> QED
    BY <2>1, <2>2, HandlerReports
<1>20. ASSUME ReadRefusal
       PROVE  [T!Next]_(T!vars) /\ Copies'
  <2>1. UNCHANGED <<op, source, ended, copy, published>>
    BY <1>20 DEF ReadRefusal, Read, Return, CloseConn
  <2>2. result' = result \/ Reports
    BY <1>20
       DEF Reports, TypeInv, TypeOK, Opening, Pushing, Fetching, ReadRefusal,
           Read, Return, CloseConn
  <2> QED
    BY <2>1, <2>2, HandlerReports
<1>21. ASSUME SendBlock
       PROVE  [T!Next]_(T!vars) /\ Copies'
  <2>1. UNCHANGED <<op, source, ended, copy, published>>
    BY <1>21 DEF SendBlock, Send, Goto
  <2>2. result' = result \/ Reports
    BY <1>21
       DEF Reports, TypeInv, TypeOK, Opening, Pushing, Fetching, SendBlock,
           Send, Goto
  <2> QED
    BY <2>1, <2>2, HandlerReports
<1>22. ASSUME SendLast
       PROVE  [T!Next]_(T!vars) /\ Copies'
  <2>1. UNCHANGED <<op, source, ended, copy, published>>
    BY <1>22 DEF SendLast, Send, Return, CloseConn
  <2>2. result' = result \/ Reports
    BY <1>22
       DEF Reports, TypeInv, TypeOK, Opening, Pushing, Fetching, SendLast,
           Send, Return, CloseConn
  <2> QED
    BY <2>1, <2>2, HandlerReports
<1>23. ASSUME SendFails
       PROVE  [T!Next]_(T!vars) /\ Copies'
  <2>1. UNCHANGED <<op, source, ended, copy, published>>
    BY <1>23 DEF SendFails, OnSendError, Return, CloseConn
  <2>2. result' = result \/ Reports
    BY <1>23
       DEF Reports, TypeInv, TypeOK, Opening, Pushing, Fetching, SendFails,
           OnSendError, Return, CloseConn
  <2> QED
    BY <2>1, <2>2, HandlerReports
<1>24. ASSUME Reply
       PROVE  [T!Next]_(T!vars) /\ Copies'
  <2>1. UNCHANGED <<op, source, ended, copy, published>>
    BY <1>24 DEF Reply, Return, CloseConn
  <2>2. result' = result \/ Reports
    BY <1>24
       DEF Reports, TypeInv, TypeOK, Opening, Pushing, Fetching, Reply,
           Return, CloseConn
  <2> QED
    BY <2>1, <2>2, HandlerReports
<1>25. ASSUME ClientSend
       PROVE  [T!Next]_(T!vars) /\ Copies'
  <2>1. /\ source' = Append(source, Len(source) + 1)
        /\ UNCHANGED <<op, result, copy, published>>
    BY <1>25 DEF ClientSend, Ask
  <2>2. ~ended /\ ended' \in BOOLEAN
    BY <1>25 DEF ClientSend, Ask, FlowInv, PushInv, Asked, TypeInv, TypeOK
  <2>3. Len(source) \in Nat /\ Len(source) + 1 \in Blocks
    BY <1>25, Lengths, BoundsAreNat DEF Blocks, ClientSend
  <2>4. /\ Numbered(source') /\ Len(source') = Len(source) + 1
    BY <2>1, <2>3, NumberedGrows DEF FlowInv, Copies, TypeInv, TypeOK
  <2>5. Copies'
    BY <2>1, <2>2, <2>3, <2>4, Lengths DEF FlowInv, Copies, Numbered
  <2>6. T!Offer
    BY <2>1, <2>2 DEF T!Offer
  <2> QED
    BY <2>5, <2>6 DEF T!Next
<1>26. ASSUME ClientEnd
       PROVE  [T!Next]_(T!vars) /\ Copies'
  <2>1. ended' = TRUE /\ UNCHANGED <<op, result, source, copy, published>>
    BY <1>26 DEF ClientEnd, Ask
  <2>2. ~ended
    BY <1>26 DEF ClientEnd, Ask, FlowInv, PushInv, Asked
  <2>3. Copies'
    BY <2>1, <2>2 DEF FlowInv, Copies, Numbered
  <2>4. T!Offer
    BY <2>1, <2>2 DEF T!Offer
  <2> QED
    BY <2>3, <2>4 DEF T!Next
<1>27. ASSUME ClientJunk
       PROVE  [T!Next]_(T!vars) /\ Copies'
  <2>1. UNCHANGED <<op, result, source, ended, copy, published>>
    BY <1>27 DEF ClientJunk, Ask
  <2> QED
    BY <2>1, HandlerReports
<1>28. ASSUME NEW how \in {"eof", "cancelled"}, ClientStops(how)
       PROVE  [T!Next]_(T!vars) /\ Copies'
  <2>1. UNCHANGED <<op, result, source, ended, copy, published>>
    BY <1>28 DEF ClientStops
  <2> QED
    BY <2>1, HandlerReports
<1>29. ASSUME ClientRecv
       PROVE  [T!Next]_(T!vars) /\ Copies'
  <2>1. /\ responses # <<>> /\ Head(responses) = responses[1]
        /\ 1 \in 1..Len(responses) /\ responses[1] \in Answers
        /\ copy' = copy \o responses[1].data
        /\ published' = responses[1].last /\ ~published
        /\ UNCHANGED <<op, result, source, ended>>
    <3>1. responses # <<>> /\ responses \in Seq(Answers)
      BY <1>29 DEF ClientRecv, TypeInv
    <3>2. /\ Head(responses) = responses[1] /\ responses[1] \in Answers
          /\ 1 \in 1..Len(responses)
      BY <3>1, HeadTail
    <3> QED
      BY <1>29, <3>1, <3>2 DEF ClientRecv
  <2>2. op # "push" /\ Answered
    BY <2>1 DEF TypeInv, FlowInv, FetchInv
  <2> DEFINE new == responses[1].data
  <2>3. /\ new \in Seq(Blocks) /\ Len(new) \in Nat
        /\ copy' \in Seq(Blocks) /\ Len(copy') = Len(copy) + Len(new)
        /\ \A i \in 1..Len(copy') :
               copy'[i] = IF i <= Len(copy) THEN copy[i]
                          ELSE new[i - Len(copy)]
    BY <2>1, ConcatProperties, LenProperties DEF Answers, TypeInv, TypeOK
  <2>4. /\ \A j \in 1..Len(new) : new[j] = Len(copy) + j
        /\ Len(copy) + Len(new) <= Len(source)
        /\ responses[1].last =>
             ended /\ Len(copy) + Len(new) = Len(source)
    <3>1. CASE responses[1].last
      <4>1. /\ ended
            /\ \A j \in 1..Len(new) : new[j] = Len(copy) + 1 - 1 + j
            /\ Len(source) = Len(copy) + 1 - 1 + Len(new)
        BY <2>1, <2>2, <3>1 DEF Answered
      <4>2. Len(copy) + 1 - 1 = Len(copy)
        BY Lengths
      <4> QED
        BY <2>3, <4>1, <4>2, Lengths
    <3>2. CASE ~responses[1].last
      <4>1. new = <<Len(copy) + 1>> /\ Len(copy) + 1 <= Len(source)
        BY <2>1, <2>2, <3>2 DEF Answered
      <4> QED
        BY <3>2, <4>1
    <3> QED
      BY <3>1, <3>2
  <2> HIDE DEF new
  <2>5. Numbered(copy')
    <3> SUFFICES ASSUME NEW i \in 1..Len(copy') PROVE copy'[i] = i
      BY DEF Numbered
    <3>1. CASE i <= Len(copy)
      <4>1. i \in 1..Len(copy)
        BY <3>1, Lengths
      <4> QED
        BY <2>3, <3>1, <4>1 DEF FlowInv, Copies, Numbered
    <3>2. CASE ~(i <= Len(copy))
      <4>1. i - Len(copy) \in 1..Len(new) /\ Len(copy) + (i - Len(copy)) = i
        BY <2>3, <3>2, Lengths
      <4> QED
        BY <2>3, <2>4, <3>2, <4>1
    <3> QED
      BY <3>1, <3>2
  <2>6. Copies'
    BY <2>1, <2>3, <2>4, <2>5 DEF FlowInv, Copies, Numbered
  <2>7. Len(copy) <= Len(copy')
    BY <2>3, Lengths
  <2>8. published' \in BOOLEAN
    BY <2>1 DEF Answers
  <2> QED
    BY <2>1, <2>3, <2>6, <2>7, <2>8, Delivers
<1>30. ASSUME DeviceSends
       PROVE  [T!Next]_(T!vars) /\ Copies'
  <2>1. /\ source' = Append(source, Len(source) + 1)
        /\ UNCHANGED <<op, result, copy, published>>
    BY <1>30 DEF DeviceSends, DeviceWrites
  <2>2. ~ended /\ ended' \in BOOLEAN
    BY <1>30
       DEF DeviceSends, DeviceWrites, FlowInv, PushInv, Asked, TypeInv, TypeOK
  <2>3. Len(source) \in Nat /\ Len(source) + 1 \in Blocks
    BY <1>30, Lengths, BoundsAreNat DEF Blocks, DeviceSends
  <2>4. /\ Numbered(source') /\ Len(source') = Len(source) + 1
    BY <2>1, <2>3, NumberedGrows DEF FlowInv, Copies, TypeInv, TypeOK
  <2>5. Copies'
    BY <2>1, <2>2, <2>3, <2>4, Lengths DEF FlowInv, Copies, Numbered
  <2>6. T!Offer
    BY <2>1, <2>2 DEF T!Offer
  <2> QED
    BY <2>5, <2>6 DEF T!Next
<1>31. ASSUME DeviceDone
       PROVE  [T!Next]_(T!vars) /\ Copies'
  <2>1. ended' = TRUE /\ UNCHANGED <<op, result, source, copy, published>>
    BY <1>31 DEF DeviceDone, DeviceWrites
  <2>2. ~ended
    BY <1>31 DEF DeviceDone, DeviceWrites, FlowInv, PushInv, Asked
  <2>3. Copies'
    BY <2>1, <2>2 DEF FlowInv, Copies, Numbered
  <2>4. T!Offer
    BY <2>1, <2>2 DEF T!Offer
  <2> QED
    BY <2>3, <2>4 DEF T!Next
<1>32. ASSUME NEW kind \in {"fail", "junk"}, DeviceFails(kind)
       PROVE  [T!Next]_(T!vars) /\ Copies'
  <2>1. UNCHANGED <<op, result, source, ended, copy, published>>
    BY <1>32 DEF DeviceFails, DeviceWrites
  <2> QED
    BY <2>1, HandlerReports
<1>33. ASSUME DeviceStores
       PROVE  [T!Next]_(T!vars) /\ Copies'
  <2>1. /\ toDevice # <<>> /\ Head(toDevice) = toDevice[1]
        /\ 1 \in 1..Len(toDevice) /\ toDevice[1].kind = "data"
        /\ copy' = Append(copy, toDevice[1].block) /\ device = "serving"
        /\ toDevice[1] \in Messages
        /\ UNCHANGED <<op, result, source, ended, published>>
    BY <1>33, HeadTail DEF DeviceStores, TypeInv
  <2>2. op = "push"
    BY <2>1 DEF TypeInv
  <2>3. /\ toDevice[1].block = Len(copy) + 1 /\ Len(copy) + 1 <= Len(source)
        /\ ~published
    BY <2>1, <2>2 DEF FlowInv, PushInv, ToDevice, Verdicts
  <2>4. Len(copy) + 1 \in Blocks
    BY <2>1, <2>3 DEF Messages
  <2>5. /\ Numbered(copy') /\ Len(copy') = Len(copy) + 1
        /\ copy' \in Seq(Blocks)
    BY <2>1, <2>3, <2>4, NumberedGrows DEF FlowInv, Copies, TypeInv, TypeOK
  <2>6. Copies'
    BY <2>1, <2>3, <2>5 DEF FlowInv, Copies, Numbered
  <2>7. published' \in BOOLEAN /\ (published => published')
    BY <2>1 DEF TypeInv, TypeOK
  <2>8. Len(copy) <= Len(copy')
    BY <2>5, Lengths
  <2> QED
    BY <2>1, <2>5, <2>6, <2>7, <2>8, Delivers
<1>34. ASSUME DevicePublishes
       PROVE  [T!Next]_(T!vars) /\ Copies'
  <2>1. /\ toDevice # <<>> /\ Head(toDevice) = toDevice[1]
        /\ 1 \in 1..Len(toDevice) /\ toDevice[1].kind = "done"
        /\ published' = TRUE /\ device = "serving"
        /\ UNCHANGED <<op, result, source, ended, copy>>
    BY <1>34, HeadTail DEF DevicePublishes, DeviceWrites, TypeInv
  <2>2. op = "push"
    BY <2>1 DEF TypeInv
  <2>3. ended /\ Len(source) = Len(copy)
    BY <2>1, <2>2, Lengths DEF FlowInv, PushInv, ToDevice
  <2>4. Copies'
    BY <2>1, <2>3 DEF FlowInv, Copies, Numbered
  <2>5. copy' \in Seq(Blocks) /\ Len(copy) <= Len(copy')
    BY <2>1, Lengths DEF TypeInv, TypeOK
  <2> QED
    BY <2>1, <2>3, <2>4, <2>5, Delivers
<1>35. ASSUME DeviceDrains
       PROVE  [T!Next]_(T!vars) /\ Copies'
  <2>1. UNCHANGED <<op, result, source, ended, copy, published>>
    BY <1>35 DEF DeviceDrains
  <2> QED
    BY <2>1, HandlerReports
<1>36. ASSUME DeviceGone
       PROVE  [T!Next]_(T!vars) /\ Copies'
  <2>1. UNCHANGED <<op, result, source, ended, copy, published>>
    BY <1>36 DEF DeviceGone
  <2> QED
    BY <2>1, HandlerReports
<1> QED
  BY <1>1, <1>2, <1>3, <1>4, <1>5, <1>6, <1>7, <1>8, <1>9, <1>10, <1>11,
     <1>12, <1>13, <1>14, <1>15, <1>16, <1>17, <1>18, <1>19, <1>20, <1>21,
     <1>22, <1>23, <1>24, <1>25, <1>26, <1>27, <1>28, <1>29, <1>30, <1>31,
     <1>32, <1>33, <1>34, <1>35, <1>36
     DEF Next, Handler, Answer, Peers

(* What is on its way is, block by block, what the sender offered.         *)
LEMMA FlowInvariant == Spec => []FlowInv
<1>1. Init => FlowInv
  <2> SUFFICES ASSUME Init PROVE FlowInv
    OBVIOUS
  <2>1. Len(<<>>) = 0
    BY EmptySeq
  <2>2. Copies
    BY <2>1 DEF Init, Copies, Numbered
  <2>3. ASSUME op = "push" PROVE PushInv
    <3>1. PICK m \in {Signal("start"), Signal("junk")} : requests = <<m>>
      BY <2>3 DEF Init
    <3>2. /\ Len(requests) = 1 /\ requests[1] = m /\ requests # <<>>
          /\ m.kind \in {"start", "junk"} /\ 1 \in 1..1
      BY <3>1 DEF Signal
    <3>3. Queue(requests, 0 - 1, 0, FALSE)
      <4>1. \A i \in 1..Len(requests) : requests[i].kind \notin {"data", "end"}
        BY <3>2
      <4>2. 0 = 0 - 1 + Len(requests)
        BY <3>2
      <4> QED
        BY <4>1, <4>2 DEF Queue
    <3>4. Taken = 0 /\ Pending = 1
      BY <2>1 DEF Init, Taken, Pending
    <3>5. ToCome
      <4>1. /\ Len(source) = 0 /\ ended = FALSE /\ held = <<>>
            /\ pc = "check" /\ Taken - Pending = 0 - 1
        BY <2>1, <3>4 DEF Init
      <4>2. Queue(requests, Taken - Pending, Len(source), ended)
        BY <3>3, <4>1
      <4> QED
        BY <3>4, <4>1, <4>2 DEF ToCome
    <3> QED
      BY <2>1, <3>2, <3>5
         DEF Init, PushInv, Verdicts, Asked, ToDevice, Opening
  <2>4. ASSUME op # "push" PROVE FetchInv
    BY <2>1, <2>4
       DEF Init, FetchInv, Answered, InHand, FromDevice, Fetched, Supply
  <2> QED
    BY <2>2, <2>3, <2>4 DEF FlowInv
<1>2. TypeInv /\ FlowInv /\ [Next]_vars => FlowInv'
  <2> SUFFICES ASSUME TypeInv, FlowInv, [Next]_vars PROVE FlowInv'
    OBVIOUS
  <2>1. CASE Next
    <3>1. op' = op
      BY <2>1
         DEF Next, Handler, Answer, Peers, CheckFails, CheckPasses,
             TakeStart, RecvFails, OpenFails, OpenToRead, OpenToWrite,
             TakeBlock,
             TakeOversize, TakeEnd, TakeJunk, WriteBlock, WriteBlockFails,
             WriteDone, WriteDoneFails, ReadReceipt, ReadFails, ReadBlock,
             ReadEnd, ReadRefusal, SendBlock, SendLast, SendFails, Reply,
             ClientSend, ClientEnd, ClientJunk, ClientStops, ClientRecv,
             DeviceSends, DeviceDone, DeviceFails, DeviceStores,
             DevicePublishes, DeviceDrains, DeviceGone, Recv, Open, Read,
             Send, Ask, DeviceWrites
    <3> QED
      BY <2>1, <3>1, PushStep, FetchStep, StepImplements DEF FlowInv
  <2>2. CASE UNCHANGED vars
    <3>1. Copies'
      BY <2>2 DEF vars, ends, FlowInv, Copies, Numbered
    <3>2. PushInv => PushInv'
      <4>1. (Verdicts => Verdicts') /\ (Asked => Asked')
        BY <2>2
           DEF vars, handler, session, streams, ends, Verdicts, Asked
      <4>2. ToDevice => ToDevice'
        BY <2>2 DEF vars, handler, session, ends, ToDevice
      <4>3. ToCome => ToCome'
        <5>1. Taken' = Taken /\ Pending' = Pending
          BY <2>2 DEF vars, handler, session, ends, Taken, Pending
        <5>2. Queue(requests, Taken - Pending, Len(source), ended)
                => Queue(requests, Taken - Pending, Len(source), ended)'
          BY <2>2, <5>1 DEF vars, streams, ends, Queue, Clean
        <5> QED
          BY <2>2, <5>1, <5>2 DEF vars, handler, ends, ToCome
      <4> QED
        BY <2>2, <4>1, <4>2, <4>3
           DEF vars, handler, session, ends, PushInv
    <3>3. FetchInv => FetchInv'
      <4>1. Fetched' = Fetched
        BY <2>2 DEF vars, handler, streams, ends, Fetched
      <4>2. Answered => Answered'
        BY <2>2 DEF vars, handler, streams, ends, Answered
      <4>3. InHand => InHand'
        BY <2>2, <4>1 DEF vars, handler, streams, ends, InHand
      <4>4. FromDevice => FromDevice'
        <5>1. Supply(fromDevice, Fetched, Len(source), ended)
                => Supply(fromDevice, Fetched, Len(source), ended)'
          BY <2>2, <4>1 DEF vars, session, ends, Supply
        <5> QED
          BY <2>2, <4>1, <5>1 DEF vars, session, ends, FromDevice
      <4> QED
        BY <2>2, <4>1, <4>2, <4>3, <4>4
           DEF vars, handler, ends, FetchInv
    <3> QED
      BY <2>2, <3>1, <3>2, <3>3 DEF vars, FlowInv
  <2> QED
    BY <2>1, <2>2
<1> QED
  BY <1>1, <1>2, TypeInvariant, PTL DEF Spec

(* For any capacity of the streams and files of any length, each of the    *)
(* four calls is a transfer: no part of a file is ever taken for the       *)
(* whole, and no push succeeds without the whole file on the device.       *)
THEOREM CallsAreTransfers == Spec => TransferSpec
<1>1. Init => T!Init
  BY DEF Init, T!Init
<1>2. TypeInv /\ FlowInv /\ [Next]_vars => [T!Next]_(T!vars)
  <2>1. TypeInv /\ FlowInv /\ Next => [T!Next]_(T!vars)
    BY StepImplements
  <2>2. UNCHANGED vars => UNCHANGED T!vars
    BY DEF vars, T!vars
  <2> QED
    BY <2>1, <2>2
<1> QED
  BY <1>1, <1>2, TypeInvariant, FlowInvariant, PTL
     DEF Spec, TransferSpec, T!Spec
-----------------------------------------------------------------------------
(* The safety halves of CancelledCallEnds.  The adb connection is open as  *)
(* long as it is used; only Done reads on from one that it has closed.     *)
ConnInv ==
    /\ pc \in {"recv", "write", "finish", "read", "send", "reply"} =>
         conn = "open"
    /\ pc = "receipt" => conn # "none"

(* The handler has a step to make.                                         *)
CanGoOn ==
    \/ pc \in {"check", "reply"}
    \/ pc \in {"start", "recv"} /\ (requests # <<>> \/ client # "open")
    \/ /\ pc \in {"write", "finish"}
       /\ device = "ended" \/ (conn = "open" /\ Room(toDevice))
    \/ /\ pc \in {"read", "receipt"}
       /\ \/ conn = "closed"
          \/ device = "ended" /\ fromDevice = <<>>
          \/ conn = "open" /\ fromDevice # <<>>
    \/ pc \in {"send", "last"} /\ (client = "cancelled" \/ Room(responses))

(* It waits for a client that neither sends nor reads, and is still there, *)
(* or for adb or a device that does not answer or does not take what it is *)
(* sent.                                                                   *)
WaitsForClient ==
    /\ client # "cancelled"
    /\ \/ pc \in {"start", "recv"} /\ client = "open" /\ requests = <<>>
       \/ pc \in {"send", "last"} /\ ~Room(responses)

WaitsForDevice ==
    /\ OnDevice
    /\ \/ pc = "open"
       \/ pc \in {"write", "finish"} /\ ~Room(toDevice)
       \/ pc \in {"read", "receipt"} /\ fromDevice = <<>>

WaitsForPeersOnly ==
    pc = "done" \/ CanGoOn \/ WaitsForClient \/ WaitsForDevice

(* What is left to do for a call whose client has gone.                    *)
Place ==
    CASE pc = "check"                     -> 6
      [] pc = "start"                     -> 5
      [] pc \in {"open", "write"}         -> 4
      [] pc = "recv"                      -> 3
      [] pc \in {"read", "finish"}        -> 2
      [] pc \in {"receipt", "send", "last", "reply"} -> 1
      [] pc = "done"                      -> 0

Left == Place + 2 * Len(requests) + Len(fromDevice)

(* The device has something to say.                                        *)
DeviceSpeaks == Len(fromDevice') > Len(fromDevice)

NearerToTheEnd ==
    [][client = "cancelled" =>
          IF Handler \/ Answer THEN Left' < Left
          ELSE Left' <= Left \/ DeviceSpeaks]_vars

(* The connection is closed with the call, and by Done.                    *)
LEMMA ConnInvariant == Spec => []ConnInv
<1>1. Init => ConnInv
  BY DEF Init, ConnInv
<1>2. TypeInv /\ ConnInv /\ [Next]_vars => ConnInv'
  <2> SUFFICES ASSUME TypeInv, ConnInv, [Next]_vars PROVE ConnInv'
    OBVIOUS
  <2> USE DEF ConnInv, Return, Goto, CloseConn
  <2>1. CASE CheckFails \/ CheckPasses \/ TakeStart \/ RecvFails
    BY <2>1 DEF CheckFails, CheckPasses, TakeStart, Recv, RecvFails
  <2>2. CASE OpenFails \/ OpenToRead \/ OpenToWrite
    BY <2>2 DEF OpenFails, OpenToRead, OpenToWrite, Open
  <2>3. CASE TakeBlock \/ TakeOversize \/ TakeEnd \/ TakeJunk
    BY <2>3 DEF TakeBlock, TakeOversize, TakeEnd, TakeJunk, Recv
  <2>4. CASE WriteBlock \/ WriteBlockFails \/ WriteDone \/ WriteDoneFails
    BY <2>4
       DEF WriteBlock, WriteBlockFails, WriteDone, WriteDoneFails, Write,
           AfterFailedDone
  <2>5. CASE ReadReceipt \/ ReadFails
    BY <2>5 DEF ReadReceipt, ReadFails
  <2>6. CASE ReadBlock \/ ReadEnd \/ ReadRefusal
    BY <2>6
       DEF TypeInv, TypeOK, ReadBlock, ReadEnd, ReadRefusal, Read
  <2>7. CASE SendBlock \/ SendLast \/ SendFails \/ Reply
    BY <2>7 DEF SendBlock, SendLast, SendFails, OnSendError, Reply, Send
  <2>8. CASE Peers
    <3>1. UNCHANGED <<pc, conn>>
      BY <2>8
         DEF Peers, ClientSend, ClientEnd, ClientJunk, Ask, ClientRecv,
             ClientStops, DeviceSends, DeviceDone, DeviceFails, DeviceWrites,
             DeviceStores, DevicePublishes, DeviceDrains, DeviceGone
    <3> QED
      BY <3>1
  <2>9. CASE UNCHANGED vars
    BY <2>9 DEF vars
  <2> QED
    BY <2>1, <2>2, <2>3, <2>4, <2>5, <2>6, <2>7, <2>8, <2>9
       DEF Next, Handler, Answer
<1> QED
  BY <1>1, <1>2, TypeInvariant, PTL DEF Spec

(* A handler never waits for itself, for a connection that it has closed   *)
(* or for one that it never had, whichever way it takes; when the client   *)
(* has gone, only adb or a live device can keep it.                        *)
THEOREM CallsWaitForPeersOnly == Spec => []WaitsForPeersOnly
<1>1. TypeInv /\ ConnInv => WaitsForPeersOnly
  <2> SUFFICES ASSUME TypeInv, ConnInv PROVE WaitsForPeersOnly
    OBVIOUS
  <2> USE DEF TypeInv, TypeOK
  <2>1. CASE pc \in {"check", "reply", "done"}
    BY <2>1 DEF WaitsForPeersOnly, CanGoOn
  <2>2. CASE pc \in {"start", "recv"}
    BY <2>2 DEF WaitsForPeersOnly, CanGoOn, WaitsForClient
  <2>3. CASE pc \in {"write", "finish"}
    BY <2>3 DEF ConnInv, WaitsForPeersOnly, CanGoOn, WaitsForDevice, OnDevice
  <2>4. CASE pc \in {"read", "receipt"}
    BY <2>4 DEF ConnInv, WaitsForPeersOnly, CanGoOn, WaitsForDevice, OnDevice
  <2>5. CASE pc \in {"send", "last"}
    BY <2>5 DEF WaitsForPeersOnly, CanGoOn, WaitsForClient
  <2>6. CASE pc = "open"
    BY <2>6 DEF Opening, WaitsForPeersOnly, WaitsForDevice, OnDevice
  <2> QED
    BY <2>1, <2>2, <2>3, <2>4, <2>5, <2>6
<1> QED
  BY <1>1, TypeInvariant, ConnInvariant, PTL

(* When a sum with one term less is less.                                  *)
LEMMA LessOfOne ==
    ASSUME NEW p \in Nat, NEW q \in Nat, NEW n \in Nat, NEW m \in Nat,
           NEW i \in Nat, NEW j \in Nat
    PROVE  /\ q < p /\ m <= n /\ j <= i => q + 2 * m + j < p + 2 * n + i
           /\ q <= p + 1 /\ m < n /\ j <= i => q + 2 * m + j < p + 2 * n + i
           /\ q <= p /\ m <= n /\ j < i => q + 2 * m + j < p + 2 * n + i
           /\ q <= p /\ m <= n /\ j <= i => q + 2 * m + j <= p + 2 * n + i
OBVIOUS

PlaceIsNat == Place \in Nat /\ Len(requests) \in Nat /\ Len(fromDevice) \in Nat

(* What is left is a sum of natural numbers ...                            *)
LEMMA LeftIsNat == TypeInv => PlaceIsNat
<1> SUFFICES ASSUME TypeInv PROVE PlaceIsNat
  OBVIOUS
<1>1. Place \in Nat
  BY DEF TypeInv, TypeOK, Place
<1>2. Len(requests) \in Nat /\ Len(fromDevice) \in Nat
  BY LenProperties DEF TypeInv
<1> QED
  BY <1>1, <1>2 DEF PlaceIsNat

(* ... before and after a step.                                            *)
LEMMA LeftIsNatNext == TypeInv' => PlaceIsNat'
BY LeftIsNat, PTL

(* The call of a client that has gone comes to its end, if it does not     *)
(* wait for the device for ever: each step of the handler leaves less to   *)
(* do, as does each answer of adb, and only a device that goes on sending  *)
(* adds to it.                                                             *)
THEOREM CancelledCallsEndInSteps == Spec => NearerToTheEnd
<1>1. TypeInv /\ TypeInv' /\ [Next]_vars =>
        [client = "cancelled" =>
            IF Handler \/ Answer THEN Left' < Left
            ELSE Left' <= Left \/ DeviceSpeaks]_vars
  <2> SUFFICES ASSUME TypeInv, TypeInv', Next, client = "cancelled"
               PROVE  IF Handler \/ Answer THEN Left' < Left
                      ELSE Left' <= Left \/ DeviceSpeaks
    OBVIOUS
  <2> DEFINE p == Place
             q == Place'
             n == Len(requests)
             m == Len(requests')
             i == Len(fromDevice)
             j == Len(fromDevice')
  <2>1. /\ p \in Nat /\ q \in Nat /\ n \in Nat /\ m \in Nat
        /\ i \in Nat /\ j \in Nat
    BY LeftIsNat, LeftIsNatNext DEF PlaceIsNat
  <2>2. Left = p + 2 * n + i /\ Left' = q + 2 * m + j
    BY DEF Left
  <2>3. /\ q < p /\ m <= n /\ j <= i => Left' < Left
        /\ q <= p + 1 /\ m < n /\ j <= i => Left' < Left
        /\ q <= p /\ m <= n /\ j < i => Left' < Left
        /\ q <= p /\ m <= n /\ j <= i => Left' <= Left
    <3> HIDE DEF p, q, n, m, i, j
    <3> QED
      BY <2>1, <2>2, LessOfOne
  <2>4. /\ UNCHANGED requests => m <= n
        /\ UNCHANGED fromDevice => j <= i
        /\ requests # <<>> /\ requests' = Tail(requests) => m < n
        /\ fromDevice # <<>> /\ fromDevice' = Tail(fromDevice) => j < i
    <3>1. requests # <<>> => Len(Tail(requests)) = n - 1
      BY HeadTail DEF TypeInv
    <3>2. fromDevice # <<>> => Len(Tail(fromDevice)) = i - 1
      BY HeadTail DEF TypeInv
    <3> QED
      BY <2>1, <3>1, <3>2
  <2>5. CASE Handler \/ Answer
    <3>1. \/ q < p /\ UNCHANGED <<requests, fromDevice>>
          \/ /\ q <= p + 1 /\ UNCHANGED fromDevice
             /\ requests # <<>> /\ requests' = Tail(requests)
          \/ /\ q <= p /\ UNCHANGED requests
             /\ fromDevice # <<>> /\ fromDevice' = Tail(fromDevice)
      <4> USE DEF Place, Return, Goto
      <4>1. CASE CheckFails \/ CheckPasses \/ OpenFails
        BY <4>1 DEF CheckFails, CheckPasses, OpenFails
      <4>2. CASE OpenToRead \/ OpenToWrite
        BY <4>2 DEF OpenToRead, OpenToWrite, Open
      <4>3. CASE TakeStart \/ TakeBlock
        BY <4>3 DEF TakeStart, TakeBlock, Recv
      <4>4. CASE TakeOversize \/ TakeEnd \/ TakeJunk
        BY <4>4 DEF TakeOversize, TakeEnd, TakeJunk, Recv
      <4>5. CASE RecvFails \/ ReadFails
        BY <4>5 DEF RecvFails, ReadFails
      <4>6. CASE WriteBlock \/ WriteBlockFails
        BY <4>6 DEF WriteBlock, WriteBlockFails
      <4>7. CASE WriteDone \/ WriteDoneFails
        BY <4>7 DEF WriteDone, WriteDoneFails, AfterFailedDone
      <4>8. CASE ReadReceipt
        BY <4>8 DEF ReadReceipt
      <4>9. CASE ReadBlock \/ ReadEnd \/ ReadRefusal
        <5>1. op \in {"list", "stat", "pull"} /\ pc = "read"
          BY <4>9
             DEF TypeInv, TypeOK, Fetching, ReadBlock, ReadEnd, ReadRefusal,
                 Read
        <5> QED
          BY <4>9, <5>1 DEF ReadBlock, ReadEnd, ReadRefusal, Read
      <4>10. CASE SendBlock \/ SendLast \/ SendFails
        BY <4>10 DEF SendBlock, SendLast, Send, SendFails, OnSendError
      <4>11. CASE Reply
        BY <4>11 DEF Reply
      <4> QED
        BY <2>5, <4>1, <4>2, <4>3, <4>4, <4>5, <4>6, <4>7, <4>8, <4>9, <4>10,
           <4>11
           DEF Handler, Answer
    <3> HIDE DEF p, q, n, m, i, j
    <3> QED
      BY <2>1, <2>3, <2>4, <2>5, <3>1
  <2>6. CASE Peers /\ ~(Handler \/ Answer)
    <3>1. UNCHANGED <<pc, requests>>
      BY <2>6
         DEF Peers, ClientSend, ClientEnd, ClientJunk, Ask, ClientRecv,
             ClientStops, DeviceSends, DeviceDone, DeviceFails, DeviceWrites,
             DeviceStores, DevicePublishes, DeviceDrains, DeviceGone
    <3>2. q <= p
      <4>1. Place' = Place
        BY <3>1 DEF Place
      <4> HIDE DEF Place
      <4> QED
        BY <2>1, <4>1
    <3>3. j <= i \/ DeviceSpeaks
      BY <2>1 DEF DeviceSpeaks
    <3> HIDE DEF p, q, n, m, i, j
    <3> QED
      BY <2>3, <2>4, <2>6, <3>1, <3>2, <3>3
  <2> QED
    BY <2>5, <2>6 DEF Next
<1> QED
  BY <1>1, TypeInvariant, PTL DEF Spec, NearerToTheEnd
=============================================================================
