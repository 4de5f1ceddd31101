---------------------------- MODULE SysLogProofs ----------------------------
(***************************************************************************)
(* The safety properties of SysLog, for any number of calls, lines and     *)
(* emulators and any capacity of the channels.                             *)
(***************************************************************************)
EXTENDS SysLog, SequenceTheorems, TLAPS

USE DEF world, scan, calls, fanout

(* The head of the second sequence moves to the end of the first.          *)
LEMMA HeadMoves ==
    ASSUME NEW S, NEW s \in Seq(S), NEW t \in Seq(S), t # <<>>
    PROVE  /\ <<Head(t)>> \in Seq(S) /\ Tail(t) \in Seq(S)
           /\ (s \o <<Head(t)>>) \o Tail(t) = s \o t
<1>1. Head(t) \in S /\ Tail(t) \in Seq(S)
  BY HeadTailProperties
<1>2. <<Head(t)>> \in Seq(S)
  BY <1>1
<1>3. <<Head(t)>> \o Tail(t) = t
  BY <1>1
<1> QED
  BY <1>1, <1>2, <1>3, ConcatAssociative

(* What is appended to the second sequence is appended to both.            *)
LEMMA AppendAfter ==
    ASSUME NEW S, NEW s \in Seq(S), NEW t \in Seq(S), NEW e \in S
    PROVE  s \o Append(t, e) = Append(s \o t, e)
<1>1. s \o t \in Seq(S) /\ <<e>> \in Seq(S)
  BY ConcatProperties
<1>2. Append(t, e) = t \o <<e>> /\ Append(s \o t, e) = (s \o t) \o <<e>>
  BY <1>1, AppendIsConcat
<1> QED
  BY <1>1, <1>2, ConcatAssociative

(* A sequence is as long as what it ends with.                             *)
LEMMA ConcatLonger ==
    ASSUME NEW S, NEW s \in Seq(S), NEW t \in Seq(S)
    PROVE  s \o t \in Seq(S) /\ Len(t) <= Len(s \o t)
<1>1. s \o t \in Seq(S) /\ Len(s \o t) = Len(s) + Len(t)
  BY ConcatProperties
<1>2. Len(s) \in Nat /\ Len(t) \in Nat
  BY LenProperties
<1> QED
  BY <1>1, <1>2

-----------------------------------------------------------------------------
(* Lines are numbers, and a call that has not begun has nothing.           *)
TypeInv ==
    /\ TypeOK
    /\ socket \in [Emulators -> Seq(Nat)] /\ distributed \in Seq(Nat)
    /\ channel \in [Handlers -> Seq(Nat)]
    /\ sending \in [Handlers -> Seq(Nat)] /\ stream \in [Handlers -> Seq(Nat)]
    /\ since \in [Handlers -> Nat] /\ dropped \in [Handlers -> SUBSET Nat]
    /\ \A h \in Handlers :
        /\ handler[h] = "off" <=> h \notin clients
        /\ h \notin clients =>
             /\ channel[h] = <<>> /\ sending[h] = <<>> /\ stream[h] = <<>>

(* The types, with those of the sequences, are inductive.                  *)
LEMMA TypeInvariant == Spec => []TypeInv
<1>1. Init => TypeInv
  BY BoundsAreNat DEF Init, TypeInv, TypeOK
<1>2. TypeInv /\ [Next]_vars => TypeInv'
  <2> SUFFICES ASSUME TypeInv, [Next]_vars PROVE TypeInv'
    OBVIOUS
  <2>1. ASSUME Boot
        PROVE  TypeInv'
    <3>1. boots' \in 0..MaxBoots /\ boots' = boots + 1
      BY <2>1, BoundsAreNat DEF TypeInv, TypeOK, Boot
    <3> QED
      BY <2>1, <3>1 DEF TypeInv, TypeOK, Boot
  <2>2. ASSUME NEW e \in Emulators, NEW tooLong \in BOOLEAN,
               Log(e, tooLong)
        PROVE  TypeInv'
    <3>1. /\ logged' \in 0..MaxLines /\ logged' = logged + 1
          /\ logged \in Nat
          /\ socket' \in [Emulators -> Seq(Nat)]
      BY <2>2, BoundsAreNat DEF TypeInv, TypeOK, Log
    <3>2. oversize' \subseteq 1..logged'
      BY <2>2, <3>1 DEF TypeInv, TypeOK, Log
    <3> QED
      BY <2>2, <3>1, <3>2 DEF TypeInv, TypeOK, Log
  <2>3. ASSUME NEW e \in Emulators, HangUp(e)
        PROVE  TypeInv'
    <3>1. e \in 1..boots
      BY <2>3, BoundsAreNat DEF TypeInv, TypeOK, HangUp, Open
    <3> QED
      BY <2>3, <3>1 DEF TypeInv, TypeOK, HangUp
  <2>4. ASSUME Accept
        PROVE  TypeInv'
    <3>1. accepted' \in 0..boots /\ reading' = accepted'
      BY <2>4, BoundsAreNat DEF TypeInv, TypeOK, Accept
    <3> QED
      BY <2>4, <3>1 DEF TypeInv, TypeOK, Accept
  <2>5. ASSUME ScanEnds
        PROVE  TypeInv'
    BY <2>5 DEF TypeInv, TypeOK, ScanEnds
  <2>6. ASSUME Distribute
        PROVE  TypeInv'
    <3> DEFINE line == Head(socket[reading])
    <3>1. /\ reading \in Emulators /\ line \in Nat
          /\ Tail(socket[reading]) \in Seq(Nat)
      <4>1. reading \in Emulators
        BY <2>6, BoundsAreNat DEF TypeInv, TypeOK, Distribute, Emulators
      <4> QED
        BY <2>6, <4>1 DEF TypeInv, Distribute
    <3> HIDE DEF line
    <3>2. /\ distributed' \in Seq(Nat)
          /\ Len(distributed') = Len(distributed) + 1
      BY <2>6, <3>1, AppendProperties DEF TypeInv, Distribute, line
    <3>3. socket' \in [Emulators -> Seq(Nat)]
      BY <2>6, <3>1 DEF TypeInv, Distribute
    <3>4. \A h \in Handlers :
            channel'[h] = IF h \in clients /\ CanTake(h)
                          THEN Append(channel[h], line) ELSE channel[h]
      BY <2>6 DEF Distribute, Served, line
    <3>5. \A h \in Handlers :
            /\ channel'[h] \in Seq(Nat)
            /\ Len(channel'[h]) <= Capacity
      <4> SUFFICES ASSUME NEW h \in Handlers
                   PROVE  /\ channel'[h] \in Seq(Nat)
                          /\ Len(channel'[h]) <= Capacity
        OBVIOUS
      <4>1. channel[h] \in Seq(Nat) /\ Len(channel[h]) <= Capacity
        BY DEF TypeInv, TypeOK
      <4>2. /\ Append(channel[h], line) \in Seq(Nat)
            /\ Len(Append(channel[h], line)) = Len(channel[h]) + 1
        BY <3>1, <4>1, AppendProperties
      <4>3. CanTake(h) => Len(channel[h]) + 1 <= Capacity
        BY <4>1, BoundsAreNat, LenProperties DEF CanTake
      <4> QED
        BY <3>4, <4>1, <4>2, <4>3
    <3>6. channel' \in [Handlers -> Seq(Nat)]
      BY <2>6, <3>5 DEF Distribute
    <3>7. \A h \in Handlers : since[h] \in 0..Len(distributed')
      BY <3>2 DEF TypeInv, TypeOK
    <3>8. dropped' \in [Handlers -> SUBSET Nat]
      <4>1. dropped' = [h \in Handlers |->
                          IF h \in clients /\ ~CanTake(h)
                          THEN dropped[h] \cup {line} ELSE dropped[h]]
        BY <2>6 DEF Distribute, line
      <4> QED
        BY <3>1, <4>1 DEF TypeInv
    <3>9. \A h \in Handlers : h \notin clients =>
            channel'[h] = <<>>
      BY <2>6, <3>4 DEF TypeInv, Distribute
    <3> QED
      BY <2>6, <3>2, <3>3, <3>5, <3>6, <3>7, <3>8, <3>9
         DEF TypeInv, TypeOK, Distribute
  <2>7. ASSUME NEW h \in Handlers, Listen(h)
        PROVE  TypeInv'
    BY <2>7 DEF TypeInv, TypeOK, Listen
  <2>8. ASSUME NEW h \in Handlers, Recv(h)
        PROVE  TypeInv'
    <3>1. Head(channel[h]) \in Nat /\ Tail(channel[h]) \in Seq(Nat)
          /\ Len(Tail(channel[h])) <= Capacity
      BY <2>8, BoundsAreNat, HeadTailProperties DEF TypeInv, TypeOK, Recv
    <3>2. <<Head(channel[h])>> \in Seq(Nat) /\ Len(<<Head(channel[h])>>) = 1
      BY <3>1
    <3> QED
      BY <2>8, <3>1, <3>2 DEF TypeInv, TypeOK, Recv
  <2>9. ASSUME NEW h \in Handlers, Send(h)
        PROVE  TypeInv'
    <3>1. stream[h] \o sending[h] \in Seq(Nat)
      BY ConcatProperties DEF TypeInv
    <3>2. <<>> \in Seq(Nat) /\ Len(<<>>) = 0
      BY EmptySeq
    <3>3. h \in clients /\ handler' = [handler EXCEPT ![h] = "recv"]
      BY <2>9 DEF TypeInv, Send
    <3>4. /\ stream' \in [Handlers -> Seq(Nat)]
          /\ sending' \in [Handlers -> Seq(Nat)]
      BY <2>9, <3>1, <3>2 DEF TypeInv, Send
    <3>5. \A g \in Handlers :
            /\ Len(sending'[g]) = IF handler'[g] = "send" \/
                                     (handler'[g] = "done" /\ g \in cancelled)
                                  THEN 1 ELSE 0
            /\ handler'[g] = "off" <=> g \notin clients
            /\ g \notin clients => sending'[g] = <<>> /\ stream'[g] = <<>>
      <4> SUFFICES ASSUME NEW g \in Handlers
                   PROVE  /\ Len(sending'[g]) =
                               IF handler'[g] = "send" \/
                                  (handler'[g] = "done" /\ g \in cancelled)
                               THEN 1 ELSE 0
                          /\ handler'[g] = "off" <=> g \notin clients
                          /\ g \notin clients =>
                               sending'[g] = <<>> /\ stream'[g] = <<>>
        OBVIOUS
      <4>1. CASE g = h
        <5>1. sending'[g] = <<>> /\ handler'[g] = "recv"
          BY <2>9, <3>3, <4>1 DEF TypeInv, TypeOK, Send
        <5> QED
          BY <3>2, <3>3, <4>1, <5>1
      <4>2. CASE g # h
        <5>1. /\ sending'[g] = sending[g] /\ stream'[g] = stream[g]
              /\ handler'[g] = handler[g]
          BY <2>9, <3>3, <4>2 DEF TypeInv, TypeOK, Send
        <5> QED
          BY <5>1 DEF TypeInv, TypeOK
      <4> QED
        BY <4>1, <4>2
    <3>6. UNCHANGED <<world, scan, fanout, since, full, cancelled>>
      BY <2>9 DEF Send
    <3>7. handler' \in [Handlers -> {"off", "recv", "send", "done"}]
      BY <3>3 DEF TypeInv, TypeOK
    <3> QED
      BY <3>4, <3>5, <3>6, <3>7 DEF TypeInv, TypeOK
  <2>10. ASSUME NEW h \in Handlers, SendFails(h)
        PROVE  TypeInv'
    BY <2>10 DEF TypeInv, TypeOK, SendFails, OnSendError
  <2>11. ASSUME NEW h \in Handlers, ClientStops(h)
        PROVE  TypeInv'
    BY <2>11 DEF TypeInv, TypeOK, ClientStops
  <2>12. ASSUME NEW h \in Handlers, ClientReads(h)
        PROVE  TypeInv'
    BY <2>12 DEF TypeInv, TypeOK, ClientReads
  <2>13. ASSUME NEW h \in Handlers, ClientCancels(h)
        PROVE  TypeInv'
    BY <2>13 DEF TypeInv, TypeOK, ClientCancels
  <2>14. CASE UNCHANGED vars
    BY <2>14 DEF TypeInv, TypeOK, vars
  <2> QED
    BY <2>1, <2>2, <2>3, <2>4, <2>5, <2>6, <2>7, <2>8, <2>9, <2>10, <2>11,
       <2>12, <2>13, <2>14 DEF Next
<1> QED
  BY <1>1, <1>2, PTL DEF Spec

(* Every field keeps its type, and no channel gets more lines than fit.    *)
THEOREM TypeCorrect == Spec => []TypeOK
<1>1. TypeInv => TypeOK
  BY DEF TypeInv
<1> QED
  BY <1>1, TypeInvariant, PTL
-----------------------------------------------------------------------------
(* Where the lines are.  A connection that is not scanned any more either  *)
(* has an oversize line in front or gets no more lines, and whatever was   *)
(* logged has been distributed or is on a socket.                          *)
CutOff ==
    \A e \in 1..boots \ Open :
        e \in hungUp \/ (socket[e] # <<>> /\ Head(socket[e]) \in oversize)

Distributed(n) == \E i \in 1..Len(distributed) : distributed[i] = n

Scanned == \A n \in 1..logged : Distributed(n) \/ OnSocket(n)

(* What a call has, compared with what is logged: MissesOnlyDroppedOrCutOff*)
(* for one call.                                                           *)
Accounted(h, n) ==
    \/ n \in dropped[h] \/ Contains(Got(h), n) \/ OnSocket(n)
    \/ \E i \in 1..since[h] : distributed[i] = n

Follows(h) == (\A n \in 1..logged : Accounted(h, n)) /\ InOrder(h)

LogInv == CutOff /\ Scanned /\ \A h \in clients : Follows(h)

(* What a step does to a line on a socket: it stays there, unless it is    *)
(* the one that is distributed.                                            *)
LEMMA LinesStay ==
    ASSUME TypeInv, CutOff, Next, NEW n, OnSocket(n)
    PROVE  OnSocket(n)' \/ (Distribute /\ n = Head(socket[reading]))
<1>1. PICK e \in 1..boots : /\ Contains(socket[e], n)
                            /\ e \in Open \/ Head(socket[e]) \in oversize
  BY DEF OnSocket
<1>2. /\ boots \in Nat /\ e \in Emulators /\ socket[e] \in Seq(Nat)
      /\ accepted \in 0..boots /\ reading \in {0, accepted}
  BY <1>1, BoundsAreNat DEF TypeInv, TypeOK, Emulators
<1>3. CASE Boot
  BY <1>1, <1>2, <1>3 DEF Boot, OnSocket, Open
<1>4. ASSUME NEW f \in Emulators, NEW tooLong \in BOOLEAN, Log(f, tooLong)
      PROVE  OnSocket(n)'
  <2>1. CASE f = e
    <3>1. /\ socket'[e] = Append(socket[e], logged') /\ logged' \in Nat
      BY <1>2, <1>4, <2>1, BoundsAreNat DEF TypeInv, TypeOK, Log
    <3>2. Contains(socket'[e], n)
      BY <1>1, <1>2, <3>1, AppendProperties DEF Contains
    <3>3. Head(socket'[e]) = Head(socket[e])
      <4>1. 1 \in 1..Len(socket[e])
        BY <1>1, <1>2, LenProperties DEF Contains
      <4> QED
        BY <1>2, <3>1, <4>1, AppendProperties
    <3> QED
      BY <1>1, <1>4, <3>2, <3>3 DEF Log, OnSocket, Open
  <2>2. CASE f # e
    BY <1>1, <1>2, <1>4, <2>2 DEF TypeInv, Log, OnSocket, Open
  <2> QED
    BY <2>1, <2>2
<1>5. CASE \E f \in Emulators : HangUp(f)
  BY <1>1, <1>5 DEF HangUp, OnSocket, Open
<1>6. CASE Accept
  BY <1>1, <1>2, <1>6 DEF Accept, OnSocket, Open
<1>7. CASE ScanEnds
  <2>1. UNCHANGED <<socket, boots, oversize, accepted>> /\ reading' = 0
    BY <1>7 DEF ScanEnds
  <2>2. CASE e # reading
    BY <1>1, <1>2, <2>1, <2>2 DEF OnSocket, Open
  <2>3. CASE e = reading
    <3>1. socket[e] # <<>>
      BY <1>1, <1>2, EmptySeq DEF Contains
    <3>2. Head(socket[e]) \in oversize
      BY <1>7, <2>3, <3>1 DEF ScanEnds, CanScan
    <3> QED
      BY <1>1, <2>1, <3>2 DEF OnSocket
  <2> QED
    BY <2>2, <2>3
<1>8. CASE Distribute
  <2>1. /\ UNCHANGED <<boots, oversize, accepted, reading>>
        /\ socket' = [socket EXCEPT ![reading] = Tail(@)]
        /\ socket[reading] # <<>>
    BY <1>8 DEF Distribute
  <2>2. CASE e # reading
    <3>1. socket'[e] = socket[e]
      BY <1>2, <2>1, <2>2 DEF TypeInv
    <3> QED
      BY <1>1, <2>1, <3>1 DEF OnSocket, Open
  <2>3. CASE e = reading
    <3>1. /\ socket'[e] = Tail(socket[e]) /\ Head(socket[e]) = socket[e][1]
          /\ Len(Tail(socket[e])) = Len(socket[e]) - 1
          /\ \A i \in 1..Len(Tail(socket[e])) :
               Tail(socket[e])[i] = socket[e][i + 1]
      BY <1>2, <2>1, <2>3, HeadTailProperties DEF TypeInv
    <3>2. PICK i \in 1..Len(socket[e]) : socket[e][i] = n
      BY <1>1 DEF Contains
    <3>3. CASE i = 1
      BY <1>8, <2>3, <3>1, <3>2, <3>3
    <3>4. CASE i # 1
      <4>1. i - 1 \in 1..Len(Tail(socket[e])) /\ (i - 1) + 1 = i
        BY <1>2, <3>1, <3>4, LenProperties
      <4>2. Contains(socket'[e], n)
        BY <3>1, <3>2, <4>1 DEF Contains
      <4>3. e \in Open'
        BY <1>8, <2>1, <2>3 DEF Open, Distribute
      <4> QED
        BY <1>1, <2>1, <4>2, <4>3 DEF OnSocket
    <3> QED
      BY <3>3, <3>4
  <2> QED
    BY <2>2, <2>3
<1>9. ASSUME NEW h \in Handlers,
             \/ Listen(h) \/ Recv(h) \/ Send(h) \/ SendFails(h)
             \/ ClientStops(h) \/ ClientReads(h) \/ ClientCancels(h)
      PROVE  OnSocket(n)'
  <2>1. UNCHANGED <<socket, boots, oversize, accepted, reading>>
    BY <1>9 DEF Listen, Recv, Send, SendFails, ClientStops, ClientReads,
                ClientCancels
  <2> QED
    BY <1>1, <2>1 DEF OnSocket, Open
<1> QED
  BY <1>3, <1>4, <1>5, <1>6, <1>7, <1>8, <1>9 DEF Next

(* A line that is logged is on a socket.                                   *)
LEMMA LoggedIsOnSocket ==
    ASSUME TypeInv, CutOff, NEW e \in Emulators, NEW tooLong \in BOOLEAN,
           Log(e, tooLong), NEW n, n = logged + 1
    PROVE  OnSocket(n)' /\ logged' = n /\ logged \in Nat
<1>1. /\ socket'[e] = Append(socket[e], n)
      /\ logged' = n /\ logged \in Nat /\ n \in Nat
      /\ socket[e] \in Seq(Nat)
  BY BoundsAreNat DEF TypeInv, TypeOK, Log
<1>2. /\ Len(Append(socket[e], n)) = Len(socket[e]) + 1
      /\ Append(socket[e], n)[Len(socket[e]) + 1] = n
      /\ \A i \in 1..Len(socket[e]) :
           Append(socket[e], n)[i] = socket[e][i]
      /\ Len(socket[e]) \in Nat
  BY <1>1, AppendProperties, LenProperties
<1>3. Contains(socket'[e], n)
  BY <1>1, <1>2 DEF Contains
<1>4. e \in Open' \/ Head(socket'[e]) \in oversize'
  <2>1. CASE e \in Open
    BY <2>1 DEF Open, Log
  <2>2. CASE e \notin Open
    <3>1. socket[e] # <<>> /\ Head(socket[e]) \in oversize
      BY <2>2 DEF Log, CutOff
    <3>2. 1 \in 1..Len(socket[e])
      BY <1>1, <1>2, <3>1, EmptySeq
    <3>3. Head(socket'[e]) = Head(socket[e])
      BY <1>1, <1>2, <3>1, <3>2
    <3> QED
      BY <3>1, <3>3 DEF Log
  <2> QED
    BY <2>1, <2>2
<1> QED
  <2>1. e \in 1..boots'
    BY DEF Log
  <2> QED
    BY <1>1, <1>3, <1>4, <2>1 DEF OnSocket

(* What has been distributed stays, and a step that distributes nothing    *)
(* leaves the calls that are registered what they have.                    *)
LEMMA CallsKeep ==
    ASSUME TypeInv, Next, ~Distribute
    PROVE  /\ UNCHANGED <<distributed, dropped>>
           /\ \A h \in clients :
                h \in clients' /\ Got(h)' = Got(h) /\ since'[h] = since[h]
<1>1. ASSUME UNCHANGED <<distributed, dropped, clients, channel, stream,
                         sending, since>>
      PROVE  /\ UNCHANGED <<distributed, dropped>>
             /\ \A h \in clients :
                  h \in clients' /\ Got(h)' = Got(h) /\ since'[h] = since[h]
  BY <1>1 DEF Got
<1>2. CASE \/ Boot \/ Accept \/ ScanEnds
           \/ \E e \in Emulators : HangUp(e)
           \/ \E e \in Emulators, tooLong \in BOOLEAN : Log(e, tooLong)
  BY <1>1, <1>2 DEF Boot, Accept, ScanEnds, HangUp, Log
<1>3. CASE \E h \in Handlers : \/ SendFails(h) \/ ClientStops(h)
                               \/ ClientReads(h) \/ ClientCancels(h)
  BY <1>1, <1>3 DEF SendFails, ClientStops, ClientReads, ClientCancels
<1>4. ASSUME NEW h \in Handlers, Listen(h)
      PROVE  /\ UNCHANGED <<distributed, dropped>>
             /\ \A c \in clients :
                  c \in clients' /\ Got(c)' = Got(c) /\ since'[c] = since[c]
  BY <1>4 DEF TypeInv, TypeOK, Listen, Got
<1>5. ASSUME NEW h \in Handlers, Recv(h)
      PROVE  /\ UNCHANGED <<distributed, dropped>>
             /\ \A c \in clients :
                  c \in clients' /\ Got(c)' = Got(c) /\ since'[c] = since[c]
  <2>1. /\ stream[h] \in Seq(Nat) /\ channel[h] \in Seq(Nat)
        /\ channel[h] # <<>> /\ sending[h] = <<>>
    <3>1. Len(sending[h]) = 0 /\ sending[h] \in Seq(Nat)
      BY <1>5 DEF TypeInv, TypeOK, Recv
    <3> QED
      BY <1>5, <3>1, EmptySeq DEF TypeInv, Recv
  <2>2. /\ stream'[h] = stream[h]
        /\ sending'[h] = <<Head(channel[h])>>
        /\ channel'[h] = Tail(channel[h])
    BY <1>5 DEF TypeInv, Recv
  <2>3. Got(h)' = Got(h)
    <3>1. stream[h] \o <<>> = stream[h]
      BY <2>1, ConcatEmptySeq
    <3>2. (stream[h] \o <<Head(channel[h])>>) \o Tail(channel[h])
            = stream[h] \o channel[h]
      BY <2>1, HeadMoves
    <3> QED
      BY <2>1, <2>2, <3>1, <3>2 DEF Got
  <2>4. \A g \in Handlers : Got(g)' = Got(g)
    BY <1>5, <2>3 DEF TypeInv, Recv, Got
  <2> QED
    BY <1>5, <2>4 DEF TypeInv, TypeOK, Recv
<1>6. ASSUME NEW h \in Handlers, Send(h)
      PROVE  /\ UNCHANGED <<distributed, dropped>>
             /\ \A c \in clients :
                  c \in clients' /\ Got(c)' = Got(c) /\ since'[c] = since[c]
  <2>1. stream[h] \in Seq(Nat) /\ sending[h] \in Seq(Nat)
        /\ stream[h] \o sending[h] \in Seq(Nat)
    BY ConcatProperties DEF TypeInv
  <2>2. /\ stream'[h] = stream[h] \o sending[h]
        /\ sending'[h] = <<>> /\ channel'[h] = channel[h]
    BY <1>6 DEF TypeInv, Send
  <2>3. Got(h)' = Got(h)
    BY <2>1, <2>2, ConcatEmptySeq DEF Got
  <2>4. \A g \in Handlers : Got(g)' = Got(g)
    BY <1>6, <2>3 DEF TypeInv, Send, Got
  <2> QED
    BY <1>6, <2>4 DEF TypeInv, TypeOK, Send
<1> QED
  BY <1>2, <1>3, <1>4, <1>5, <1>6 DEF Next

(* No step takes a connection away that is still to be scanned, unless it  *)
(* is at its end or has an oversize line in front.                         *)
LEMMA CutOffStays ==
    ASSUME TypeInv, CutOff, Next
    PROVE  CutOff'
<1> SUFFICES ASSUME NEW e \in 1..boots', e \notin Open', e \notin hungUp'
             PROVE  socket'[e] # <<>> /\ Head(socket'[e]) \in oversize'
  BY DEF CutOff
<1>1. /\ boots \in Nat /\ accepted \in 0..boots /\ reading \in {0, accepted}
      /\ boots \in 0..MaxBoots
  BY BoundsAreNat DEF TypeInv, TypeOK
<1>2. ASSUME e \in 1..boots, e \notin Open, e \notin hungUp
      PROVE  /\ socket[e] # <<>> /\ Head(socket[e]) \in oversize
             /\ e \in Emulators /\ socket[e] \in Seq(Nat)
  BY <1>1, <1>2, BoundsAreNat DEF CutOff, Emulators, TypeInv
<1>3. CASE UNCHANGED <<boots, accepted, reading, hungUp, socket, oversize>>
  BY <1>2, <1>3 DEF Open
<1>4. CASE Boot
  BY <1>1, <1>2, <1>4 DEF Boot, Open
<1>5. ASSUME NEW f \in Emulators, NEW tooLong \in BOOLEAN, Log(f, tooLong)
      PROVE  socket'[e] # <<>> /\ Head(socket'[e]) \in oversize'
  <2>1. /\ socket[e] # <<>> /\ Head(socket[e]) \in oversize
        /\ e \in Emulators /\ socket[e] \in Seq(Nat)
        /\ oversize \subseteq oversize'
    BY <1>2, <1>5 DEF Log, Open
  <2>2. CASE f # e
    BY <1>5, <2>1, <2>2 DEF TypeInv, Log
  <2>3. CASE f = e
    <3>1. socket'[e] = Append(socket[e], logged') /\ logged' \in Nat
      BY <1>5, <2>1, <2>3, BoundsAreNat DEF TypeInv, TypeOK, Log
    <3>2. /\ Append(socket[e], logged') \in Seq(Nat)
          /\ Len(Append(socket[e], logged')) = Len(socket[e]) + 1
          /\ \A i \in 1..Len(socket[e]) :
               Append(socket[e], logged')[i] = socket[e][i]
      BY <2>1, <3>1, AppendProperties
    <3>3. 1 \in 1..Len(socket[e])
      BY <2>1, EmptySeq, LenProperties
    <3>4. Append(socket[e], logged') # <<>>
      BY <2>1, <3>2, <3>3, EmptySeq, LenProperties
    <3>5. Head(Append(socket[e], logged')) = Head(socket[e])
      BY <2>1, <3>2, <3>3, <3>4
    <3> QED
      BY <2>1, <3>1, <3>4, <3>5
  <2> QED
    BY <2>2, <2>3
<1>6. CASE \E f \in Emulators : HangUp(f)
  BY <1>2, <1>6 DEF HangUp, Open
<1>7. CASE Accept
  BY <1>1, <1>2, <1>7 DEF Accept, Open
<1>8. CASE ScanEnds
  <2>1. UNCHANGED <<boots, accepted, hungUp, socket, oversize>>
        /\ reading' = 0
    BY <1>8 DEF ScanEnds
  <2>2. CASE e # reading
    BY <1>2, <2>1, <2>2 DEF Open
  <2>3. CASE e = reading
    BY <1>8, <2>1, <2>3 DEF ScanEnds, CanScan
  <2> QED
    BY <2>2, <2>3
<1>9. CASE Distribute
  <2>1. /\ UNCHANGED <<boots, accepted, reading, hungUp, oversize>>
        /\ socket' = [socket EXCEPT ![reading] = Tail(@)] /\ reading # 0
    BY <1>9 DEF Distribute
  <2>2. e # reading
    BY <2>1 DEF Open
  <2>3. /\ socket[e] # <<>> /\ Head(socket[e]) \in oversize
        /\ e \in Emulators
    BY <1>2, <2>1 DEF Open
  <2> QED
    BY <2>1, <2>2, <2>3 DEF TypeInv
<1>10. ASSUME NEW h \in Handlers,
              \/ Listen(h) \/ Recv(h) \/ Send(h) \/ SendFails(h)
              \/ ClientStops(h) \/ ClientReads(h) \/ ClientCancels(h)
       PROVE  UNCHANGED <<boots, accepted, reading, hungUp, socket, oversize>>
  BY <1>10 DEF Listen, Recv, Send, SendFails, ClientStops, ClientReads,
               ClientCancels
<1> QED
  BY <1>3, <1>4, <1>5, <1>6, <1>7, <1>8, <1>9, <1>10 DEF Next

(* The order is that of what a call has and of what was distributed.       *)
LEMMA SameOrder ==
    ASSUME NEW h, InOrder(h), Got(h)' = Got(h), since'[h] = since[h],
           distributed' = distributed
    PROVE  InOrder(h)'
<1> SUFFICES ASSUME NEW i \in 1..Len(Got(h)'), NEW j \in 1..Len(Got(h)'),
                    i <= j
             PROVE  \E k, l \in (since'[h] + 1)..Len(distributed') :
                      /\ distributed'[k] = Got(h)'[i]
                      /\ distributed'[l] = Got(h)'[j]
                      /\ i < j => k < l
  BY DEF InOrder
<1>1. PICK k, l \in (since[h] + 1)..Len(distributed) :
        /\ distributed[k] = Got(h)[i] /\ distributed[l] = Got(h)[j]
        /\ i < j => k < l
  BY DEF InOrder
<1> QED
  BY <1>1

(* A distributed line reaches every call that is registered, or is one of  *)
(* those that it misses.                                                   *)
LEMMA DistributeFollows ==
    ASSUME TypeInv, LogInv, Distribute
    PROVE  Scanned' /\ \A h \in clients' : Follows(h)'
<1>1. PICK line \in Nat : line = Head(socket[reading])
  <2>1. reading \in Emulators
    BY BoundsAreNat DEF TypeInv, TypeOK, Distribute, Emulators
  <2>2. Head(socket[reading]) \in Nat
    BY <2>1 DEF TypeInv, Distribute
  <2> QED
    BY <2>2
<1>2. \A n : OnSocket(n) => OnSocket(n)' \/ n = line
  BY <1>1, LinesStay DEF LogInv, Next
<1>3. /\ distributed' = Append(distributed, line)
      /\ UNCHANGED <<stream, sending, since, clients, logged>>
      /\ \A h \in clients :
           /\ dropped'[h] = IF CanTake(h) THEN dropped[h]
                            ELSE dropped[h] \cup {line}
           /\ channel'[h] = IF CanTake(h) THEN Append(channel[h], line)
                            ELSE channel[h]
  BY <1>1 DEF TypeInv, TypeOK, Distribute, Served
<1>4. /\ distributed \in Seq(Nat) /\ Len(distributed) \in Nat
      /\ Len(distributed') = Len(distributed) + 1
      /\ \A i \in 1..Len(distributed) : distributed'[i] = distributed[i]
      /\ distributed'[Len(distributed) + 1] = line
  BY <1>1, <1>3, AppendProperties, LenProperties DEF TypeInv
<1>5. Scanned'
  <2>1. \A n : Distributed(n) => Distributed(n)'
    BY <1>4 DEF Distributed
  <2>2. Distributed(line)'
    BY <1>4 DEF Distributed
  <2> QED
    BY <1>2, <1>3, <2>1, <2>2 DEF Scanned, LogInv
<1>6. ASSUME NEW h \in clients PROVE Follows(h)'
  <2>1. /\ h \in Handlers /\ Follows(h)
        /\ stream[h] \in Seq(Nat) /\ sending[h] \in Seq(Nat)
        /\ channel[h] \in Seq(Nat) /\ since[h] \in 0..Len(distributed)
    BY DEF TypeInv, TypeOK, LogInv
  <2>2. since'[h] = since[h]
    BY <1>3
  <2>3. /\ Got(h) \in Seq(Nat) /\ Len(Got(h)) \in Nat
        /\ Got(h)' = IF CanTake(h) THEN Append(Got(h), line) ELSE Got(h)
    <3> DEFINE g == stream[h] \o sending[h]
    <3>1. g \in Seq(Nat)
      BY <2>1, ConcatProperties
    <3>2. Got(h)' = g \o channel'[h] /\ Got(h) = g \o channel[h]
      BY <1>3 DEF Got
    <3> HIDE DEF g
    <3>3. g \o channel[h] \in Seq(Nat)
      BY <2>1, <3>1, ConcatProperties
    <3>4. g \o Append(channel[h], line) = Append(g \o channel[h], line)
      <4>1. channel[h] \in Seq(Nat) /\ line \in Nat
        BY <2>1
      <4> QED
        BY <3>1, <4>1, AppendAfter
    <3>5. channel'[h] = IF CanTake(h) THEN Append(channel[h], line)
                        ELSE channel[h]
      BY <1>3
    <3>6. Len(Got(h)) \in Nat /\ Got(h) \in Seq(Nat)
      BY <3>2, <3>3, LenProperties
    <3> QED
      <4>1. CASE CanTake(h)
        BY <3>2, <3>4, <3>5, <3>6, <4>1
      <4>2. CASE ~CanTake(h)
        BY <3>2, <3>5, <3>6, <4>2
      <4> QED
        BY <4>1, <4>2
  <2>4. /\ Len(Append(Got(h), line)) = Len(Got(h)) + 1
        /\ \A i \in 1..Len(Got(h)) : Append(Got(h), line)[i] = Got(h)[i]
        /\ Append(Got(h), line)[Len(Got(h)) + 1] = line
    BY <1>1, <2>3, AppendProperties
  <2>5. ASSUME NEW n \in 1..logged' PROVE Accounted(h, n)'
    <3>1. Accounted(h, n)
      BY <1>3, <2>1 DEF Follows
    <3>2. CASE n \in dropped[h]
      BY <1>3, <3>2 DEF Accounted
    <3>3. CASE Contains(Got(h), n)
      BY <2>3, <2>4, <3>3 DEF Accounted, Contains
    <3>4. CASE OnSocket(n) /\ n # line
      BY <1>2, <3>4 DEF Accounted
    <3>5. CASE n = line
      <4>1. CASE CanTake(h)
        BY <2>3, <2>4, <3>5, <4>1 DEF Accounted, Contains
      <4>2. CASE ~CanTake(h)
        BY <1>3, <3>5, <4>2 DEF Accounted
      <4> QED
        BY <4>1, <4>2
    <3>6. CASE \E i \in 1..since[h] : distributed[i] = n
      BY <1>4, <2>1, <2>2, <3>6 DEF Accounted
    <3> QED
      BY <3>1, <3>2, <3>3, <3>4, <3>5, <3>6 DEF Accounted
  <2>6. InOrder(h)'
    <3> SUFFICES ASSUME NEW i \in 1..Len(Got(h)'), NEW j \in 1..Len(Got(h)'),
                        i <= j
                 PROVE  \E k, l \in (since'[h] + 1)..Len(distributed') :
                          /\ distributed'[k] = Got(h)'[i]
                          /\ distributed'[l] = Got(h)'[j]
                          /\ i < j => k < l
      BY DEF InOrder
    <3>1. CASE i \in 1..Len(Got(h)) /\ j \in 1..Len(Got(h))
      <4>1. PICK k, l \in (since[h] + 1)..Len(distributed) :
              /\ distributed[k] = Got(h)[i] /\ distributed[l] = Got(h)[j]
              /\ i < j => k < l
        BY <2>1, <3>1 DEF Follows, InOrder
      <4>2. k \in 1..Len(distributed) /\ l \in 1..Len(distributed)
        BY <1>4, <2>1, <4>1
      <4>3. Got(h)'[i] = Got(h)[i] /\ Got(h)'[j] = Got(h)[j]
        BY <2>3, <2>4, <3>1
      <4>4. /\ k \in (since'[h] + 1)..Len(distributed')
            /\ l \in (since'[h] + 1)..Len(distributed')
        BY <1>4, <2>1, <2>2, <4>1
      <4> QED
        BY <1>4, <4>1, <4>2, <4>3, <4>4
    <3>2. CASE i \in 1..Len(Got(h)) /\ j = Len(Got(h)) + 1 /\ CanTake(h)
      <4>1. PICK k \in (since[h] + 1)..Len(distributed) :
              distributed[k] = Got(h)[i]
        BY <2>1, <3>2 DEF Follows, InOrder
      <4>2. k \in 1..Len(distributed) /\ k < Len(distributed) + 1
        BY <1>4, <2>1, <4>1
      <4>3. Got(h)'[i] = Got(h)[i] /\ Got(h)'[j] = line
        BY <2>3, <2>4, <3>2
      <4>4. /\ k \in (since'[h] + 1)..Len(distributed')
            /\ Len(distributed) + 1 \in (since'[h] + 1)..Len(distributed')
        BY <1>4, <2>1, <2>2, <4>1
      <4> QED
        BY <1>4, <4>1, <4>2, <4>3, <4>4
    <3>3. CASE i = Len(Got(h)) + 1 /\ j = i /\ CanTake(h)
      <4>1. Got(h)'[i] = line
        BY <2>3, <2>4, <3>3
      <4>2. Len(distributed) + 1 \in (since'[h] + 1)..Len(distributed')
        BY <1>4, <2>1, <2>2
      <4> QED
        BY <1>4, <2>3, <3>3, <4>1, <4>2, SMTT(60)
    <3> QED
      <4>1. CASE CanTake(h)
        <5>1. i \in 1..Len(Got(h)) + 1 /\ j \in 1..Len(Got(h)) + 1
          BY <2>3, <2>4, <4>1
        <5> QED
          BY <2>3, <3>1, <3>2, <3>3, <4>1, <5>1
      <4>2. CASE ~CanTake(h)
        BY <2>3, <3>1, <4>2
      <4> QED
        BY <4>1, <4>2
  <2> QED
    BY <2>5, <2>6 DEF Follows
<1> QED
  BY <1>3, <1>5, <1>6

(* How calls follow the log is inductive.                                  *)
LEMMA CallsFollow == Spec => []LogInv
<1>1. Init => LogInv
  BY BoundsAreNat DEF Init, LogInv, CutOff, Scanned
<1>2. TypeInv /\ LogInv /\ [Next]_vars => LogInv'
  <2> SUFFICES ASSUME TypeInv, LogInv, [Next]_vars PROVE LogInv'
    OBVIOUS
  <2>1. CASE UNCHANGED vars
    <3>1. \A h : /\ Got(h)' = Got(h) /\ since'[h] = since[h]
                 /\ dropped'[h] = dropped[h] /\ distributed' = distributed
                 /\ clients' = clients /\ logged' = logged
      BY <2>1 DEF vars, Got
    <3>2. \A n : OnSocket(n)' <=> OnSocket(n)
      BY <2>1 DEF OnSocket, Open, vars
    <3>3. CutOff' /\ Scanned'
      BY <2>1, <3>1, <3>2 DEF LogInv, CutOff, Scanned, Distributed, Open, vars
    <3>4. \A h \in clients : \A n : Accounted(h, n) => Accounted(h, n)'
      BY <3>1, <3>2 DEF Accounted
    <3>5. \A h \in clients : InOrder(h)'
      BY <3>1, SameOrder DEF LogInv, Follows
    <3> QED
      BY <3>1, <3>3, <3>4, <3>5 DEF LogInv, Follows
  <2>2. CASE Next
    <3>1. CutOff'
      BY <2>2, CutOffStays DEF LogInv
    <3>2. CASE Distribute
      BY <3>1, <3>2, DistributeFollows DEF LogInv
    <3>3. CASE ~Distribute
      <4>1. \A n : OnSocket(n) => OnSocket(n)'
        BY <2>2, <3>3, LinesStay DEF LogInv
      <4>2. /\ UNCHANGED <<distributed, dropped>>
            /\ \A h \in clients : h \in clients' /\ Got(h)' = Got(h)
                                  /\ since'[h] = since[h]
        BY <2>2, <3>3, CallsKeep
      <4>3. \A n \in 1..logged' : n \in 1..logged \/ OnSocket(n)'
        <5>1. ASSUME NEW e \in Emulators, NEW tooLong \in BOOLEAN,
                     Log(e, tooLong), NEW n \in 1..logged'
              PROVE  n \in 1..logged \/ OnSocket(n)'
          <6>1. logged' = logged + 1 /\ logged \in Nat
            BY <5>1, BoundsAreNat DEF Log, TypeInv, TypeOK
          <6>2. n \in 1..logged \/ n = logged + 1
            BY <5>1, <6>1
          <6>3. n = logged + 1 => OnSocket(n)'
            BY <5>1, LoggedIsOnSocket DEF LogInv
          <6> QED
            BY <6>2, <6>3
        <5>2. CASE logged' = logged
          BY <5>2
        <5>3. \/ logged' = logged
              \/ \E e \in Emulators, tooLong \in BOOLEAN : Log(e, tooLong)
          BY <2>2 DEF Next, Boot, HangUp, Accept, ScanEnds, Distribute,
                      Listen, Recv, Send, SendFails, ClientStops,
                      ClientReads, ClientCancels
        <5> QED
          BY <5>1, <5>2, <5>3
      <4>4. \A n : Distributed(n)' <=> Distributed(n)
        BY <4>2 DEF Distributed
      <4>5. Scanned'
        BY <4>1, <4>3, <4>4 DEF LogInv, Scanned
      <4>6. ASSUME NEW h \in clients PROVE Follows(h)'
        <5>1. /\ dropped' = dropped /\ distributed' = distributed
              /\ Got(h)' = Got(h) /\ since'[h] = since[h]
          BY <4>2
        <5>2. \A n : Accounted(h, n) \/ OnSocket(n)' => Accounted(h, n)'
          BY <4>1, <5>1 DEF Accounted
        <5>3. \A n \in 1..logged' : Accounted(h, n)'
          BY <4>3, <5>2 DEF LogInv, Follows
        <5>4. InOrder(h)'
          BY <5>1, SameOrder DEF LogInv, Follows
        <5> QED
          BY <5>3, <5>4 DEF Follows
      <4>7. ASSUME NEW h \in clients', h \notin clients PROVE Follows(h)'
        <5>1. Listen(h) /\ h \in Handlers
          BY <2>2, <4>7
             DEF Next, Boot, HangUp, Log, Accept, ScanEnds, Distribute,
                 Listen, Recv, Send, SendFails, ClientStops, ClientReads,
                 ClientCancels
        <5>2. /\ Got(h) = <<>> /\ Got(h)' = Got(h)
              /\ since'[h] = Len(distributed)
          <6>1. <<>> \in Seq(Nat)
            OBVIOUS
          <6>2. /\ stream[h] = <<>> /\ sending[h] = <<>>
                /\ channel[h] = <<>>
            BY <4>7, <5>1 DEF TypeInv
          <6> QED
            BY <5>1, <6>1, <6>2, ConcatEmptySeq DEF TypeInv, Listen, Got
        <5>3. InOrder(h)'
          BY <5>2, EmptySeq DEF InOrder
        <5>4. \A n \in 1..logged' : Accounted(h, n)'
          BY <4>2, <4>5, <5>2 DEF Scanned, Accounted, Distributed
        <5> QED
          BY <5>3, <5>4 DEF Follows
      <4> QED
        BY <3>1, <4>5, <4>6, <4>7 DEF LogInv
    <3> QED
      BY <3>2, <3>3
  <2> QED
    BY <2>1, <2>2
<1> QED
  BY <1>1, <1>2, TypeInvariant, PTL DEF Spec

(* Whatever emulators log, a call misses nothing but what met its channel  *)
(* full and what an oversize line cut off, however many calls there are    *)
(* and whatever the others do: this is how far the code keeps the promise  *)
(* of agent.proto:27-28, that no messages are missed.                      *)
THEOREM OnlyDroppedOrCutOffIsMissed == Spec => []MissesOnlyDroppedOrCutOff
<1>1. LogInv => MissesOnlyDroppedOrCutOff
  BY DEF LogInv, Follows, Accounted, MissesOnlyDroppedOrCutOff
<1> QED
  BY <1>1, CallsFollow, PTL
-----------------------------------------------------------------------------
(* The safety halves of NoHeadOfLineBlocking and CancelledCallEnds.  Of    *)
(* the connection being scanned, the first line is distributed next, or    *)
(* ends the scan if it is oversize; neither asks anything of a call.       *)
IsAt(q, i, line) == i \in 1..Len(q) /\ q[i] = line

LinesMoveUp ==
    [][reading # 0 =>
          LET q == socket[reading] IN
          \A i \in 1..Len(q) :
              IF Distribute
              THEN /\ reading' = reading
                   /\ IF i = 1 THEN distributed' = Append(distributed, q[i])
                      ELSE IsAt(socket'[reading], i - 1, q[i])
              ELSE \/ ScanEnds
                   \/ /\ reading' = reading
                      /\ IsAt(socket'[reading], i, q[i])]_vars

(* The handler of a client that is gone has a line to fail with: the one   *)
(* that it is sending or the next on its channel.                          *)
HasLineToFailWith(h) ==
    /\ h \in cancelled
    /\ handler[h] = "send" \/ (handler[h] = "recv" /\ channel[h] # <<>>)

CallsEndInSteps ==
    [][\A h \in Handlers : HasLineToFailWith(h) =>
          IF Recv(h) THEN handler'[h] = "send" /\ HasLineToFailWith(h)'
          ELSE IF Send(h) \/ SendFails(h) THEN handler'[h] = "done"
          ELSE HasLineToFailWith(h)' /\ handler'[h] = handler[h]]_vars

(* A line on the connection being scanned moves up with every line that is *)
(* distributed until it is distributed itself, and nothing that calls and  *)
(* their clients do or leave undone keeps it from there.                   *)
THEOREM NobodyHoldsUpLines == Spec => LinesMoveUp
<1> DEFINE q == socket[reading]
           Moves(i) ==
              IF Distribute
              THEN /\ reading' = reading
                   /\ IF i = 1 THEN distributed' = Append(distributed, q[i])
                      ELSE IsAt(socket'[reading], i - 1, q[i])
              ELSE \/ ScanEnds
                   \/ /\ reading' = reading
                      /\ IsAt(socket'[reading], i, q[i])
<1>1. TypeInv /\ [Next]_vars =>
        [reading # 0 => \A i \in 1..Len(q) : Moves(i)]_vars
  <2> SUFFICES ASSUME TypeInv, Next, reading # 0, NEW i \in 1..Len(q)
               PROVE  Moves(i)
    OBVIOUS
  <2>1. reading \in Emulators /\ q \in Seq(Nat) /\ Len(q) \in Nat
    <3>1. reading \in Emulators
      BY BoundsAreNat DEF TypeInv, TypeOK, Emulators
    <3>2. q \in Seq(Nat)
      BY <3>1 DEF TypeInv
    <3> QED
      BY <3>1, <3>2, LenProperties
  <2> HIDE DEF q
  <2>2. CASE Distribute
    <3>1. /\ reading' = reading
          /\ q # <<>> /\ distributed' = Append(distributed, Head(q))
          /\ socket' = [socket EXCEPT ![reading] = Tail(q)]
      BY <2>2 DEF Distribute, q
    <3>2. /\ Head(q) = q[1] /\ Len(Tail(q)) = Len(q) - 1
          /\ \A k \in 1..Len(Tail(q)) : Tail(q)[k] = q[k + 1]
      BY <2>1, <3>1, HeadTailProperties
    <3>3. socket'[reading] = Tail(q)
      BY <2>1, <3>1 DEF TypeInv
    <3>4. i # 1 => i - 1 \in 1..Len(Tail(q)) /\ (i - 1) + 1 = i
      BY <2>1, <3>2
    <3> QED
      BY <2>2, <3>1, <3>2, <3>3, <3>4 DEF IsAt
  <2>3. CASE ~Distribute /\ reading' = reading /\ socket'[reading] = q
    BY <2>3 DEF IsAt
  <2>4. CASE ~Distribute /\ UNCHANGED <<reading, socket>>
    <3>1. socket'[reading] = q
      BY <2>4 DEF q
    <3> QED
      BY <2>3, <2>4, <3>1
  <2>5. ASSUME NEW e \in Emulators, NEW tooLong \in BOOLEAN,
               Log(e, tooLong), ~Distribute
        PROVE  Moves(i)
    <3>1. PICK line \in Nat : socket' = [socket EXCEPT ![e] = Append(@, line)]
      <4>1. logged' \in Nat
        BY <2>5, BoundsAreNat DEF TypeInv, TypeOK, Log
      <4> QED
        BY <2>5, <4>1 DEF Log
    <3>2. reading' = reading
      BY <2>5 DEF Log
    <3>3. CASE e = reading
      <4>1. socket'[reading] = Append(q, line)
        BY <2>1, <3>1, <3>3 DEF TypeInv, q
      <4>2. /\ Len(Append(q, line)) = Len(q) + 1
            /\ \A k \in 1..Len(q) : Append(q, line)[k] = q[k]
        BY <2>1, AppendProperties
      <4>3. i \in 1..Len(Append(q, line))
        BY <2>1, <4>2
      <4> QED
        BY <2>5, <3>2, <4>1, <4>2, <4>3 DEF IsAt
    <3>4. CASE e # reading
      <4>1. socket'[reading] = q
        BY <2>1, <3>1, <3>4 DEF TypeInv, q
      <4> QED
        BY <2>3, <2>5, <3>2, <4>1
    <3> QED
      BY <3>3, <3>4
  <2>6. CASE ~Distribute /\ (Boot \/ \E e \in Emulators : HangUp(e))
    BY <2>4, <2>6 DEF Boot, HangUp
  <2>7. CASE ~Distribute /\ ScanEnds
    BY <2>7
  <2>8. ASSUME NEW h \in Handlers, ~Distribute,
               \/ Listen(h) \/ Recv(h) \/ Send(h) \/ SendFails(h)
               \/ ClientStops(h) \/ ClientReads(h) \/ ClientCancels(h)
        PROVE  Moves(i)
    BY <2>4, <2>8
       DEF Listen, Recv, Send, SendFails, ClientStops, ClientReads,
           ClientCancels
  <2>9. ~Accept
    BY DEF Accept
  <2> QED
    BY <2>2, <2>5, <2>6, <2>7, <2>8, <2>9 DEF Next
<1> QED
  BY <1>1, TypeInvariant, PTL DEF Spec, LinesMoveUp

(* A handler that has a line to fail with is done after at most two steps  *)
(* of its own, whatever else comes in the meantime.                        *)
THEOREM CancelledCallsEndInSteps == Spec => CallsEndInSteps
<1>1. TypeInv /\ [Next]_vars =>
        [\A h \in Handlers : HasLineToFailWith(h) =>
            IF Recv(h) THEN handler'[h] = "send" /\ HasLineToFailWith(h)'
            ELSE IF Send(h) \/ SendFails(h) THEN handler'[h] = "done"
            ELSE HasLineToFailWith(h)' /\ handler'[h] = handler[h]]_vars
  <2> SUFFICES ASSUME TypeInv, Next, NEW h \in Handlers, HasLineToFailWith(h)
               PROVE  IF Recv(h)
                      THEN handler'[h] = "send" /\ HasLineToFailWith(h)'
                      ELSE IF Send(h) \/ SendFails(h)
                      THEN handler'[h] = "done"
                      ELSE HasLineToFailWith(h)' /\ handler'[h] = handler[h]
    OBVIOUS
  <2> USE DEF HasLineToFailWith
  <2>1. handler \in [Handlers -> {"off", "recv", "send", "done"}]
    BY DEF TypeInv, TypeOK
  <2>2. CASE Recv(h)
    BY <2>1, <2>2 DEF Recv
  <2>3. CASE Send(h) \/ SendFails(h)
    BY <2>1, <2>3 DEF Recv, Send, SendFails, OnSendError
  <2>4. CASE ~(Recv(h) \/ Send(h) \/ SendFails(h))
    <3> SUFFICES /\ h \in cancelled' /\ handler'[h] = handler[h]
                 /\ channel[h] # <<>> => channel'[h] # <<>>
      BY <2>4
    <3>1. CASE \/ Boot \/ Accept \/ ScanEnds
               \/ \E e \in Emulators : HangUp(e)
               \/ \E e \in Emulators, tooLong \in BOOLEAN : Log(e, tooLong)
      BY <3>1 DEF Boot, Accept, ScanEnds, HangUp, Log
    <3>2. CASE Distribute
      <4>1. PICK line \in Nat :
              channel'[h] \in {channel[h], Append(channel[h], line)}
        <5>1. reading \in Emulators
          BY <3>2, BoundsAreNat DEF TypeInv, TypeOK, Distribute, Emulators
        <5>2. Head(socket[reading]) \in Nat
          BY <3>2, <5>1 DEF TypeInv, Distribute
        <5> QED
          BY <3>2, <5>2 DEF Distribute, Served
      <4>2. Append(channel[h], line) # <<>>
        <5>1. channel[h] \in Seq(Nat)
          BY DEF TypeInv
        <5> QED
          BY <5>1, AppendProperties, Zenon
      <4> QED
        BY <3>2, <4>1, <4>2 DEF Distribute
    <3>3. ASSUME NEW g \in Handlers, g # h, Recv(g) \/ Send(g) \/ SendFails(g)
          PROVE  /\ h \in cancelled' /\ handler'[h] = handler[h]
                 /\ channel'[h] = channel[h]
      BY <2>1, <3>3 DEF TypeInv, Recv, Send, SendFails
    <3>4. ASSUME NEW g \in Handlers, Listen(g)
          PROVE  /\ h \in cancelled' /\ handler'[h] = handler[h]
                 /\ channel'[h] = channel[h]
      BY <2>1, <3>4 DEF TypeInv, Listen
    <3>5. ASSUME NEW g \in Handlers,
                 ClientStops(g) \/ ClientReads(g) \/ ClientCancels(g)
          PROVE  /\ h \in cancelled' /\ handler'[h] = handler[h]
                 /\ channel'[h] = channel[h]
      BY <3>5 DEF ClientStops, ClientReads, ClientCancels
    <3> QED
      BY <2>4, <3>1, <3>2, <3>3, <3>4, <3>5 DEF Next
  <2> QED
    BY <2>2, <2>3, <2>4
<1> QED
  BY <1>1, TypeInvariant, PTL DEF Spec, CallsEndInSteps
=============================================================================
