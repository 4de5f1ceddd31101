--------------------------- MODULE DisplayProofs ---------------------------
(***************************************************************************)
(* The safety properties of Display, for any number of streams, sizes,     *)
(* emulators and pictures.                                                 *)
(***************************************************************************)
EXTENDS Display, TLAPS

USE DEF emulator, links, register, calls, R!Publish, R!Deliver

(* Sizes have two positive sides.                                          *)
LEMMA SidesAreNat ==
    ASSUME NEW s \in Sizes
    PROVE  s[1] \in Nat \ {0} /\ s[2] \in Nat \ {0} /\ s # NoSize
BY SizesArePositive DEF NoSize

(* The memory's file has a length.                                         *)
LEMMA PagesAreNat ==
    ASSUME NEW s \in Sizes
    PROVE  Pages(s) \in Nat
<1>1. s[1] \in Nat /\ s[2] \in Nat
  BY SidesAreNat
<1>2. 3 * s[1] * s[2] \in Nat
  BY <1>1
<1> DEFINE n == 3 * s[1] * s[2]
<1> HIDE DEF n
<1>3. (n + 4095) \div 4096 \in Nat
  BY <1>2 DEF n
<1> QED
  BY <1>3 DEF Pages, n

(* Below 2^26, float32 has every multiple of four.                         *)
LEMMA FloatIsExact ==
    ASSUME NEW n \in Nat, n < 67108864, n % 4 = 0
    PROVE  RoundF(n) = n
<1>1. \E u \in {1, 2, 4, 8, 16, 32, 64} :
        n < 16777216 * u /\ (u = 1 \/ n >= 8388608 * u)
  <2>1. CASE n < 16777216
    BY <2>1
  <2>2. CASE 16777216 <= n /\ n < 33554432
    <3>1. n < 16777216 * 2 /\ n >= 8388608 * 2
      BY <2>2
    <3> QED
      BY <3>1
  <2>3. CASE 33554432 <= n
    <3>1. n < 16777216 * 4 /\ n >= 8388608 * 4
      BY <2>3
    <3> QED
      BY <3>1
  <2> QED
    BY <2>1, <2>2, <2>3
<1> DEFINE u == Ulp(n)
<1>2. /\ u \in {1, 2, 4, 8, 16, 32, 64}
      /\ n < 16777216 * u /\ (u = 1 \/ n >= 8388608 * u)
  BY <1>1 DEF Ulp
<1> HIDE DEF u
<1>3. u \in {1, 2, 4}
  BY <1>2
<1>4. n % u = 0 /\ u * (n \div u) = n
  BY <1>3
<1>5. n \div u \in Nat
  BY <1>3
<1>6. RoundF(n) = u * (n \div u)
  BY <1>3, <1>4, <1>5 DEF RoundF, u
<1> QED
  BY <1>4, <1>6

(* For even sides whose product float32 has, RgbToYuv writes exactly the   *)
(* bytes that it has allocated and that Image.Read takes: no such size is  *)
(* read past the end, and only an odd or a large one can make it panic.    *)
THEOREM EvenSizesConvert ==
    ASSUME NEW w \in Nat, NEW h \in Nat, w % 2 = 0, h % 2 = 0,
           3 * (w * h) < 67108864
    PROVE  /\ YuvWritten(w, h) = YuvSize(w, h)
           /\ ImageReads(w, h) = YuvSize(w, h)
<1> DEFINE a == w \div 2
           b == h \div 2
<1>1. a \in Nat /\ b \in Nat /\ w = 2 * a /\ h = 2 * b
  OBVIOUS
<1>2. Halved(w) = a /\ Halved(h) = b
  BY <1>1 DEF Halved
<1> DEFINE p == a * b
<1>3. p \in Nat /\ w * h = 4 * p
  BY <1>1
<1>4. YuvSize(w, h) = 6 * p
  <2> HIDE DEF p
  <2>1. RoundF(w * h) = 4 * p
    BY <1>3, FloatIsExact
  <2>2. RoundF(3 * (4 * p)) = 12 * p
    <3>1. 12 * p \in Nat /\ 12 * p < 67108864 /\ (12 * p) % 4 = 0
      BY <1>3
    <3>2. 3 * (4 * p) = 12 * p
      BY <1>3
    <3> QED
      BY <3>1, <3>2, FloatIsExact
  <2>3. (12 * p) \div 2 = 6 * p
    BY <1>3
  <2> QED
    BY <2>1, <2>2, <2>3 DEF YuvSize
<1>5. YuvWritten(w, h) = 4 * p + 2 * p
  BY <1>2, <1>3 DEF YuvWritten
<1>6. ImageReads(w, h) = 4 * p + 2 * p
  BY <1>2, <1>3 DEF ImageReads, Halved
<1> HIDE DEF p
<1> QED
  BY <1>3, <1>4, <1>5, <1>6
-----------------------------------------------------------------------------
(* A processDisplay has the size of an emulator that there was, and what   *)
(* is to be sent has the size of its encoder.                              *)
TypeInv ==
    /\ TypeOK
    /\ \A e \in Lives :
         /\ joined[e] <= lives
         /\ link[e] # "unborn" => sizeOf[e] \in Sizes
    /\ \A s \in Streams : pc[s] = "send" => encoder[s] = got[s].size

(* What the emulators and their connections have to do with it ...         *)
EmulatorOK ==
    /\ alive \in BOOLEAN /\ crowded \in BOOLEAN
    /\ fate \in {"up", "panic", "fatal", "fault"}
    /\ lives \in 0..MaxLives /\ sizeOf \in [Lives -> Sizes \cup {NoSize}]
    /\ top \in Halves /\ bottom \in Halves /\ drawn \in 0..MaxPictures
    /\ writing \in [Lives -> 0..MaxPictures] /\ pages \in Nat
    /\ joined \in [Lives -> 0..MaxLives] /\ notices \in [Lives -> Nat]
    /\ link \in [Lives -> {"unborn", "dial", "recv", "top", "bottom",
                           "publish", "off"}]
    /\ buffer \in [Lives -> Frames \cup {NoFrame}]
    /\ \A e \in Lives :
         /\ link[e] = "unborn" <=> e > lives
         /\ link[e] \in {"bottom", "publish"} => buffer[e] # NoFrame
         /\ writing[e] # 0 => Connected(e) \/ fate # "up"
         /\ joined[e] <= lives
         /\ link[e] # "unborn" => sizeOf[e] \in Sizes

(* ... and what the calls.                                                 *)
CallsOK ==
    /\ version \in Nat /\ latest \in Frames \cup {NoFrame}
    /\ seen \in [Streams -> Nat] /\ got \in [Streams -> Frames \cup {NoFrame}]
    /\ pc \in [Streams -> {"off", "wait", "frame", "send", "next", "ended"}]
    /\ rate \in [Streams -> Rates]
    /\ encoder \in [Streams -> Sizes \cup {NoSize}]
    /\ fresh \in [Streams -> BOOLEAN]
    /\ shown \in [Streams -> Packets \cup {NotYet}]
    /\ client \in [Streams -> {"reads", "away"}]
    /\ version > 0 => latest # NoFrame
    /\ \A s \in Streams :
         /\ pc[s] \in {"frame", "send"} => got[s] # NoFrame
         /\ pc[s] = "send" => encoder[s] = got[s].size

(* These are the two parts of the type invariant.                          *)
LEMMA TypeParts == TypeInv <=> EmulatorOK /\ CallsOK
BY DEF TypeInv, TypeOK, EmulatorOK, CallsOK

(* No step of an emulator or a connection harms the first part.            *)
LEMMA EmulatorStaysOK == EmulatorOK /\ [Next]_vars => EmulatorOK'
<1> SUFFICES ASSUME EmulatorOK, [Next]_vars PROVE EmulatorOK'
  OBVIOUS
<1> USE DEF EmulatorOK, Connected, Working
<1>1. ASSUME NEW x \in Sizes, Boot(x)
      PROVE  EmulatorOK'
  <2>1. lives' \in Lives /\ lives' = lives + 1
    BY <1>1, BoundsAreNat DEF Boot, Lives
  <2>2. \A e \in Lives : e \in Nat
    BY BoundsAreNat DEF Lives
  <2>3. lives' \in 0..MaxLives
    BY <2>1, BoundsAreNat DEF Lives
  <2> QED
    BY <1>1, <2>1, <2>2, <2>3, BoundsAreNat DEF Boot
<1>2. ASSUME NEW e \in Lives, DrawTop(e)
      PROVE  EmulatorOK'
  <2>1. top' \in Halves /\ drawn' \in 0..MaxPictures
    BY <1>2, BoundsAreNat DEF DrawTop, BeginPicture, Halves
  <2> QED
    BY <1>2, <2>1 DEF DrawTop, BeginPicture
<1>3. ASSUME NEW e \in Lives, DrawBottom(e)
      PROVE  EmulatorOK'
  <2>1. bottom' \in Halves
    BY <1>3, BoundsAreNat DEF DrawBottom, Halves
  <2> QED
    BY <1>3, <2>1, BoundsAreNat DEF DrawBottom
<1>4. CASE Die
  <2>1. \A e \in Lives : writing'[e] = 0
    BY <1>4 DEF Die
  <2>2. writing' \in [Lives -> 0..MaxPictures]
    BY <1>4, BoundsAreNat DEF Die
  <2> QED
    BY <1>4, <2>1, <2>2 DEF Die
<1>5. ASSUME NEW e \in Lives, Attach(e)
      PROVE  EmulatorOK'
  <2>1. top' \in Halves /\ drawn' \in 0..MaxPictures
    BY <1>5, BoundsAreNat DEF Attach, BeginPicture, Halves
  <2>2. pages' \in Nat
    BY <1>5, PagesAreNat DEF Attach
  <2>3. /\ link[e] = "dial" /\ link' = [link EXCEPT ![e] = "recv"]
        /\ joined' = [joined EXCEPT ![e] = lives]
        /\ crowded' \in BOOLEAN
        /\ writing' = [writing EXCEPT ![e] = drawn']
        /\ UNCHANGED <<alive, lives, sizeOf, bottom, notices, buffer, fate>>
    BY <1>5 DEF Attach, BeginPicture
  <2>4. lives \in Nat /\ lives <= lives
    BY BoundsAreNat
  <2>5. fate = "up" /\ alive
    BY <1>5 DEF Attach
  <2> QED
    BY <2>1, <2>2, <2>3, <2>4, <2>5
<1>6. ASSUME NEW e \in Lives, AttachFails(e)
      PROVE  EmulatorOK'
  <2>1. pages' \in Nat
    BY <1>6, PagesAreNat DEF AttachFails
  <2> QED
    BY <1>6, <2>1 DEF AttachFails
<1>7. ASSUME NEW e \in Lives, Receive(e)
      PROVE  EmulatorOK'
  BY <1>7 DEF Receive, Process, Follows
<1>8. ASSUME NEW e \in Lives, CopyTop(e)
      PROVE  EmulatorOK'
  <2>1. sizeOf[e] \in Sizes /\ InSize(top, sizeOf[e]) \in 0..MaxPictures
    BY <1>8, BoundsAreNat DEF CopyTop, Process, InSize, Halves
  <2>2. [size |-> sizeOf[e], top |-> InSize(top, sizeOf[e]), bottom |-> 0]
          \in Frames
    BY <2>1, BoundsAreNat DEF Frames
  <2> QED
    BY <1>8, <2>2, NoneIsAFrame DEF CopyTop, Process, Follows
<1>9. ASSUME NEW e \in Lives, CopyBottom(e)
      PROVE  EmulatorOK'
  <2>1. /\ buffer[e] \in Frames
        /\ InSize(bottom, sizeOf[e]) \in 0..MaxPictures
    BY <1>9, BoundsAreNat DEF CopyBottom, Process, InSize, Halves
  <2>2. buffer'[e] \in Frames
    BY <1>9, <2>1 DEF CopyBottom, Frames
  <2> QED
    BY <1>9, <2>2, NoneIsAFrame DEF CopyBottom, Process, Follows
<1>10. ASSUME NEW e \in Lives, CopyFaults(e)
       PROVE  EmulatorOK'
  BY <1>10 DEF CopyFaults
<1>11. ASSUME NEW e \in Lives, OnEmulatorFrame(e)
       PROVE  EmulatorOK'
  BY <1>11 DEF OnEmulatorFrame, Process, Follows
<1>12. ASSUME NEW e \in Lives, ConnectionLost(e)
       PROVE  EmulatorOK'
  BY <1>12, BoundsAreNat DEF ConnectionLost
<1>13. ASSUME NEW s \in Streams, Open(s) \/ Handler(s)
       PROVE  EmulatorOK'
  <2>1. /\ UNCHANGED <<emulator, notices, links>> /\ fate = "up"
        /\ fate' \in {"up", "panic", "fatal"}
    BY <1>13
       DEF Open, Handler, Wait, Resize, EncoderFails, Convert, ConvertPanics,
           CodecFails, Send, SendFails, Again, TickerPanics, Call
  <2> QED
    BY <2>1
<1>14. ASSUME NEW s \in Streams, NEW how \in {"reads", "away"},
              ClientTurns(s, how)
       PROVE  EmulatorOK'
  BY <1>14 DEF ClientTurns
<1>15. CASE UNCHANGED vars
  BY <1>15 DEF vars
<1> QED
  BY <1>1, <1>2, <1>3, <1>4, <1>5, <1>6, <1>7, <1>8, <1>9, <1>10, <1>11,
     <1>12, <1>13, <1>14, <1>15
     DEF Next, Emulator, DisplayLoop, Down

(* No step harms the second part, given the first.                         *)
LEMMA CallsStayOK == EmulatorOK /\ CallsOK /\ [Next]_vars => CallsOK'
<1> SUFFICES ASSUME EmulatorOK, CallsOK, [Next]_vars PROVE CallsOK'
  OBVIOUS
<1> USE DEF CallsOK
<1>1. CASE UNCHANGED <<register, calls, client>>
  BY <1>1
<1>2. CASE Emulator
  BY <1>1, <1>2
     DEF Emulator, Boot, DrawTop, BeginPicture, DrawBottom, Die
<1>3. ASSUME NEW e \in Lives,
             \/ Attach(e) \/ AttachFails(e) \/ Receive(e) \/ CopyTop(e)
             \/ CopyBottom(e) \/ CopyFaults(e) \/ ConnectionLost(e)
      PROVE  CallsOK'
  <2>1. UNCHANGED <<register, calls, client>>
    BY <1>3
       DEF Attach, BeginPicture, AttachFails, Receive, CopyTop, CopyBottom,
           CopyFaults, ConnectionLost, Process
  <2> QED
    BY <2>1, <1>1
<1>4. ASSUME NEW e \in Lives, OnEmulatorFrame(e)
      PROVE  CallsOK'
  BY <1>4 DEF EmulatorOK, OnEmulatorFrame, Process
<1>5. ASSUME NEW s \in Streams, Open(s)
      PROVE  CallsOK'
  BY <1>5 DEF Open, Call
<1>6. ASSUME NEW s \in Streams, Wait(s)
      PROVE  CallsOK'
  BY <1>6 DEF Wait, Call
<1>7. ASSUME NEW s \in Streams, Resize(s)
      PROVE  CallsOK'
  <2>1. got[s] \in Frames
    BY <1>7 DEF Resize, Call
  <2>2. got[s].size \in Sizes
    BY <2>1 DEF Frames
  <2> QED
    BY <1>7, <2>2 DEF Resize, FreshAfterResize, Call
<1>8. ASSUME NEW s \in Streams, EncoderFails(s) \/ Convert(s)
      PROVE  CallsOK'
  BY <1>8 DEF EncoderFails, Convert, Call
<1>9. ASSUME NEW s \in Streams, ConvertPanics(s) \/ CodecFails(s)
      PROVE  CallsOK'
  BY <1>9 DEF ConvertPanics, CodecFails, Call
<1>10. ASSUME NEW s \in Streams, Send(s)
       PROVE  CallsOK'
  <2>1. PICK overdue \in BOOLEAN :
          shown' = [shown EXCEPT ![s] = [key    |-> fresh[s] \/ overdue,
                                         size   |-> encoder[s],
                                         top    |-> got[s].top,
                                         bottom |-> got[s].bottom]]
    BY <1>10 DEF Send
  <2>2. got[s] \in Frames /\ encoder[s] = got[s].size
    BY <1>10 DEF Send, Call
  <2>3. /\ encoder[s] \in Sizes
        /\ got[s].top \in 0..MaxPictures /\ got[s].bottom \in 0..MaxPictures
    BY <2>2 DEF Frames
  <2>4. (fresh[s] \/ overdue) \in BOOLEAN
    OBVIOUS
  <2>5. shown'[s] \in Packets
    BY <2>1, <2>3, <2>4 DEF Packets
  <2>6. shown' \in [Streams -> Packets \cup {NotYet}]
    BY <2>1, <2>5
  <2> QED
    BY <1>10, <2>6 DEF Send, Call
<1>11. ASSUME NEW s \in Streams, SendFails(s) \/ Again(s) \/ TickerPanics(s)
       PROVE  CallsOK'
  BY <1>11 DEF SendFails, Again, SameListener, TickerPanics, Call
<1>12. ASSUME NEW s \in Streams, NEW how \in {"reads", "away"},
              ClientTurns(s, how)
       PROVE  CallsOK'
  BY <1>12 DEF ClientTurns
<1>13. CASE UNCHANGED vars
  BY <1>13 DEF vars
<1> QED
  BY <1>2, <1>3, <1>4, <1>5, <1>6, <1>7, <1>8, <1>9, <1>10, <1>11, <1>12,
     <1>13
     DEF Next, DisplayLoop, Handler, Down

(* The types are inductive.                                                *)
LEMMA TypeInvariant == Spec => []TypeInv
<1>1. Init => EmulatorOK
  <2> SUFFICES ASSUME Init PROVE EmulatorOK
    OBVIOUS
  <2>1. 0 \in 0..MaxPictures /\ 0 \in 0..MaxLives
    BY BoundsAreNat
  <2>2. top \in Halves /\ bottom \in Halves
    BY <2>1 DEF Init, Halves
  <2>3. \A e \in Lives : e > 0
    BY BoundsAreNat DEF Lives
  <2>4. /\ alive \in BOOLEAN /\ crowded \in BOOLEAN /\ fate = "up"
        /\ lives \in 0..MaxLives /\ lives = 0 /\ drawn \in 0..MaxPictures
        /\ pages \in Nat /\ sizeOf \in [Lives -> Sizes \cup {NoSize}]
        /\ writing \in [Lives -> 0..MaxPictures]
        /\ joined \in [Lives -> 0..MaxLives] /\ notices \in [Lives -> Nat]
        /\ buffer \in [Lives -> Frames \cup {NoFrame}]
    BY <2>1 DEF Init
  <2>5. link \in [Lives -> {"unborn", "dial", "recv", "top", "bottom",
                            "publish", "off"}]
    BY DEF Init
  <2>6. \A e \in Lives :
          writing[e] = 0 /\ joined[e] = 0 /\ link[e] = "unborn"
    BY DEF Init
  <2>7. \A e \in Lives : joined[e] <= lives
    BY <2>4, <2>6
  <2> QED
    BY <2>2, <2>3, <2>4, <2>5, <2>6, <2>7 DEF EmulatorOK
<1>2. Init => CallsOK
  BY DEF Init, R!Init, CallsOK
<1>3. Init => TypeInv
  BY <1>1, <1>2, TypeParts
<1>4. TypeInv /\ [Next]_vars => EmulatorOK' /\ CallsOK'
  BY TypeParts, EmulatorStaysOK, CallsStayOK
<1>5. EmulatorOK' /\ CallsOK' => TypeInv'
  BY TypeParts, PTL
<1> QED
  BY <1>3, <1>4, <1>5, PTL DEF Spec

(* Every field keeps its type, and no call works on a frame it has not.    *)
THEOREM TypeCorrect == Spec => []TypeOK
<1>1. TypeInv => TypeOK
  BY DEF TypeInv
<1> QED
  BY <1>1, TypeInvariant, PTL
-----------------------------------------------------------------------------
(* As long as no processDisplay opens the memory while another uses it,    *)
(* the one at work is alone, and what it is told of is drawn in its size.  *)
Alone ==
    /\ top.of = drawn /\ bottom.of <= drawn
    /\ \A e \in Lives :
         /\ writing[e] <= drawn
         /\ ~Working(e) => notices[e] = 0
    /\ ~crowded => \A e \in Lives : Working(e) =>
         /\ \A f \in Lives : Working(f) => f = e
         /\ pages = Pages(sizeOf[e])
         /\ top.size = sizeOf[e] /\ writing[e] \in {0, drawn}
         /\ notices[e] > 0 \/ link[e] # "recv" => bottom.size = sizeOf[e]

(* That is inductive.                                                      *)
LEMMA OneAtATime == Spec => []Alone
<1>1. Init => Alone
  BY BoundsAreNat DEF Init, Alone, Working
<1>2. TypeInv /\ Alone /\ [Next]_vars => Alone'
  <2> SUFFICES ASSUME EmulatorOK, Alone, [Next]_vars PROVE Alone'
    BY TypeParts
  <2> USE DEF EmulatorOK, Alone, Working
  <2>0. /\ drawn \in Nat /\ bottom.of \in Nat
        /\ \A e \in Lives : writing[e] \in Nat
    BY BoundsAreNat DEF Halves
  <2>1. ASSUME NEW x \in Sizes, Boot(x)
        PROVE  Alone'
    <3>1. lives' \in Lives /\ link[lives'] = "unborn"
      BY <2>1, BoundsAreNat DEF Boot, Lives
    <3> QED
      BY <2>1, <3>1 DEF Boot
  <2>2. ASSUME NEW e \in Lives, DrawTop(e)
        PROVE  Alone'
    <3>1. top'.of = drawn' /\ top'.size = sizeOf[e] /\ drawn' = drawn + 1
      BY <2>2 DEF DrawTop, BeginPicture
    <3> QED
      BY <2>0, <2>2, <3>1 DEF DrawTop, BeginPicture, Connected
  <2>3. ASSUME NEW e \in Lives, DrawBottom(e)
        PROVE  Alone'
    <3>1. bottom'.of = writing[e] /\ bottom'.size = sizeOf[e]
      BY <2>3 DEF DrawBottom
    <3> QED
      BY <2>0, <2>3, <3>1 DEF DrawBottom, Connected
  <2>4. CASE Die
    BY <2>0, <2>4 DEF Die
  <2>5. ASSUME NEW e \in Lives, Attach(e)
        PROVE  Alone'
    <3>1. top'.of = drawn' /\ top'.size = sizeOf[e] /\ drawn' = drawn + 1
      BY <2>5 DEF Attach, BeginPicture
    <3>2. \A f \in Lives : writing'[f] <= drawn'
      BY <2>0, <2>5, <3>1 DEF Attach, BeginPicture
    <3>3. ASSUME ~crowded', NEW f \in Lives, Working(f)'
          PROVE  f = e
      BY <2>5, <3>3 DEF Attach
    <3>4. pages' = Pages(sizeOf'[e]) /\ writing'[e] = drawn'
      BY <2>5 DEF Attach, BeginPicture
    <3>5. link'[e] = "recv" /\ notices'[e] = notices[e]
      BY <2>5 DEF Attach, BeginPicture
    <3>6. ~(notices[e] > 0)
      BY <2>5 DEF Attach
    <3> QED
      BY <2>0, <2>5, <3>1, <3>2, <3>3, <3>4, <3>5, <3>6
         DEF Attach, BeginPicture
  <2>6. ASSUME NEW e \in Lives, AttachFails(e)
        PROVE  Alone'
    BY <2>6 DEF AttachFails
  <2>7. ASSUME NEW e \in Lives, Receive(e)
        PROVE  Alone'
    BY <2>7 DEF Receive, Process, Follows
  <2>8. ASSUME NEW e \in Lives, CopyTop(e) \/ CopyBottom(e)
        PROVE  Alone'
    BY <2>8 DEF CopyTop, CopyBottom, Process, Follows
  <2>9. ASSUME NEW e \in Lives, OnEmulatorFrame(e)
        PROVE  Alone'
    BY <2>9 DEF OnEmulatorFrame, Process, Follows
  <2>10. ASSUME NEW e \in Lives, ConnectionLost(e)
         PROVE  Alone'
    BY <2>0, <2>10 DEF ConnectionLost
  <2>11. ASSUME NEW e \in Lives, CopyFaults(e)
         PROVE  Alone'
    BY <2>11 DEF CopyFaults
  <2>12. ASSUME NEW s \in Streams, Open(s) \/ Handler(s)
         PROVE  Alone'
    <3>1. UNCHANGED <<emulator, notices, links>>
      BY <2>12
         DEF Open, Handler, Wait, Resize, EncoderFails, Convert,
             ConvertPanics, CodecFails, Send, SendFails, Again, TickerPanics,
             Call
    <3> QED
      BY <3>1
  <2>13. ASSUME NEW s \in Streams, NEW how \in {"reads", "away"},
                ClientTurns(s, how)
         PROVE  Alone'
    BY <2>13 DEF ClientTurns
  <2>14. CASE UNCHANGED vars
    BY <2>14 DEF vars
  <2> QED
    BY <2>1, <2>2, <2>3, <2>4, <2>5, <2>6, <2>7, <2>8, <2>9, <2>10, <2>11,
       <2>12, <2>13, <2>14
       DEF Next, Emulator, DisplayLoop, Down
<1> QED
  BY <1>1, <1>2, TypeInvariant, PTL DEF Spec

(* Whatever sizes emulators have, RgbToYuv and the ticker panic only for   *)
(* an odd or a large side and a rate above 1e9, and no copy runs past the  *)
(* end of the memory unless another processDisplay has opened it.          *)
THEOREM GoesDownForAReason == Spec => []DownForAReason
<1>1. Init => DownForAReason
  BY DEF Init, DownForAReason
<1>2. TypeInv /\ Alone /\ DownForAReason /\ [Next]_vars => DownForAReason'
  <2> SUFFICES ASSUME TypeInv, Alone, DownForAReason, [Next]_vars
               PROVE  DownForAReason'
    OBVIOUS
  <2> USE DEF DownForAReason
  <2>1. CASE UNCHANGED <<fate, crowded, rate, encoder>>
    BY <2>1
  <2>2. CASE fate' = "up" \/ fate' = "fatal"
    BY <2>2
  <2>3. CASE Emulator
    BY <2>1, <2>3 DEF Emulator, Boot, DrawTop, BeginPicture, DrawBottom, Die
  <2>4. ASSUME NEW e \in Lives, Attach(e) \/ AttachFails(e)
        PROVE  DownForAReason'
    BY <2>2, <2>4 DEF Attach, AttachFails, BeginPicture
  <2>5. ASSUME NEW e \in Lives,
               \/ Receive(e) \/ CopyTop(e) \/ CopyBottom(e)
               \/ OnEmulatorFrame(e) \/ ConnectionLost(e)
        PROVE  DownForAReason'
    BY <2>1, <2>5
       DEF Receive, CopyTop, CopyBottom, OnEmulatorFrame, ConnectionLost,
           Process
  <2>6. ASSUME NEW e \in Lives, CopyFaults(e)
        PROVE  DownForAReason'
    <3>1. sizeOf[e] \in Sizes
      BY <2>6 DEF CopyFaults, TypeInv, TypeOK
    <3>2. pages # Pages(sizeOf[e])
      BY <2>6, <3>1, PagesAreNat DEF CopyFaults, TypeInv, TypeOK
    <3>3. crowded
      BY <2>6, <3>2 DEF CopyFaults, Alone, Working
    <3> QED
      BY <2>6, <3>3 DEF CopyFaults
  <2>7. ASSUME NEW s \in Streams,
               \/ Open(s) \/ Wait(s) \/ Resize(s) \/ EncoderFails(s)
               \/ Convert(s) \/ CodecFails(s) \/ Send(s) \/ SendFails(s)
               \/ Again(s)
        PROVE  DownForAReason'
    BY <2>2, <2>7
       DEF Open, Wait, Resize, EncoderFails, Convert, CodecFails, Send,
           SendFails, Again, Call
  <2>8. ASSUME NEW s \in Streams, ConvertPanics(s)
        PROVE  DownForAReason'
    <3>1. /\ encoder[s] \in Sizes /\ encoder' = encoder
          /\ fate' = "panic" /\ encoder[s] = got[s].size
      BY <2>8 DEF TypeInv, TypeOK, Frames, ConvertPanics, Call
    <3> DEFINE w == encoder[s][1]
               h == encoder[s][2]
    <3>2. w \in Nat /\ h \in Nat /\ ~Converts(w, h)
      BY <2>8, <3>1, SidesAreNat DEF ConvertPanics, Width, Height
    <3>3. CASE w % 2 = 0 /\ h % 2 = 0 /\ 3 * (w * h) < 67108864
      <4>1. YuvWritten(w, h) = YuvSize(w, h)
        BY <3>2, <3>3, EvenSizesConvert
      <4>2. w * h \in Nat /\ Halved(w) * Halved(h) \in Nat
        BY <3>2 DEF Halved
      <4>3. YuvWritten(w, h) \in Nat
        BY <4>2 DEF YuvWritten
      <4> QED
        BY <3>2, <4>1, <4>3 DEF Converts
    <3>4. CASE ~(w % 2 = 0 /\ h % 2 = 0)
      BY <3>1, <3>2, <3>4 DEF Odd
    <3>5. CASE ~(3 * (w * h) < 67108864)
      <4>1. w * h \in Nat
        BY <3>2
      <4>2. Large(encoder[s])
        BY <3>5, <4>1 DEF Large
      <4> QED
        BY <3>1, <4>2
    <3> QED
      BY <3>3, <3>4, <3>5
  <2>9. ASSUME NEW s \in Streams, TickerPanics(s)
        PROVE  DownForAReason'
    BY <2>9 DEF TickerPanics, Call
  <2>10. ASSUME NEW s \in Streams, NEW how \in {"reads", "away"},
                ClientTurns(s, how)
         PROVE  DownForAReason'
    BY <2>1, <2>10 DEF ClientTurns
  <2>11. CASE UNCHANGED vars
    BY <2>1, <2>11 DEF vars
  <2> QED
    BY <2>3, <2>4, <2>5, <2>6, <2>7, <2>8, <2>9, <2>10, <2>11
       DEF Next, DisplayLoop, Handler, Down
<1> QED
  BY <1>1, <1>2, TypeInvariant, OneAtATime, PTL DEF Spec
-----------------------------------------------------------------------------
(* A call that is not to send a keyframe has sent a frame of its encoder's *)
(* size.                                                                   *)
KeyInv ==
    \A s \in Streams :
        ~fresh[s] => shown[s] # NotYet /\ shown[s].size = encoder[s]

(* That is inductive.                                                      *)
LEMMA KeyframesWhereNeeded == Spec => []KeyInv
<1>1. Init => KeyInv
  BY DEF Init, KeyInv
<1>2. TypeInv /\ KeyInv /\ [Next]_vars => KeyInv'
  <2> SUFFICES ASSUME CallsOK, KeyInv, [Next]_vars PROVE KeyInv'
    BY TypeParts
  <2> USE DEF CallsOK, KeyInv
  <2>1. CASE UNCHANGED <<fresh, shown, encoder>>
    BY <2>1
  <2>2. CASE Emulator
    BY <2>1, <2>2 DEF Emulator, Boot, DrawTop, BeginPicture, DrawBottom, Die
  <2>3. ASSUME NEW e \in Lives,
               \/ Attach(e) \/ AttachFails(e) \/ DisplayLoop(e)
               \/ ConnectionLost(e)
        PROVE  KeyInv'
    <3>1. UNCHANGED <<fresh, shown, encoder>>
      BY <2>3
         DEF Attach, BeginPicture, AttachFails, DisplayLoop, Receive,
             CopyTop, CopyBottom, CopyFaults, OnEmulatorFrame,
             ConnectionLost, Process
    <3> QED
      BY <2>1, <3>1
  <2>4. ASSUME NEW s \in Streams,
               \/ Open(s) \/ Wait(s) \/ EncoderFails(s) \/ Convert(s)
               \/ ConvertPanics(s) \/ CodecFails(s) \/ SendFails(s)
               \/ Again(s) \/ TickerPanics(s)
        PROVE  KeyInv'
    BY <2>1, <2>4
       DEF Open, Wait, EncoderFails, Convert, ConvertPanics, CodecFails,
           SendFails, Again, TickerPanics, Call
  <2>5. ASSUME NEW s \in Streams, Resize(s)
        PROVE  KeyInv'
    BY <2>5 DEF Resize, FreshAfterResize, Call
  <2>6. ASSUME NEW s \in Streams, Send(s)
        PROVE  KeyInv'
    <3>1. PICK overdue \in BOOLEAN :
            shown' = [shown EXCEPT ![s] = [key    |-> fresh[s] \/ overdue,
                                           size   |-> encoder[s],
                                           top    |-> got[s].top,
                                           bottom |-> got[s].bottom]]
      BY <2>6 DEF Send
    <3>2. /\ got[s] \in Frames /\ encoder[s] = got[s].size
          /\ (fresh[s] \/ overdue) \in BOOLEAN
      BY <2>6 DEF Send, Call
    <3>3. shown'[s] \in Packets /\ shown'[s].size = encoder[s]
      BY <3>1, <3>2 DEF Frames, Packets
    <3>4. \A t \in Streams \ {s} : shown'[t] = shown[t]
      BY <3>1
    <3> QED
      BY <2>6, <3>3, <3>4, NoneIsAFrame DEF Send
  <2>7. ASSUME NEW s \in Streams, NEW how \in {"reads", "away"},
               ClientTurns(s, how)
        PROVE  KeyInv'
    BY <2>1, <2>7 DEF ClientTurns
  <2>8. CASE UNCHANGED vars
    BY <2>1, <2>8 DEF vars
  <2> QED
    BY <2>2, <2>3, <2>4, <2>5, <2>6, <2>7, <2>8 DEF Next, Handler, Down
<1> QED
  BY <1>1, <1>2, TypeInvariant, PTL DEF Spec

(* As long as one processDisplay is alone with the memory, neither half of *)
(* a picture goes back on its way from there to a client.                  *)
PicInv ==
    ~crowded =>
        /\ latest # NoFrame =>
             latest.top <= drawn /\ latest.bottom <= bottom.of
        /\ \A e \in Lives : link[e] \in {"bottom", "publish"} =>
             /\ buffer[e].top <= drawn
             /\ latest # NoFrame => latest.top <= buffer[e].top
        /\ \A e \in Lives : link[e] = "publish" =>
             /\ buffer[e].bottom <= bottom.of
             /\ latest # NoFrame => latest.bottom <= buffer[e].bottom
        /\ \A s \in Streams : got[s] # NoFrame =>
             /\ latest # NoFrame
             /\ got[s].top <= latest.top /\ got[s].bottom <= latest.bottom
        /\ \A s \in Streams : shown[s] # NotYet =>
             /\ got[s] # NoFrame
             /\ shown[s].top <= got[s].top
             /\ shown[s].bottom <= got[s].bottom

(* The pieces of pictures have numbers.                                    *)
Numbered ==
    /\ drawn \in Nat /\ bottom.of \in Nat
    /\ latest # NoFrame => latest.top \in Nat /\ latest.bottom \in Nat
    /\ \A e \in Lives : link[e] \in {"bottom", "publish"} =>
         buffer[e].top \in Nat /\ buffer[e].bottom \in Nat
    /\ \A s \in Streams :
         /\ got[s] # NoFrame => got[s].top \in Nat /\ got[s].bottom \in Nat
         /\ shown[s] # NotYet =>
              shown[s].top \in Nat /\ shown[s].bottom \in Nat

(* That is a matter of types.                                              *)
LEMMA TypesAreNumbered == TypeInv => Numbered
<1> SUFFICES ASSUME TypeInv PROVE Numbered
  OBVIOUS
<1>1. /\ drawn \in Nat /\ bottom.of \in Nat
      /\ latest # NoFrame => latest.top \in Nat /\ latest.bottom \in Nat
  BY BoundsAreNat DEF TypeInv, TypeOK, Halves, Frames
<1>2. ASSUME NEW e \in Lives, link[e] \in {"bottom", "publish"}
      PROVE  buffer[e].top \in Nat /\ buffer[e].bottom \in Nat
  BY <1>2, BoundsAreNat DEF TypeInv, TypeOK, Frames
<1>3. ASSUME NEW s \in Streams
      PROVE  /\ got[s] # NoFrame => got[s].top \in Nat /\ got[s].bottom \in Nat
             /\ shown[s] # NotYet =>
                  shown[s].top \in Nat /\ shown[s].bottom \in Nat
  BY BoundsAreNat DEF TypeInv, TypeOK, Frames, Packets
<1> QED
  BY <1>1, <1>2, <1>3 DEF Numbered

(* The order of pictures is inductive.                                     *)
LEMMA PicturesInOrder == Spec => []PicInv
<1>1. Init => PicInv
  BY BoundsAreNat DEF Init, R!Init, PicInv
<1>2. TypeInv /\ Alone /\ PicInv /\ [Next]_vars => PicInv'
  <2> SUFFICES ASSUME TypeInv, Alone, PicInv, [Next]_vars PROVE PicInv'
    OBVIOUS
  <2>0. EmulatorOK /\ CallsOK /\ Numbered
    BY TypeParts, TypesAreNumbered
  <2> USE DEF PicInv
  <2>1. ASSUME NEW x \in Sizes, Boot(x)
        PROVE  PicInv'
    <3>1. \A e \in Lives : link'[e] \in {"bottom", "publish"} =>
            link'[e] = link[e]
      BY <2>0, <2>1 DEF Boot, EmulatorOK
    <3> QED
      BY <2>1, <3>1 DEF Boot
  <2>2. ASSUME NEW e \in Lives, DrawTop(e)
        PROVE  PicInv'
    BY <2>0, <2>2 DEF Numbered, DrawTop, BeginPicture
  <2>3. ASSUME NEW e \in Lives, DrawBottom(e)
        PROVE  PicInv'
    <3>1. bottom'.of = writing[e]
      BY <2>3 DEF DrawBottom
    <3>2. ~crowded => bottom.of <= bottom'.of
      BY <2>3, <3>1 DEF DrawBottom, Connected, Alone
    <3>3. bottom'.of \in Nat
      BY <2>0, <3>1, BoundsAreNat DEF EmulatorOK
    <3> QED
      BY <2>0, <2>3, <3>2, <3>3 DEF Numbered, DrawBottom
  <2>4. CASE Die
    BY <2>4 DEF Die
  <2>5. ASSUME NEW e \in Lives, Attach(e)
        PROVE  PicInv'
    <3>1. \A f \in Lives : link'[f] \in {"bottom", "publish"} =>
            link'[f] = link[f]
      BY <2>0, <2>5 DEF Attach, EmulatorOK
    <3>2. /\ drawn' = drawn + 1 /\ (~crowded' => ~crowded)
          /\ UNCHANGED <<bottom, buffer, register, shown>>
      BY <2>5 DEF Attach, BeginPicture
    <3> QED
      BY <2>0, <3>1, <3>2 DEF Numbered
  <2>6. ASSUME NEW e \in Lives, AttachFails(e) \/ ConnectionLost(e)
        PROVE  PicInv'
    <3>1. \A f \in Lives : link'[f] \in {"bottom", "publish"} =>
            link'[f] = link[f]
      BY <2>0, <2>6 DEF AttachFails, ConnectionLost, EmulatorOK
    <3> QED
      BY <2>6, <3>1 DEF AttachFails, ConnectionLost
  <2>7. ASSUME NEW e \in Lives, Receive(e)
        PROVE  PicInv'
    <3>1. \A f \in Lives : link'[f] \in {"bottom", "publish"} =>
            link'[f] = link[f]
      BY <2>0, <2>7 DEF Receive, Process, Follows, EmulatorOK
    <3> QED
      BY <2>7, <3>1 DEF Receive, Process
  <2>8. ASSUME NEW e \in Lives, CopyTop(e)
        PROVE  PicInv'
    <3>1. /\ link[e] = "top" /\ link' = [link EXCEPT ![e] = "bottom"]
          /\ UNCHANGED <<emulator, crowded, register, shown>>
          /\ buffer'[e].top = InSize(top, sizeOf[e])
          /\ \A f \in Lives \ {e} : buffer'[f] = buffer[f]
      BY <2>0, <2>8 DEF CopyTop, Process, Follows, EmulatorOK
    <3>2. ~crowded => buffer'[e].top = drawn
      BY <3>1 DEF Alone, Working, InSize
    <3>3. \A f \in Lives \ {e} : link'[f] = link[f]
      BY <2>0, <3>1 DEF EmulatorOK
    <3> QED
      BY <2>0, <3>1, <3>2, <3>3 DEF Numbered, EmulatorOK
  <2>9. ASSUME NEW e \in Lives, CopyBottom(e)
        PROVE  PicInv'
    <3>1. /\ link[e] = "bottom" /\ link' = [link EXCEPT ![e] = "publish"]
          /\ UNCHANGED <<emulator, crowded, register, shown>>
          /\ buffer[e] \in Frames
      BY <2>0, <2>9 DEF CopyBottom, Process, Follows, EmulatorOK
    <3>2. /\ buffer'[e].top = buffer[e].top
          /\ buffer'[e].bottom = InSize(bottom, sizeOf[e])
          /\ \A f \in Lives \ {e} : buffer'[f] = buffer[f]
      BY <2>0, <2>9, <3>1 DEF CopyBottom, EmulatorOK, Frames
    <3>3. ~crowded => buffer'[e].bottom = bottom.of
      BY <3>1, <3>2 DEF Alone, Working, InSize
    <3>4. \A f \in Lives \ {e} : link'[f] = link[f]
      BY <2>0, <3>1 DEF EmulatorOK
    <3> QED
      BY <2>0, <3>1, <3>2, <3>3, <3>4 DEF Numbered, EmulatorOK
  <2>10. ASSUME NEW e \in Lives, OnEmulatorFrame(e)
         PROVE  PicInv'
    <3>1. /\ link[e] = "publish" /\ link'[e] = "recv"
          /\ latest' = buffer[e]
          /\ UNCHANGED <<emulator, crowded, got, shown>>
          /\ buffer[e] # NoFrame
      BY <2>0, <2>10
         DEF OnEmulatorFrame, Process, Follows, EmulatorOK, CallsOK
    <3>2. ~crowded => \A f \in Lives : link'[f] \notin {"bottom", "publish"}
      BY <2>0, <2>10
         DEF Alone, Working, OnEmulatorFrame, Process, Follows, EmulatorOK
    <3> QED
      BY <2>0, <3>1, <3>2 DEF Numbered
  <2>11. ASSUME NEW e \in Lives, CopyFaults(e)
         PROVE  PicInv'
    BY <2>11 DEF CopyFaults
  <2>12. ASSUME NEW s \in Streams, Wait(s)
         PROVE  PicInv'
    <3>1. /\ got' = [got EXCEPT ![s] = latest] /\ latest # NoFrame
          /\ UNCHANGED <<emulator, links, latest, shown>>
      BY <2>0, <2>12 DEF CallsOK, Wait, Call
    <3>2. \A t \in Streams : got'[t] = IF t = s THEN latest ELSE got[t]
      BY <2>0, <3>1 DEF CallsOK
    <3> QED
      BY <2>0, <3>1, <3>2 DEF Numbered
  <2>13. ASSUME NEW s \in Streams, Send(s)
         PROVE  PicInv'
    <3>1. PICK overdue \in BOOLEAN :
            shown' = [shown EXCEPT ![s] = [key    |-> fresh[s] \/ overdue,
                                           size   |-> encoder[s],
                                           top    |-> got[s].top,
                                           bottom |-> got[s].bottom]]
      BY <2>13 DEF Send
    <3>2. got[s] # NoFrame /\ UNCHANGED <<emulator, links, register>>
      BY <2>0, <2>13 DEF CallsOK, Send, Call
    <3>3. /\ \A t \in Streams \ {s} : shown'[t] = shown[t]
          /\ shown'[s].top = got[s].top /\ shown'[s].bottom = got[s].bottom
      BY <2>0, <3>1 DEF CallsOK
    <3> QED
      BY <2>0, <3>2, <3>3 DEF Numbered
  <2>14. ASSUME NEW s \in Streams,
                \/ Open(s) \/ Resize(s) \/ EncoderFails(s) \/ Convert(s)
                \/ ConvertPanics(s) \/ CodecFails(s) \/ SendFails(s)
                \/ Again(s) \/ TickerPanics(s)
         PROVE  PicInv'
    <3>1. UNCHANGED <<emulator, links, register, shown>>
      BY <2>14
         DEF Open, Resize, EncoderFails, Convert, ConvertPanics, CodecFails,
             SendFails, Again, SameListener, TickerPanics, Call
    <3> QED
      BY <3>1
  <2>15. ASSUME NEW s \in Streams, NEW how \in {"reads", "away"},
                ClientTurns(s, how)
         PROVE  PicInv'
    BY <2>15 DEF ClientTurns
  <2>16. CASE UNCHANGED vars
    BY <2>16 DEF vars
  <2> QED
    BY <2>1, <2>2, <2>3, <2>4, <2>5, <2>6, <2>7, <2>8, <2>9, <2>10, <2>11,
       <2>12, <2>13, <2>14, <2>15, <2>16
       DEF Next, Emulator, DisplayLoop, Handler, Down
<1> QED
  BY <1>1, <1>2, TypeInvariant, OneAtATime, PTL DEF Spec
-----------------------------------------------------------------------------
(* Every stream of frames is one that a decoder can follow, whatever       *)
(* happens to the emulators, their connections and the other streams: only *)
(* Send changes what a stream shows, without a keyframe its frame has the  *)
(* last one's size, and as long as no two processDisplay have met it is no *)
(* older than the last.                                                    *)
THEOREM DecodersCanFollow == Spec => StreamsAreVideo
<1>1. Init => Video!Init
  BY DEF Init, Video!Init
<1>2. TypeInv /\ KeyInv /\ PicInv /\ [Next]_vars => [Video!Next]_shown
  <2> SUFFICES ASSUME TypeInv, KeyInv, PicInv, [Next]_vars
               PROVE  [Video!Next]_shown
    OBVIOUS
  <2>1. ASSUME NEW s \in Streams, Send(s)
        PROVE  [Video!Next]_shown
    <3>1. PICK overdue \in BOOLEAN :
            shown' = [shown EXCEPT ![s] = [key    |-> fresh[s] \/ overdue,
                                           size   |-> encoder[s],
                                           top    |-> got[s].top,
                                           bottom |-> got[s].bottom]]
      BY <2>1 DEF Send
    <3>2. /\ shown'[s] = [key    |-> fresh[s] \/ overdue,
                          size   |-> encoder[s],
                          top    |-> got[s].top,
                          bottom |-> got[s].bottom]
          /\ \A t \in Streams \ {s} : shown'[t] = shown[t]
      BY <3>1 DEF TypeInv, TypeOK
    <3>3. shown'[s].size = encoder[s] /\ (fresh[s] => shown'[s].key)
      <4>1. shown'[s].key = (fresh[s] \/ overdue)
        BY <3>2
      <4>2. shown'[s].size = encoder[s]
        BY <3>2
      <4> QED
        BY <4>1, <4>2, Zenon
    <3>4. shown'[s].top = got[s].top /\ shown'[s].bottom = got[s].bottom
      BY <3>2
    <3>5. shown'[s] # NotYet
      <4>1. /\ got[s] \in Frames /\ encoder[s] = got[s].size
            /\ (fresh[s] \/ overdue) \in BOOLEAN
        BY <2>1, NoneIsAFrame DEF TypeInv, TypeOK, Send, Call
      <4>2. shown'[s] \in Packets
        BY <3>2, <4>1 DEF Frames, Packets
      <4> QED
        BY <4>2, NoneIsAFrame
    <3>6. CASE shown[s] = NotYet
      <4>1. fresh[s]
        BY <3>6 DEF KeyInv, TypeInv, TypeOK
      <4> QED
        BY <3>2, <3>3, <3>5, <3>6, <4>1 DEF Video!Next, Video!Send
    <3>7. CASE shown[s] # NotYet
      <4>1. ~crowded => /\ shown'[s].top >= shown[s].top
                        /\ shown'[s].bottom >= shown[s].bottom
        BY <3>4, <3>7, TypesAreNumbered DEF PicInv, Numbered
      <4>2. shown'[s].key \/ shown'[s].size = shown[s].size
        BY <3>3 DEF KeyInv, TypeInv, TypeOK
      <4> QED
        BY <3>2, <3>5, <3>7, <4>1, <4>2
           DEF Video!Next, Video!Send, Video!Continues
    <3> QED
      BY <3>6, <3>7
  <2>2. CASE UNCHANGED shown
    BY <2>2
  <2>3. CASE Emulator
    BY <2>2, <2>3 DEF Emulator, Boot, DrawTop, BeginPicture, DrawBottom, Die
  <2>4. ASSUME NEW e \in Lives,
               \/ Attach(e) \/ AttachFails(e) \/ DisplayLoop(e)
               \/ ConnectionLost(e)
        PROVE  [Video!Next]_shown
    <3>1. UNCHANGED shown
      BY <2>4
         DEF Attach, BeginPicture, AttachFails, DisplayLoop, Receive,
             CopyTop, CopyBottom, CopyFaults, OnEmulatorFrame,
             ConnectionLost, Process
    <3> QED
      BY <2>2, <3>1
  <2>5. ASSUME NEW s \in Streams,
               \/ Open(s) \/ Wait(s) \/ Resize(s) \/ EncoderFails(s)
               \/ Convert(s) \/ ConvertPanics(s) \/ CodecFails(s)
               \/ SendFails(s) \/ Again(s) \/ TickerPanics(s)
        PROVE  [Video!Next]_shown
    BY <2>2, <2>5
       DEF Open, Wait, Resize, EncoderFails, Convert, ConvertPanics,
           CodecFails, SendFails, Again, TickerPanics, Call
  <2>6. ASSUME NEW s \in Streams, NEW how \in {"reads", "away"},
               ClientTurns(s, how)
        PROVE  [Video!Next]_shown
    BY <2>2, <2>6 DEF ClientTurns
  <2>7. CASE UNCHANGED vars
    BY <2>2, <2>7 DEF vars
  <2> QED
    BY <2>1, <2>3, <2>4, <2>5, <2>6, <2>7 DEF Next, Handler, Down
<1> QED
  BY <1>1, <1>2, TypeInvariant, KeyframesWhereNeeded, PicturesInOrder, PTL
     DEF Spec, StreamsAreVideo, Video!Spec
-----------------------------------------------------------------------------
(* The safety halves of LastPictureShown.  The last picture that an        *)
(* emulator has drawn for a processDisplay:                                *)
Newest(e) == [size |-> sizeOf[e], top |-> drawn, bottom |-> drawn]

(* When no picture is half done, the last one is in the register, or the   *)
(* copy is of it as far as it goes, or there is a notice to make one.      *)
OnItsWay ==
    \A e \in Lives : Connected(e) /\ writing[e] = 0 /\ ~crowded =>
        /\ bottom.of = drawn
        /\ \/ notices[e] > 0
           \/ link[e] = "top"
           \/ /\ link[e] = "bottom"
              /\ buffer[e].size = sizeOf[e] /\ buffer[e].top = drawn
           \/ link[e] = "publish" /\ buffer[e] = Newest(e)
           \/ link[e] = "recv"    /\ latest = Newest(e) /\ version > 0

(* A call that is not at work on a frame has shown the one that it got     *)
(* last, and that is the latest unless a later one is there for it.        *)
SameAsGot(s) ==
    /\ shown[s] # NotYet
    /\ shown[s].size = got[s].size
    /\ shown[s].top = got[s].top /\ shown[s].bottom = got[s].bottom

UpToDate ==
    \A s \in Streams :
        /\ seen[s] <= version
        /\ seen[s] = version /\ version > 0 => got[s] = latest
        /\ pc[s] \in {"off", "wait", "next"} /\ seen[s] > 0 => SameAsGot(s)

(* A processDisplay has a step to make ...                                 *)
LoopCanGoOn(e) ==
    \/ link[e] = "recv" /\ notices[e] > 0
    \/ link[e] \in {"top", "bottom", "publish"}

(* ... and a call, if its client reads.                                    *)
CallCanGoOn(s) ==
    \/ pc[s] = "wait" /\ seen[s] < version
    \/ pc[s] \in {"frame", "send", "next"}

(* While a stream does not show the last picture of an emulator that has   *)
(* stopped drawing, processDisplay or the call has a step to make, as long *)
(* as no two processDisplay have met (Settled).                            *)
NobodyRestsTooEarly ==
    \A e \in Lives, s \in Streams :
        Settled(e, s) =>
            ShowsPicture(e, s) \/ LoopCanGoOn(e) \/ CallCanGoOn(s)

(* The last picture is on its way, or there.                               *)
LEMMA PictureOnItsWay == Spec => []OnItsWay
<1>1. Init => OnItsWay
  BY DEF Init, OnItsWay, Connected
<1>2. TypeInv /\ Alone /\ OnItsWay /\ [Next]_vars => OnItsWay'
  <2> SUFFICES ASSUME EmulatorOK, CallsOK, Alone, OnItsWay, [Next]_vars,
                      NEW e \in Lives,
                      Connected(e)', (writing[e] = 0)', ~crowded'
               PROVE  /\ (bottom.of = drawn)'
                      /\ \/ (notices[e] > 0)'
                         \/ (link[e] = "top")'
                         \/ (/\ link[e] = "bottom"
                             /\ buffer[e].size = sizeOf[e]
                             /\ buffer[e].top = drawn)'
                         \/ (link[e] = "publish" /\ buffer[e] = Newest(e))'
                         \/ (/\ link[e] = "recv" /\ latest = Newest(e)
                             /\ version > 0)'
    BY TypeParts DEF OnItsWay
  <2> USE DEF OnItsWay, Newest, Connected, Working
  <2>1. CASE UNCHANGED <<emulator, notices, links, latest, version>>
             /\ fate = "up"
    BY <2>1
  <2>2. ASSUME NEW x \in Sizes, Boot(x)
        PROVE  FALSE
    <3>1. joined[e] <= lives /\ lives' = lives + 1 /\ joined' = joined
          /\ lives \in Nat /\ joined[e] \in Nat
      BY <2>2, BoundsAreNat DEF Boot, EmulatorOK
    <3> QED
      BY <3>1
  <2>3. ASSUME NEW f \in Lives, DrawTop(f)
        PROVE  FALSE
    <3>1. f = e /\ writing'[f] = drawn + 1 /\ drawn \in Nat
      BY <2>3 DEF DrawTop, BeginPicture, Alone, EmulatorOK
    <3> QED
      BY <3>1
  <2>4. ASSUME NEW f \in Lives, DrawBottom(f)
        PROVE  bottom'.of = drawn' /\ notices'[e] > 0
    <3>1. f = e
      BY <2>4 DEF DrawBottom, Alone
    <3>2. writing[e] = drawn /\ notices[e] \in Nat
      BY <2>4, <3>1 DEF DrawBottom, Alone, EmulatorOK
    <3> QED
      BY <2>4, <3>1, <3>2 DEF DrawBottom, EmulatorOK
  <2>5. CASE Die
    BY <2>5 DEF Die
  <2>6. ASSUME NEW f \in Lives, Attach(f)
        PROVE  FALSE
    <3>1. drawn \in Nat /\ drawn' = drawn + 1 /\ writing'[f] = drawn'
      BY <2>6 DEF Attach, BeginPicture, EmulatorOK
    <3>2. f = e
      BY <2>6 DEF Attach, EmulatorOK
    <3> QED
      BY <3>1, <3>2
  <2>7. ASSUME NEW f \in Lives, AttachFails(f)
        PROVE  FALSE
    BY <2>7 DEF AttachFails, EmulatorOK
  <2>8. ASSUME NEW f \in Lives,
               \/ Receive(f) \/ CopyTop(f) \/ CopyBottom(f)
               \/ OnEmulatorFrame(f)
        PROVE  /\ f = e /\ Connected(e) /\ writing[e] = 0 /\ ~crowded
               /\ UNCHANGED emulator
    <3>1. /\ UNCHANGED <<emulator, joined, crowded, fate>> /\ fate = "up"
          /\ Working(f) /\ \A g \in Lives \ {f} : link'[g] = link[g]
      BY <2>8
         DEF Receive, CopyTop, CopyBottom, OnEmulatorFrame, Process,
             EmulatorOK
    <3> QED
      BY <3>1 DEF Alone
  <2>9. ASSUME NEW f \in Lives, Receive(f)
        PROVE  link'[e] = "top" /\ (bottom.of = drawn)'
    BY <2>8, <2>9 DEF Receive, Process, Follows, EmulatorOK
  <2>10. ASSUME NEW f \in Lives, CopyTop(f)
         PROVE  /\ link'[e] = "bottom" /\ (bottom.of = drawn)'
                /\ (buffer[e].size = sizeOf[e])' /\ (buffer[e].top = drawn)'
    <3>1. f = e /\ Connected(e) /\ writing[e] = 0 /\ ~crowded
          /\ UNCHANGED emulator
      BY <2>8, <2>10
    <3>2. buffer'[e] = [size |-> sizeOf[e], top |-> InSize(top, sizeOf[e]),
                        bottom |-> 0]
      BY <2>10, <3>1 DEF CopyTop, EmulatorOK
    <3>3. InSize(top, sizeOf[e]) = drawn
      BY <3>1 DEF Alone, InSize
    <3>4. link'[e] = "bottom"
      BY <2>10, <3>1 DEF CopyTop, Process, Follows, EmulatorOK
    <3>5. buffer'[e].size = sizeOf[e] /\ buffer'[e].top = drawn
      BY <3>2, <3>3
    <3>6. bottom.of = drawn
      BY <3>1
    <3> QED
      BY <3>1, <3>4, <3>5, <3>6
  <2>11. ASSUME NEW f \in Lives, CopyBottom(f)
         PROVE  /\ (bottom.of = drawn)'
                /\ \/ notices'[e] > 0
                   \/ link'[e] = "publish" /\ (buffer[e] = Newest(e))'
    <3>1. f = e /\ Connected(e) /\ writing[e] = 0 /\ ~crowded
          /\ UNCHANGED emulator
      BY <2>8, <2>11
    <3>2. /\ buffer[e] \in Frames /\ link[e] = "bottom"
          /\ link'[e] = "publish" /\ notices' = notices
      BY <2>11, <3>1 DEF CopyBottom, Process, Follows, EmulatorOK
    <3>3. InSize(bottom, sizeOf[e]) = drawn
      BY <3>1, <3>2 DEF Alone, InSize
    <3>4. buffer'[e] = [size |-> buffer[e].size, top |-> buffer[e].top,
                        bottom |-> drawn]
      BY <2>11, <3>1, <3>2, <3>3 DEF CopyBottom, EmulatorOK, Frames
    <3> QED
      BY <3>1, <3>2, <3>4
  <2>12. ASSUME NEW f \in Lives, OnEmulatorFrame(f)
         PROVE  /\ (bottom.of = drawn)'
                /\ \/ notices'[e] > 0
                   \/ /\ link'[e] = "recv" /\ (latest = Newest(e))'
                      /\ version' > 0
    <3>1. f = e /\ Connected(e) /\ writing[e] = 0 /\ ~crowded
          /\ UNCHANGED emulator
      BY <2>8, <2>12
    <3>2. /\ link[e] = "publish" /\ link'[e] = "recv" /\ notices' = notices
          /\ latest' = buffer[e] /\ version' = version + 1 /\ version \in Nat
      BY <2>12, <3>1
         DEF OnEmulatorFrame, Process, Follows, EmulatorOK, CallsOK
    <3> QED
      BY <3>1, <3>2
  <2>13. ASSUME NEW f \in Lives, ConnectionLost(f)
         PROVE  FALSE
    <3>1. f = e
      BY <2>13 DEF ConnectionLost, EmulatorOK, Alone
    <3> QED
      BY <2>13, <3>1 DEF ConnectionLost, EmulatorOK
  <2>14. ASSUME NEW f \in Lives, CopyFaults(f)
         PROVE  FALSE
    BY <2>14 DEF CopyFaults
  <2>15. ASSUME NEW s \in Streams, Open(s) \/ Handler(s)
         PROVE  /\ UNCHANGED <<emulator, notices, links, latest, version>>
                /\ fate = "up"
    BY <2>15
       DEF Handler, Open, Wait, Resize, EncoderFails, Convert, ConvertPanics,
           CodecFails, Send, SendFails, Again, SameListener, TickerPanics,
           Call
  <2>16. ASSUME NEW s \in Streams, NEW how \in {"reads", "away"},
                ClientTurns(s, how)
         PROVE  /\ UNCHANGED <<emulator, notices, links, latest, version>>
                /\ fate = "up"
    BY <2>16 DEF ClientTurns
  <2>17. CASE UNCHANGED vars
    BY <2>1, <2>17 DEF vars
  <2> QED
    BY <2>1, <2>2, <2>3, <2>4, <2>5, <2>6, <2>7, <2>9, <2>10, <2>11, <2>12,
       <2>13, <2>14, <2>15, <2>16, <2>17
       DEF Next, Emulator, DisplayLoop, Down
<1> QED
  BY <1>1, <1>2, TypeInvariant, OneAtATime, PTL DEF Spec

(* A call that waits has shown what it got, and has got the latest.        *)
LEMMA CallsUpToDate == Spec => []UpToDate
<1>1. Init => UpToDate
  <2> SUFFICES ASSUME Init, NEW s \in Streams
               PROVE  seen[s] <= version /\ ~(version > 0) /\ ~(seen[s] > 0)
    BY DEF UpToDate
  <2>1. version = 0 /\ seen[s] = 0
    BY DEF Init, R!Init
  <2> QED
    BY <2>1
<1>2. TypeInv /\ UpToDate /\ [Next]_vars => UpToDate'
  <2> SUFFICES ASSUME TypeInv, UpToDate, [Next]_vars PROVE UpToDate'
    OBVIOUS
  <2> USE DEF UpToDate, SameAsGot
  <2>1. CASE UNCHANGED <<register, pc, shown>>
    BY <2>1
  <2>2. CASE Emulator
    BY <2>2, <2>1 DEF Emulator, Boot, DrawTop, BeginPicture, DrawBottom, Die
  <2>3. ASSUME NEW e \in Lives,
               \/ Attach(e) \/ AttachFails(e) \/ Receive(e) \/ CopyTop(e)
               \/ CopyBottom(e) \/ CopyFaults(e) \/ ConnectionLost(e)
        PROVE  UpToDate'
    <3>1. UNCHANGED <<register, pc, shown>>
      BY <2>3
         DEF Attach, BeginPicture, AttachFails, Receive, CopyTop, CopyBottom,
             CopyFaults, ConnectionLost, Process
    <3> QED
      BY <2>1, <3>1
  <2>4. ASSUME NEW e \in Lives, OnEmulatorFrame(e)
        PROVE  UpToDate'
    BY <2>4 DEF TypeInv, TypeOK, OnEmulatorFrame, Process
  <2>5. ASSUME NEW s \in Streams, Wait(s) PROVE UpToDate'
    BY <2>5 DEF TypeInv, TypeOK, Wait, Call
  <2>6. ASSUME NEW s \in Streams, Send(s) PROVE UpToDate'
    <3>1. PICK packet \in Packets :
            /\ shown' = [shown EXCEPT ![s] = packet]
            /\ packet.size = got[s].size
            /\ packet.top = got[s].top /\ packet.bottom = got[s].bottom
      <4>1. PICK overdue \in BOOLEAN :
              shown' = [shown EXCEPT ![s] = [key    |-> fresh[s] \/ overdue,
                                             size   |-> encoder[s],
                                             top    |-> got[s].top,
                                             bottom |-> got[s].bottom]]
        BY <2>6 DEF Send
      <4>2. got[s] \in Frames /\ encoder[s] = got[s].size
        BY <2>6 DEF TypeInv, TypeOK, Send, Call
      <4>3. (fresh[s] \/ overdue) \in BOOLEAN
        BY DEF TypeInv, TypeOK
      <4> DEFINE p == [key    |-> fresh[s] \/ overdue,
                       size   |-> encoder[s],
                       top    |-> got[s].top,
                       bottom |-> got[s].bottom]
      <4>4. p \in Packets
        BY <4>2, <4>3 DEF Frames, Packets
      <4> QED
        BY <4>1, <4>2, <4>4
    <3>2. /\ pc' = [pc EXCEPT ![s] = "next"] /\ UNCHANGED register
      BY <2>6 DEF Send, Call
    <3> QED
      BY <3>1, <3>2, NoneIsAFrame DEF TypeInv, TypeOK
  <2>7. ASSUME NEW s \in Streams, Open(s) PROVE UpToDate'
    BY <2>7 DEF TypeInv, TypeOK, Open, Call
  <2>8. ASSUME NEW s \in Streams, Again(s) PROVE UpToDate'
    BY <2>8 DEF TypeInv, TypeOK, Again, SameListener, Call
  <2>9. ASSUME NEW s \in Streams,
               \/ Resize(s) \/ EncoderFails(s) \/ Convert(s)
               \/ ConvertPanics(s) \/ CodecFails(s) \/ SendFails(s)
               \/ TickerPanics(s)
        PROVE  UpToDate'
    BY <2>9
       DEF TypeInv, TypeOK, Resize, EncoderFails, Convert, ConvertPanics,
           CodecFails, SendFails, TickerPanics, Call
  <2>10. ASSUME NEW s \in Streams, NEW how \in {"reads", "away"},
                ClientTurns(s, how)
         PROVE  UpToDate'
    BY <2>10, <2>1 DEF ClientTurns
  <2>11. CASE UNCHANGED vars
    BY <2>11, <2>1 DEF vars
  <2> QED
    BY <2>2, <2>3, <2>4, <2>5, <2>6, <2>7, <2>8, <2>9, <2>10, <2>11
       DEF Next, DisplayLoop, Handler, Down
<1> QED
  BY <1>1, <1>2, TypeInvariant, PTL DEF Spec

(* No frame gets lost on its way: when the emulator has stopped drawing    *)
(* and neither its processDisplay nor a call has anything left to do, then *)
(* that call's client has the last picture, whole and in the size of the   *)
(* display, whatever was skipped or torn before - unless two of those      *)
(* have met, which may leave a picture of the wrong size.                  *)
THEOREM AtRestTheLastIsShown == Spec => []NobodyRestsTooEarly
<1>1. TypeInv /\ OnItsWay /\ UpToDate => NobodyRestsTooEarly
  <2> SUFFICES ASSUME TypeInv, OnItsWay, UpToDate,
                      NEW e \in Lives, NEW s \in Streams,
                      Settled(e, s), ~LoopCanGoOn(e), ~CallCanGoOn(s)
               PROVE  ShowsPicture(e, s)
    BY DEF NobodyRestsTooEarly
  <2>1. /\ link[e] = "recv" /\ ~(notices[e] > 0)
        /\ pc[s] = "wait" /\ ~(seen[s] < version)
    BY DEF Settled, Connected, Working, LoopCanGoOn, CallCanGoOn, TypeInv,
           TypeOK
  <2>2. latest = Newest(e) /\ version > 0
    BY <2>1 DEF OnItsWay, Settled
  <2>3. seen[s] = version
    BY <2>1 DEF UpToDate, TypeInv, TypeOK
  <2>4. got[s] = Newest(e) /\ SameAsGot(s)
    BY <2>1, <2>2, <2>3 DEF UpToDate
  <2> QED
    BY <2>4 DEF SameAsGot, Newest, ShowsPicture
<1> QED
  BY <1>1, TypeInvariant, PictureOnItsWay, CallsUpToDate, PTL

(* What is left to do until a stream shows the last picture: each notice   *)
(* is received, copied and published, and each frame goes through a call.  *)
LeftOfLoop(e) ==
    4 * notices[e] + (CASE link[e] = "top"     -> 3
                        [] link[e] = "bottom"  -> 2
                        [] link[e] = "publish" -> 1
                        [] OTHER               -> 0)

LeftOfCall(s) ==
    (IF seen[s] < version THEN 5 ELSE 0)
        + (CASE pc[s] = "frame" -> IF encoder[s] = got[s].size THEN 3 ELSE 4
             [] pc[s] = "send"  -> 2
             [] pc[s] = "next"  -> 1
             [] OTHER           -> 0)

Left(e, s) == 10 * LeftOfLoop(e) + LeftOfCall(s)

(* A processDisplay that is alone and the stream's call work it off, and   *)
(* nobody else adds to it than an emulator that finishes a picture.        *)
WorkedOff ==
    [][\A e \in Lives, s \in Streams : Working(e) /\ ~crowded' =>
          IF DisplayLoop(e) \/ Handler(s) THEN Left(e, s)' < Left(e, s)
          ELSE Left(e, s)' <= Left(e, s) \/ DrawBottom(e)]_vars

LeftAreNats ==
    /\ \A e \in Lives : LeftOfLoop(e) \in Nat
    /\ \A s \in Streams : LeftOfCall(s) \in 0..9

(* What is left is a natural number ...                                    *)
LEMMA LeftIsNat == TypeInv => LeftAreNats
<1> SUFFICES ASSUME TypeInv PROVE LeftAreNats
  OBVIOUS
<1>1. ASSUME NEW e \in Lives PROVE LeftOfLoop(e) \in Nat
  BY DEF TypeInv, TypeOK, LeftOfLoop
<1>2. ASSUME NEW s \in Streams PROVE LeftOfCall(s) \in 0..9
  BY DEF TypeInv, TypeOK, LeftOfCall
<1> QED
  BY <1>1, <1>2 DEF LeftAreNats

(* ... before and after a step.                                            *)
LEMMA LeftIsNatNext == TypeInv' => LeftAreNats'
BY LeftIsNat, PTL

(* One thing less for processDisplay outweighs any for a call.             *)
LEMMA LoopFirst ==
    ASSUME NEW a \in Nat, NEW b \in Nat, NEW c \in 0..9, NEW d \in 0..9
    PROVE  /\ b < a => 10 * b + d < 10 * a + c
           /\ b <= a /\ d <= c => 10 * b + d <= 10 * a + c
           /\ b <= a /\ d < c => 10 * b + d < 10 * a + c
OBVIOUS

(* Between two pictures the work runs out: every step of a processDisplay  *)
(* that is alone and of a call brings the call nearer to showing the last  *)
(* picture, and no step of the clients, of the other calls or of a connect *)
(* that does not reach the memory takes it away again.                     *)
THEOREM PictureComesNearer == Spec => WorkedOff
<1>1. TypeInv /\ TypeInv' /\ Alone /\ [Next]_vars =>
        [\A e \in Lives, s \in Streams : Working(e) /\ ~crowded' =>
            IF DisplayLoop(e) \/ Handler(s) THEN Left(e, s)' < Left(e, s)
            ELSE Left(e, s)' <= Left(e, s) \/ DrawBottom(e)]_vars
  <2> SUFFICES ASSUME TypeInv, TypeInv', Alone, Next,
                      NEW e \in Lives, NEW s \in Streams,
                      Working(e), ~crowded'
               PROVE  IF DisplayLoop(e) \/ Handler(s)
                      THEN Left(e, s)' < Left(e, s)
                      ELSE Left(e, s)' <= Left(e, s) \/ DrawBottom(e)
    OBVIOUS
  <2>1. /\ LeftOfLoop(e) \in Nat /\ LeftOfLoop(e)' \in Nat
        /\ LeftOfCall(s) \in 0..9 /\ LeftOfCall(s)' \in 0..9
    BY LeftIsNat, LeftIsNatNext DEF LeftAreNats
  <2>2. /\ LeftOfLoop(e)' < LeftOfLoop(e) => Left(e, s)' < Left(e, s)
        /\ LeftOfLoop(e)' <= LeftOfLoop(e) /\ LeftOfCall(s)' <= LeftOfCall(s)
             => Left(e, s)' <= Left(e, s)
        /\ LeftOfLoop(e)' <= LeftOfLoop(e) /\ LeftOfCall(s)' < LeftOfCall(s)
             => Left(e, s)' < Left(e, s)
    <3> HIDE DEF LeftOfLoop, LeftOfCall
    <3> QED
      BY <2>1, LoopFirst DEF Left
  <2>3. /\ UNCHANGED <<notices, link>> => LeftOfLoop(e)' <= LeftOfLoop(e)
        /\ UNCHANGED <<version, seen, pc, encoder, got>> =>
             LeftOfCall(s)' <= LeftOfCall(s)
    BY <2>1 DEF LeftOfLoop, LeftOfCall
  <2>4. ASSUME NEW f \in Lives, f # e, Working(f)
        PROVE  crowded
    BY <2>4 DEF Alone
  <2>5. CASE DisplayLoop(e)
    <3>1. LeftOfLoop(e)' < LeftOfLoop(e)
      <4> USE DEF TypeInv, TypeOK, Process, Follows, LeftOfLoop
      <4>1. CASE Receive(e)
        BY <4>1 DEF Receive
      <4>2. CASE CopyTop(e)
        BY <4>2 DEF CopyTop
      <4>3. CASE CopyBottom(e)
        BY <4>3 DEF CopyBottom
      <4>4. CASE OnEmulatorFrame(e)
        BY <4>4 DEF OnEmulatorFrame
      <4>5. CASE CopyFaults(e)
        <5>1. pages < Pages(sizeOf[e]) /\ ~crowded /\ sizeOf[e] \in Sizes
          BY <4>5 DEF CopyFaults
        <5>2. pages = Pages(sizeOf[e]) /\ pages \in Nat
          BY <5>1 DEF Alone
        <5> QED
          BY <5>1, <5>2
      <4> QED
        BY <2>5, <4>1, <4>2, <4>3, <4>4, <4>5 DEF DisplayLoop
    <3> QED
      BY <2>2, <2>5, <3>1
  <2>6. CASE Handler(s)
    <3>1. UNCHANGED <<notices, link>>
      BY <2>6
         DEF Handler, Wait, Resize, EncoderFails, Convert, ConvertPanics,
             CodecFails, Send, SendFails, Again, TickerPanics, Call
    <3>2. LeftOfCall(s)' < LeftOfCall(s)
      <4> USE DEF TypeInv, TypeOK, LeftOfCall, Call
      <4>1. CASE Wait(s)
        BY <4>1 DEF Wait
      <4>2. CASE Resize(s)
        BY <4>2 DEF Resize
      <4>3. CASE EncoderFails(s) \/ Convert(s) \/ ConvertPanics(s)
        BY <4>3 DEF EncoderFails, Convert, ConvertPanics
      <4>4. CASE CodecFails(s)
        BY <4>4 DEF CodecFails
      <4>5. CASE Send(s) \/ SendFails(s)
        BY <4>5 DEF Send, SendFails
      <4>6. CASE Again(s) \/ TickerPanics(s)
        BY <4>6 DEF Again, SameListener, TickerPanics
      <4> QED
        BY <2>6, <4>1, <4>2, <4>3, <4>4, <4>5, <4>6 DEF Handler
    <3> QED
      BY <2>2, <2>3, <2>6, <3>1, <3>2
  <2>7. CASE ~DisplayLoop(e) /\ ~Handler(s)
    <3>1. ASSUME NEW t \in Streams, t # s, Handler(t)
          PROVE  Left(e, s)' <= Left(e, s)
      <4>1. UNCHANGED <<notices, link>>
        BY <3>1
           DEF Handler, Wait, Resize, EncoderFails, Convert, ConvertPanics,
               CodecFails, Send, SendFails, Again, TickerPanics, Call
      <4>2. /\ seen'[s] = seen[s] /\ got'[s] = got[s] /\ version' = version
            /\ pc'[s] = pc[s] /\ encoder'[s] = encoder[s]
        BY <3>1
           DEF TypeInv, TypeOK, Handler, Wait, Resize, EncoderFails, Convert,
               ConvertPanics, CodecFails, Send, SendFails, Again,
               SameListener, TickerPanics, Call
      <4>3. LeftOfCall(s)' <= LeftOfCall(s)
        BY <2>1, <4>2 DEF LeftOfCall
      <4> QED
        BY <2>2, <2>3, <4>1, <4>3
    <3>2. ASSUME NEW t \in Streams, Open(t)
          PROVE  Left(e, s)' <= Left(e, s)
      <4>1. UNCHANGED <<notices, link, register, encoder>>
        BY <3>2 DEF Open, Call
      <4>2. LeftOfCall(s)' <= LeftOfCall(s)
        BY <3>2, <4>1 DEF TypeInv, TypeOK, Open, Call, LeftOfCall
      <4> QED
        BY <2>2, <2>3, <4>1, <4>2
    <3>3. ASSUME NEW x \in Sizes, Boot(x)
          PROVE  Left(e, s)' <= Left(e, s)
      <4>1. e # lives'
        BY <3>3, BoundsAreNat
           DEF Boot, Working, TypeInv, TypeOK, Lives
      <4>2. link'[e] = link[e] /\ notices' = notices
        BY <3>3, <4>1 DEF Boot, TypeInv, TypeOK
      <4>3. LeftOfLoop(e)' <= LeftOfLoop(e)
        BY <2>1, <4>2 DEF LeftOfLoop
      <4>4. UNCHANGED <<version, seen, pc, encoder, got>>
        BY <3>3 DEF Boot
      <4> QED
        BY <2>2, <2>3, <4>3, <4>4
    <3>4. CASE Die \/ Down
      <4>1. UNCHANGED <<notices, link, version, seen, pc, encoder, got>>
        BY <3>4 DEF Die, Down, vars
      <4> QED
        BY <2>2, <2>3, <2>7, <4>1
    <3>5. ASSUME NEW f \in Lives, DrawTop(f)
          PROVE  Left(e, s)' <= Left(e, s)
      BY <2>2, <2>3, <3>5 DEF DrawTop, BeginPicture
    <3>6. ASSUME NEW f \in Lives, DrawBottom(f)
          PROVE  f = e
      BY <2>4, <3>6 DEF DrawBottom, Connected
    <3>7. ASSUME NEW f \in Lives, Attach(f) \/ AttachFails(f)
          PROVE  FALSE
      BY <3>7 DEF Attach, AttachFails
    <3>8. ASSUME NEW f \in Lives, DisplayLoop(f)
          PROVE  f = e
      BY <2>4, <3>8
         DEF DisplayLoop, Receive, CopyTop, CopyBottom, CopyFaults,
             OnEmulatorFrame, Process, Working
    <3>9. ASSUME NEW f \in Lives, ConnectionLost(f)
          PROVE  Left(e, s)' <= Left(e, s)
      <4>1. f = e
        BY <2>4, <3>9 DEF ConnectionLost, Working
      <4>2. LeftOfLoop(e)' <= LeftOfLoop(e)
        BY <3>9, <4>1 DEF TypeInv, TypeOK, ConnectionLost, LeftOfLoop
      <4> QED
        BY <2>2, <2>3, <3>9, <4>2 DEF ConnectionLost
    <3>10. ASSUME NEW t \in Streams, NEW how \in {"reads", "away"},
                  ClientTurns(t, how)
           PROVE  Left(e, s)' <= Left(e, s)
      BY <2>2, <2>3, <3>10 DEF ClientTurns
    <3> QED
      BY <2>7, <3>1, <3>2, <3>3, <3>4, <3>5, <3>6, <3>7, <3>8, <3>9, <3>10
         DEF Next, Emulator
  <2> QED
    BY <2>5, <2>6, <2>7
<1> QED
  BY <1>1, TypeInvariant, OneAtATime, PTL DEF Spec, WorkedOff
=============================================================================
