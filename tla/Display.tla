------------------------------ MODULE Display ------------------------------
(***************************************************************************)
(* The display, from the emulator to the clients of StreamDisplay:         *)
(*                                                                         *)
(*   emulator --shared memory, notices--> processDisplay                   *)
(*            --broadcaster--> StreamDisplay: encode --> client            *)
(*                                                                         *)
(* agent/server/emulator/controller/controller.go (GetFrame), emulator.go  *)
(* (processDisplay), display.go (StreamDisplay, processFrame) and          *)
(* agent/util/vpx/vpx.go.  The broadcaster is the register that            *)
(* Broadcaster implements.                                                 *)
(*                                                                         *)
(* A picture is a number, and each half of the memory holds the number of  *)
(* a picture and the size it was drawn in: the emulator draws while the    *)
(* agent copies.  One emulator runs at a time (Agent has the other case),  *)
(* but not one processDisplay: a connect that is still waiting when its    *)
(* emulator dies reaches the next one (controller.go:25-27), and then two  *)
(* of them, each with its own request's size, use the same memory.         *)
(*                                                                         *)
(* libvpx may fail; the log.Fatal calls of connect are left to Agent.      *)
(*                                                                         *)
(* Bounds: MaxLives emulators are started, MaxPictures drawn.              *)
(***************************************************************************)
EXTENDS Naturals

CONSTANTS Streams, Sizes, Rates, MaxLives, MaxPictures, NoFrame, NotYet

ASSUME SizesArePositive == Sizes \subseteq (Nat \ {0}) \X (Nat \ {0})
ASSUME BoundsAreNat == MaxLives \in Nat /\ MaxPictures \in Nat
ASSUME RatesAreKnown == Rates \subseteq {"sane", "absurd"}

VARIABLES
    alive, lives, sizeOf,        (* the emulator, how many there were, and  *)
                                 (* the size that each was started with     *)
    top, bottom, drawn, writing, (* the shared memory, the number of        *)
                                 (* pictures begun, those half drawn        *)
    pages,                       (* the length of the memory's file         *)
    joined, notices,             (* per life, the emulator that its         *)
                                 (* connection reached and messages from it *)
    link, buffer,                (* its processDisplay, and its copy        *)
    crowded,                     (* history: one opened the memory while    *)
                                 (* another was using it                    *)
    version, latest, seen, got,  (* frameBroadcaster and its listeners      *)
    fate,                        (* whether the agent runs, or what ended it*)
    pc, rate,                    (* each StreamDisplay call, and its MaxFps *)
    encoder, fresh,              (* size of its encoder; frameCount = 0     *)
    shown,                       (* the frame it sent last                  *)
    client                       (* whether its client reads                *)

emulator == <<alive, lives, sizeOf, top, bottom, drawn, writing>>
links    == <<pages, joined, link, buffer, crowded>>
register == <<version, latest, seen, got>>
calls    == <<pc, rate, encoder, fresh, shown>>
vars == <<emulator, notices, links, register, fate, calls, client>>

Lives == 1..MaxLives

NoSize == <<0, 0>>

Halves == [of: 0..MaxPictures, size: Sizes \cup {NoSize}]
Frames == [size: Sizes, top: 0..MaxPictures, bottom: 0..MaxPictures]
Packets == [key: BOOLEAN, size: Sizes,
            top: 0..MaxPictures, bottom: 0..MaxPictures]

ASSUME NoneIsAFrame == NoFrame \notin Frames /\ NotYet \notin Packets

R == INSTANCE LatestValue WITH
    Readers <- Streams, Values <- Frames, NoValue <- NoFrame,
    shut <- FALSE, ended <- [s \in Streams |-> FALSE]

Init ==
    /\ alive = FALSE /\ lives = 0
    /\ sizeOf = [e \in Lives |-> NoSize]
    /\ top = [of |-> 0, size |-> NoSize] /\ bottom = top
    /\ drawn = 0 /\ writing = [e \in Lives |-> 0] /\ pages = 0
    /\ joined = [e \in Lives |-> 0] /\ notices = [e \in Lives |-> 0]
    /\ link = [e \in Lives |-> "unborn"] /\ buffer = [e \in Lives |-> NoFrame]
    /\ crowded = FALSE
    /\ R!Init
    /\ fate = "up"
    /\ pc = [s \in Streams |-> "off"] /\ rate \in [Streams -> Rates]
    /\ encoder = [s \in Streams |-> NoSize] /\ fresh = [s \in Streams |-> TRUE]
    /\ shown = [s \in Streams |-> NotYet]
    /\ client = [s \in Streams |-> "reads"]
-----------------------------------------------------------------------------
(* The emulator.  It draws for each stream of notices that it has, in the  *)
(* size that the stream asks for.                                          *)

(* StartEmulator and its connect, which begins to wait for a connection.   *)
Boot(size) ==
    /\ fate = "up" /\ ~alive /\ lives < MaxLives
    /\ alive' = TRUE /\ lives' = lives + 1
    /\ sizeOf' = [sizeOf EXCEPT ![lives'] = size]
    /\ link' = [link EXCEPT ![lives'] = "dial"]
    /\ UNCHANGED <<top, bottom, drawn, writing, notices, pages, joined, buffer,
                   crowded, register, fate, calls, client>>

BeginPicture(e) ==
    /\ drawn < MaxPictures
    /\ drawn' = drawn + 1
    /\ top' = [of |-> drawn', size |-> sizeOf[e]]
    /\ writing' = [writing EXCEPT ![e] = drawn']
    /\ UNCHANGED <<alive, lives, sizeOf, bottom, notices, register, fate,
                   calls, client>>

Working(e) == link[e] \in {"recv", "top", "bottom", "publish"}
Connected(e) == fate = "up" /\ alive /\ Working(e) /\ joined[e] = lives

DrawTop(e) ==
    /\ Connected(e) /\ writing[e] = 0
    /\ BeginPicture(e)
    /\ UNCHANGED links

(* The message that a picture is there follows the picture.                *)
DrawBottom(e) ==
    /\ Connected(e) /\ writing[e] # 0
    /\ bottom' = [of |-> writing[e], size |-> sizeOf[e]]
    /\ writing' = [writing EXCEPT ![e] = 0]
    /\ notices' = [notices EXCEPT ![e] = @ + 1]
    /\ UNCHANGED <<alive, lives, sizeOf, top, drawn, links, register, fate,
                   calls, client>>

Die ==
    /\ fate = "up" /\ alive
    /\ alive' = FALSE /\ writing' = [e \in Lives |-> 0]
    /\ UNCHANGED <<lives, sizeOf, top, bottom, drawn, notices, links, register,
                   fate, calls, client>>
-----------------------------------------------------------------------------
(* processDisplay, one for each emulator that was ever connected to.       *)

Pages(size) == (3 * size[1] * size[2] + 4095) \div 4096

(* It opens the memory, cuts its file to size, maps it and asks whatever   *)
(* emulator there is now for a stream, whose first picture comes at once.  *)
Attach(e) ==
    /\ fate = "up" /\ alive /\ link[e] = "dial"
    /\ link' = [link EXCEPT ![e] = "recv"]
    /\ joined' = [joined EXCEPT ![e] = lives]
    /\ pages' = Pages(sizeOf[e])
    /\ crowded' = (crowded \/ \E f \in Lives : Working(f))
    /\ UNCHANGED buffer
    /\ BeginPicture(e)

AttachFails(e) ==
    /\ fate = "up" /\ alive /\ link[e] = "dial"
    /\ link' = [link EXCEPT ![e] = "off"]
    /\ pages' \in {pages, Pages(sizeOf[e])}
    /\ crowded' = (crowded \/ \E f \in Lives : Working(f))
    /\ UNCHANGED <<emulator, notices, joined, buffer, register, fate, calls,
                   client>>

(* Receive a notice, copy the memory, broadcast the copy.                  *)
MutantFollows(step) ==
    CASE step = "recv" -> "publish" [] step = "publish" -> "top"
      [] step = "top" -> "bottom"   [] step = "bottom" -> "recv"
Follows(step) ==
    CASE step = "recv" -> "top"       [] step = "top" -> "bottom"
      [] step = "bottom" -> "publish" [] step = "publish" -> "recv"

Process(e, step) ==
    /\ fate = "up" /\ link[e] = step
    /\ link' = [link EXCEPT ![e] = Follows(step)]
    /\ UNCHANGED <<emulator, pages, joined, crowded, fate, calls, client>>

Receive(e) ==
    /\ Process(e, "recv")
    /\ notices[e] > 0 /\ notices' = [notices EXCEPT ![e] = @ - 1]
    /\ UNCHANGED <<buffer, register>>

(* What was drawn in another size is no picture in this one.               *)
InSize(half, size) == IF half.size = size THEN half.of ELSE 0

CopyTop(e) ==
    /\ Process(e, "top")
    /\ buffer' = [buffer EXCEPT ![e] =
                    [size |-> sizeOf[e], top |-> InSize(top, sizeOf[e]),
                     bottom |-> 0]]
    /\ UNCHANGED <<notices, register>>

CopyBottom(e) ==
    /\ Process(e, "bottom")
    /\ Pages(sizeOf[e]) <= pages
    /\ buffer' = [buffer EXCEPT ![e].bottom = InSize(bottom, sizeOf[e])]
    /\ UNCHANGED <<notices, register>>

(* The memory is mapped beyond the end of its file: a SIGBUS.              *)
CopyFaults(e) ==
    /\ fate = "up" /\ link[e] \in {"top", "bottom"}
    /\ pages < Pages(sizeOf[e])
    /\ fate' = "fault"
    /\ UNCHANGED <<emulator, notices, links, register, calls, client>>

OnEmulatorFrame(e) ==
    /\ Process(e, "publish")
    /\ R!Publish(buffer[e])
    /\ buffer' = [buffer EXCEPT ![e] = NoFrame]
    /\ UNCHANGED notices

(* The stream of notices ends with the emulator, or by itself; nothing     *)
(* opens it again.                                                         *)
ConnectionLost(e) ==
    /\ fate = "up" /\ link[e] = "recv"
    /\ link' = [link EXCEPT ![e] = "off"]
    /\ joined' = [joined EXCEPT ![e] = 0]
    /\ notices' = [notices EXCEPT ![e] = 0]
    /\ writing' = [writing EXCEPT ![e] = 0]
    /\ UNCHANGED <<alive, lives, sizeOf, top, bottom, drawn, pages, buffer,
                   crowded, register, fate, calls, client>>
-----------------------------------------------------------------------------
(* vpx.go, in bytes.  RgbToYuv allocates a buffer, writes a luma and two   *)
(* subsampled planes, and panics where it is too short; Image.Read takes   *)
(* the planes from it as libvpx lays them out.                             *)

(* The float32 nearest to n, ties to even: 24 bits are kept, which are     *)
(* enough for any product of two sides that libvpx encodes.                *)
Ulp(n) == CHOOSE u \in {1, 2, 4, 8, 16, 32, 64} :
              n < 16777216 * u /\ (u = 1 \/ n >= 8388608 * u)

RoundF(n) ==
    LET u == Ulp(n)  q == n \div u  rest == n % u IN
    u * (IF 2 * rest > u \/ (2 * rest = u /\ q % 2 = 1) THEN q + 1 ELSE q)

Halved(n) == (n + 1) \div 2

MutantYuvSize(w, h) == w * h
YuvSize(w, h) == RoundF(3 * RoundF(w * h)) \div 2

YuvWritten(w, h) == w * h + 2 * (Halved(w) * Halved(h))

ImageReads(w, h) == w * h + 2 * (((w + 1) \div 2) * ((h + 1) \div 2))

Converts(w, h) == YuvWritten(w, h) <= YuvSize(w, h)
-----------------------------------------------------------------------------
(* A StreamDisplay call.                                                   *)

Call(s, from, to) ==
    /\ fate = "up" /\ pc[s] = from
    /\ pc' = [pc EXCEPT ![s] = to]
    /\ UNCHANGED <<emulator, notices, links, rate, client>>

Open(s) ==
    /\ Call(s, "off", "wait")
    /\ UNCHANGED <<register, fate, encoder, fresh, shown>>

(* Wait, which no end of the client's context interrupts.                  *)
Wait(s) ==
    /\ Call(s, "wait", "frame")
    /\ R!Deliver(s)
    /\ UNCHANGED <<fate, encoder, fresh, shown>>

MutantKeepCount(s) == fresh[s]
FreshAfterResize(s) == TRUE

(* VP8 has 14 bits for a side.                                             *)
Encodable(size) == size[1] <= 16383 /\ size[2] <= 16383

(* A new size means a new encoder.                                         *)
Resize(s) ==
    /\ Call(s, "frame", "frame")
    /\ encoder[s] # got[s].size /\ Encodable(got[s].size)
    /\ encoder' = [encoder EXCEPT ![s] = got[s].size]
    /\ fresh' = [fresh EXCEPT ![s] = FreshAfterResize(s)]
    /\ UNCHANGED <<register, fate, shown>>

EncoderFails(s) ==
    /\ Call(s, "frame", "ended")
    /\ encoder[s] # got[s].size
    /\ UNCHANGED <<register, fate, encoder, fresh, shown>>

Width(s)  == got[s].size[1]
Height(s) == got[s].size[2]

Convert(s) ==
    /\ Call(s, "frame", "send")
    /\ encoder[s] = got[s].size
    /\ Converts(Width(s), Height(s))
    /\ UNCHANGED <<register, fate, encoder, fresh, shown>>

(* The index is out of range, in a goroutine that nobody recovers.         *)
ConvertPanics(s) ==
    /\ Call(s, "frame", "ended")
    /\ encoder[s] = got[s].size
    /\ ~Converts(Width(s), Height(s))
    /\ fate' = "panic"
    /\ UNCHANGED <<register, encoder, fresh, shown>>

(* No memory for the image, or an error of the encoder: log.Fatal.         *)
CodecFails(s) ==
    /\ Call(s, "frame", "ended")
    /\ fate' = "fatal"
    /\ UNCHANGED <<register, encoder, fresh, shown>>

(* A frame is encoded as a keyframe if it is the encoder's first, or if    *)
(* KeyframeInterval has passed, and then sent.                             *)
Send(s) ==
    /\ Call(s, "send", "next")
    /\ client[s] = "reads"
    /\ \E overdue \in BOOLEAN :
          shown' = [shown EXCEPT ![s] = [key    |-> fresh[s] \/ overdue,
                                         size   |-> encoder[s],
                                         top    |-> got[s].top,
                                         bottom |-> got[s].bottom]]
    /\ fresh' = [fresh EXCEPT ![s] = FALSE]
    /\ UNCHANGED <<register, fate, encoder>>

SendFails(s) ==
    /\ Call(s, "send", "ended")
    /\ client[s] = "away"
    /\ UNCHANGED <<register, fate, encoder, fresh, shown>>

(* The next round, at once or at the next tick.  The listener keeps its    *)
(* place: a frame that came meanwhile is still to be waited for.           *)
MutantOnlyLater(s) ==
    seen' = [seen EXCEPT ![s] = version] /\ UNCHANGED <<version, latest, got>>
SameListener(s) == UNCHANGED register

Again(s) ==
    /\ Call(s, "next", "wait")
    /\ rate[s] # "absurd"
    /\ SameListener(s)
    /\ UNCHANGED <<fate, encoder, fresh, shown>>

(* NewTicker panics if 1s / MaxFps is 0.                                   *)
TickerPanics(s) ==
    /\ Call(s, "next", "ended")
    /\ rate[s] = "absurd"
    /\ fate' = "panic"
    /\ UNCHANGED <<register, encoder, fresh, shown>>

(* Flow control holds up a client that does not read, which may be gone.   *)
ClientTurns(s, how) ==
    /\ fate = "up" /\ client[s] # how
    /\ client' = [client EXCEPT ![s] = how]
    /\ UNCHANGED <<emulator, notices, links, register, fate, calls>>
-----------------------------------------------------------------------------
Emulator ==
    \/ \E size \in Sizes : Boot(size)
    \/ \E e \in Lives : DrawTop(e) \/ DrawBottom(e)
    \/ Die

DisplayLoop(e) ==
    \/ Receive(e) \/ CopyTop(e) \/ CopyBottom(e) \/ CopyFaults(e)
    \/ OnEmulatorFrame(e)

Handler(s) ==
    \/ Wait(s) \/ Resize(s) \/ EncoderFails(s)
    \/ Convert(s) \/ ConvertPanics(s) \/ CodecFails(s)
    \/ Send(s) \/ SendFails(s) \/ Again(s) \/ TickerPanics(s)

Down == fate # "up" /\ UNCHANGED vars

Next ==
    \/ Emulator \/ Down
    \/ \E e \in Lives :
          Attach(e) \/ AttachFails(e) \/ DisplayLoop(e) \/ ConnectionLost(e)
    \/ \E s \in Streams :
          \/ Open(s) \/ Handler(s)
          \/ \E how \in {"reads", "away"} : ClientTurns(s, how)

Spec == Init /\ [][Next]_vars

(* The agent's goroutines run when they can, and a picture begun gets      *)
(* finished or the emulator dies.  A stream ends with its emulator.        *)
FairSpec ==
    /\ Spec
    /\ \A e \in Lives :
         /\ WF_vars(DisplayLoop(e)) /\ WF_vars(DrawBottom(e))
         /\ WF_vars(~(alive /\ joined[e] = lives) /\ ConnectionLost(e))
    /\ \A s \in Streams : WF_vars(Handler(s))
-----------------------------------------------------------------------------
(* The fields keep their types, and whoever works on a frame has one.      *)
TypeOK ==
    /\ alive \in BOOLEAN /\ crowded \in BOOLEAN
    /\ fate \in {"up", "panic", "fatal", "fault"}
    /\ lives \in 0..MaxLives /\ sizeOf \in [Lives -> Sizes \cup {NoSize}]
    /\ top \in Halves /\ bottom \in Halves /\ drawn \in 0..MaxPictures
    /\ writing \in [Lives -> 0..MaxPictures] /\ pages \in Nat
    /\ joined \in [Lives -> 0..MaxLives] /\ notices \in [Lives -> Nat]
    /\ link \in [Lives -> {"unborn", "dial", "recv", "top", "bottom",
                           "publish", "off"}]
    /\ buffer \in [Lives -> Frames \cup {NoFrame}]
    /\ version \in Nat /\ latest \in Frames \cup {NoFrame}
    /\ seen \in [Streams -> Nat] /\ got \in [Streams -> Frames \cup {NoFrame}]
    /\ pc \in [Streams -> {"off", "wait", "frame", "send", "next", "ended"}]
    /\ rate \in [Streams -> Rates]
    /\ encoder \in [Streams -> Sizes \cup {NoSize}]
    /\ fresh \in [Streams -> BOOLEAN]
    /\ shown \in [Streams -> Packets \cup {NotYet}]
    /\ client \in [Streams -> {"reads", "away"}]
    /\ \A e \in Lives :
         /\ link[e] = "unborn" <=> e > lives
         /\ link[e] \in {"bottom", "publish"} => buffer[e] # NoFrame
         /\ writing[e] # 0 => Connected(e) \/ fate # "up"
    /\ version > 0 => latest # NoFrame
    /\ \A s \in Streams : pc[s] \in {"frame", "send"} => got[s] # NoFrame

(* A decoder can follow every stream from its first frame, through any     *)
(* restart of the emulator with another size, at any frame rate.           *)
Video == INSTANCE VideoStream WITH last <- shown, ordered <- ~crowded

StreamsAreVideo == Video!Spec

(* RgbToYuv and the ticker panic only for a display with an odd side, for  *)
(* a large one, whose size float32 may round down, and for a request for   *)
(* more than 1e9 frames per second.  A copy runs past the end of the       *)
(* memory only after two processDisplay have met.  Beyond that, only       *)
(* libvpx brings the agent down here.                                      *)
Odd(size) == size[1] % 2 = 1 \/ size[2] % 2 = 1
Large(size) == 3 * (size[1] * size[2]) >= 67108864

DownForAReason ==
    /\ fate = "panic" => \E s \in Streams :
         rate[s] = "absurd" \/ Odd(encoder[s]) \/ Large(encoder[s])
    /\ fate = "fault" => crowded

(* Pictures are skipped and torn while the emulator draws, but when it     *)
(* stops drawing, every stream whose client reads comes to show its last   *)
(* picture, whole - unless two processDisplay have met, of which the one   *)
(* with the wrong size may have the last word.                             *)
Settled(e, s) ==
    /\ Connected(e) /\ writing[e] = 0 /\ ~crowded
    /\ pc[s] \notin {"off", "ended"} /\ client[s] = "reads"

ShowsPicture(e, s) ==
    /\ shown[s] # NotYet
    /\ shown[s].size = sizeOf[e]
    /\ shown[s].top = drawn /\ shown[s].bottom = drawn

LastPictureShown ==
    \A e \in Lives, s \in Streams :
        <>[]Settled(e, s) => <>[]ShowsPicture(e, s)

(* "A frame with zero width and height signifies the display is off"       *)
(* (agent.proto, DisplayFrame): a stream that has shown something comes to *)
(* show that the emulator has gone.  processFrame can send such a frame,   *)
(* but nothing broadcasts the nil that would make it do so.                *)
Off(s) ==
    /\ fate = "up" /\ ~alive
    /\ pc[s] # "ended" /\ client[s] = "reads" /\ shown[s] # NotYet

OffIsShown ==
    \A s \in Streams : <>[]Off(s) => <>(Off(s) /\ shown[s].size = NoSize)
=============================================================================
