---------------------------- MODULE EmulatorLogs ----------------------------
(***************************************************************************)
(* The output of one emulator process, from its writes to the error that   *)
(* watchEmulatorExit reports (agent/server/emulator/emulator.go).  Per     *)
(* stream: the process writes to an OS pipe; the copier that os/exec       *)
(* starts moves the bytes to an io.Pipe, whose Write returns when a reader *)
(* has taken them; processChannel scans lines and offers them on an        *)
(* unbuffered channel; processLogs receives from both channels.            *)
(*                                                                         *)
(* cmd.Wait returns when the process is dead and both copiers have ended.  *)
(* A child that inherits the streams may keep them open longer than that.  *)
(*                                                                         *)
(* Bounds: MaxOut and MaxErr cap the lines written to stdout and stderr.   *)
(*                                                                         *)
(* Init, Next and the like have names of their own here, for AgentProofs   *)
(* extends this module together with Agent.                                *)
(***************************************************************************)
EXTENDS Naturals, Sequences

CONSTANTS MaxOut, MaxErr

ASSUME BoundsAreNat == MaxOut \in Nat /\ MaxErr \in Nat

Streams == {"out", "err"}
MaxLines(s) == IF s = "out" THEN MaxOut ELSE MaxErr

(* "ERROR   |...", any "WARNING |..." or "INFO    |...", a line without a  *)
(* prefix, and a line longer than bufio.Scanner takes.  The prefixes mean  *)
(* nothing on stdout.                                                      *)
Kinds == {"ERROR", "INFO", "plain", "oversize"}
KindsOf(s) == IF s = "out" THEN {"plain", "oversize"} ELSE Kinds

VARIABLES
    alive,         (* the emulator process                                 *)
    open,          (* streams somebody can still write to                  *)
    written,       (* history: the lines that entered each OS pipe         *)
    osPipe,        (* ... and have not been copied                         *)
    copier,        (* os/exec's copiers: running, eof or failed            *)
    scanned,       (* lines read from the io.Pipe and not yet received     *)
    scanning,      (* streams whose processChannel runs                    *)
    writersClosed, (* watchEmulatorExit has closed the io.Pipes            *)
    logs,          (* where processLogs is                                 *)
    inError, lastError,   (* its locals; lastError as line numbers         *)
    reporter, result   (* watchEmulatorExit: where it is, what it was sent *)

process  == <<alive, open, written>>
pipes    == <<osPipe, copier>>
scans    == <<scanned, scanning>>
parse    == <<inError, lastError>>
exits    == <<reporter, writersClosed, result>>
logsVars == <<process, pipes, scans, logs, parse, exits>>

LogsInit ==
    /\ alive = TRUE /\ open = Streams
    /\ written = [s \in Streams |-> <<>>]
    /\ osPipe = [s \in Streams |-> <<>>]
    /\ copier = [s \in Streams |-> "running"]
    /\ scanned = [s \in Streams |-> <<>>]
    /\ scanning = Streams
    /\ logs = "select"
    /\ inError = FALSE /\ lastError = <<>>
    /\ reporter = "wait" /\ writersClosed = FALSE /\ result = <<>>

(* A line is its number in its stream and its kind.                        *)
Line(s, kind) == [n |-> Len(written[s]) + 1, kind |-> kind]
-----------------------------------------------------------------------------
(* The process and its children, which are not under src/, and os/exec.    *)

Write(s, kind) ==
    /\ s \in open /\ copier[s] # "failed"
    /\ Len(written[s]) < MaxLines(s)
    /\ written' = [written EXCEPT ![s] = Append(@, Line(s, kind))]
    /\ osPipe' = [osPipe EXCEPT ![s] = Append(@, Line(s, kind))]
    /\ UNCHANGED <<alive, open, copier, scans, logs, parse, exits>>

Die ==
    /\ alive
    /\ alive' = FALSE
    /\ UNCHANGED <<open, written, pipes, scans, logs, parse, exits>>

CloseStream(s) ==
    /\ s \in open
    /\ open' = open \ {s}
    /\ UNCHANGED <<alive, written, pipes, scans, logs, parse, exits>>

(* The io.Pipe is taken from only when the scanner has used up what it had.*)
Copy(s) ==
    /\ copier[s] = "running" /\ s \in scanning
    /\ osPipe[s] # <<>> /\ scanned[s] = <<>>
    /\ \E n \in 1..Len(osPipe[s]) :
        /\ scanned' = [scanned EXCEPT ![s] = SubSeq(osPipe[s], 1, n)]
        /\ osPipe' = [osPipe EXCEPT ![s] = SubSeq(@, n + 1, Len(@))]
    /\ UNCHANGED <<process, copier, scanning, logs, parse, exits>>

(* The reader is closed: the copier gives up, and closes the OS pipe.      *)
CopyFails(s) ==
    /\ copier[s] = "running" /\ s \notin scanning
    /\ copier' = [copier EXCEPT ![s] = "failed"]
    /\ osPipe' = [osPipe EXCEPT ![s] = <<>>]
    /\ UNCHANGED <<process, scans, logs, parse, exits>>

CopyEnds(s) ==
    /\ copier[s] = "running" /\ s \notin open
    /\ osPipe[s] = <<>>
    /\ copier' = [copier EXCEPT ![s] = "eof"]
    /\ UNCHANGED <<process, osPipe, scans, logs, parse, exits>>
-----------------------------------------------------------------------------
(* processChannel.  It stops at an oversize line or at the end of the      *)
(* io.Pipe, closes the reader and closes its channel.                      *)

Oversize(s) == scanned[s] # <<>> /\ Head(scanned[s]).kind = "oversize"

ScanStops(s) == Oversize(s) \/ (writersClosed /\ scanned[s] = <<>>)

ScanEnds(s) ==
    /\ s \in scanning
    /\ ScanStops(s)
    /\ scanning' = scanning \ {s}
    /\ scanned' = [scanned EXCEPT ![s] = <<>>]
    /\ UNCHANGED <<process, pipes, logs, parse, exits>>
-----------------------------------------------------------------------------
(* processLogs: both channels until one is closed, then all of stdout,     *)
(* then all of stderr, then the last error to watchEmulatorExit.           *)

MutantPreviousLine(line) ==
    /\ inError' = (line.kind = "ERROR")
    /\ lastError' = IF inError' THEN <<line.n - 1>> ELSE lastError
Parse(line) ==
    /\ inError' = (line.kind = "ERROR" \/ (line.kind = "plain" /\ inError))
    /\ lastError' = CASE line.kind = "ERROR" -> <<line.n>>
                      [] line.kind = "plain" /\ inError
                             -> Append(lastError, line.n)
                      [] OTHER -> lastError

(* The loop that drains stderr repeats the parsing of the first loop.      *)
MutantNoParse(line) == UNCHANGED parse
DrainParse(line) == Parse(line)

Reads(s) ==
    \/ logs = "select"
    \/ logs = "drainOut" /\ s = "out"
    \/ logs = "drainErr" /\ s = "err"

Receive(s) ==
    /\ Reads(s)
    /\ s \in scanning /\ scanned[s] # <<>> /\ ~Oversize(s)
    /\ scanned' = [scanned EXCEPT ![s] = Tail(@)]
    /\ CASE s = "out" -> UNCHANGED parse
         [] s = "err" /\ logs = "select" -> Parse(Head(scanned[s]))
         [] OTHER -> DrainParse(Head(scanned[s]))
    /\ UNCHANGED <<process, pipes, scanning, logs, exits>>

AfterClose == CASE logs = "select" -> "drainOut"
                [] logs = "drainOut" -> "drainErr"
                [] logs = "drainErr" -> "offer"

ReceiveClosed(s) ==
    /\ Reads(s)
    /\ s \notin scanning
    /\ logs' = AfterClose
    /\ UNCHANGED <<process, pipes, scans, parse, exits>>
-----------------------------------------------------------------------------
(* watchEmulatorExit.                                                      *)

MutantCloseNothing == UNCHANGED writersClosed
CloseWriters == writersClosed' = TRUE

WaitReturns ==
    /\ reporter = "wait" /\ ~alive
    /\ \A s \in Streams : copier[s] # "running"
    /\ CloseWriters
    /\ reporter' = "receive"
    /\ UNCHANGED <<process, pipes, scans, logs, parse, result>>

(* The channel exitErr is not buffered.                                    *)
SendExitErr ==
    /\ logs = "offer" /\ reporter = "receive"
    /\ logs' = "done" /\ reporter' = "reported"
    /\ result' = lastError
    /\ UNCHANGED <<process, pipes, scans, parse, writersClosed>>
-----------------------------------------------------------------------------
Finished == reporter = "reported" /\ UNCHANGED logsVars

LogsNext ==
    \/ \E s \in Streams :
        \/ \E kind \in KindsOf(s) : Write(s, kind)
        \/ CloseStream(s)
        \/ Copy(s) \/ CopyFails(s) \/ CopyEnds(s)
        \/ ScanEnds(s)
        \/ Receive(s) \/ ReceiveClosed(s)
    \/ Die
    \/ WaitReturns
    \/ SendExitErr
    \/ Finished

LogsSpec == LogsInit /\ [][LogsNext]_logsVars

(* Each goroutine runs when it can.  The emulator and its children need    *)
(* not end.                                                                *)
LogsFairness ==
    /\ \A s \in Streams :
        /\ WF_logsVars(Copy(s) \/ CopyFails(s) \/ CopyEnds(s))
        /\ WF_logsVars(ScanEnds(s))
    /\ WF_logsVars(\E s \in Streams : Receive(s) \/ ReceiveClosed(s))
    /\ WF_logsVars(WaitReturns)
    /\ WF_logsVars(SendExitErr)

LogsFairSpec == LogsSpec /\ LogsFairness
-----------------------------------------------------------------------------
Lines == [n : Nat \ {0}, kind : Kinds]

(* Types; an error that is reported, or is to be, is made of lines that    *)
(* were written to stderr.                                                 *)
LogsTypeOK ==
    /\ alive \in BOOLEAN /\ open \subseteq Streams
    /\ written \in [Streams -> Seq(Lines)]
    /\ osPipe \in [Streams -> Seq(Lines)]
    /\ scanned \in [Streams -> Seq(Lines)]
    /\ copier \in [Streams -> {"running", "eof", "failed"}]
    /\ scanning \subseteq Streams
    /\ logs \in {"select", "drainOut", "drainErr", "offer", "done"}
    /\ inError \in BOOLEAN
    /\ lastError \in Seq(1..Len(written["err"]))
    /\ reporter \in {"wait", "receive", "reported"}
    /\ writersClosed \in BOOLEAN
    /\ result \in Seq(1..Len(written["err"]))

(* Where the first oversize line of q is, or one past its end.             *)
Cut(q) ==
    CHOOSE c \in 1..Len(q) + 1 :
        /\ c \in 1..Len(q) => q[c].kind = "oversize"
        /\ \A i \in 1..c - 1 : q[i].kind # "oversize"

(* The numbers of the last error of q: its last ERROR line, and the lines  *)
(* without prefix that follow it, as far as the scanner gets.              *)
LastErrorOf(q) ==
    LET errors == {i \in 1..Cut(q) - 1 : q[i].kind = "ERROR"}
        last == CHOOSE i \in errors : \A j \in errors : j <= i
        length == CHOOSE k \in 1..Cut(q) - last :
            /\ \A i \in last + 1..last + k - 1 : q[i].kind = "plain"
            /\ last + k = Cut(q) \/ q[last + k].kind # "plain"
    IN  IF errors = {} THEN <<>> ELSE [i \in 1..length |-> last + i - 1]

(* What is reported is the last error of all that the process and its      *)
(* children wrote to stderr, whichever stream ends first; only an oversize *)
(* line cuts it short.                                                     *)
LastErrorReported ==
    reporter = "reported" => result = LastErrorOf(written["err"])

(* Once the process is dead and its streams are closed, the exit is        *)
(* reported: no goroutine waits for another that waits for it.  Agent      *)
(* assumes this as the fairness of WatchReap and WatchLastError.           *)
ExitErrDelivered == (~alive /\ open = {}) ~> reporter = "reported"
=============================================================================
