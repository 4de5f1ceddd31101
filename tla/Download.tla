------------------------------ MODULE Download -----------------------------
(***************************************************************************)
(* DownloadArchive (builder/repository/download.go), as the commands of    *)
(* the builder call it, in processes that share an output path, may be     *)
(* killed at any moment, and leave their temporary file behind.            *)
(*                                                                         *)
(* An archive is a number of blocks, written in order.  Its version stands *)
(* for its content and for its hash.  A block of a file that was not       *)
(* written is a hole; a file that is not there is Absent.  Of a file that  *)
(* has lost its name nothing is kept.  The hash of the existing file is    *)
(* taken at one moment.                                                    *)
(*                                                                         *)
(* Bounds: Processes and Versions; Blocks is the length of an archive.     *)
(***************************************************************************)
EXTENDS Naturals

CONSTANTS Processes, Versions, Blocks, Nobody

ASSUME BlocksIsNat == Blocks \in Nat \ {0}
ASSUME NobodyIsNoProcess == Nobody \notin Processes
ASSUME VersionsAreNoHoles == {"absent", "hole"} \cap Versions = {}

Offsets == 1..Blocks
Absent  == [b \in Offsets |-> "absent"]
Empty   == [b \in Offsets |-> "hole"]

VARIABLES
    archive, temp, (* the files path and path.tmp                          *)
    at,            (* where each call is                                   *)
    result,        (* what it returned                                     *)
    wanted,        (* the version of the hash that the manifest gave it    *)
    served,        (* the version that the server sends                    *)
    written,       (* the blocks it has written                            *)
    hashed,        (* the blocks that have gone into its hash              *)
    out,           (* the name, by now, of the file that it has open       *)
    alone          (* history: a call that has met no other so far, and no *)
                   (* failing close                                        *)

files == <<archive, temp>>
calls == <<at, result, wanted, served, written, hashed, out>>
vars  == <<files, calls, alone>>

Init ==
    /\ archive = Absent /\ temp = Absent
    /\ at = [d \in Processes |-> "idle"]
    /\ result = [d \in Processes |-> "none"]
    /\ wanted \in [Processes -> Versions] /\ served = wanted
    /\ written = [d \in Processes |-> 0] /\ hashed = written
    /\ out = [d \in Processes |-> "none"]
    /\ alone = Nobody

Whole(file, v) == \A b \in Offsets : file[b] = v
-----------------------------------------------------------------------------
Call(d, v) ==
    /\ at[d] = "idle"
    /\ at' = [at EXCEPT ![d] = "check"]
    /\ result' = [result EXCEPT ![d] = "none"]
    /\ wanted' = [wanted EXCEPT ![d] = v]
    /\ alone' = IF \A e \in Processes : at[e] = "idle" THEN d ELSE Nobody
    /\ UNCHANGED <<files, served, written, hashed, out>>

(* Every return closes what the call has open.                             *)
Return(d, how) ==
    /\ at' = [at EXCEPT ![d] = "idle"]
    /\ result' = [result EXCEPT ![d] = how]
    /\ UNCHANGED <<wanted, served, written, hashed, alone>>

Closed(d) == out' = [out EXCEPT ![d] = "none"]

(* Twin of Matches for a check that is content with any file.              *)
MutantExists(d) == archive # Absent
Matches(d) == Whole(archive, wanted[d])

Skip(d) ==
    /\ at[d] = "check" /\ Matches(d)
    /\ Return(d, "ok")
    /\ UNCHANGED <<files, out>>

Goes(d, from, to) ==
    /\ at[d] = from
    /\ at' = [at EXCEPT ![d] = to]
    /\ UNCHANGED <<result, wanted, alone>>

Missing(d) ==
    /\ Goes(d, "check", "create") /\ ~Matches(d)
    /\ UNCHANGED <<files, served, written, hashed, out>>

(* os.Create empties a temporary file that is there, whoever writes to it. *)
Create(d) ==
    /\ Goes(d, "create", "get")
    /\ temp' = Empty
    /\ out' = [out EXCEPT ![d] = "temp"]
    /\ UNCHANGED <<archive, served, written, hashed>>

Get(d, v) ==
    /\ Goes(d, "get", "copy")
    /\ served' = [served EXCEPT ![d] = v]
    /\ written' = [written EXCEPT ![d] = 0]
    /\ hashed' = [hashed EXCEPT ![d] = 0]
    /\ UNCHANGED <<files, out>>

(* The path cannot be read, the file not created, or the server reached.   *)
Fails(d) ==
    /\ at[d] \in {"check", "create", "get"}
    /\ Return(d, "error") /\ Closed(d)
    /\ UNCHANGED files

(* One round of io.Copy: to the file, then to the hash.                    *)
WriteBlock(d) ==
    /\ Goes(d, "copy", "copy") /\ written[d] < Blocks
    /\ LET b == written[d] + 1 IN
         /\ written' = [written EXCEPT ![d] = b]
         /\ temp' = IF out[d] = "temp"
                      THEN [temp EXCEPT ![b] = served[d]] ELSE temp
         /\ archive' = IF out[d] = "path"
                         THEN [archive EXCEPT ![b] = served[d]] ELSE archive
    /\ hashed' = [hashed EXCEPT ![d] = @ + 1]
    /\ UNCHANGED <<served, out>>

(* Twin of HashAfterFailure for a writer with the hash before the file.    *)
MutantHashFirst(d) == [hashed EXCEPT ![d] = @ + 1]
HashAfterFailure(d) == hashed

WriteFails(d) ==
    /\ Goes(d, "copy", "verify") /\ written[d] < Blocks
    /\ hashed' = HashAfterFailure(d)
    /\ Closed(d)
    /\ UNCHANGED <<files, served, written>>

(* The body is complete or has broken off; DownloadArchive does not tell.  *)
BodyEnds(d) ==
    /\ Goes(d, "copy", "verify")
    /\ Closed(d)
    /\ UNCHANGED <<files, served, written, hashed>>

(* out.Close, whose error is ignored, may be the first to tell that blocks *)
(* written before have not reached the disk.  They are in the hash.        *)
Without(file, lost) == [b \in Offsets |-> IF b \in lost THEN "hole" ELSE file[b]]

CloseFails(d, lost) ==
    /\ at[d] = "copy" /\ lost \subseteq 1..written[d]
    /\ at' = [at EXCEPT ![d] = "verify"]
    /\ temp' = IF out[d] = "temp" THEN Without(temp, lost) ELSE temp
    /\ archive' = IF out[d] = "path" THEN Without(archive, lost) ELSE archive
    /\ alone' = Nobody
    /\ Closed(d)
    /\ UNCHANGED <<result, wanted, served, written, hashed>>

HashMatches(d) == hashed[d] = Blocks /\ served[d] = wanted[d]

Verified(d) ==
    /\ Goes(d, "verify", "rename") /\ HashMatches(d)
    /\ UNCHANGED <<files, served, written, hashed, out>>

Mismatch(d) ==
    /\ at[d] = "verify" /\ ~HashMatches(d)
    /\ Return(d, "error")
    /\ UNCHANGED <<files, out>>

(* Others that have the temporary file open have the archive open now, and *)
(* those that had the archive open have a file without a name.             *)
Renamed(e) == CASE out[e] = "temp" -> "path"
                [] out[e] = "path" -> "gone"
                [] OTHER -> out[e]

Rename(d) ==
    /\ at[d] = "rename" /\ temp # Absent
    /\ archive' = temp /\ temp' = Absent
    /\ out' = [e \in Processes |-> Renamed(e)]
    /\ Return(d, "ok")

RenameFails(d) ==
    /\ at[d] = "rename"
    /\ Return(d, "error")
    /\ UNCHANGED <<files, out>>

Killed(d) ==
    /\ at[d] # "idle"
    /\ Return(d, "killed") /\ Closed(d)
    /\ UNCHANGED files
-----------------------------------------------------------------------------
Next ==
    \E d \in Processes :
        \/ \E v \in Versions : Call(d, v) \/ Get(d, v)
        \/ Skip(d) \/ Missing(d) \/ Create(d) \/ Fails(d)
        \/ WriteBlock(d) \/ WriteFails(d) \/ BodyEnds(d)
        \/ Verified(d) \/ Mismatch(d) \/ Rename(d) \/ RenameFails(d)
        \/ Killed(d)
        \/ \E lost \in SUBSET Offsets : CloseFails(d, lost)

Spec == Init /\ [][Next]_vars
-----------------------------------------------------------------------------
(* A file's blocks are absent all together.                                *)
FileOK(file) == file = Absent \/ file \in [Offsets -> Versions \cup {"hole"}]

(* What the files and the calls can be.  A call has a file open only       *)
(* between its creation and the end of the body, and its hash never runs   *)
(* ahead of what it has written.                                           *)
TypeOK ==
    /\ FileOK(archive) /\ FileOK(temp)
    /\ at \in [Processes ->
               {"idle", "check", "create", "get", "copy", "verify", "rename"}]
    /\ result \in [Processes -> {"none", "ok", "error", "killed"}]
    /\ wanted \in [Processes -> Versions] /\ served \in [Processes -> Versions]
    /\ written \in [Processes -> 0..Blocks]
    /\ hashed \in [Processes -> 0..Blocks]
    /\ out \in [Processes -> {"none", "temp", "path", "gone"}]
    /\ alone \in Processes \cup {Nobody}
    /\ \A d \in Processes :
         /\ out[d] # "none" => at[d] \in {"get", "copy"}
         /\ hashed[d] <= written[d]

(* A call that has met no other while it ran, and returns without an       *)
(* error, leaves the archive of its hash at path, whole: whatever calls    *)
(* that were killed, cut off or run at the same time have left at path and *)
(* path.tmp before it, a lossy archive among them.  It says nothing of a   *)
(* call whose out.Close fails: download.go:61 does not look, and what was  *)
(* lost is renamed to path and believed until the next call hashes it.     *)
SuccessIsWhole ==
    \A d \in Processes :
        alone = d /\ result[d] = "ok" => Whole(archive, wanted[d])
=============================================================================
