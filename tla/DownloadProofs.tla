--------------------------- MODULE DownloadProofs --------------------------
(***************************************************************************)
(* The invariants of Download, for any number of processes, versions and   *)
(* blocks.                                                                 *)
(***************************************************************************)
EXTENDS Download, TLAPS

USE DEF Offsets, Absent, Empty, FileOK

Contents == [Offsets -> Versions \cup {"hole"}]

(* A name that is open names a file, so that a write never meets one that  *)
(* is absent.                                                              *)
OpenIsThere ==
    \A d \in Processes :
        /\ out[d] = "temp" => temp \in Contents
        /\ out[d] = "path" => archive \in Contents

TypeInv == TypeOK /\ OpenIsThere

(* Types and open names together are inductive.                            *)
LEMMA TypeInvariant == Spec => []TypeInv
<1>1. Init => TypeInv
  BY BlocksIsNat DEF Init, TypeInv, TypeOK, OpenIsThere
<1>2. TypeInv /\ [Next]_vars => TypeInv'
  <2> SUFFICES ASSUME TypeInv, [Next]_vars PROVE TypeInv'
    OBVIOUS
  <2> USE DEF TypeInv, Contents
  <2>1. ASSUME NEW d \in Processes, NEW v \in Versions, Call(d, v)
        PROVE  TypeInv'
    BY <2>1 DEF TypeOK, OpenIsThere, Call, files
  <2>2. ASSUME NEW d \in Processes, NEW v \in Versions, Get(d, v)
        PROVE  TypeInv'
    BY <2>2, BlocksIsNat DEF TypeOK, OpenIsThere, Get, Goes, files
  <2>3. ASSUME NEW d \in Processes, Skip(d) PROVE TypeInv'
    BY <2>3 DEF TypeOK, OpenIsThere, Skip, Return, files
  <2>4. ASSUME NEW d \in Processes, Missing(d) PROVE TypeInv'
    BY <2>4 DEF TypeOK, OpenIsThere, Missing, Goes, files
  <2>5. ASSUME NEW d \in Processes, Create(d) PROVE TypeInv'
    BY <2>5 DEF TypeOK, OpenIsThere, Create, Goes
  <2>6. ASSUME NEW d \in Processes, Fails(d) PROVE TypeInv'
    BY <2>6 DEF TypeOK, OpenIsThere, Fails, Return, Closed, files
  <2>7. ASSUME NEW d \in Processes, WriteBlock(d) PROVE TypeInv'
    <3> DEFINE b == written[d] + 1
    <3>1. b \in Offsets /\ b \in 0..Blocks /\ hashed[d] \in Nat
          /\ hashed[d] + 1 <= b /\ hashed[d] + 1 \in 0..Blocks
      BY <2>7, BlocksIsNat DEF TypeOK, WriteBlock
    <3>2. served[d] \in Versions
      BY DEF TypeOK
    <3>3. temp' \in Contents \/ temp' = temp
      BY <2>7, <3>2 DEF OpenIsThere, WriteBlock
    <3>4. archive' \in Contents \/ archive' = archive
      BY <2>7, <3>2 DEF OpenIsThere, WriteBlock
    <3>5. TypeOK'
      BY <2>7, <3>1, <3>3, <3>4 DEF TypeOK, WriteBlock, Goes
    <3> QED
      BY <2>7, <3>3, <3>4, <3>5 DEF OpenIsThere, WriteBlock
  <2>8. ASSUME NEW d \in Processes, WriteFails(d) PROVE TypeInv'
    BY <2>8 DEF TypeOK, OpenIsThere, WriteFails, Goes, Closed, HashAfterFailure, files
  <2>9. ASSUME NEW d \in Processes, BodyEnds(d) PROVE TypeInv'
    BY <2>9 DEF TypeOK, OpenIsThere, BodyEnds, Goes, Closed, files
  <2>10. ASSUME NEW d \in Processes, Verified(d) PROVE TypeInv'
    BY <2>10 DEF TypeOK, OpenIsThere, Verified, Goes, files
  <2>11. ASSUME NEW d \in Processes, Mismatch(d) PROVE TypeInv'
    BY <2>11 DEF TypeOK, OpenIsThere, Mismatch, Return, files
  <2>12. ASSUME NEW d \in Processes, Rename(d) PROVE TypeInv'
    BY <2>12 DEF TypeOK, OpenIsThere, Rename, Return, Renamed
  <2>13. ASSUME NEW d \in Processes, RenameFails(d) PROVE TypeInv'
    BY <2>13 DEF TypeOK, OpenIsThere, RenameFails, Return, files
  <2>14. ASSUME NEW d \in Processes, Killed(d) PROVE TypeInv'
    BY <2>14 DEF TypeOK, OpenIsThere, Killed, Return, Closed, files
  <2>15. CASE UNCHANGED vars
    BY <2>15 DEF TypeOK, OpenIsThere, vars, files, calls
  <2>16. ASSUME NEW d \in Processes, NEW lost \in SUBSET Offsets,
                CloseFails(d, lost)
         PROVE  TypeInv'
    <3>1. \A file \in Contents : Without(file, lost) \in Contents
      BY DEF Without
    <3>2. /\ temp' = temp \/ (temp' \in Contents /\ temp \in Contents)
          /\ archive' = archive
             \/ (archive' \in Contents /\ archive \in Contents)
      BY <2>16, <3>1 DEF OpenIsThere, CloseFails
    <3>3. TypeOK'
      BY <2>16, <3>2 DEF TypeOK, CloseFails, Closed
    <3> QED
      BY <2>16, <3>2, <3>3 DEF TypeOK, OpenIsThere, CloseFails, Closed
  <2> QED
    BY <2>1, <2>2, <2>3, <2>4, <2>5, <2>6, <2>7, <2>8, <2>9, <2>10, <2>11,
       <2>12, <2>13, <2>14, <2>15, <2>16 DEF Next
<1> QED
  BY <1>1, <1>2, PTL DEF Spec

(* The fields of every call keep their types, a call has a file open only  *)
(* while it downloads, and what it has hashed it has written.              *)
THEOREM TypeCorrect == Spec => []TypeOK
<1>1. TypeInv => TypeOK
  BY DEF TypeInv
<1> QED
  BY <1>1, TypeInvariant, PTL
-----------------------------------------------------------------------------
(* What a call that has met no other has done so far: nobody else is about *)
(* to touch the files, the temporary file holds what was written to it and *)
(* hashed, and once the hash is right it holds the wanted archive.         *)
AloneSoFar(d) ==
    /\ \A e \in Processes : e # d => at[e] = "idle"
    /\ at[d] \in {"get", "copy"} => out[d] = "temp"
    /\ at[d] = "copy" =>
         /\ hashed[d] = written[d]
         /\ \A b \in 1..written[d] : temp[b] = served[d]
    /\ at[d] = "verify" /\ hashed[d] = Blocks => Whole(temp, served[d])
    /\ at[d] = "rename" => Whole(temp, wanted[d])
    /\ result[d] = "ok" => at[d] = "idle" /\ Whole(archive, wanted[d])

AloneInv == \A d \in Processes : alone = d => AloneSoFar(d)

(* However earlier calls were killed, cut off or mixed up, a call that     *)
(* meets no other and no failing close, and succeeds, leaves its archive   *)
(* whole.                                                                  *)
THEOREM SuccessfulCallsAreWhole == Spec => []SuccessIsWhole
<1>1. Init => AloneInv
  BY NobodyIsNoProcess DEF Init, AloneInv
<1>2. TypeInv /\ AloneInv /\ [Next]_vars => AloneInv'
  <2> SUFFICES ASSUME TypeInv, AloneInv, [Next]_vars,
                      NEW a \in Processes, alone' = a
               PROVE  AloneSoFar(a)'
    BY DEF AloneInv
  <2> USE DEF TypeInv
  <2>1. ASSUME NEW d \in Processes, NEW v \in Versions, Call(d, v)
        PROVE  AloneSoFar(a)'
    <3>1. a = d /\ \A e \in Processes : at[e] = "idle"
      BY <2>1, NobodyIsNoProcess DEF Call
    <3> QED
      BY <2>1, <3>1 DEF TypeOK, AloneSoFar, Call, files
  <2>2. CASE UNCHANGED vars
    BY <2>2 DEF AloneInv, AloneSoFar, Whole, vars, files, calls
  <2>3. ASSUME NEW d \in Processes, at[d] # "idle", alone' = alone
        PROVE  a = d /\ AloneSoFar(d)
    BY <2>3 DEF AloneInv, AloneSoFar
  <2>4. ASSUME NEW d \in Processes, NEW v \in Versions, Get(d, v)
        PROVE  AloneSoFar(a)'
    BY <2>3, <2>4, BlocksIsNat DEF TypeOK, AloneSoFar, Get, Goes, files
  <2>5. ASSUME NEW d \in Processes, Skip(d) PROVE AloneSoFar(a)'
    BY <2>3, <2>5 DEF TypeOK, AloneSoFar, Skip, Return, Matches, Whole, files
  <2>6. ASSUME NEW d \in Processes, Missing(d) PROVE AloneSoFar(a)'
    BY <2>3, <2>6 DEF TypeOK, AloneSoFar, Missing, Goes, files
  <2>7. ASSUME NEW d \in Processes, Create(d) PROVE AloneSoFar(a)'
    BY <2>3, <2>7 DEF TypeOK, AloneSoFar, Create, Goes
  <2>8. ASSUME NEW d \in Processes, Fails(d) PROVE AloneSoFar(a)'
    BY <2>3, <2>8 DEF TypeOK, AloneSoFar, Fails, Return, Closed, files
  <2>9. ASSUME NEW d \in Processes, WriteBlock(d) PROVE AloneSoFar(a)'
    <3> DEFINE b == written[d] + 1
    <3>1. a = d /\ AloneSoFar(d)
      BY <2>3, <2>9 DEF WriteBlock, Goes
    <3>2. out[d] = "temp" /\ hashed[d] = written[d] /\ at[d] = "copy"
          /\ \A c \in 1..written[d] : temp[c] = served[d]
      BY <2>9, <3>1 DEF AloneSoFar, WriteBlock, Goes
    <3>0. written[d] \in Nat /\ b \in Offsets
      BY <2>9, BlocksIsNat DEF TypeOK, WriteBlock
    <3>3. \A c \in 1..b : c \in Offsets /\ (c \in 1..written[d] \/ c = b)
      BY <3>0, BlocksIsNat
    <3>4. temp' = [temp EXCEPT ![b] = served[d]]
      BY <2>9, <3>2 DEF WriteBlock
    <3>5. written'[d] = b /\ hashed'[d] = b /\ served' = served
          /\ out' = out /\ at' = [at EXCEPT ![d] = "copy"]
      BY <2>9, <3>2 DEF TypeOK, WriteBlock, Goes
    <3>6. temp \in Contents
      BY <3>2 DEF OpenIsThere
    <3>7. \A c \in 1..b : temp'[c] = served[d]
      BY <3>2, <3>3, <3>4, <3>6 DEF Contents
    <3>8. at'[d] = "copy" /\ result'[d] # "ok"
          /\ \A e \in Processes : e # d => at'[e] = "idle"
      BY <2>9, <3>1, <3>2 DEF TypeOK, AloneSoFar, WriteBlock, Goes
    <3> QED
      BY <3>1, <3>2, <3>5, <3>7, <3>8 DEF AloneSoFar
  <2>10. ASSUME NEW d \in Processes, WriteFails(d) PROVE AloneSoFar(a)'
    BY <2>3, <2>10, BlocksIsNat
       DEF TypeOK, AloneSoFar, WriteFails, Goes, Closed, HashAfterFailure, files
  <2>11. ASSUME NEW d \in Processes, BodyEnds(d) PROVE AloneSoFar(a)'
    BY <2>3, <2>11 DEF TypeOK, AloneSoFar, BodyEnds, Goes, Closed, Whole, files
  <2>12. ASSUME NEW d \in Processes, Verified(d) PROVE AloneSoFar(a)'
    BY <2>3, <2>12
       DEF TypeOK, AloneSoFar, Verified, HashMatches, Goes, Whole, files
  <2>13. ASSUME NEW d \in Processes, Mismatch(d) PROVE AloneSoFar(a)'
    BY <2>3, <2>13 DEF TypeOK, AloneSoFar, Mismatch, Return, files
  <2>14. ASSUME NEW d \in Processes, Rename(d) PROVE AloneSoFar(a)'
    BY <2>3, <2>14 DEF TypeOK, AloneSoFar, Rename, Return, Whole
  <2>15. ASSUME NEW d \in Processes, RenameFails(d) PROVE AloneSoFar(a)'
    BY <2>3, <2>15 DEF TypeOK, AloneSoFar, RenameFails, Return, files
  <2>16. ASSUME NEW d \in Processes, Killed(d) PROVE AloneSoFar(a)'
    BY <2>3, <2>16 DEF TypeOK, AloneSoFar, Killed, Return, Closed, files
  <2>17. ASSUME NEW d \in Processes, NEW lost \in SUBSET Offsets,
                CloseFails(d, lost)
         PROVE  AloneSoFar(a)'
    BY <2>17, NobodyIsNoProcess DEF CloseFails
  <2> QED
    BY <2>1, <2>2, <2>4, <2>5, <2>6, <2>7, <2>8, <2>9, <2>10, <2>11,
       <2>12, <2>13, <2>14, <2>15, <2>16, <2>17 DEF Next
<1>3. AloneInv => SuccessIsWhole
  BY DEF AloneInv, AloneSoFar, SuccessIsWhole
<1> QED
  BY <1>1, <1>2, <1>3, TypeInvariant, PTL DEF Spec
=============================================================================
