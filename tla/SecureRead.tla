----------------------------- MODULE SecureRead -----------------------------
(***************************************************************************)
(* loadAndValidateEpochFence, system call by system call, while the        *)
(* Session directory changes under it: epoch-state.json is replaced by     *)
(* rename, and other changes happen out of band.  The lease the caller     *)
(* holds keeps Core away; the read does not count on it.                   *)
(*                                                                         *)
(* An inode number is free as soon as no path and no descriptor names it,  *)
(* and the next file may get it.  A file is written before it is renamed   *)
(* into place: nobody rewrites one in place, which no check would notice   *)
(* when the size stays the same.                                           *)
(***************************************************************************)
EXTENDS EpochState

CONSTANTS
  Inodes,          \* inode numbers of the Session directory
  Texts,           \* contents of the file at first
  CoreStates,      \* states of this lineage Core replaces it with
  MaxBytes,        \* kMaximumEpochStateBytes
  Splits,          \* lengths after which a read may stop short
  Tampering,       \* out-of-band changes: link, unlink, chmod, truncate
  MaxChanges       \* bound: changes of the directory

ASSUME ReadAssumption ==
  /\ Inodes \subseteq Nat \ {0}
  /\ MaxBytes \in Nat /\ Splits \subseteq Nat /\ MaxChanges \in Nat
  /\ Texts \subseteq Seq([key : STRING, string : Seq(Forms \X Chars)])
  /\ Expected.epoch \in 1..MaxEpochId /\ MaxEpochId \in Nat /\ DigestLength \in Nat

\* What Core takes for a name: not empty, no longer than allowed, no NUL and no
\* white space at either end.
CoreName(value, maximum) ==
  /\ Len(value) > 0 /\ ByteLength(value) <= maximum
  /\ \A i \in DOMAIN value : value[i] # "nul"
  /\ {value[1], value[Len(value)]} \cap {"space", "newline", "vtab", "separator"} = {}

\* The states Core writes for the lineage the Guard expects.
ASSUME CoreAssumption ==
  \A state \in CoreStates :
    /\ state.epoch = Expected.epoch
    /\ DOMAIN state.value = ToSet(Keys)
    /\ \A k \in ToSet(Keys) : state.value[k] \in Seq(Chars \ {"invalid", "open"})
    /\ \A k \in {"policySha256", "sessionContractSha256", "sessionId"} :
         state.value[k] = Expected.value[k]
    /\ state.value["schema"] = Schema
    /\ CoreName(state.value["jobId"], Limit["jobId"])
    /\ CoreName(state.value["targetId"], Limit["targetId"])
    /\ Len(state.value["sessionId"]) > 0
    /\ ByteLength(state.value["sessionId"]) <= Limit["sessionId"]
    /\ \A k \in {"policySha256", "sessionContractSha256"} :
         state.value[k] \in [1..DigestLength -> LowerHex]

CoreTexts == {Rendering(state) : state \in CoreStates}

VARIABLES
  path,       \* the inode epoch-state.json names, or 0
  files,      \* what an inode holds
  reader,     \* the call in progress: its next system call and its locals
  answer,     \* what the last call of readSecureEpochState returned
  fence,      \* whether loadAndValidateEpochFence returned, too
  changes

readVars == <<path, files, reader, answer, fence, changes>>

Refused == [ok |-> FALSE, bytes |-> << >>]
Resting == [at |-> "lstat", ino |-> 0, size |-> 0, fd |-> 0, bytes |-> << >>]

File(text) == [regular |-> TRUE, private |-> TRUE, bytes |-> text]
Size(i) == Len(files[i].bytes)

ReadInit ==
  /\ path \in Inodes /\ \A i \in Inodes : path <= i
  /\ \E text \in Texts :
       files = [i \in Inodes |-> File(IF i = path THEN text ELSE << >>)]
  /\ reader = Resting
  /\ answer = Refused
  /\ fence = FALSE
  /\ changes = 0

-----------------------------------------------------------------------------
(* The directory *)

Free(i) == i # path /\ i # reader.fd

DirectoryChanges ==
  /\ changes < MaxChanges
  /\ changes' = changes + 1
  /\ UNCHANGED <<reader, answer, fence>>

Place(i, file) ==
  /\ Free(i)
  /\ path' = i
  /\ files' = [files EXCEPT ![i] = file]

CoreReplaces ==
  /\ DirectoryChanges
  /\ \E i \in Inodes, text \in CoreTexts : Place(i, File(text))

TamperLink ==
  /\ "link" \in Tampering /\ DirectoryChanges
  /\ \E i \in Inodes : Place(i, [File(<< >>) EXCEPT !.regular = FALSE])

TamperUnlink ==
  /\ "unlink" \in Tampering /\ path # 0 /\ DirectoryChanges
  /\ path' = 0 /\ UNCHANGED files

TamperMode ==
  /\ "chmod" \in Tampering /\ path # 0 /\ DirectoryChanges
  /\ files' = [files EXCEPT ![path].private = ~@]
  /\ UNCHANGED path

TamperSize ==
  /\ "truncate" \in Tampering /\ path # 0 /\ DirectoryChanges
  /\ \E n \in Splits \cup {0} :
       /\ n < Size(path)
       /\ files' = [files EXCEPT ![path].bytes = SubSeq(@, 1, n)]
  /\ UNCHANGED path

-----------------------------------------------------------------------------
(* readSecureEpochState *)

Step(next) ==
  /\ reader' = next
  /\ UNCHANGED <<path, files, answer, fence, changes>>

\* The call throws; its descriptor closes.
Refuse ==
  /\ reader' = Resting
  /\ answer' = Refused
  /\ fence' = FALSE
  /\ UNCHANGED <<path, files, changes>>

\* A new call: what the last one returned is gone.
LstatBefore ==
  /\ reader.at = "lstat"
  /\ answer' = Refused /\ fence' = FALSE
  /\ UNCHANGED <<path, files, changes>>
  /\ IF /\ path # 0 /\ files[path].regular /\ files[path].private
        /\ Size(path) \in 1..MaxBytes
     THEN reader' = [reader EXCEPT !.at = "open", !.ino = path, !.size = Size(path)]
     ELSE reader' = Resting

Open ==
  /\ reader.at = "open"
  /\ IF path # 0 /\ files[path].regular
     THEN Step([reader EXCEPT !.at = "fstat", !.fd = path])
     ELSE Refuse

Fstat ==
  /\ reader.at = "fstat"
  /\ LET fd == reader.fd IN
     IF /\ files[fd].regular /\ files[fd].private
        /\ fd = reader.ino /\ Size(fd) = reader.size
     THEN Step([reader EXCEPT !.at = "read"])
     ELSE Refuse

\* Mutant: end of file is not an error, and the loop goes on.
EndOfFile_Retried == Step(reader)

EndOfFile == Refuse

Read ==
  /\ reader.at = "read"
  /\ LET offset == Len(reader.bytes)
         most == IF Size(reader.fd) < reader.size THEN Size(reader.fd) ELSE reader.size
         Chunk(n) == reader.bytes \o SubSeq(files[reader.fd].bytes, offset + 1, n)
     IN  IF offset >= most THEN EndOfFile
         ELSE \E n \in Splits \cup {most} :
                /\ offset < n /\ n <= most
                /\ Step([reader EXCEPT !.bytes = Chunk(n),
                           !.at = IF n = reader.size THEN "relist" ELSE "read"])

\* Mutant: the path is not looked at again after the read.
StillNamed_Assumed == TRUE

StillNamed ==
  /\ path = reader.fd
  /\ Size(path) = reader.size
  /\ files[path].private

\* The last lstat; what it confirms is parsed and compared with the lineage.
LstatCurrent ==
  /\ reader.at = "relist"
  /\ IF StillNamed
     THEN /\ answer' = [ok |-> TRUE, bytes |-> reader.bytes]
          /\ fence' = /\ Parses(reader.bytes)
                      /\ ValidateEpochFenceState(StateOf(reader.bytes))
          /\ reader' = Resting
          /\ UNCHANGED <<path, files, changes>>
     ELSE Refuse

Call == LstatBefore \/ Open \/ Fstat \/ Read \/ LstatCurrent

ReadNext ==
  \/ CoreReplaces \/ TamperLink \/ TamperUnlink \/ TamperMode \/ TamperSize
  \/ LstatBefore \/ Open \/ Fstat \/ Read \/ LstatCurrent

\* Nothing blocks the calling thread between two system calls.
ReadSpec == ReadInit /\ [][ReadNext]_readVars /\ WF_readVars(Call)

-----------------------------------------------------------------------------
(* Properties *)

Document ==
  IF /\ path # 0 /\ files[path].regular /\ files[path].private
     /\ Size(path) \in 1..MaxBytes
  THEN files[path].bytes ELSE << >>

Abstract == INSTANCE AtomicRead WITH document <- Document

\* The six system calls act as one: bytes are returned only when they are,
\* whole and unmixed, what a regular 0600 file holds that the path names at
\* the moment of the return; files replaced during the call, inode numbers
\* used again and short reads included.
ImplementsAtomicRead == Abstract!ARSpec

\* A text that passes the fence is the one Go's encoder writes for the state
\* read from it: no state has a second spelling, in escapes, in the order or
\* number of its keys, in leading zeros or in data after the end.
FenceIsCanonical ==
  fence => LET state == StateOf(answer.bytes)
           IN  answer.bytes = Rendering(state) /\ state.epoch = Expected.epoch

\* Whatever Core writes for this lineage passes the fence when it is read:
\* names with every escape, and names of the greatest length.
CoreIsUnderstood ==
  answer.ok /\ answer.bytes \in CoreTexts => fence

\* Every call ends, by an answer or a refusal, also when the file shrinks
\* while it is read.
CallEnds == reader.at # "lstat" ~> reader.at = "lstat"
=============================================================================
