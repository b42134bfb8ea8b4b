----------------------------- MODULE EpochFence -----------------------------
(***************************************************************************)
(* The private Session directory that Core, the Guards and the health      *)
(* checker share: the lock file everyone flocks and the persisted epoch    *)
(* state everyone reads (epoch_fence.cpp).                                 *)
(*                                                                         *)
(* A file is known by what the secure readers test.  The lock is the inode *)
(* its path names, and whether that inode is an empty regular 0600 file.   *)
(* The state is its epoch, and whether it is a secure canonical file that  *)
(* carries this Session's identity and policy digests.                     *)
(*                                                                         *)
(* Core is not part of the repository.  It appears as the Guard relies on  *)
(* it: it locks the inode exclusively, persists a greater epoch, unlocks.  *)
(***************************************************************************)
EXTENDS Naturals

CONSTANTS
  MaxEpoch,   \* bound: epochs Core allocates
  MaxInode,   \* bound: inodes the lock path names over time
  Tampering   \* which mutations happen behind the back of the lock

ASSUME FenceAssumption ==
  /\ MaxEpoch \in Nat \ {0} /\ MaxInode \in Nat \ {0}
  /\ Tampering \subseteq {"replaceLock", "spoilLock", "spoilFence", "advance"}

Epoch == 1..MaxEpoch
Inode == 1..MaxInode

\* A Guard is known by its startup epoch; process 0 is the health checker.
Checker == 0
Process == Epoch \cup {Checker}

VARIABLES
  lock,        \* epoch-state.lock: [inode, sound]
  fence,       \* epoch-state.json: [epoch, intact]
  exclusive,   \* the inode Core holds with LOCK_EX, 0 if none
  descriptor   \* EpochFenceLease::descriptor_ of every process

fenceVars == <<lock, fence, exclusive, descriptor>>

Closed == [inode |-> 0, shared |-> FALSE]

FenceTypeOK ==
  /\ lock \in [inode : Inode, sound : BOOLEAN]
  /\ fence \in [epoch : Epoch, intact : BOOLEAN]
  /\ exclusive \in Inode \cup {0}
  /\ descriptor \in [Process -> [inode : Inode \cup {0}, shared : BOOLEAN]]

FenceInit ==
  /\ lock = [inode |-> 1, sound |-> TRUE]
  /\ fence = [epoch |-> 1, intact |-> TRUE]
  /\ exclusive = 0
  /\ descriptor = [p \in Process |-> Closed]

-----------------------------------------------------------------------------
(* What the secure readers decide *)

\* Mutant: any sound lock file will do.
ValidateCurrent_AnyInode(p) == lock.sound

\* validateCurrent: the path still names the held inode, and it is sound.
ValidateCurrent(p) ==
  descriptor[p].inode = lock.inode /\ lock.sound

\* Mutant: the epoch state is not read again.
LoadAndValidateEpochFence_Cached(e) == fence.epoch >= e

\* loadAndValidateEpochFence for a process started at epoch e.
LoadAndValidateEpochFence(e) == fence.intact /\ fence.epoch = e

-----------------------------------------------------------------------------
(* The lease *)

\* EpochFenceLease, up to the open descriptor.
OpenLock(p) ==
  /\ lock.sound
  /\ descriptor' = [descriptor EXCEPT ![p] = [inode |-> lock.inode,
                                              shared |-> FALSE]]
  /\ UNCHANGED <<lock, fence, exclusive>>

\* Mutant: Core's exclusive lock does not refuse the shared one.
Leasable_Ignored(p) == ValidateCurrent(p)

\* flock(LOCK_SH | LOCK_NB) is granted, and validateCurrent agrees.
Leasable(p) == exclusive # descriptor[p].inode /\ ValidateCurrent(p)

TakeLease(p) ==
  /\ Leasable(p)
  /\ descriptor' = [descriptor EXCEPT ![p].shared = TRUE]
  /\ UNCHANGED <<lock, fence, exclusive>>

\* The destructor, a throwing constructor, or the kernel for a dead process.
CloseLock(p) ==
  /\ descriptor' = [descriptor EXCEPT ![p] = Closed]
  /\ UNCHANGED <<lock, fence, exclusive>>

-----------------------------------------------------------------------------
(* Core *)

\* LOCK_EX | LOCK_NB on the inode the path names.
CoreLocks ==
  /\ exclusive = 0
  /\ \A p \in Process :
       ~(descriptor[p].shared /\ descriptor[p].inode = lock.inode)
  /\ exclusive' = lock.inode
  /\ UNCHANGED <<lock, fence, descriptor>>

CoreAdvances ==
  /\ exclusive # 0
  /\ fence.epoch < MaxEpoch
  /\ fence' = [epoch |-> fence.epoch + 1, intact |-> TRUE]
  /\ UNCHANGED <<lock, exclusive, descriptor>>

\* Done, or dead before anything was persisted.
CoreUnlocks ==
  /\ exclusive # 0
  /\ exclusive' = 0
  /\ UNCHANGED <<lock, fence, descriptor>>

Core == CoreLocks \/ CoreAdvances \/ CoreUnlocks

-----------------------------------------------------------------------------
(* Mutation behind the back of the lock; none if everyone respects it *)

ReplaceLock ==
  /\ "replaceLock" \in Tampering
  /\ lock.inode < MaxInode
  /\ lock' = [inode |-> lock.inode + 1, sound |-> TRUE]
  /\ UNCHANGED <<fence, exclusive, descriptor>>

SpoilLock ==
  /\ "spoilLock" \in Tampering
  /\ lock.sound
  /\ lock' = [lock EXCEPT !.sound = FALSE]
  /\ UNCHANGED <<fence, exclusive, descriptor>>

SpoilFence ==
  /\ "spoilFence" \in Tampering
  /\ fence.intact
  /\ fence' = [fence EXCEPT !.intact = FALSE]
  /\ UNCHANGED <<lock, exclusive, descriptor>>

AdvanceUnlocked ==
  /\ "advance" \in Tampering
  /\ fence.epoch < MaxEpoch
  /\ fence' = [fence EXCEPT !.epoch = @ + 1]
  /\ UNCHANGED <<lock, exclusive, descriptor>>

Tamper == ReplaceLock \/ SpoilLock \/ SpoilFence \/ AdvanceUnlocked
=============================================================================
