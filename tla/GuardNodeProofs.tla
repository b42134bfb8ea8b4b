-------------------------- MODULE GuardNodeProofs --------------------------
(***************************************************************************)
(* Proofs about the Guard processes and the epoch fence, for any number of *)
(* epochs and lock inodes; then about the health checker beside them, for  *)
(* any statuses and queue places: what a passing check vouches for, and    *)
(* that its own lease leaves the exclusion of the Guards intact.           *)
(***************************************************************************)
EXTENDS HealthCheck, TLAPS

-----------------------------------------------------------------------------
(* Types *)

LEMMA NodeTypeInit == NodeInit => NodeTypeOK
  BY FenceAssumption
  DEF NodeInit, FenceInit, NodeTypeOK, FenceTypeOK, Guard, GuardState,
      Closed, Epoch, Inode, Process

LEMMA ProcessFacts == \A e \in Epoch : e \in Process /\ e \in Nat /\ e # 0
  BY FenceAssumption DEF Epoch, Process

LEMMA NodeTypeStep == NodeTypeOK /\ [NodeNext]_nodeVars => NodeTypeOK'
<1> SUFFICES ASSUME NodeTypeOK, [NodeNext]_nodeVars PROVE NodeTypeOK'
  OBVIOUS
<1> USE FenceAssumption DEF NodeTypeOK, FenceTypeOK
<1>1. CASE Core /\ UNCHANGED guards
  <2>1. CASE CoreLocks
    BY <1>1, <2>1 DEF CoreLocks
  <2>2. CASE CoreAdvances
    <3>1. fence.epoch + 1 \in Epoch
      BY <2>2 DEF CoreAdvances, Epoch
    <3> QED BY <1>1, <2>2, <3>1 DEF CoreAdvances
  <2>3. CASE CoreUnlocks
    BY <1>1, <2>3 DEF CoreUnlocks
  <2> QED BY <1>1, <2>1, <2>2, <2>3 DEF Core
<1>2. CASE Tamper /\ UNCHANGED guards
  <2>1. CASE ReplaceLock
    <3>1. lock.inode + 1 \in Inode
      BY <2>1 DEF ReplaceLock, Inode
    <3> QED BY <1>2, <2>1, <3>1 DEF ReplaceLock
  <2>2. CASE SpoilLock
    BY <1>2, <2>2 DEF SpoilLock
  <2>3. CASE SpoilFence
    BY <1>2, <2>3 DEF SpoilFence
  <2>4. CASE AdvanceUnlocked
    <3>1. fence.epoch + 1 \in Epoch
      BY <2>4 DEF AdvanceUnlocked, Epoch
    <3> QED BY <1>2, <2>4, <3>1 DEF AdvanceUnlocked
  <2> QED BY <1>2, <2>1, <2>2, <2>3, <2>4 DEF Tamper
<1>3. ASSUME NEW e \in Epoch, Launch(e) \/ GuardStep(e) \/ Kill(e)
      PROVE  NodeTypeOK'
  <2>1. FenceTypeOK'
    <3>1. descriptor' = descriptor \/ OpenLock(e) \/ TakeLease(e) \/ CloseLock(e)
      BY <1>3 DEF Launch, GuardStep, Kill, Startup, OpenLease, AcquireLease,
         Anchor, Serve, StartupFails, Callback, CheckLease, CheckFence, Handle,
         ClearSample, PublishSample, FenceBreaks, Exit, fenceVars
    <3>2. UNCHANGED <<lock, fence, exclusive>>
      BY <1>3 DEF Launch, GuardStep, Kill, Startup, OpenLease, AcquireLease,
         Anchor, Serve, StartupFails, Callback, CheckLease, CheckFence, Handle,
         ClearSample, PublishSample, FenceBreaks, Exit, fenceVars, OpenLock,
         TakeLease, CloseLock
    <3>3. descriptor' \in [Process -> [inode : Inode \cup {0}, shared : BOOLEAN]]
      <4>1. CASE descriptor' = descriptor
        BY <4>1
      <4>2. CASE OpenLock(e)
        BY <4>2, ProcessFacts DEF OpenLock
      <4>3. CASE TakeLease(e)
        BY <4>3, ProcessFacts DEF TakeLease
      <4>4. CASE CloseLock(e)
        BY <4>4, ProcessFacts DEF CloseLock, Closed
      <4> QED BY <3>1, <4>1, <4>2, <4>3, <4>4
    <3> QED BY <3>2, <3>3
  <2>2. guards[e] \in Guard
    BY <1>3
  <2>3. \A gate \in Moves[guards[e].gate] \cup {guards[e].gate} : gate \in GuardState
    BY <2>2 DEF Guard, GuardState, Moves
  <2>4. ASSUME NEW g \in Guard, guards' = [guards EXCEPT ![e] = g]
        PROVE  guards' \in [Epoch -> Guard]
    BY <2>4
  <2>5. \E g \in Guard : guards' = [guards EXCEPT ![e] = g]
    <3> USE <2>2 DEF Guard, Starting, Serving
    <3>1. CASE Launch(e) \/ Kill(e) \/ Exit(e)
      BY <3>1 DEF Launch, Kill, Exit, Goto
    <3>2. CASE Startup(e)
      BY <3>2 DEF Startup, OpenLease, AcquireLease, Anchor, Serve, StartupFails,
                  Goto, GuardState
    <3>3. CASE CheckLease(e) \/ CheckFence(e)
      BY <3>3 DEF CheckLease, CheckFence, FenceBreaks, Goto, GuardState
    <3>4. CASE Handle(e) \/ ClearSample(e)
      BY <3>4, <2>3 DEF Handle, ClearSample, GuardState
    <3>5. CASE PublishSample(e)
      <4> DEFINE n == IF Fenced(e) THEN 0
                      ELSE IF guards[e].late < 2 THEN guards[e].late + 1
                      ELSE guards[e].late
                 g == [guards[e] EXCEPT !.pc = "spinning",
                                        !.status = guards[e].gate, !.late = n]
      <4>1. n \in 0..2
        OBVIOUS
      <4>2. guards' = [guards EXCEPT ![e] = g]
        BY <3>5 DEF PublishSample
      <4>3. g \in Guard
        <5> HIDE DEF n
        <5> QED BY <4>1
      <4> QED BY <4>2, <4>3
    <3> QED BY <1>3, <3>1, <3>2, <3>3, <3>4, <3>5 DEF GuardStep, Callback
  <2> QED BY <2>1, <2>4, <2>5
<1>4. CASE UNCHANGED nodeVars
  BY <1>4 DEF nodeVars
<1> QED BY <1>1, <1>2, <1>3, <1>4 DEF NodeNext

\* Directory, leases and processes keep their types, whatever Core, the
\* Guards and the mutations of the directory do.
THEOREM NodeTypeCorrect == NodeSpec => []NodeTypeOK
BY NodeTypeInit, NodeTypeStep, PTL DEF NodeSpec

-----------------------------------------------------------------------------
(* What one process does to the directory and to itself *)

Leased(e) == guards[e].pc = "leased" \/ Live(e)

\* A step of process e leaves every other process and the files alone.
LEMMA OwnStep ==
  ASSUME NodeTypeOK, NEW e \in Epoch, Launch(e) \/ GuardStep(e) \/ Kill(e)
  PROVE  /\ UNCHANGED <<lock, fence, exclusive>>
         /\ \A d \in Epoch : d # e => guards'[d] = guards[d]
         /\ \A p \in Process : p # e => descriptor'[p] = descriptor[p]
<1> USE DEF NodeTypeOK, FenceTypeOK
<1>1. UNCHANGED <<lock, fence, exclusive>>
  BY DEF Launch, GuardStep, Kill, Startup, OpenLease, AcquireLease,
     Anchor, Serve, StartupFails, Callback, CheckLease, CheckFence, Handle,
     ClearSample, PublishSample, FenceBreaks, Exit, fenceVars, OpenLock,
     TakeLease, CloseLock
<1>2. \A d \in Epoch : d # e => guards'[d] = guards[d]
  BY DEF Launch, GuardStep, Kill, Startup, OpenLease, AcquireLease,
     Anchor, Serve, StartupFails, Callback, CheckLease, CheckFence, Handle,
     ClearSample, PublishSample, FenceBreaks, Exit, Goto
<1>3. \A p \in Process : p # e => descriptor'[p] = descriptor[p]
  BY DEF Launch, GuardStep, Kill, Startup, OpenLease, AcquireLease,
     Anchor, Serve, StartupFails, Callback, CheckLease, CheckFence, Handle,
     ClearSample, PublishSample, FenceBreaks, Exit, fenceVars, OpenLock,
     TakeLease, CloseLock
<1> QED BY <1>1, <1>2, <1>3

\* Handling a callback moves the program counter and the gate, and leaves the
\* latched failure and the directory alone.
LEMMA HandlingStep ==
  ASSUME NodeTypeOK, NEW e \in Epoch,
         Handle(e) \/ ClearSample(e) \/ PublishSample(e)
  PROVE  /\ guards[e].pc \in {"handling", "cleared"}
         /\ guards'[e].pc \in {"spinning", "boundary"}
         /\ guards'[e].failed = guards[e].failed
         /\ UNCHANGED fenceVars
<1> DEFINE n == IF Fenced(e) THEN 0
                ELSE IF guards[e].late < 2 THEN guards[e].late + 1
                ELSE guards[e].late
<1>1. guards \in [Epoch -> Guard] /\ guards[e] \in Guard
  BY DEF NodeTypeOK
<1> USE <1>1 DEF Guard, At
<1>2. CASE Handle(e)
  <2>1. PICK gate : guards' = [guards EXCEPT ![e] = [guards[e] EXCEPT
          !.pc = "spinning", !.gate = gate, !.status = gate]]
    BY <1>2 DEF Handle
  <2> QED BY <1>2, <2>1 DEF Handle
<1>3. CASE ClearSample(e)
  BY <1>3 DEF ClearSample
<1>4. CASE PublishSample(e)
  <2>1. guards' = [guards EXCEPT ![e] = [guards[e] EXCEPT
          !.pc = "spinning", !.status = guards[e].gate, !.late = n]]
    BY <1>4 DEF PublishSample
  <2> HIDE DEF n
  <2> QED BY <1>4, <2>1 DEF PublishSample
<1> QED BY <1>2, <1>3, <1>4

-----------------------------------------------------------------------------
(* Epochs exclude each other *)

\* While the lock is respected it keeps its inode, a shared lease and Core's
\* exclusive lock exclude each other on it, and whoever got past the flock
\* still holds its lease.
LockInv ==
  /\ lock.sound
  /\ exclusive \in {0, lock.inode}
  /\ \A p \in Process : descriptor[p].shared =>
       descriptor[p].inode = lock.inode /\ exclusive = 0
  /\ \A e \in Epoch : Leased(e) => descriptor[e].shared

ExclusionInv == Tampering = {} => LockInv /\ EpochExclusion

LEMMA ExclusionInit == NodeInit => ExclusionInv
  BY FenceAssumption, ProcessFacts
  DEF NodeInit, FenceInit, ExclusionInv, LockInv, EpochExclusion, Leased, Live,
      Serving, Closed, Epoch, Process

LEMMA ExclusionStep ==
  NodeTypeOK /\ ExclusionInv /\ [NodeNext]_nodeVars => ExclusionInv'
<1> SUFFICES ASSUME NodeTypeOK, ExclusionInv, [NodeNext]_nodeVars,
                    Tampering = {}
             PROVE  LockInv' /\ EpochExclusion'
  BY DEF ExclusionInv
<1> USE DEF NodeTypeOK, FenceTypeOK
<1>0. LockInv /\ EpochExclusion
  BY DEF ExclusionInv
<1>1. CASE Core /\ UNCHANGED guards
  <2>1. CASE CoreLocks
    <3>1. \A p \in Process : ~descriptor[p].shared
      BY <1>0, <2>1 DEF CoreLocks, LockInv
    <3> QED BY <1>0, <1>1, <2>1, <3>1
        DEF CoreLocks, LockInv, EpochExclusion, Leased, Live
  <2>2. CASE CoreAdvances
    <3>1. \A e \in Epoch : ~Leased(e)
      BY <1>0, <2>2, ProcessFacts DEF CoreAdvances, LockInv
    <3> QED BY <1>0, <1>1, <2>2, <3>1
        DEF CoreAdvances, LockInv, EpochExclusion, Leased, Live
  <2>3. CASE CoreUnlocks
    BY <1>0, <1>1, <2>3
    DEF CoreUnlocks, LockInv, EpochExclusion, Leased, Live
  <2> QED BY <1>1, <2>1, <2>2, <2>3 DEF Core
<1>2. CASE Tamper /\ UNCHANGED guards
  BY <1>2 DEF Tamper, ReplaceLock, SpoilLock, SpoilFence, AdvanceUnlocked
<1>3. ASSUME NEW e \in Epoch, Launch(e) \/ GuardStep(e) \/ Kill(e)
      PROVE  LockInv' /\ EpochExclusion'
  <2>1. /\ UNCHANGED <<lock, fence, exclusive>>
        /\ \A d \in Epoch : d # e => guards'[d] = guards[d]
        /\ \A p \in Process : p # e => descriptor'[p] = descriptor[p]
    BY <1>3, OwnStep
  <2>2. /\ e \in Process
        /\ descriptor[e].shared =>
             descriptor[e].inode = lock.inode /\ exclusive = 0
        /\ Leased(e) => descriptor[e].shared
        /\ Live(e) => fence = [epoch |-> e, intact |-> TRUE]
        /\ ~guards[e].failed
        /\ lock.sound
    BY <1>0, ProcessFacts DEF LockInv, EpochExclusion
  <2> DEFINE Kept ==
        /\ descriptor'[e].shared =>
             descriptor'[e].inode = lock.inode /\ exclusive = 0
        /\ Leased(e)' => descriptor'[e].shared
        /\ Live(e)' => fence = [epoch |-> e, intact |-> TRUE]
        /\ ~guards'[e].failed
  <2>3. SUFFICES Kept
    <3>1. \A p \in Process : descriptor'[p].shared =>
            descriptor'[p].inode = lock'.inode /\ exclusive' = 0
      BY <1>0, <2>1 DEF LockInv
    <3>2. \A d \in Epoch : /\ Leased(d)' => descriptor'[d].shared
                           /\ Live(d)' => fence' = [epoch |-> d, intact |-> TRUE]
                           /\ ~guards'[d].failed
      BY <1>0, <2>1, ProcessFacts DEF LockInv, EpochExclusion, Leased, Live
    <3> QED BY <1>0, <2>1, <3>1, <3>2 DEF LockInv, EpochExclusion
  <2>13. guards[e] \in Guard
    OBVIOUS
  <2> USE <2>2, <2>13 DEF Leased, Live, Serving, Guard
  <2>4. CASE Launch(e)
    BY <2>4 DEF Launch, At, Goto, fenceVars
  <2>5. CASE Kill(e) \/ Exit(e) \/ StartupFails(e)
    BY <2>5 DEF Kill, Exit, StartupFails, Goto, CloseLock, Closed
  <2>6. CASE OpenLease(e)
    BY <2>6 DEF OpenLease, Goto, OpenLock
  <2>7. CASE AcquireLease(e)
    <3>1. exclusive = 0
      BY <1>0, <2>7 DEF AcquireLease, TakeLease, Leasable, ValidateCurrent, LockInv
    <3> QED BY <2>7, <3>1
        DEF AcquireLease, Goto, TakeLease, Leasable, ValidateCurrent
  <2>8. CASE Anchor(e)
    BY <2>8 DEF Anchor, At, LoadAndValidateEpochFence, fenceVars
  <2>9. CASE Serve(e)
    BY <2>9 DEF Serve, At, fenceVars
  <2>10. CASE CheckLease(e)
    BY <2>10 DEF CheckLease, ValidateCurrent, Goto, At, fenceVars
  <2>11. CASE CheckFence(e)
    BY <2>11 DEF CheckFence, LoadAndValidateEpochFence, Goto, At, fenceVars
  <2>12. CASE Handle(e) \/ ClearSample(e) \/ PublishSample(e)
    BY <2>12, HandlingStep DEF fenceVars
  <2> QED BY <1>3, <2>4, <2>5, <2>6, <2>7, <2>8, <2>9, <2>10, <2>11, <2>12
      DEF GuardStep, Startup, Callback
<1>4. CASE UNCHANGED nodeVars
  BY <1>0, <1>4 DEF nodeVars, LockInv, EpochExclusion, Leased, Live
<1> QED BY <1>1, <1>2, <1>3, <1>4 DEF NodeNext

\* As long as everyone respects the lock, a live Guard is the only one and
\* owns the persisted epoch, and no callback finds its fence broken.
THEOREM EpochsExclude == NodeSpec => []EpochExclusion
<1>1. NodeTypeOK /\ ExclusionInv => EpochExclusion
  BY DEF ExclusionInv, EpochExclusion
<1> QED BY <1>1, ExclusionInit, ExclusionStep, NodeTypeCorrect, PTL DEF NodeSpec

-----------------------------------------------------------------------------
(* A broken fence is announced *)

\* Nothing but the exit follows a latched failure.
AnnouncedInv ==
  \A e \in Epoch : guards[e].failed =>
    guards[e].status = "lost" /\ guards[e].pc \in {"closing", "exited"}

LEMMA AnnouncedStep ==
  NodeTypeOK /\ AnnouncedInv /\ [NodeNext]_nodeVars => AnnouncedInv'
<1> SUFFICES ASSUME NodeTypeOK, AnnouncedInv, [NodeNext]_nodeVars,
                    NEW d \in Epoch, guards'[d].failed
             PROVE  guards'[d].status = "lost"
                    /\ guards'[d].pc \in {"closing", "exited"}
  BY DEF AnnouncedInv
<1> USE DEF AnnouncedInv
<1>1. CASE UNCHANGED guards
  BY <1>1
<1>2. ASSUME NEW e \in Epoch, Launch(e) \/ GuardStep(e) \/ Kill(e)
      PROVE  guards'[d].status = "lost"
             /\ guards'[d].pc \in {"closing", "exited"}
  <2>1. CASE d # e
    BY <1>2, <2>1, OwnStep
  <2>2. CASE d = e
    <3>0. guards[e] \in Guard
      BY DEF NodeTypeOK
    <3> USE <2>2, <3>0 DEF NodeTypeOK, Guard, Starting, Serving, At, Goto
    <3>1. CASE Launch(e) \/ Kill(e) \/ Exit(e)
      BY <3>1 DEF Launch, Kill, Exit
    <3>2. CASE Startup(e)
      BY <3>2 DEF Startup, OpenLease, AcquireLease, Anchor, Serve, StartupFails
    <3>3. CASE CheckLease(e) \/ CheckFence(e)
      BY <3>3 DEF CheckLease, CheckFence, FenceBreaks
    <3>4. CASE Handle(e) \/ ClearSample(e) \/ PublishSample(e)
      BY <3>4, HandlingStep
    <3> QED BY <1>2, <3>1, <3>2, <3>3, <3>4 DEF GuardStep, Callback
  <2> QED BY <2>1, <2>2
<1> QED BY <1>1, <1>2 DEF NodeNext, nodeVars

\* A Guard whose fence broke has published lost as its last aggregate status,
\* whatever mutation broke the fence and whenever it was noticed.
THEOREM FenceLossIsAnnounced == NodeSpec => []FenceLossAnnounced
<1>1. NodeInit => AnnouncedInv
  BY DEF NodeInit, AnnouncedInv
<1>2. AnnouncedInv => FenceLossAnnounced
  BY DEF AnnouncedInv, FenceLossAnnounced
<1> QED BY <1>1, <1>2, AnnouncedStep, NodeTypeCorrect, PTL DEF NodeSpec

-----------------------------------------------------------------------------
(* Behind a broken fence at most one sample goes out *)

\* Broken for good: neither the persisted epoch nor the lock inode ever comes
\* back, so a Guard that published one late sample is on its way out.
Stopped(e) ==
  \/ guards[e].pc = "spinning" /\ ~Fenced(e)
  \/ guards[e].pc = "entered" /\ ~LoadAndValidateEpochFence(e)
  \/ guards[e].pc \in {"closing", "exited"}

LateInv ==
  \A e \in Epoch :
    /\ descriptor[e].inode <= lock.inode
    /\ guards[e].pc # "absent" => e <= fence.epoch
    /\ guards[e].late # 0 => guards[e].late = 1 /\ Stopped(e)

LEMMA LateInit == NodeInit => LateInv
  BY FenceAssumption, ProcessFacts
  DEF NodeInit, FenceInit, LateInv, Closed, Process

\* Whatever happens to the directory, a broken fence stays broken.
LEMMA BrokenStays ==
  ASSUME NodeTypeOK, Core \/ Tamper, NEW e \in Epoch,
         descriptor[e].inode <= lock.inode, e <= fence.epoch
  PROVE  /\ descriptor'[e].inode <= lock'.inode
         /\ e <= fence'.epoch
         /\ ~Fenced(e) => ~Fenced(e)'
         /\ ~LoadAndValidateEpochFence(e) => ~LoadAndValidateEpochFence(e)'
<1>1. /\ e \in Nat /\ fence.epoch \in Nat /\ lock.inode \in Nat
      /\ descriptor[e].inode \in Nat
      /\ lock \in [inode : Inode, sound : BOOLEAN]
      /\ fence \in [epoch : Epoch, intact : BOOLEAN]
  BY FenceAssumption, ProcessFacts
  DEF NodeTypeOK, FenceTypeOK, Epoch, Inode
<1> USE <1>1 DEF Fenced, LoadAndValidateEpochFence
<1>2. CASE CoreLocks \/ CoreUnlocks
  BY <1>2 DEF CoreLocks, CoreUnlocks
<1>3. CASE CoreAdvances
  BY <1>3 DEF CoreAdvances
<1>4. CASE ReplaceLock
  BY <1>4 DEF ReplaceLock
<1>5. CASE SpoilLock
  BY <1>5 DEF SpoilLock
<1>6. CASE SpoilFence
  BY <1>6 DEF SpoilFence
<1>7. CASE AdvanceUnlocked
  BY <1>7 DEF AdvanceUnlocked
<1> QED BY <1>2, <1>3, <1>4, <1>5, <1>6, <1>7 DEF Core, Tamper

LEMMA LateStep == NodeTypeOK /\ LateInv /\ [NodeNext]_nodeVars => LateInv'
<1> SUFFICES ASSUME NodeTypeOK, LateInv, [NodeNext]_nodeVars PROVE LateInv'
  OBVIOUS
<1>0. \A e \in Epoch :
        /\ guards[e] \in Guard /\ e \in Process
        /\ lock.inode \in Nat /\ lock.inode # 0
        /\ descriptor[e].inode \in Nat
  BY FenceAssumption, ProcessFacts DEF NodeTypeOK, FenceTypeOK, Inode
<1>1. CASE (Core \/ Tamper) /\ UNCHANGED guards
  <2> SUFFICES ASSUME NEW e \in Epoch
               PROVE  /\ descriptor'[e].inode <= lock'.inode
                      /\ guards'[e].pc # "absent" => e <= fence'.epoch
                      /\ guards'[e].late # 0 => guards'[e].late = 1 /\ Stopped(e)'
    BY DEF LateInv
  <2>1. CASE guards[e].pc = "absent"
    <3>1. descriptor'[e].inode <= lock'.inode
      BY <1>0, <1>1 DEF LateInv, Core, CoreLocks, CoreAdvances, CoreUnlocks,
         Tamper, ReplaceLock, SpoilLock, SpoilFence, AdvanceUnlocked,
         NodeTypeOK, FenceTypeOK
    <3> QED BY <1>1, <2>1, <3>1 DEF LateInv, Stopped
  <2>2. CASE guards[e].pc # "absent"
    <3>1. /\ descriptor'[e].inode <= lock'.inode
          /\ e <= fence'.epoch
          /\ ~Fenced(e) => ~Fenced(e)'
          /\ ~LoadAndValidateEpochFence(e) => ~LoadAndValidateEpochFence(e)'
      BY <1>1, <2>2, BrokenStays DEF LateInv
    <3> QED BY <1>1, <3>1 DEF LateInv, Stopped
  <2> QED BY <2>1, <2>2
<1>2. ASSUME NEW e \in Epoch, Launch(e) \/ GuardStep(e) \/ Kill(e)
      PROVE  LateInv'
  <2>1. /\ UNCHANGED <<lock, fence, exclusive>>
        /\ \A d \in Epoch : d # e => guards'[d] = guards[d]
        /\ \A p \in Process : p # e => descriptor'[p] = descriptor[p]
    BY <1>2, OwnStep
  <2> DEFINE Kept ==
        /\ descriptor'[e].inode <= lock.inode
        /\ guards'[e].pc # "absent" => e <= fence.epoch
        /\ guards'[e].late # 0 => guards'[e].late = 1 /\ Stopped(e)'
  <2>2. SUFFICES Kept
    <3> SUFFICES ASSUME NEW d \in Epoch, d # e
                 PROVE  /\ descriptor'[d].inode <= lock'.inode
                        /\ guards'[d].pc # "absent" => d <= fence'.epoch
                        /\ guards'[d].late # 0 => guards'[d].late = 1 /\ Stopped(d)'
      BY <2>1 DEF LateInv
    <3> QED BY <1>0, <2>1
        DEF LateInv, Stopped, Fenced, LoadAndValidateEpochFence
  <2>3. /\ guards \in [Epoch -> Guard] /\ guards[e] \in Guard
        /\ descriptor \in [Process -> [inode : Inode \cup {0}, shared : BOOLEAN]]
        /\ e \in Process /\ lock.inode \in Nat /\ lock.inode # 0
        /\ descriptor[e].inode \in Nat /\ descriptor[e].inode <= lock.inode
        /\ guards[e].pc # "absent" => e <= fence.epoch
        /\ guards[e].late # 0 => guards[e].late = 1 /\ Stopped(e)
    BY <1>0 DEF NodeTypeOK, FenceTypeOK, LateInv
  <2> USE <2>3 DEF Guard, Starting, Serving, At, Goto
  <2>4. CASE Launch(e)
    BY <2>4 DEF Launch, fenceVars, Stopped
  <2>5. CASE Kill(e) \/ Exit(e) \/ StartupFails(e)
    BY <2>5 DEF Kill, Exit, StartupFails, CloseLock, Closed, Stopped
  <2>6. CASE OpenLease(e)
    BY <2>6 DEF OpenLease, OpenLock, Stopped
  <2>7. CASE AcquireLease(e)
    BY <2>7 DEF AcquireLease, TakeLease, Stopped
  <2>8. CASE Anchor(e) \/ Serve(e)
    BY <2>8 DEF Anchor, Serve, fenceVars, Stopped
  <2>9. CASE CheckLease(e)
    <3>1. CASE ValidateCurrent(e)
      <4>1. guards[e].late # 0 => ~LoadAndValidateEpochFence(e)
        BY <2>9, <3>1 DEF CheckLease, ValidateCurrent, Stopped, Fenced,
           LoadAndValidateEpochFence, NodeTypeOK, FenceTypeOK
      <4> QED BY <2>1, <2>9, <3>1, <4>1
          DEF CheckLease, fenceVars, Stopped, LoadAndValidateEpochFence
    <3>2. CASE ~ValidateCurrent(e)
      BY <2>9, <3>2 DEF CheckLease, FenceBreaks, fenceVars, Stopped
    <3> QED BY <3>1, <3>2
  <2>10. CASE CheckFence(e)
    BY <2>10 DEF CheckFence, FenceBreaks, fenceVars, Stopped
  <2>11. CASE Handle(e) \/ ClearSample(e)
    <3>1. guards[e].late = 0
      BY <2>11 DEF Handle, ClearSample, Stopped
    <3>2. guards'[e].late = 0
      <4>1. CASE Handle(e)
        <5>1. PICK gate : guards' = [guards EXCEPT ![e] = [guards[e] EXCEPT
                !.pc = "spinning", !.gate = gate, !.status = gate]]
          BY <4>1 DEF Handle
        <5> QED BY <3>1, <5>1
      <4>2. CASE ClearSample(e)
        BY <3>1, <4>2 DEF ClearSample
      <4> QED BY <2>11, <4>1, <4>2
    <3>3. UNCHANGED fenceVars /\ guards[e].pc = "handling"
      BY <2>11 DEF Handle, ClearSample
    <3> QED BY <3>2, <3>3 DEF fenceVars
  <2>12. CASE PublishSample(e)
    <3> DEFINE n == IF Fenced(e) THEN 0
                    ELSE IF guards[e].late < 2 THEN guards[e].late + 1
                    ELSE guards[e].late
    <3>1. guards[e].late = 0
      BY <2>12 DEF PublishSample, Stopped
    <3>2. guards' = [guards EXCEPT ![e] = [guards[e] EXCEPT
            !.pc = "spinning", !.status = guards[e].gate,
            !.late = n]]
      BY <2>12 DEF PublishSample
    <3>3. n = IF Fenced(e) THEN 0 ELSE 1
      BY <3>1
    <3>4. Fenced(e)' = Fenced(e)
      BY <2>12 DEF PublishSample, fenceVars, Fenced
    <3> HIDE DEF n
    <3>5. guards'[e].pc = "spinning" /\ guards'[e].late = n
      BY <3>2
    <3> QED BY <2>12, <3>3, <3>4, <3>5 DEF PublishSample, fenceVars, Stopped
  <2> QED BY <1>2, <2>4, <2>5, <2>6, <2>7, <2>8, <2>9, <2>10, <2>11, <2>12
      DEF GuardStep, Startup, Callback
<1>3. CASE UNCHANGED nodeVars
  BY <1>3 DEF nodeVars, LateInv, Stopped, Fenced, LoadAndValidateEpochFence
<1> QED BY <1>1, <1>2, <1>3 DEF NodeNext

\* Under every mutation of the directory, a Guard publishes at most one
\* canonical sample after its fence broke: the one past the boundary check.
THEOREM FencedGuardPublishesOnce == NodeSpec => []FencedPublishesOnce
<1>1. LateInv => FencedPublishesOnce
  BY DEF LateInv, FencedPublishesOnce
<1> QED BY <1>1, LateInit, LateStep, NodeTypeCorrect, PTL DEF NodeSpec

-----------------------------------------------------------------------------
(* The Guards and the directory, seen beside a checker *)

\* The checker opens, locks or closes a lease of its own.
CheckerMoves ==
  /\ UNCHANGED guards
  /\ OpenLock(Checker) \/ TakeLease(Checker) \/ CloseLock(Checker)

\* To the Guards and the directory a step is one of their own, none, or a
\* move of the checker's lease.
LEMMA NodeView ==
  ASSUME [HealthNext]_allVars
  PROVE  [NodeNext]_nodeVars \/ CheckerMoves
<1>1. CASE DirectoryChanges
  BY <1>1 DEF DirectoryChanges, NodeNext
<1>2. ASSUME NEW e \in Epoch, GuardRuns(e) \/ GuardEnds(e)
      PROVE  NodeNext
  BY <1>2 DEF GuardRuns, GuardEnds, NodeNext
<1>3. CASE ForeignNode \/ ForeignStatus
  BY <1>3 DEF ForeignNode, ForeignStatus
<1>4. CASE CheckStep
  BY <1>4 DEF CheckStep, StartCheck, Connect, Disconnect, LeaseCheck, FenceCheck,
     Listen, Receive, Admit, Relist, Relock, Pass, Fail, EndCheck, CheckerMoves
<1>5. CASE UNCHANGED allVars
  BY <1>5 DEF allVars, nodeVars
<1> QED
  BY <1>1, <1>2, <1>3, <1>4, <1>5 DEF HealthNext

\* The checker is no Guard.
LEMMA CheckerFacts == Checker \in Process /\ Checker \notin Epoch
BY FenceAssumption DEF Checker, Process, Epoch

\* The checker's moves touch nothing but its own descriptor.
LEMMA CheckerStep ==
  ASSUME NodeTypeOK, CheckerMoves
  PROVE  /\ UNCHANGED <<lock, fence, exclusive, guards>>
         /\ descriptor' \in [Process -> [inode : Inode \cup {0}, shared : BOOLEAN]]
         /\ \A p \in Process : p # Checker => descriptor'[p] = descriptor[p]
         /\ descriptor'[Checker].shared => TakeLease(Checker)
<1> USE CheckerFacts DEF NodeTypeOK, FenceTypeOK
<1>1. CASE OpenLock(Checker)
  BY <1>1 DEF CheckerMoves, OpenLock
<1>2. CASE TakeLease(Checker)
  BY <1>2 DEF CheckerMoves, TakeLease
<1>3. CASE CloseLock(Checker)
  BY <1>3, FenceAssumption DEF CheckerMoves, CloseLock, Closed
<1> QED
  BY <1>1, <1>2, <1>3 DEF CheckerMoves

LEMMA HealthNodeStep ==
  ASSUME NodeTypeOK, ExclusionInv, [HealthNext]_allVars
  PROVE  NodeTypeOK' /\ ExclusionInv'
<1>1. CASE [NodeNext]_nodeVars
  BY <1>1, NodeTypeStep, ExclusionStep
<1>2. CASE CheckerMoves
  <2>1. /\ UNCHANGED <<lock, fence, exclusive, guards>>
        /\ descriptor' \in [Process -> [inode : Inode \cup {0}, shared : BOOLEAN]]
        /\ \A p \in Process : p # Checker => descriptor'[p] = descriptor[p]
        /\ descriptor'[Checker].shared => TakeLease(Checker)
    BY <1>2, CheckerStep
  <2>2. NodeTypeOK'
    BY <2>1 DEF NodeTypeOK, FenceTypeOK
  <2>3. ASSUME Tampering = {} PROVE LockInv' /\ EpochExclusion'
    <3>0. LockInv /\ EpochExclusion
      BY <2>3 DEF ExclusionInv
    <3>1. descriptor'[Checker].shared =>
            descriptor'[Checker].inode = lock'.inode /\ exclusive' = 0
      BY <2>1, <3>0, CheckerFacts
         DEF TakeLease, Leasable, ValidateCurrent, LockInv, NodeTypeOK, FenceTypeOK
    <3>2. \A p \in Process : descriptor'[p].shared =>
            descriptor'[p].inode = lock'.inode /\ exclusive' = 0
      BY <2>1, <3>0, <3>1 DEF LockInv
    <3>3. \A e \in Epoch : Leased(e)' => descriptor'[e].shared
      BY <2>1, <3>0, CheckerFacts, ProcessFacts DEF LockInv, Leased, Live
    <3> QED
      BY <2>1, <3>0, <3>2, <3>3 DEF LockInv, EpochExclusion, Live
  <2> QED
    BY <2>2, <2>3 DEF ExclusionInv
<1> QED
  BY <1>1, <1>2, NodeView

LEMMA HealthNodeInvariant == HealthSpec => [](NodeTypeOK /\ ExclusionInv)
<1>1. HealthInit => NodeTypeOK /\ ExclusionInv
  BY NodeTypeInit, ExclusionInit DEF HealthInit
<1>2. NodeTypeOK /\ ExclusionInv /\ [HealthNext]_allVars => (NodeTypeOK /\ ExclusionInv)'
  BY HealthNodeStep
<1> QED
  BY <1>1, <1>2, PTL DEF HealthSpec

\* The health checker takes the same lock as the Guards and Core, and still
\* a live Guard owns the persisted epoch for as long as it lives.
THEOREM EpochsExcludeBesideChecks == HealthSpec => []EpochExclusion
<1>1. ExclusionInv => EpochExclusion
  BY DEF ExclusionInv, EpochExclusion
<1> QED
  BY <1>1, HealthNodeInvariant, PTL

-----------------------------------------------------------------------------
(* What a passing check vouches for *)

Vouching == {"leased", "fenced", "listening", "admitted", "relisted",
             "relocked", "passed"}

\* While it vouches for an epoch the checker holds its lease, and after the
\* second load of the state nobody can have moved the epoch.
VouchInv ==
  Tampering = {} =>
    /\ check.pc \in Vouching => descriptor[Checker].shared
    /\ CheckAt("passed") => fence = [epoch |-> check.expected, intact |-> TRUE]

LEMMA VouchStep ==
  ASSUME NodeTypeOK, ExclusionInv, VouchInv, check \in Check, [HealthNext]_allVars
  PROVE  VouchInv'
<1> SUFFICES ASSUME Tampering = {}
             PROVE  /\ check'.pc \in Vouching => descriptor'[Checker].shared
                    /\ check'.pc = "passed" =>
                         fence' = [epoch |-> check'.expected, intact |-> TRUE]
  BY DEF VouchInv, CheckAt
<1>0. /\ LockInv
      /\ check.pc \in Vouching => descriptor[Checker].shared
      /\ check.pc = "passed" =>
           fence = [epoch |-> check.expected, intact |-> TRUE]
  BY DEF ExclusionInv, VouchInv, CheckAt
<1>00. Checker \in Process
  BY CheckerFacts
<1>1. CASE DirectoryChanges
  <2>1. UNCHANGED <<check, descriptor>>
    BY <1>1 DEF DirectoryChanges, Core, CoreLocks, CoreAdvances, CoreUnlocks,
       Tamper, ReplaceLock, SpoilLock, SpoilFence, AdvanceUnlocked
  <2>2. descriptor[Checker].shared => UNCHANGED fence
    BY <1>0, <1>00, <1>1 DEF DirectoryChanges, Core, CoreLocks, CoreAdvances,
       CoreUnlocks, Tamper, ReplaceLock, SpoilLock, SpoilFence, AdvanceUnlocked,
       LockInv
  <2> QED
    BY <1>0, <2>1, <2>2 DEF Vouching
<1>2. ASSUME NEW e \in Epoch, GuardRuns(e) \/ GuardEnds(e)
      PROVE  UNCHANGED <<check, fence>> /\ descriptor'[Checker] = descriptor[Checker]
  BY <1>00, <1>2, OwnStep, CheckerFacts DEF GuardRuns, GuardEnds
<1>3. CASE ForeignNode \/ ForeignStatus \/ UNCHANGED allVars
  BY <1>0, <1>3 DEF ForeignNode, ForeignStatus, allVars, nodeVars
<1>4. CASE CheckStep
  <2> USE DEF Check, Vouching, CheckAt, CheckGoto, nodeVars
  <2>1. ASSUME NEW e \in Epoch, StartCheck(e) PROVE check'.pc \notin Vouching
    BY <2>1 DEF StartCheck
  <2>2. ASSUME NEW e \in Epoch, Connect(e) \/ Disconnect(e)
        PROVE  check'.pc = check.pc /\ check'.expected = check.expected
               /\ UNCHANGED <<descriptor, fence>>
    BY <2>2 DEF Connect, Disconnect
  <2>3. LeaseCheck => descriptor'[Checker].shared /\ check'.pc = "leased"
    BY <1>00 DEF LeaseCheck, TakeLease, NodeTypeOK, FenceTypeOK
  <2>4. FenceCheck \/ Listen \/ Receive \/ Admit \/ Relist \/ Relock =>
          /\ UNCHANGED <<descriptor, fence>>
          /\ check.pc \in Vouching
          /\ check'.pc # "passed"
    BY DEF FenceCheck, Listen, Receive, Admit, Relist, Relock, TrackerObserves
  <2>5. Pass => /\ UNCHANGED <<descriptor, fence>> /\ check.pc \in Vouching
                /\ fence = [epoch |-> check'.expected, intact |-> TRUE]
    BY DEF Pass, LoadAndValidateEpochFence, NodeTypeOK, FenceTypeOK
  <2>6. Fail \/ EndCheck => check'.pc \notin Vouching
    BY DEF Fail, EndCheck, Idle
  <2> QED
    BY <1>0, <1>4, <2>1, <2>2, <2>3, <2>4, <2>5, <2>6 DEF CheckStep
<1> QED
  BY <1>0, <1>1, <1>2, <1>3, <1>4 DEF HealthNext

-----------------------------------------------------------------------------
(* Types of the checker and of ROS *)

HealthTypeOK ==
  /\ sequence \in [Epoch -> Nat]
  /\ owner \in Epoch \cup {0}
  /\ inbox \in Seq(Status)
  /\ check \in Check

\* The subscriber queue keeps what it holds, except perhaps the oldest, and
\* takes the newest.
LEMMA QueuedType ==
  ASSUME NEW S, NEW queue \in Seq(S), NEW message \in S
  PROVE  Queued(queue, message) \in Seq(S)
<1>1. Len(queue) = QueueDepth => Tail(queue) \in Seq(S)
  BY QueueAssumption
<1> QED
  BY <1>1 DEF Queued

\* The tracker counts at most two samples before it is ready.
LEMMA TrackerType ==
  ASSUME NEW c \in Check, NEW m \in Status, ~Ready(c), ~c.rejected
  PROVE  TrackerObserves(c, m) \in Check
<1>1. c.samples \in 0..2 /\ c.samples + 1 \in 0..2
  BY DEF Check, Ready
<1> DEFINE n == c.samples + 1
<1> HIDE DEF n
<1>2. /\ [c EXCEPT !.rejected = TRUE] \in Check
      /\ n \in 0..2 => [c EXCEPT !.samples = n, !.last = m.sequence] \in Check
  BY DEF Check, Status
<1> QED
  BY <1>1, <1>2 DEF TrackerObserves, n

\* A step of a Guard publishes at most one status.
LEMMA GuardPublishes ==
  ASSUME NodeTypeOK, NodeTypeOK', HealthTypeOK, NEW e \in Epoch, GuardRuns(e)
  PROVE  \/ UNCHANGED <<sequence, inbox>>
         \/ /\ sequence' = [sequence EXCEPT ![e] = sequence[e] + 1]
            /\ sequence' \in [Epoch -> Nat]
            /\ \/ UNCHANGED inbox
               \/ /\ e \in check.links
                  /\ StatusOf(e, sequence'[e], guards'[e].status) \in Status
                  /\ inbox' = Queued(inbox, StatusOf(e, sequence'[e], guards'[e].status))
<1>1. sequence \in [Epoch -> Nat] /\ sequence[e] + 1 \in Nat
  BY DEF HealthTypeOK
<1>2. \/ UNCHANGED <<sequence, inbox>>
      \/ /\ sequence' = [sequence EXCEPT ![e] = sequence[e] + 1]
         /\ inbox' = IF e \in check.links
                     THEN Queued(inbox, StatusOf(e, sequence'[e], guards'[e].status))
                     ELSE inbox
  BY DEF GuardRuns, PublishAggregate
<1>3. sequence' = [sequence EXCEPT ![e] = sequence[e] + 1] =>
        sequence' \in [Epoch -> Nat] /\ sequence'[e] \in Nat
  BY <1>1
<1>4. sequence'[e] \in Nat =>
        StatusOf(e, sequence'[e], guards'[e].status) \in Status
  BY DEF StatusOf, Status
<1> QED
  BY <1>2, <1>3, <1>4

LEMMA HealthTypeStep ==
  ASSUME NodeTypeOK, NodeTypeOK', HealthTypeOK, [HealthNext]_allVars
  PROVE  HealthTypeOK'
<1> USE DEF HealthTypeOK
<1>1. CASE DirectoryChanges \/ ForeignNode \/ UNCHANGED allVars
  BY <1>1 DEF DirectoryChanges, ForeignNode, allVars
<1>2. ASSUME NEW e \in Epoch, GuardRuns(e) PROVE HealthTypeOK'
  <2>1. owner' \in Epoch \cup {0} /\ UNCHANGED check
    BY <1>2 DEF GuardRuns, Registers
  <2> QED
    BY <1>2, <2>1, GuardPublishes, QueuedType
<1>3. ASSUME NEW e \in Epoch, GuardEnds(e) PROVE HealthTypeOK'
  BY <1>3 DEF GuardEnds
<1>4. CASE ForeignStatus
  <2> DEFINE m == [publisher |-> "foreign", epoch |-> check.expected,
                   sequence |-> MaxStatus, locked |-> TRUE]
  <2>1. m \in Status
    BY QueueAssumption DEF Status, Check
  <2>2. inbox' = Queued(inbox, m) /\ UNCHANGED <<sequence, owner, check>>
    BY <1>4 DEF ForeignStatus, rosVars
  <2> HIDE DEF m
  <2> QED
    BY <2>1, <2>2, QueuedType
<1>5. CASE CheckStep
  <2> USE DEF CheckGoto, rosVars
  <2>1. ASSUME NEW e \in Epoch, StartCheck(e) PROVE HealthTypeOK'
    BY <2>1 DEF StartCheck, Check
  <2>2. ASSUME NEW e \in Epoch, Connect(e) PROVE HealthTypeOK'
    <3>1. check' \in Check /\ UNCHANGED <<sequence, owner>>
      BY <2>2 DEF Connect, Check
    <3>2. StatusOf(e, sequence[e], guards[e].status) \in Status
      BY DEF StatusOf, Status
    <3>3. inbox' = Queued(inbox, StatusOf(e, sequence[e], guards[e].status))
      BY <2>2 DEF Connect
    <3> QED
      BY <3>1, <3>2, <3>3, QueuedType
  <2>3. ASSUME NEW e \in Epoch, Disconnect(e) PROVE HealthTypeOK'
    BY <2>3 DEF Disconnect, Check
  <2>4. CASE LeaseCheck \/ FenceCheck \/ Listen \/ Admit \/ Relist \/ Relock
             \/ Pass \/ Fail
    BY <2>4 DEF LeaseCheck, FenceCheck, Listen, Admit, Relist, Relock, Pass, Fail,
       Check
  <2>5. CASE Receive
    <3>1. inbox # << >> /\ inbox' = Tail(inbox) /\ UNCHANGED <<sequence, owner>>
      BY <2>5 DEF Receive
    <3>2. Head(inbox) \in Status /\ inbox' \in Seq(Status)
      BY <3>1
    <3>3. check' \in Check
      BY <2>5, <3>2, TrackerType DEF Receive
    <3> QED
      BY <3>1, <3>2, <3>3
  <2>6. CASE EndCheck
    BY <2>6, FenceAssumption DEF EndCheck, Check, Idle, Epoch
  <2> QED
    BY <1>5, <2>1, <2>2, <2>3, <2>4, <2>5, <2>6 DEF CheckStep
<1> QED
  BY <1>1, <1>2, <1>3, <1>4, <1>5 DEF HealthNext

\* The invariants that both theorems below start from.
HealthBase == NodeTypeOK /\ ExclusionInv /\ HealthTypeOK

LEMMA HealthBaseStep == HealthBase /\ [HealthNext]_allVars => HealthBase'
BY HealthNodeStep, HealthTypeStep DEF HealthBase

LEMMA HealthBaseInvariant == HealthSpec => []HealthBase
<1>1. HealthInit => HealthBase
  <2> SUFFICES ASSUME HealthInit PROVE HealthBase
    OBVIOUS
  <2>1. NodeTypeOK /\ ExclusionInv
    BY NodeTypeInit, ExclusionInit DEF HealthInit
  <2>2. HealthTypeOK
    BY FenceAssumption DEF HealthInit, HealthTypeOK, Check, Idle, Epoch
  <2> QED
    BY <2>1, <2>2 DEF HealthBase
<1> QED
  BY <1>1, HealthBaseStep, PTL DEF HealthSpec

\* As long as everyone respects the lock, a check that passes speaks of the
\* persisted epoch and of the only Guard that can be live: its shared lease
\* keeps Core from allocating another until the checker has returned.
THEOREM PassesAreExclusive == HealthSpec => []PassIsExclusive
<1>1. HealthInit => VouchInv
  BY DEF HealthInit, VouchInv, Idle, Vouching, CheckAt
<1>2. HealthBase /\ VouchInv /\ [HealthNext]_allVars => VouchInv'
  BY VouchStep DEF HealthBase, HealthTypeOK
<1>3. HealthBase /\ VouchInv => PassIsExclusive
  <2> SUFFICES ASSUME HealthBase, VouchInv, Tampering = {}, CheckAt("passed")
               PROVE  /\ fence = [epoch |-> check.expected, intact |-> TRUE]
                      /\ \A e \in Epoch : Live(e) => e = check.expected
    BY DEF PassIsExclusive
  <2>1. fence = [epoch |-> check.expected, intact |-> TRUE]
    BY DEF VouchInv
  <2>2. \A e \in Epoch : Live(e) => fence = [epoch |-> e, intact |-> TRUE]
    BY DEF HealthBase, ExclusionInv, EpochExclusion
  <2>3. \A e \in Epoch : Live(e) => e = check.expected
    BY <2>1, <2>2
  <2> QED
    BY <2>1, <2>3
<1> QED
  BY <1>1, <1>2, <1>3, HealthBaseInvariant, PTL DEF HealthSpec

-----------------------------------------------------------------------------
(* A passing check has seen its Guard alive *)

Listened == {"listening", "admitted", "relisted", "relocked", "passed"}

\* The statuses that may wait in the queue of a check that listens: what a
\* Guard said is not ahead of it, and what the expected Guard said is not
\* older than the check's first breath.
Waiting(seqs, expected, since) ==
  {m \in Status : m.publisher = "guard" =>
     /\ m.sequence <= seqs[m.epoch]
     /\ m.epoch = expected => m.sequence >= since}

LifeInv ==
  /\ check.pc \in {"idle", "opened", "leased", "fenced"} =>
       inbox = << >> /\ check.links = {} /\ check.samples = 0
  /\ check.pc \in Listened =>
       /\ check.since <= sequence[check.expected]
       /\ inbox \in Seq(Waiting(sequence, check.expected, check.since))
       /\ check.samples # 0 => check.since <= check.last
                               /\ check.last <= sequence[check.expected]
       /\ check.samples = 2 => check.since < check.last
  /\ check.pc \in Listened \ {"listening"} => check.samples = 2

LEMMA SeqMonotone ==
  ASSUME NEW S, NEW T, S \subseteq T, NEW q \in Seq(S)
  PROVE  q \in Seq(T)
OBVIOUS

\* A Guard that runs, and perhaps publishes, keeps the invariant.
LEMMA GuardLife ==
  ASSUME HealthBase, HealthBase', LifeInv, NEW e \in Epoch, GuardRuns(e)
  PROVE  LifeInv'
<1> DEFINE x == check.expected
           old == Waiting(sequence, x, check.since)
           new == Waiting(sequence', x, check.since)
           m == StatusOf(e, sequence'[e], guards'[e].status)
<1>1. /\ sequence \in [Epoch -> Nat] /\ sequence' \in [Epoch -> Nat]
      /\ x \in Epoch /\ check.since \in Nat /\ check.last \in Nat
      /\ inbox \in Seq(Status)
  BY DEF HealthBase, HealthTypeOK, Check
<1>2. UNCHANGED check
  BY DEF GuardRuns
<1>3. \/ UNCHANGED <<sequence, inbox>>
      \/ /\ sequence' = [sequence EXCEPT ![e] = sequence[e] + 1]
         /\ \/ UNCHANGED inbox
            \/ /\ e \in check.links /\ m \in Status
               /\ inbox' = Queued(inbox, m)
  BY GuardPublishes DEF HealthBase
<1>4. CASE UNCHANGED <<sequence, inbox>>
  BY <1>2, <1>4 DEF LifeInv
<1>5. CASE sequence' = [sequence EXCEPT ![e] = sequence[e] + 1]
  <2>1. \A d \in Epoch : sequence[d] <= sequence'[d]
    BY <1>1, <1>5
  <2>2. old \subseteq new
    <3> SUFFICES ASSUME NEW k \in old PROVE k \in new
      OBVIOUS
    <3>1. k \in Status /\ k.epoch \in Epoch /\ k.sequence \in Nat
      BY DEF Waiting, Status
    <3>2. sequence[k.epoch] \in Nat /\ sequence'[k.epoch] \in Nat
          /\ sequence[k.epoch] <= sequence'[k.epoch]
      BY <1>1, <2>1, <3>1
    <3> QED
      BY <3>1, <3>2 DEF Waiting
  <2>3. CASE check.pc \in Listened
    <3>1. check.since <= sequence[x] /\ inbox \in Seq(old)
      BY <2>3 DEF LifeInv
    <3>2. sequence[x] <= sequence'[x] /\ sequence[x] \in Nat /\ sequence'[x] \in Nat
      BY <1>1, <2>1
    <3>3. m \in Status => m \in new
      <4>1. m.epoch = e /\ m.sequence = sequence'[e] /\ sequence'[e] \in Nat
        BY <1>1 DEF StatusOf
      <4>2. e = x => check.since <= sequence'[e]
        BY <1>1, <3>1, <3>2
      <4> HIDE DEF m
      <4> QED
        BY <1>1, <4>1, <4>2 DEF Waiting
    <3>4. inbox \in Seq(new)
      <4> HIDE DEF old, new
      <4> QED
        BY <2>2, <3>1, SeqMonotone
    <3>5. inbox' \in Seq(new)
      <4> HIDE DEF old, new, m
      <4> QED
        BY <1>3, <3>3, <3>4, QueuedType
    <3>6. /\ check.since <= sequence'[x]
          /\ check.last <= sequence[x] => check.last <= sequence'[x]
      BY <1>1, <3>1, <3>2
    <3> QED
      BY <1>2, <2>3, <3>5, <3>6 DEF LifeInv, Listened
  <2>4. CASE check.pc \notin Listened
    BY <1>2, <1>3, <2>4 DEF LifeInv, Listened
  <2> QED
    BY <2>3, <2>4
<1> QED
  BY <1>3, <1>4, <1>5

\* A status that arrives while the check listens keeps the invariant.
LEMMA ArrivalLife ==
  ASSUME HealthBase, HealthBase', LifeInv, check.pc = "listening",
         NEW m \in Waiting(sequence, check.expected, check.since),
         inbox' = Queued(inbox, m), UNCHANGED sequence,
         NEW links, check' = [check EXCEPT !.links = links]
  PROVE  LifeInv'
<1> DEFINE S == Waiting(sequence, check.expected, check.since)
<1>1. inbox \in Seq(S) /\ m \in S
  BY DEF LifeInv, Listened
<1>2. inbox' \in Seq(S)
  <2> HIDE DEF S
  <2> QED
    BY <1>1, QueuedType
<1>3. /\ check'.pc = "listening" /\ check'.expected = check.expected
      /\ check'.since = check.since /\ check'.samples = check.samples
      /\ check'.last = check.last
  BY DEF HealthBase, HealthTypeOK, Check
<1> QED
  BY <1>2, <1>3 DEF LifeInv, Listened

\* Handing a queued status to the tracker keeps the invariant: a second,
\* greater sequence is one the Guard reached after the check began.
LEMMA ReceiveLife ==
  ASSUME HealthBase, HealthBase', LifeInv, Receive
  PROVE  LifeInv'
<1> DEFINE S == Waiting(sequence, check.expected, check.since)
           m == Head(inbox)
<1>1. /\ check \in Check /\ check' = TrackerObserves(check, m)
      /\ check.pc = "listening" /\ ~Ready(check) /\ ~check.rejected
      /\ inbox # << >> /\ inbox' = Tail(inbox) /\ UNCHANGED sequence
  BY DEF Receive, HealthBase, HealthTypeOK, CheckAt, rosVars
<1>2. inbox \in Seq(S) /\ check.since <= sequence[check.expected]
  BY <1>1 DEF LifeInv, Listened
<1>3. m \in S /\ inbox' \in Seq(S)
  <2> HIDE DEF S
  <2> QED
    BY <1>1, <1>2
<1>4. /\ check.samples \in {0, 1} /\ check.last \in Nat /\ check.since \in Nat
      /\ check.expected \in Epoch /\ sequence[check.expected] \in Nat
  BY <1>1 DEF HealthBase, HealthTypeOK, Check, Ready
<1>5. /\ check'.pc = check.pc /\ check'.expected = check.expected
      /\ check'.since = check.since
      /\ \/ check'.samples = check.samples /\ check'.last = check.last
         \/ /\ m.publisher = "guard" /\ m.epoch = check.expected
            /\ ~(check.samples # 0 /\ m.sequence < check.last)
            /\ ~(check.samples # 0 /\ m.sequence = check.last)
            /\ check'.samples = check.samples + 1 /\ check'.last = m.sequence
  <2> HIDE DEF m
  <2> QED
    BY <1>1 DEF TrackerObserves, ValidateLockedAdmission, Check
<1> HIDE DEF m
<1>6. /\ m.sequence \in Nat
      /\ m.publisher = "guard" /\ m.epoch = check.expected =>
           /\ m.sequence <= sequence[check.expected]
           /\ m.sequence >= check.since
  BY <1>3 DEF Waiting, Status
<1>7. check.samples # 0 => check.since <= check.last
                           /\ check.last <= sequence[check.expected]
  BY <1>1 DEF LifeInv, Listened
<1>8. /\ check'.samples # 0 => check.since <= check'.last
                                /\ check'.last <= sequence[check.expected]
      /\ check'.samples = 2 => check.since < check'.last
  BY <1>4, <1>5, <1>6, <1>7
<1> QED
  BY <1>1, <1>2, <1>3, <1>5, <1>8 DEF LifeInv, Listened

LEMMA LifeStep == HealthBase /\ LifeInv /\ [HealthNext]_allVars => LifeInv'
<1> SUFFICES ASSUME HealthBase, LifeInv, [HealthNext]_allVars PROVE LifeInv'
  OBVIOUS
<1>0. HealthBase'
  BY HealthBaseStep
<1>00. check \in Check /\ sequence \in [Epoch -> Nat]
  BY DEF HealthBase, HealthTypeOK
<1>1. CASE DirectoryChanges \/ ForeignNode \/ UNCHANGED allVars
  BY <1>1 DEF DirectoryChanges, ForeignNode, allVars, LifeInv
<1>2. ASSUME NEW e \in Epoch, GuardRuns(e) PROVE LifeInv'
  BY <1>0, <1>2, GuardLife
<1>3. ASSUME NEW e \in Epoch, GuardEnds(e) PROVE LifeInv'
  BY <1>3 DEF GuardEnds, LifeInv
<1>4. CASE ForeignStatus
  <2> DEFINE m == [publisher |-> "foreign", epoch |-> check.expected,
                   sequence |-> MaxStatus, locked |-> TRUE]
  <2>1. m \in Waiting(sequence, check.expected, check.since)
    BY <1>00, QueueAssumption DEF Waiting, Status, Check
  <2>2. inbox' = Queued(inbox, m) /\ UNCHANGED <<sequence, check>>
        /\ check.pc = "listening"
    BY <1>4 DEF ForeignStatus, rosVars
  <2>3. check' = [check EXCEPT !.links = check.links]
    BY <1>00, <2>2 DEF Check
  <2> HIDE DEF m
  <2> QED
    BY <1>0, <2>1, <2>2, <2>3, ArrivalLife
<1>5. ASSUME NEW e \in Epoch, Connect(e) PROVE LifeInv'
  <2> DEFINE m == StatusOf(e, sequence[e], guards[e].status)
  <2>1. /\ check.pc = "listening" /\ inbox' = Queued(inbox, m)
        /\ check' = [check EXCEPT !.links = check.links \cup {e}]
        /\ UNCHANGED sequence
    BY <1>5 DEF Connect, rosVars
  <2>2. check.since <= sequence[check.expected]
    BY <2>1 DEF LifeInv, Listened
  <2>3. m \in Waiting(sequence, check.expected, check.since)
    BY <1>00, <2>2 DEF Waiting, Status, StatusOf
  <2> HIDE DEF m
  <2> QED
    BY <1>0, <2>1, <2>3, ArrivalLife
<1>6. ASSUME NEW e \in Epoch, Disconnect(e) PROVE LifeInv'
  BY <1>00, <1>6 DEF Disconnect, Check, LifeInv, Listened, rosVars
<1>7. CASE Receive
  BY <1>0, <1>7, ReceiveLife
<1>8. CASE Listen
  <2>1. /\ check.pc = "fenced" /\ UNCHANGED <<sequence, inbox>>
        /\ check'.pc = "listening" /\ check'.expected = check.expected
        /\ check'.since = sequence[check.expected] /\ check'.samples = check.samples
    BY <1>00, <1>8 DEF Listen, CheckAt, rosVars, Check
  <2>2. inbox = << >> /\ check.samples = 0
    BY <2>1 DEF LifeInv
  <2>3. sequence[check.expected] \in Nat
    BY <1>00 DEF Check
  <2> QED
    BY <2>1, <2>2, <2>3 DEF LifeInv, Listened
<1>9. ASSUME NEW e \in Epoch, StartCheck(e) PROVE LifeInv'
  BY <1>00, <1>9 DEF StartCheck, CheckAt, Check, LifeInv, Listened, rosVars
<1>10. CASE LeaseCheck \/ FenceCheck \/ Fail
  BY <1>00, <1>10 DEF LeaseCheck, FenceCheck, Fail, CheckAt, CheckGoto, Check, LifeInv,
     Listened, rosVars
<1>11. CASE Admit \/ Relist \/ Relock \/ Pass
  BY <1>00, <1>11 DEF Admit, Relist, Relock, Pass, CheckAt, CheckGoto, Check,
     LifeInv, Listened, rosVars, Ready
<1>12. CASE EndCheck
  BY <1>12 DEF EndCheck, Idle, LifeInv, Listened
<1> QED
  BY <1>1, <1>2, <1>3, <1>4, <1>5, <1>6, <1>7, <1>8, <1>9, <1>10, <1>11, <1>12
     DEF HealthNext, CheckStep

\* Whatever the network repeats, drops or leaves behind, a check that reached
\* readiness has received a locked status that the expected Guard published
\* after the check began to listen.
THEOREM PassesProveLife == HealthSpec => []PassProvesLife
<1>1. HealthInit => LifeInv
  BY DEF HealthInit, Idle, LifeInv, Listened
<1>2. HealthBase /\ LifeInv => PassProvesLife
  BY DEF HealthBase, HealthTypeOK, Check, LifeInv, Listened, PassProvesLife
<1> QED
  BY <1>1, <1>2, LifeStep, HealthBaseInvariant, PTL DEF HealthSpec
=============================================================================
