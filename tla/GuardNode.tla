----------------------------- MODULE GuardNode -----------------------------
(***************************************************************************)
(* The Guard process (SessionClockGuardNode), one per epoch Core starts:   *)
(* how it takes its lease, fences every callback and every canonical       *)
(* publish, and what it does when the fence breaks.                        *)
(*                                                                         *)
(* The guard object inside is the gate of AdmissionGate, which             *)
(* SessionClockGuard implements.  Between any two file operations of a     *)
(* callback Core, another process or a mutation of the directory may act.  *)
(***************************************************************************)
EXTENDS EpochFence, GuardStates

VARIABLE guards   \* the process started at each epoch

nodeVars == <<lock, fence, exclusive, descriptor, guards>>

Starting == {"launched", "opened", "leased", "anchored"}
Serving == {"spinning", "entered", "handling", "boundary", "rechecked", "cleared"}

\* late counts canonical samples published since the fence stopped holding.
Guard == [pc     : {"absent", "closing", "exited"} \cup Starting \cup Serving,
          gate   : GuardState,
          failed : BOOLEAN,
          status : GuardState \cup {"none"},
          late   : 0..2]

NodeInit ==
  /\ FenceInit
  /\ guards = [e \in Epoch |->
       [pc |-> "absent", gate |-> "initializing", failed |-> FALSE,
        status |-> "none", late |-> 0]]

-----------------------------------------------------------------------------
(* Startup *)

At(e, pc) == guards[e].pc = pc
Goto(e, pc) == guards' = [guards EXCEPT ![e].pc = pc]

\* Core starts a Guard for an epoch it allocated, however late.
Launch(e) ==
  /\ At(e, "absent") /\ e <= fence.epoch
  /\ Goto(e, "launched")
  /\ UNCHANGED fenceVars

OpenLease(e) ==
  /\ At(e, "launched")
  /\ Goto(e, "opened")
  /\ OpenLock(e)

AcquireLease(e) ==
  /\ At(e, "opened")
  /\ Goto(e, "leased")
  /\ TakeLease(e)

\* The first load, and the construction of the guard object behind it.
Anchor(e) ==
  /\ At(e, "leased")
  /\ LoadAndValidateEpochFence(e)
  /\ \E gate \in {"initializing", "locked"} :
       guards' = [guards EXCEPT ![e].pc = "anchored", ![e].gate = gate]
  /\ UNCHANGED fenceVars

\* The second load; then the topics are advertised and the first statuses
\* published.
Serve(e) ==
  /\ At(e, "anchored")
  /\ LoadAndValidateEpochFence(e)
  /\ guards' = [guards EXCEPT ![e].pc = "spinning", ![e].status = guards[e].gate]
  /\ UNCHANGED fenceVars

\* Any of the above throws: main returns 2 and nothing was published.
StartupFails(e) ==
  /\ \/ At(e, "launched") /\ ~lock.sound
     \/ At(e, "opened") /\ ~Leasable(e)
     \/ guards[e].pc \in {"leased", "anchored"} /\ ~LoadAndValidateEpochFence(e)
  /\ Goto(e, "exited")
  /\ CloseLock(e)

-----------------------------------------------------------------------------
(* Callbacks *)

\* Mutant: the broken fence closes the guard but is not announced.
FenceBreaks_Silent(e) ==
  /\ guards' = [guards EXCEPT ![e].pc = "closing", ![e].failed = TRUE,
                              ![e].gate = "lost"]
  /\ UNCHANGED fenceVars

\* The catch of ensureEpochFence: latch, failEpochFence, publishAllStatuses,
\* ros::shutdown.
FenceBreaks(e) ==
  /\ guards' = [guards EXCEPT ![e].pc = "closing", ![e].failed = TRUE,
                              ![e].gate = "lost", ![e].status = "lost"]
  /\ UNCHANGED fenceVars

\* ensureEpochFence validates the lease and then the state, at the entry of
\* a callback and again at the canonical boundary.
CheckLease(e) ==
  /\ guards[e].pc \in {"spinning", "boundary"}
  /\ IF ValidateCurrent(e)
     THEN /\ Goto(e, IF At(e, "spinning") THEN "entered" ELSE "rechecked")
          /\ UNCHANGED fenceVars
     ELSE FenceBreaks(e)

CheckFence(e) ==
  /\ guards[e].pc \in {"entered", "rechecked"}
  /\ IF LoadAndValidateEpochFence(e)
     THEN /\ Goto(e, IF At(e, "entered") THEN "handling" ELSE "cleared")
          /\ UNCHANGED fenceVars
     ELSE FenceBreaks(e)

\* handleGazeboClock, pollGuard, and a sample that is not projected: the
\* guard object moves its gate, and the statuses are published.
Handle(e) ==
  /\ At(e, "handling")
  /\ \E gate \in Moves[guards[e].gate] \cup {guards[e].gate} :
       guards' = [guards EXCEPT ![e].pc = "spinning",
                                ![e].gate = gate, ![e].status = gate]
  /\ UNCHANGED fenceVars

\* handlePose and handleTwist when observe clears the sample for canonical
\* output: nothing is published before the boundary check.
ClearSample(e) ==
  /\ At(e, "handling")
  /\ guards[e].gate # "lost"
  /\ guards' = [guards EXCEPT ![e].pc = "boundary", ![e].gate = "locked"]
  /\ UNCHANGED fenceVars

\* The lease and the state are still those of epoch e.
Fenced(e) ==
  /\ descriptor[e].inode = lock.inode /\ lock.sound
  /\ fence = [epoch |-> e, intact |-> TRUE]

\* The canonical sample, then publishResult.
PublishSample(e) ==
  /\ At(e, "cleared")
  /\ guards' = [guards EXCEPT
       ![e].pc = "spinning", ![e].status = guards[e].gate,
       ![e].late = IF Fenced(e) THEN 0 ELSE IF @ < 2 THEN @ + 1 ELSE @]
  /\ UNCHANGED fenceVars

Callback(e) ==
  CheckLease(e) \/ CheckFence(e) \/ Handle(e) \/ ClearSample(e) \/ PublishSample(e)

-----------------------------------------------------------------------------
(* The end of a process *)

\* The spinner returns after ros::shutdown; callbacks still queued return at
\* the latched failure.
Exit(e) ==
  /\ At(e, "closing")
  /\ Goto(e, "exited")
  /\ CloseLock(e)

\* Stopped by Core, or crashed.
Kill(e) ==
  /\ guards[e].pc \in Starting \cup Serving \cup {"closing"}
  /\ Goto(e, "exited")
  /\ CloseLock(e)

Startup(e) ==
  OpenLease(e) \/ AcquireLease(e) \/ Anchor(e) \/ Serve(e) \/ StartupFails(e)

GuardStep(e) == Startup(e) \/ Callback(e) \/ Exit(e)

NodeNext ==
  \/ (Core \/ Tamper) /\ UNCHANGED guards
  \/ \E e \in Epoch : Launch(e) \/ GuardStep(e) \/ Kill(e)

NodeSpec == NodeInit /\ [][NodeNext]_nodeVars

\* A started process runs, and its poll timer keeps calling it.
FairNodeSpec == NodeSpec /\ \A e \in Epoch : WF_nodeVars(GuardStep(e))

-----------------------------------------------------------------------------
(* Properties *)

Live(e) == guards[e].pc \in {"anchored"} \cup Serving

\* Directory, leases and processes keep their types.
NodeTypeOK == FenceTypeOK /\ guards \in [Epoch -> Guard]

\* As long as everyone respects the lock, a live Guard owns the Session: the
\* persisted epoch is its own from the moment it anchored until it is gone,
\* so Guards of two epochs are never live together and no callback of a Guard
\* ever finds its fence broken.
EpochExclusion ==
  Tampering = {} =>
  \A e \in Epoch : /\ Live(e) => fence = [epoch |-> e, intact |-> TRUE]
                   /\ ~guards[e].failed

\* Behind a broken fence a Guard publishes at most the one canonical sample
\* that had already passed the boundary check.
FencedPublishesOnce == \A e \in Epoch : guards[e].late <= 1

\* A Guard whose fence broke says so before it goes: the last latched
\* aggregate status is lost, never the lock it held.
FenceLossAnnounced ==
  \A e \in Epoch : guards[e].failed => guards[e].status = "lost"

\* A serving Guard whose fence no longer holds always exits.
BrokenFenceExits ==
  \A e \in Epoch :
    (guards[e].pc \in Serving /\ ~Fenced(e)) ~> At(e, "exited")
=============================================================================
