---------------------------- MODULE HealthCheck ----------------------------
(***************************************************************************)
(* The installed health checker (session_clock_guard_healthcheck), run     *)
(* again and again beside the Guards: it takes a lease of its own, asks    *)
(* the ROS master who publishes the aggregate status, listens until two    *)
(* advancing statuses prove a locked Session, and then checks everything   *)
(* again.                                                                  *)
(*                                                                         *)
(* ROS is external.  A status topic is latched, so a new connection first  *)
(* repeats the newest status; connections come and go; a full subscriber   *)
(* queue drops its oldest message; the master knows publishers by name     *)
(* and keeps the entry of a crashed node.                                  *)
(***************************************************************************)
EXTENDS GuardNode, Sequences

CONSTANTS
  MaxStatus,    \* bound: aggregate statuses one Guard publishes
  QueueDepth    \* messages the checker's subscriber queue holds

ASSUME QueueAssumption == MaxStatus \in Nat /\ QueueDepth \in Nat \ {0}

VARIABLES
  sequence,  \* status_sequence of the newest aggregate of every Guard
  owner,     \* the Guard registered under /xgc_session_clock_guard, 0 if none
  foreign,   \* another node is registered as a publisher of the topic
  inbox,     \* the subscriber queue
  check      \* the running check

rosVars == <<sequence, owner, foreign>>
checkVars == <<inbox, check>>
allVars == <<lock, fence, exclusive, descriptor, guards, sequence, owner,
             foreign, inbox, check>>

Status == [publisher : {"guard", "foreign"}, epoch : Epoch,
           sequence : Nat, locked : BOOLEAN]

\* since: the sequence the Guard had reached when the check began listening.
Check == [pc : {"idle", "opened", "leased", "fenced", "listening", "admitted",
                "relisted", "relocked", "passed", "failed"},
          expected : Epoch, links : SUBSET Epoch, samples : 0..2,
          last : Nat, rejected : BOOLEAN, since : Nat]

Idle == [pc |-> "idle", expected |-> 1, links |-> {}, samples |-> 0,
         last |-> 0, rejected |-> FALSE, since |-> 0]

HealthInit ==
  /\ NodeInit
  /\ sequence = [e \in Epoch |-> 0]
  /\ owner = 0
  /\ foreign = FALSE
  /\ inbox = << >>
  /\ check = Idle

-----------------------------------------------------------------------------
(* ROS *)

Queued(queue, message) ==
  Append(IF Len(queue) = QueueDepth THEN Tail(queue) ELSE queue, message)

StatusOf(e, seq, gate) ==
  [publisher |-> "guard", epoch |-> e, sequence |-> seq,
   locked |-> gate = "locked"]

\* publishAggregate, which every callback, the end of the constructor and a
\* broken fence call exactly once.
Announces(e) ==
  /\ guards'[e].pc # guards[e].pc
  /\ guards'[e].pc \in {"spinning", "closing"}

PublishAggregate(e) ==
  IF Announces(e)
  THEN /\ sequence[e] < MaxStatus
       /\ sequence' = [sequence EXCEPT ![e] = @ + 1]
       /\ inbox' = IF e \in check.links
                   THEN Queued(inbox, StatusOf(e, sequence'[e], guards'[e].status))
                   ELSE inbox
  ELSE UNCHANGED <<sequence, inbox>>

\* The registration of a node at the master: the newest of a name replaces
\* the older one, and a clean end removes it.
Registers(e) ==
  owner' = IF At(e, "anchored") /\ guards'[e].pc = "spinning" THEN e
           ELSE IF At(e, "closing") /\ owner = e THEN 0
           ELSE owner

GuardRuns(e) ==
  /\ Launch(e) \/ GuardStep(e)
  /\ PublishAggregate(e)
  /\ Registers(e)
  /\ UNCHANGED <<foreign, check>>

GuardEnds(e) ==
  /\ Kill(e)
  /\ owner' \in {owner, IF owner = e THEN 0 ELSE owner}
  /\ UNCHANGED <<sequence, foreign, inbox, check>>

DirectoryChanges ==
  /\ Core \/ Tamper
  /\ UNCHANGED <<guards, sequence, owner, foreign, inbox, check>>

ForeignNode ==
  /\ foreign' = ~foreign
  /\ UNCHANGED <<nodeVars, sequence, owner, inbox, check>>

\* A connection to the registered Guard delivers its latched status.
Connect(e) ==
  /\ check.pc = "listening"
  /\ e = owner /\ e \notin check.links /\ guards[e].pc \in Serving
  /\ check' = [check EXCEPT !.links = @ \cup {e}]
  /\ inbox' = Queued(inbox, StatusOf(e, sequence[e], guards[e].status))
  /\ UNCHANGED <<nodeVars, rosVars>>

Disconnect(e) ==
  /\ e \in check.links
  /\ check' = [check EXCEPT !.links = @ \ {e}]
  /\ UNCHANGED <<nodeVars, rosVars, inbox>>

ForeignStatus ==
  /\ check.pc = "listening" /\ foreign
  /\ inbox' = Queued(inbox, [publisher |-> "foreign", epoch |-> check.expected,
                             sequence |-> MaxStatus, locked |-> TRUE])
  /\ UNCHANGED <<nodeVars, rosVars, check>>

-----------------------------------------------------------------------------
(* LiveAdmissionTracker *)

Ready(c) == c.samples >= 2 /\ ~c.rejected

\* validateLockedAdmission: epoch and lock; SessionClockGuard holds the rest.
ValidateLockedAdmission(c, m) ==
  m.epoch = c.expected /\ m.sequence # 0 /\ m.locked

\* Mutant: a repeated status counts as another sample.
TrackerObserves_CountRepeats(c, m) ==
  IF \/ m.publisher # "guard"
     \/ ~ValidateLockedAdmission(c, m)
     \/ c.samples # 0 /\ m.sequence < c.last
  THEN [c EXCEPT !.rejected = TRUE]
  ELSE [c EXCEPT !.samples = @ + 1, !.last = m.sequence]

TrackerObserves(c, m) ==
  IF \/ m.publisher # "guard"
     \/ ~ValidateLockedAdmission(c, m)
     \/ c.samples # 0 /\ m.sequence < c.last
  THEN [c EXCEPT !.rejected = TRUE]
  ELSE IF c.samples # 0 /\ m.sequence = c.last
  THEN c
  ELSE [c EXCEPT !.samples = @ + 1, !.last = m.sequence]

-----------------------------------------------------------------------------
(* main *)

CheckAt(pc) == check.pc = pc
CheckGoto(pc) == check' = [check EXCEPT !.pc = pc]

\* Core checks the Guard of some epoch it allocated.
StartCheck(e) ==
  /\ CheckAt("idle") /\ e <= fence.epoch
  /\ check' = [check EXCEPT !.pc = "opened", !.expected = e]
  /\ OpenLock(Checker)
  /\ UNCHANGED <<guards, rosVars, inbox>>

LeaseCheck ==
  /\ CheckAt("opened")
  /\ TakeLease(Checker)
  /\ CheckGoto("leased")
  /\ UNCHANGED <<guards, rosVars, inbox>>

FenceCheck ==
  /\ CheckAt("leased")
  /\ LoadAndValidateEpochFence(check.expected)
  /\ CheckGoto("fenced")
  /\ UNCHANGED <<nodeVars, rosVars, inbox>>

\* validateAggregatePublisherSet over what getSystemState returns.
UniquePublisher == owner # 0 /\ ~foreign

\* requireUniquePublisher, and the subscription.
Listen ==
  /\ CheckAt("fenced")
  /\ UniquePublisher
  /\ check' = [check EXCEPT !.pc = "listening",
                            !.since = sequence[check.expected]]
  /\ UNCHANGED <<nodeVars, rosVars, inbox>>

\* spinOnce hands the queued messages to the tracker, which ignores what
\* follows its verdict.
Receive ==
  /\ CheckAt("listening") /\ ~Ready(check) /\ ~check.rejected
  /\ inbox # << >>
  /\ check' = TrackerObserves(check, Head(inbox))
  /\ inbox' = Tail(inbox)
  /\ UNCHANGED <<nodeVars, rosVars>>

Admit ==
  /\ CheckAt("listening") /\ Ready(check)
  /\ CheckGoto("admitted")
  /\ UNCHANGED <<nodeVars, rosVars, inbox>>

Relist ==
  /\ CheckAt("admitted")
  /\ UniquePublisher
  /\ CheckGoto("relisted")
  /\ UNCHANGED <<nodeVars, rosVars, inbox>>

Relock ==
  /\ CheckAt("relisted")
  /\ ValidateCurrent(Checker)
  /\ CheckGoto("relocked")
  /\ UNCHANGED <<nodeVars, rosVars, inbox>>

Pass ==
  /\ CheckAt("relocked")
  /\ LoadAndValidateEpochFence(check.expected)
  /\ CheckGoto("passed")
  /\ UNCHANGED <<nodeVars, rosVars, inbox>>

\* Mutant: the listening loop has no deadline.
Fail_NoDeadline ==
  /\ \/ CheckAt("opened") /\ ~Leasable(Checker)
     \/ check.pc \in {"leased", "relocked"}
          /\ ~LoadAndValidateEpochFence(check.expected)
     \/ check.pc \in {"fenced", "admitted"} /\ ~UniquePublisher
     \/ CheckAt("listening") /\ check.rejected
     \/ CheckAt("relisted") /\ ~ValidateCurrent(Checker)
  /\ CheckGoto("failed")
  /\ UNCHANGED <<nodeVars, rosVars, inbox>>

\* An exception, a rejection, or the deadline of the listening loop.
Fail ==
  /\ \/ CheckAt("opened") /\ ~Leasable(Checker)
     \/ check.pc \in {"leased", "relocked"}
          /\ ~LoadAndValidateEpochFence(check.expected)
     \/ check.pc \in {"fenced", "admitted"} /\ ~UniquePublisher
     \/ CheckAt("listening") /\ ~Ready(check)
     \/ CheckAt("relisted") /\ ~ValidateCurrent(Checker)
  /\ CheckGoto("failed")
  /\ UNCHANGED <<nodeVars, rosVars, inbox>>

\* The process ends, by itself or by Core's exec timeout, and the kernel
\* closes its lease.
EndCheck ==
  /\ ~CheckAt("idle")
  /\ check' = Idle
  /\ inbox' = << >>
  /\ CloseLock(Checker)
  /\ UNCHANGED <<guards, rosVars>>

CheckStep ==
  \/ \E e \in Epoch : StartCheck(e) \/ Connect(e) \/ Disconnect(e)
  \/ LeaseCheck \/ FenceCheck \/ Listen \/ Receive \/ Admit
  \/ Relist \/ Relock \/ Pass \/ Fail \/ EndCheck

HealthNext ==
  \/ DirectoryChanges
  \/ \E e \in Epoch : GuardRuns(e) \/ GuardEnds(e)
  \/ ForeignNode \/ ForeignStatus
  \/ CheckStep

HealthSpec == HealthInit /\ [][HealthNext]_allVars

\* main: a step of the checker's own, whatever the network delivers to it.
CheckProceeds ==
  \/ LeaseCheck \/ FenceCheck \/ Listen \/ Admit \/ Relist \/ Relock
  \/ Pass \/ Fail
  \/ check.pc \in {"passed", "failed"} /\ EndCheck

\* The checker's process is scheduled and its steady deadline passes.
FairHealthSpec == HealthSpec /\ WF_allVars(CheckProceeds)

-----------------------------------------------------------------------------
(* Properties *)

\* A check that passes has seen its Guard alive: besides whatever was latched
\* before, a locked status that this very Guard published after the check
\* began to listen.  Repeats of a latched status, reconnections and a
\* crashed Guard's leftovers never add up to readiness.
PassProvesLife ==
  check.pc \in {"admitted", "relisted", "relocked", "passed"} =>
    /\ check.last > check.since
    /\ check.last <= sequence[check.expected]

\* A passing check vouches for one epoch: until it returns, the persisted
\* epoch is the one it was asked about and no Guard of another is live, as
\* long as everyone respects the lock.
PassIsExclusive ==
  Tampering = {} /\ CheckAt("passed") =>
    /\ fence = [epoch |-> check.expected, intact |-> TRUE]
    /\ \A e \in Epoch : Live(e) => e = check.expected

\* A health check delays Core's next allocation but never prevents it: once no
\* Guard holds a lease, the checker's own is returned too, unless a Guard
\* takes one again.  Statuses that never come, or that repeat for ever, do not
\* keep the check listening.
AllocationResumes ==
  LET leased(p) == descriptor[p].shared
  IN  (\A e \in Epoch : ~leased(e))
        ~> ((\E e \in Epoch : leased(e)) \/ ~leased(Checker))
=============================================================================
