# XGC2 Session Clock Guard in TLA+

A verification project for `xgc2-session-clock-guard`: modules that model the
guard, its process, the epoch fence, the health checker and the policy loader,
TLC configurations that check them on small instances, and proofs for every size of instance.
Paths below are relative to the repository root; `map` in `PROJECT.json` gives
the source lines of each definition.

## The system

The guard sits between raw VRPN streams and the canonical streams a Session
consumes. It decides, sample by sample, whether the Session's clock can be
trusted, and closes every canonical stream as soon as it cannot.

| Component | State it keeps | Operations |
| --- | --- | --- |
| Clock mapper (`src/core/clock_mapper.cpp`) | lock state of one route, a pose and a twist timeline, the sample window and the fit read off it, failure, healthy and recovery counters | `initializeEpoch`, `observe` with `estimateAffine`, `poll`, `authorityFailure` |
| Session clock guard (`src/core/session_clock_guard.cpp`) | authority state and counters, station and Gazebo witnesses, the cached health, one mapper per route, the event sequence | constructor, `observeGazeboClock`, `observe`, `poll`, `failEpochFence` |
| Epoch fence (`src/core/epoch_fence.cpp`) | an open descriptor with a shared `flock`; the lock file and `epoch-state.json` are shared with Core | lease constructor and destructor, `validateCurrent`, `loadAndValidateEpochFence` (`readSecureEpochState`, `parseCanonicalEpochState`, `validateEpochFenceState`) |
| Guard node (`src/ros/session_clock_guard_node.cpp`) | the lease, the guard object, the latched fence failure, sequence numbers | startup, `handleGazeboClock`, `handlePose`, `handleTwist`, `pollGuard`, `ensureEpochFence` |
| Health checker (`src/core/healthcheck.cpp`, `src/ros/session_clock_guard_healthcheck.cpp`) | a lease, `LiveAdmissionTracker`, a subscriber queue | one run of `main` |
| Frozen policy (`src/core/frozen_config.cpp`) | none beyond the policy under construction | `loadFile`, `parse` with four validators and `canonicalKeyOrder` |
| SHA-256, messages, topic names, packaging | none of their own | pure functions and deployment |

How they interact: the node's single-threaded spinner calls the guard object
from four kinds of callback; the guard calls its mappers and reads back their
state for the aggregate. The node, the health checker and Core, which is not in
the repository, meet in the private Session directory: Core takes the lock
exclusively to persist a greater epoch, the others hold it shared. The health
checker meets the node a second time over a latched ROS topic.

What is hard here, and where a test hardly reaches (`hazards` in
`PROJECT.json` has the lines):

- two failure counters per route, the authority's and the mapper's, cleared by
  different callbacks, that must agree about loss;
- a cached health flag, written from five callbacks;
- two streams with one sample window, so that one stream can speak for a silent
  one;
- returns of a callback that emit no event;
- file operations of three parties interleaved between any two lines of a
  callback, with crashes, late starts and changes made behind the lock;
- latched, repeated, dropped and left-over messages in front of the checker;
- a line fitted through a sliding window and read at the newest stamp, which
  two streams move in turn;
- a file looked up, opened, read and looked up again while its directory
  changes;
- two texts that must have one spelling each, because a digest or another
  language's encoder stands on the other side;
- validators that dereference optional thresholds an earlier one required.

What makes each part correct: a route locks only on evidence gathered since its
last failure; the authority's loss is every route's loss; canonical output only
flows through a locked Session, in source order; output closes on silence; a
Guard that is live owns the persisted epoch; one that lost its fence says so
and goes; a passing health check has seen the right Guard alive and does not
keep Core out; canonical stamps keep pace with source stamps and are close to
when the sample came; a file is read whole or refused; an accepted policy is
the one that was named, has one text and can run a guard.

## Modules

```
GuardStates <- ClockMapper <- SessionClockGuard --implements--> AdmissionGate
     ^                                ^                       (GuardStates: Moves)
     |                                |
     |             AffineEstimator <- FittedGuard --implements--> SessionClockGuard
     |
     +-------- EpochFence <- GuardNode <- HealthCheck

EpochState <- SecureRead --implements--> AtomicRead       FrozenConfig <- PolicyLoader

SessionClockGuardProofs <- GuardSafetyProofs <- FittedGuardProofs   (with FittedGuard)
          LoopInduction <- AffineEstimatorProofs <- FittedGuardProofs
          LoopInduction <- SecureReadProofs
GuardNodeProofs (GuardNode and HealthCheck)     PolicyLoaderProofs
```

FittedGuard extends both SessionClockGuard and AffineEstimator.

- **GuardStates**: the four states and the moves between them.
- **ClockMapper**: `class ClockMapper` as a record and one operator per method.
  The affine fit enters by its verdict: a sample carries the set of gates its
  fit would violate, and `EnforcedGates` decides, from the fill of the window,
  which of them count. `observe`'s checks are `HardViolation`, `Waiting`,
  `Duplicate`, `SoftViolation`, in the order `ObserveMapper` tries them.
- **SessionClockGuard**: `auth` holds the authority members, `mappers` the
  entries, `event` the newest transition event, `admitted` the newest stamp
  projected to each canonical stream. `ObserveGazeboClock`, `Observe`, `Poll`
  and `FailEpochFence` are the public methods, whole, with their early returns;
  `PollTimer` is the node's timer calling `Poll`. Time is a bounded steady
  clock (`Tick`); the system wall is any reading in `WallErrors`.
- **AffineEstimator**: `estimateAffine` as an exact line, numerators over a
  common denominator, with the code's roundings where it rounds.
- **FittedGuard**: SessionClockGuard with that line computed. `samples` are the
  mappers' windows with their Session stamps, `estimate` what `status_` keeps
  of the fit. `FailedGates` compares prediction, offset step, drift, jitter,
  uncertainty and range with the policy; `FitObserve` hands the result to the
  `Observe` of SessionClockGuard and commits the window when the mapper took
  the sample. So every behaviour of FittedGuard is one of SessionClockGuard,
  which allows any set of failed gates (`FittedGuardIsGuard`).
- **AdmissionGate**: what consumers are promised, without clocks. `Lost` is
  final, a lock never reverts to initializing, samples go out one at a time
  through a locked gate and in source order.
- **EpochFence**: the lock path and the inode it names, the persisted epoch,
  Core's exclusive lock, and each process's descriptor. `Tampering` selects
  changes made behind the lock: the lock file replaced or spoiled, the state
  spoiled or advanced. A read of the persisted state is one step here;
  SecureRead is the reason it may be.
- **EpochState**: `parseCanonicalEpochState`. A text is a sequence of keys with
  strings; a character of a string is its class (quote, backslash, controls
  with and without a short escape, white space, HTML, separators, NUL, one to
  three bytes of UTF-8, invalid bytes) with the form it is written in.
  `Rendering` is what Go's encoder writes for a state, taken from the escapes
  the parser calls canonical.
- **SecureRead**: `loadAndValidateEpochFence` by system calls (`LstatBefore`,
  `Open`, `Fstat`, `Read`, `LstatCurrent`), over a directory in which the file
  is replaced by rename, linked, removed, truncated or re-moded at any point
  and inode numbers are used again. Core writes the `Rendering` of some state
  of the lineage the Guard was started with (`CoreStates`). Rewriting a file in place with equal size
  is left out: the reader compares neither times nor contents, so it relies on
  Core replacing the file by rename.
- **AtomicRead**: the promise: a refusal, or the whole document that the path
  securely holds at the moment of the answer.
- **GuardNode**: one process per epoch, launched however late. Startup is five
  steps, a callback two to five, so that everyone else may act between any two
  file operations. The guard object inside is abstracted to its gate, with the
  moves AdmissionGate allows.
- **HealthCheck**: the checker beside those processes, with ROS as an external
  party: latched delivery, reconnection, a queue that drops its oldest, a
  master that knows publishers by name and may keep a crashed one.
- **FrozenConfig**: the policy and its four validators.
- **PolicyLoader**: `loadFile` and `parse`, step by step: size, read, digest,
  lines, keys, scalars, validators, key order; the first refusal ends it. A
  line is a key with a word or a number in a canonical or another spelling;
  a digest stands for the text it was taken of. The file may be rewritten until
  the digest is compared.
- **LoopInduction**: induction on the rounds of a loop, as lemmas a proof can
  cite. **\*Proofs**: theorems. **MC_\***: instances for TLC.

`SessionNow`, saturation, and width: counters saturate at `CounterMax` as the
32-bit ones saturate at their maximum; nanosecond sums never come near 64 bits
in a run, so stamps are naturals. Real-time factors are compared as products of
integers.

Branches that no state of the program reaches and the modules leave out or
never enter: the `fallback_source` of a missing route, a route of another slot
reaching a mapper, `epoch_ == 0`, a steady clock before the epoch anchor, a
repeated slot (the table is a map), the tracker's change of publisher (both
callers admit one name only), and the overflow guard of the uncertainty floor
(half of a `uint64_t` plus 1000 fits).

## Runs

| Run | Checks | Shows |
| --- | --- | --- |
| `simulation` | `TypeOK`, `AuthorityLossReachesRoutes`, `EventTracksAggregate`, `PollClosesSilence`, `SilenceCloses`, `StartupResolves` | one identity route under a stale, stagnant, rolled-back or skewed Gazebo clock: counters saturate, loss reaches the route, events tell the aggregate, an open poll means no silence; the poll timer closes output on silence and ends the startup allowance |
| `physical` | `LockRestsOnEvidence`, `FitIsLeastSquares`, `MappedIsTimely`, `WindowIsSampled`, `MappedFollowsSource`, `ImplementsGate` | one affine route with its fit computed: locks are earned since the last failure, the line is the least-squares line of the window whichever stream brought a sample, canonical stamps are close to the receipt and in step with the source, output follows the abstract gate |
| `hybrid` | `OpenIsAdmissible`, `ImplementsGate` | two routes under two authorities, up to open output: published diagnostics agree with the gate, and the gate covers both routes |
| `station` | `EventTracksAggregate`, `OpenIsAdmissible`, `ImplementsGate` | no routes: the aggregate follows every behaviour of the wall, starting locked |
| `hybrid_startup` | `AuthorityLossReachesRoutes`, `HealthIsCurrent`, `StartupResolves` | two authorities, failing wall readings included: the cached health is current, loss reaches both routes, and the allowance ends even when the second Gazebo sample, without which a hybrid poll skips the routes, never comes |
| `tamper_node` | `FencedPublishesOnce`, `FenceLossAnnounced`, `BrokenFenceExits` | with every change behind the lock: one late sample at most, a lost status last, an exit |
| `health` | `EpochExclusion`, `PassProvesLife`, `PassIsExclusive`, `AllocationResumes` | Guards of two epochs around Core's allocation never overlap, a passing check beside them means a live Guard of the asked-for epoch, and a check gives its lease back whatever it is sent |
| `secure_read` | `ImplementsAtomicRead`, `CallEnds`, `FenceIsCanonical`, `CoreIsUnderstood` | the read is atomic under every change of the directory and always ends; a state has one accepted text, and the texts Core writes are accepted |
| `config` | `AcceptedIsNamed`, `AcceptedIsCanonical`, `TimingReadsPresent`, `AcceptedIsUsable`, `AcceptedFloorIsReal` | what is accepted is the text the launch names and Core's one text of its policy, no missing optional is read, accepted policies can run |
| `underfilled`, `rollback`, `silent_stream` | one statement of the documentation each | found violated, see below |

Every property of a passing run has a mutant in `PROJECT.json`: a definition of
the model changed as a plausible bug would change the code, under which TLC
finds the property violated.

### Bounds

- Thresholds: ages of 1, a startup allowance of 1 or 2, two failures to loss,
  two samples to lock and one to recover. Each is the least value that keeps
  its two sides apart (degraded before lost, collecting before locked).
- `MaxSteady` is 3 to 5, from an epoch that starts at 1: the startup allowance
  can run out, and a lock, a silence, a degradation and a relock fit into one
  behaviour. The hybrid instance, with twice the state, has the shortest, an
  allowance of 1 and a wall without error; `hybrid_startup` has the longer time
  and the failing wall, with one source stamp, which keeps its routes from
  locking but not from failing and recovering.
- Stamps 0 to 3 (to 2 for the Gazebo clock of `simulation`, to 4 for the
  source of `physical`): zero (waiting), equal (duplicate, stagnant), lower (rollback)
  and two advances; skew, wall error, wall step and rate each have values on
  both sides of their bound.
- The fit of `physical` is computed from a window of three samples, so that it
  slides, over stamps and times of a few units, with thresholds of one or two
  units: every gate is met and missed. In `hybrid` the fit is perfect, since
  the interplay of the authorities is the question there.
- Texts of `secure_read`: each class of character in each form inside a name,
  each at its start in canonical form, wrong characters in the other values,
  and a segment missing, doubled or exchanged with the next; the two texts Core
  writes use each escape and have the greatest length. One split of a read, two
  changes during a behaviour and three inodes: the file can be replaced, and
  its inode number come back, within one call.
- Epochs: two, so that a late first Guard can race the allocation of the
  second; with three inodes where the lock is not respected, so that the second
  Guard can start while the first still serves. `EpochsExclude` is for any
  number. Statuses per Guard and queue length (`MaxStatus`, `QueueDepth`) allow a
  latched status, its repeat, live ones and an overflow.
- Policies: every pair of edits of a sound policy of each mode, every edit of a
  route of its table, every mixture of authority, mapping and thresholds; their
  texts, and the text of a hybrid policy with one line missing, doubled,
  exchanged, respelled, malformed, out of range, or with another key or slot.
  The schema's limits are scaled to three bits. `CHECK_DEADLOCK FALSE` there,
  because the loader stops at its verdict.

### Fairness

`FairSpec` assumes that steady time advances and that the poll timer's callback
is served: the wall timer is queued like any message, and the spinner serves
the queue in order. A poll may change nothing, and it does not choose what the
wall reads, so fairness of "some poll that changes something" would force a
failing wall reading whenever a good one has no effect. `PollTimerFires` asks
less: a wall that is never again seen to err has polls that read no error.
Nothing is assumed of Gazebo, of the sources or of the wall. `FairNodeSpec` assumes that a started process takes its next step, the
poll timer included; neither Core nor a launch is fair. `FairHealthSpec`
assumes the same of the checker alone: its process is scheduled and its steady
deadline of two seconds passes, whatever the network delivers (`CheckProceeds`).
`ReadSpec` assumes that the reading thread makes its next system call.

### Where code and documentation differ

1. `underfilled`: `docs/architecture.md` says an underfilled affine window
   keeps output closed. A failure during collection turns the route Degraded,
   and the relock counts recovery samples only, so `recover_lock_samples` open
   the output over a window shorter than `min_lock_samples`.
2. `rollback`: the same document calls a strictly lower stamp of a stream a
   hard loss. `observe` compares a simulation sample with the Gazebo clock
   first, so a rolled-back stamp outside the skew bound is one soft failure.
3. `silent_stream`: `README.md` says one missing stream closes output. It does,
   at the poll; samples of the other stream then relock the route before the
   next poll, because a stream once seen stays seen.

Read off the code, without a run of its own: `README.md` and the loader's own
message want real-time-factor bounds that strictly bracket 1.0, while
`validateModeClockPolicy`, and `ValidateModeClockPolicy` with it, accepts a
bound equal to 1.0.

## Theorems

Every invariant, action property and refinement that a passing run checks is
also proved, for every value of the constants that the named assumptions admit.
The runs show the same formulas on small instances, and what the proofs leave
out: liveness.

The assumptions are what the loader's validators or the callers establish
(`ThresholdAssumption`, `ModeAssumption`, `BoundAssumption`, `FitAssumption`,
`LimitAssumption`, `LoaderAssumption`), or types of the environment
(`FenceAssumption`, `QueueAssumption`, `ReadAssumption`). `CoreAssumption` says
which states Core writes for the lineage a Guard expects: its epoch, digests
and session id, two legal names, the schema, characters that UTF-8 has. TLC
evaluates each of them on the instances.

### The guard

`SessionClockGuardProofs`:

- `TypeCorrect`: `Spec => []TypeOK`. Lemmas give the type of each authority and
  mapper operator, then one step per action.
- `HealthAlwaysCurrent`: `Spec => []HealthIsCurrent`. It is not inductive on its own: `AuthorityInv`
  adds that a locked or initializing authority has no failure on its record and
  that a Session without Gazebo is never degraded. `ValidateStationClock` breaks
  the second half in the middle of a callback, so the proof goes by what a whole
  callback can do: `StepShape` shows that every step has one of seven shapes
  (`Shapes`: nothing, a failure, quiet, a clock, a skew failure, a poll, a
  delivery), and the invariant is preserved shape by shape.

`GuardSafetyProofs` builds on the shapes. `RouteSteps` says what a step can do
to one route: nothing, count a failure, or accept a sample under an authority
that ends locked or lost. Each of the following then looks at these three.

- `LocksRestOnEvidence`: `LockRestsOnEvidence`. `EvidenceInv` states it of one
  mapper, and is inductive: that a degraded route's healthy count is its
  recovery count is what a relock, which compares the second, needs.
- `NoRouteOutlivesItsClock`: `AuthorityLossReachesRoutes`. It needs `LossInv`:
  a route that is not lost has counted at least the authority's failures. The
  interesting case is an accepted sample, which clears the route's counter: the
  guard has then cleared the authority's own.
- `EventsTellTheAggregate`: `EventTracksAggregate`, by the moves of the
  aggregate and the steps that emit no event.
- `OpenAlwaysAdmissible`: `OpenIsAdmissible`. `DiagnosticsInv` has three parts.
  `Readings`: a healthy station's readings are within bounds and a witness that
  the mode does not have has none. `Vouched`: a locked authority was fresh.
  `SkewAccounted`: a skew beyond its bound is remembered by a simulation route
  that is not locked.
- `PollsCloseSilence`: `PollClosesSilence`, an action property, from
  `AuthorityInv`: a silent stream fails its route in the poll, and the aggregate
  with it; a locked authority after the poll is a healthy, hence fresh one.
- `GuardImplementsGate`: `Spec => ImplementsGate`. `ForwardInv` relates what
  was projected to the mapper's newest stamp, which is why samples go out in
  source order; the moves of the aggregate are those of `Moves`.

### The fit

A proof cannot give an operator to the library's induction theorems.
`LoopInduction` states induction for a set of numbers (`SetInduction`,
`RoundInduction`, `StrongInduction`), from the well-foundedness of the numbers,
and the existence and uniqueness of what a loop computes (`Iteration`). With it
recursive functions are unfolded for every input, and so sums over windows of
any length.

`AffineEstimatorProofs`:

- `LineIsLeastSquares`: for any window of distinct stamps the residuals of the
  line, and the residuals weighted by the stamps, sum to zero. Sums are shown
  linear, the variance of distinct stamps positive.
- `EstimateIsClose`: what the roundings (`llround` of the offset and of the
  residuals, away from zero at the half) leave of it: a mapped stamp is the
  stamp plus the offset, up to the roundings, and at a stamp of the window it
  is within the jitter of the arrival.

`FittedGuardProofs`:

- `FittedGuardIsGuard`: `FitSpec => Spec`, so the theorems above hold of the
  guard that computes its gates; `FittedLocksRestOnEvidence` and
  `FittedGuardImplementsGate` are two of them.
- `WindowsAreSampled`, `MappedStampsAreTimely`, `FitsAreLeastSquares`, and
  `MappedStampsFollowSource`, an action property. The inductive invariant
  `FitInv` joins the types, `WindowIsSampled` (the stamps of the window are the
  mapper's, and distinct), `WindowIsBounded`, `RoundingIsBounded` (mapped stamp
  and offset differ by at most one unit of rounding) and `MappedIsTimely`. The
  distinctness is what the least-squares theorem needs; two streams share the
  window, and it holds because a stamp already in the window does not join it
  a second time.

### The process

`GuardNodeProofs`, for any number of epochs and inodes:

- `NodeTypeCorrect`: directory, leases and processes keep their types.
- `EpochsExclude`: `NodeSpec => []EpochExclusion`. The strengthening `LockInv`
  says that the path never changes inode while the lock is respected, that a
  process past `AcquireLease` holds it shared, and that Core's exclusive lock
  and any shared one exclude each other; so from the load in `Anchor` on, the
  persisted epoch cannot move.
- `FenceLossIsAnnounced`: a latched failure, a lost status and the end of
  serving go together (`AnnouncedInv`), so no later callback overwrites the
  announcement.
- `FencedGuardPublishesOnce`: under each of the changes behind the lock. These
  do not include undoing one (a mode restored, an old inode linked back), so a
  broken fence never holds again for the same epoch and descriptor (`BrokenStays`), so
  after one late sample a Guard is at a point where the next check stops it
  (`Stopped`, `LateInv`).
- `EpochsExcludeBesideChecks`: the same exclusion under `HealthSpec`. `NodeView`
  shows that to Guards and directory a step of the larger system is one of
  their own, none, or a move of the checker's lease.
- `PassesAreExclusive`: `PassIsExclusive`, with `VouchInv`: a check that holds
  its lease keeps Core out, so what it read of the persisted epoch is still
  true when it passes.
- `PassesProveLife`: `PassProvesLife`, with `LifeInv`: while the check listens,
  every message in the queue is at least as new as what the Guard had latched
  when it began, and the tracker's second sample is strictly newer.

### The files

`SecureReadProofs`, for any content of the file, any states Core writes, any
inodes and any schedule of changes:

- `ReadIsAtomic`: `ReadSpec => ImplementsAtomicRead`. `ReaderInv`: an inode held
  open is not used again, its file can only shrink, and what was read is a
  prefix of it as far as it still goes; so a file that has the first size at the
  last `lstat` was read whole.
- `FenceReadsCanonically`: `FenceIsCanonical`. A legible character has one form
  (`LegibleFacts`), spelling what was decoded gives the string back
  (`SpelledDecoded`), and a number without a leading zero is the numeral of its
  value (`CanonicalNumeral`, for numbers of any length).
- `CoreIsAlwaysUnderstood`: `CoreIsUnderstood`, the other direction: numerals are
  canonical and read back as their number (`NumeralFacts`), and every key of
  what Core writes passes its check. `AnswerInv` ties the fence's verdict to the
  bytes answered.

`PolicyLoaderProofs`, for any texts and any rewriting of the file:

- `PolicyIsNamed`, `TimingIsGuarded`, `FloorsAreReal`, `PolicyIsUsable` and
  `PolicyIsCanonical`, one for each invariant of `config`. `LoaderInv` says what
  each stage has established of the text and of the policy built so far;
  `BuiltIsConfig` that what the scalars and routes of any text parse to has the
  type the validators assume.

Only model-checked: liveness under fairness, which the prover does not reach
(`SilenceCloses`, `StartupResolves`, `BrokenFenceExits`, `AllocationResumes`,
`CallEnds`), and the three runs that expect a violation.

## Not modelled

- Rounding of `long double` and saturation at 64 bits in the regression: the
  model computes with exact fractions, and a saturated value fails the same
  gates.
- SHA-256: a digest stands for the bytes it was taken of. The characters of
  session ids, slots and body names: a word is legal or not. The decimal
  rendering of floats: a spelling is the canonical one or not.
- The device number beside the inode number: the Session directory is on one
  file system. `parseRosPrivateEpochId`, which strips one pair of quotes before
  `parseEpochId`, and the construction of sibling paths.
- Message layout, topic names, launch file, packaging.
- Core and ROS: external, as the code relies on them.

## Plan

Done: the modules above, in the order GuardStates, ClockMapper,
SessionClockGuard, AdmissionGate, EpochFence, GuardNode, HealthCheck,
FrozenConfig, AffineEstimator, FittedGuard, EpochState, SecureRead,
PolicyLoader, and the theorems listed.

Next: the step simulation between the guard object inside GuardNode and
AdmissionGate, and the assumption that a read of the persisted state is one
step in EpochFence, both stated here in words, as theorems.
