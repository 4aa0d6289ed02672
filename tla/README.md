# HydraSeat: formal models

HydraSeat lets two people use one Windows machine as two *Seats*, each with its
own devices, controller, audio and game. This directory holds TLA+ models of
the parts of the repository where ownership, ordering and failure decide
whether it is correct, the TLC configurations that check them on small
instances, and proofs, checked by TLAPS, of the properties that matter most.

Paths below are relative to the repository root.

## 1. The system

| Part | State it keeps | Operations | What is hard about it |
|---|---|---|---|
| `SessionController`, `SeatRuntime` (`src/runtime_authority.cpp`) | per Seat: generation, leases, process, window, controller binding | acquire/release lease, publish process, bind/clear window, bind/clear controller | stale tokens, cross-Seat exclusivity, one release that must drop the right objects |
| `RuntimeHost` (`src/runtime_host.cpp`) | hardware assignments, confirmed devices, presentation, revision | configure, pair, route/reset audio, observe input | inventories read before the mutex, a file that must agree with memory |
| `HostConnectionSession`, `HostPipeServer`, `HostPipeClient` (`src/host_transport.cpp`, `src/host_protocol.cpp`) | role and UI leases of a connection, worker threads, a byte stream | one handler per frame, disconnect, stop, calls with a time limit | a thread per client, leases that must follow their connection, timeouts in the middle of a frame |
| `GameLauncher` (`src/game_launcher.cpp`) | per Seat: process, job, helpers, token | launch, stop, reap, route input | partial failure of a ten-step launch, a try-lock reaper, callbacks |
| process groups (`src/process_group.cpp`, `src/process_launcher.cpp`) | records of a process tree, its Job, the handoff of its authority | adopt, observe, stop | packets that carry a reusable process id, and come late |
| crash journal (`src/crash_journal.cpp`, `src/gate_c_recovery.cpp`) | journal and safe-mode marker on disk | begin, advance, assess at start-up, clear | a crash between any two writes |
| emergency reset (`src/reset_actions.cpp`) | registration file | register, inspect, execute, verify | a reset that is itself interrupted |
| watchdog (`src/watchdog_main.cpp`, `src/watchdog_protocol.cpp`, `src/rollback_registry.cpp`) | lease deadline, sequence, registered actions and process attachments | renew, disarm, attach, roll back | host death, late frames, exact process identity |
| installer, update, bootstrap (`src/installer_transaction.cpp`, `src/update_transaction.cpp`, `src/installer_bootstrap.cpp`) | installed tree, journal, the package and the machine seen | apply, roll back, confirm, elevate | failure of a step or of its rollback; a package that changes between look and use |
| start-up registration (`src/startup_policy.cpp`) | registry value | evaluate, update, restore | restore after a failed verification |
| HidHide session (`src/hidhide_session_backend.cpp`, `src/hidhide_session_recovery.cpp`) | snapshot of driver configuration | apply, verify, restore | machine-wide state outliving the process |
| audio (`src/windows_audio_router.cpp`, `src/audio_routing.cpp`) | the endpoints of a process' sessions | capture, move, verify, put back | sessions that come, end and are moved by the user meanwhile |
| windows and displays (`src/window_tracker.cpp`, `src/window_placement.cpp`, `src/display_*.cpp`, `src/seat_display_layout.cpp`, `src/seat_runtime_policy.cpp`) | records and targets, placement lease, debounced topology, applied plans | inspect, place, restore, reconcile | windows that come and go while a game starts, notices out of order |
| the game's edge (`src/gate_c_*.cpp`, `src/xinput_iat_redirect.cpp`) | patched functions, the bridge's worker, a message pipe | install, handshake, feed, withdraw | threads inside a replaced function when the channel breaks |
| what the game sees (`src/virtual_*.cpp`) | key state, Raw Input queue and handles, cursor, XInput slots | apply a command, answer a call | late and repeated commands, handles used late |
| isolation (`src/input_isolation.cpp`, `src/input_router.cpp`, `src/workspace_manager.cpp`) | plan, routes, workspaces | plan, bind, route | choosing backends under policies, stale bindings |
| activation of two Seats (`src/seat_game_lifecycle.cpp`, `src/two_seat_launch.cpp`) | phase, retained recovery | start, observe, stop, retry | a rollback that fails as well |
| instances (`src/provider_launch_plan.cpp`) | four directories, a manifest | materialize phase by phase, reverse, recover | a crash inside any rename or removal |
| profiles and setups (`src/profile_schema.cpp`, `src/profile_migration.cpp`, `src/setup_package.cpp`, `src/two_player_setup_editor.cpp`) | documents that refer to each other | edit, save, resolve, compile, migrate, export, import | references that are gone, three notions of one device |
| evidence (`src/game_runtime_requirement_resolver.cpp`, `src/runtime_requirement_authority.cpp`, `src/local_compatibility_*.cpp`, `src/compatibility_*.cpp`, `src/input_metrics.cpp`) | reports, requirement store, history, decisions | measure, judge, publish, resolve, share | everything may change between review, load and use |
| community packages (`src/community_package.cpp`, `src/artifact_trust.cpp`) | the package in use, its history | install, roll back | trust is a matter of the moment |
| UI, catalogues, codecs of documents, diagnostics | documents | parse, show | mostly pure functions |

The UI and the control clients talk to `hydra_host.exe` over a named pipe.
Each connection has a worker thread whose session calls `RuntimeHost`, which
wraps the one `SessionController` in a mutex and counts accepted mutations.
The launcher has a mutex of its own, held for a whole launch or stop, and calls
`RuntimeHost` under it. The raw input thread and the window tracker call into
both. Lock order is launcher, then audio lane, then host, then controller; no
code calls back with the host mutex held.

The recovery files (`crash_journal`, safe-mode marker, reset registration) are
shared by processes that may all die: the session owner that changes Windows,
its watchdog, and the `hydra_reset` tool a person runs afterwards. Display
layouts, the policy coordinator, the two-Seat activation and the materialization
of instances are libraries with tests; no executable of the repository composes
them yet, so they are checked by themselves against every caller their
interface allows.

### What makes each part correct

* **Authority**: no process, window or controller belongs to two Seats; a stale
  token opens nothing; the end of a lease leaves nothing behind.
* **Host**: the file and the memory agree and are exclusive; a binding follows
  the assignment although pairing and assigning race; a lease lives as long as
  its connection; the revision moves with every visible change; a call gets the
  answer to its own request or none.
* **Launcher and process groups**: whatever runs is in the Seat's strict Job,
  under a current lease, isolated from its first instruction; a lease ends after
  its tree; a game that ended frees its Seat; a group owns the processes it
  says, and no others.
* **Windows**: the host's window is the tracker's target once nothing is under
  way; a window HydraSeat placed is held by a lease that will put it back; a
  topology that arrives late changes nothing.
* **Input**: a game sees its own Seat's input, in order, and nothing before its
  adapter is ready or after it has gone; a vibration reaches the controller
  meant; what is reported of isolation was observed.
* **Recovery**: no change to Windows is in effect without durable evidence and
  a way to take it back; a clean journal means an unchanged machine; after the
  faults stop, a repeated reset leads to a clean start.
* **Setup and data**: an installation, a bundle, an instance, a registration is
  whole, or known not to be, whatever step failed; and nothing is launched,
  shared, imported or installed but what was approved in the form it was
  approved.

## 2. The modules

| Module | Models | Uses |
|---|---|---|
| `SeatAuthority`, `SeatAuthority_proofs` | the pure rules of `controller_identity.cpp` and `controller_inventory.cpp`; `SessionController`, one action per mutating method | |
| `HostControl` | `RuntimeHost`, its connections, the assignment file, the devices | `SeatAuthority` |
| `GameLauncher` | launch, stop, reap and input delivery over process trees | `SeatAuthority` |
| `SeatWindow` | the window runtime of one launch, two threads step by step | `SeatAuthority` |
| `AudioRouting` | the host's audio requests and the two roles of a process' endpoint | `SeatAuthority` |
| `CrashJournal` | the journal's record algebra and the store's operations | |
| `EmergencyReset`, `EmergencyReset_proofs` | session owner, reset tool and the three files they share | `CrashJournal` |
| `SafeTransaction` | what the recovery protocol promises (abstract) | |
| `AudioTransaction` | the capture/apply/verify/rollback of a process tree's sessions | |
| `HostPipeServer` | accept loop, workers, registration of pipes, stop | |
| `Watchdog`, `RecoveryAttachment` | the watchdog's watch and rollback; which process it may end | |
| `HidHideSession` | the guarded change of HidHide's settings, and its restorer | |
| `GateCSession` | one game: bridge worker, patches, hooks of its threads, the host's session | |
| `Frames` | layouts and conditions of every message, and the frames | |
| `HostExchange` | one message over a channel that damages it; a client's calls over the stream | `Frames` |
| `InstallerTransaction` | install, repair, update, uninstall over an executor that fails half way; `HydraSeatSetup.exe` around the elevated script | |
| `StartupPolicy` | the start-up registration and what a logon makes of it | |
| `SeatActivation` | the lifecycle of a Seat over the resources of its plan | |
| `ProcessGroup` | the records of a process tree; the start of a process until a group owns it | |
| `InstanceMaterialization` | four directories, one file operation per step | |
| `RequirementAuthority` | evidence, review, requirement, plan, fresh check | |
| `CompatibilityCheck` | a local check of a game and its report | |
| `CompatibilityShare` | local history, consent, submission, export; the file of materialization decisions with two savers; the community package in use under a changing trust policy | |
| `PortableSetup` | a setup exported, altered, imported | |
| `SessionProfile` | four documents, a selection, two compilers; the legacy file becomes a bundle of documents, by two renames | |
| `InputIsolation` | planner, routing policy, workspaces, router | |
| `InputEvidence` | the metrics recorder and the verdicts drawn from it | |
| `VirtualRawInput`, `VirtualXInput` | what a game's replaced functions answer: Raw Input, keys and cursor; controllers | |
| `WindowPlacement` | records, bindings and targets; the placement lease | |
| `SeatRuntimePolicy` | topologies, layouts, recovery; the coordinator of a Seat | |
| `MCHostControl`, `MCGameLauncher`, `MCWindowPlacement` | instances for TLC | |
| `MCServices`, `MCComponents`, `MCPlatform` | several components side by side | |
| `Session_proofs` | proofs about the host and the launcher | `HostControl`, `GameLauncher` |
| `Services_proofs` | proofs about every component of `MCServices` | `MCServices` |
| `Setup_proofs` | proofs about the components of `MCComponents` that set something up | `MCComponents` |
| `Effects_proofs` | proofs about those that act for a Seat, and about the check and the history of its results | `MCComponents` |
| `Components_proofs` | proofs about decisions, packages and requirements; `MCComponents` as a whole | `Setup_proofs`, `Effects_proofs` |
| `Platform_proofs` | proofs about every component of `MCPlatform` | `MCPlatform` |

The users of `SeatAuthority` contain the authority state itself: a step of the
host, the launcher, the audio request or the window runtime that mutates it
*is* the `SeatAuthority` action with the token the code passes, so the
preconditions of the code's calls are the checked guards, and a refused call is
a branch of the caller.

`MCServices`, `MCComponents` and `MCPlatform` each put components that share no
state into one specification: a variable (`focus`, `part`, `scene`) chooses
which of them runs, and the others stand still: in one initial state, or, in
`MCComponents`, without any state at all. A behaviour of
the composition is a behaviour of exactly one component, so an invariant of the
form `part = "x" => I` checks `I` on every state of component x. They are
one run each because they ask one kind of question each.

**SeatAuthority.** `generation`, `leases`, `process`, `window`, `binding` are
the members of `SeatRuntime`. Every method takes the controller's mutex, so
each is one step. The tokens presented are *all* tokens, hence every stale one.
Refused calls change nothing and are not steps.

**HostControl.** One variable per member of `RuntimeHost` (`config`,
`confirmed`, `tracker`, `presentation`, `revision`), one for the file, and for
each connection its role, held leases and the request its worker is handling. A
handler is split where the code lets others in: `configureSeatHardware`
enumerates devices before the mutex (`ReadHardware`, then `AssignHardware` or
`AssignNothing`), `pairController` scans before it (`ScanForPairing`, then
`CommitPairing` or `RefusePairing`), a launch runs under the launcher's mutex
(`HandleLaunchGame`, `PublishGame`) and presents its title after releasing it
(`SetPresentation`). The save and the update of memory are one step because the
host's mutex is held; the crash between them is `HostCrashAfterSave`. Display,
keyboard and mouse obey the same rule, so a Seat has one `device`. Handlers
that only read are left out, except for the reaping each of them does first.

**GameLauncher.** `seatProcess` is `seatProcesses_`; `tree` is what Windows has
for each created root: the life of the root, of its descendants, and whether it
is in the Job. `launch` is the program counter of the thread that holds
`processMutex_`. Each step of `launchGameForWorkspaceImpl` is an action, the
failure of a step is `EndActivation` (before there is a process), `JobFails`
or `RollBackLaunch` (after there is a record). A stop either sees the Job empty
(`StopVerified`) or gives up with everything kept (`StopGivesUp`).

**SeatWindow.** The atomics, host calls and joins of `SeatWindowRuntime` one by
one. The tracker is its worker, its target and its observer list; which window
it selects is free, except that a game that has not been resumed shows none and
that a target that failed closed stays so. The tracker of `WindowPlacement` is that worker itself.

**WindowPlacement.** An inspection sees whatever role and rank the window has at
that moment (`Appearance`: title, class, owner and rules may have changed), and
recording it writes over the record under the same identity. A binding keeps a
copy of its window, whose role decides later by what the window may be replaced.
The process trees have a root and live processes and exist twice, under the
lock of the configuration and under that of the state; a Seat starts over when
its root changes, and searches while a root without live processes stays. The
rules are the roles a profile asks for (`targetRoles`); rules that leave these
alone only change what the next inspection sees. `setProcessTrees` has one
caller at a time.

**CrashJournal, EmergencyReset.** A journal is represented by what replaying
its records gives, since this is what the code derives and validates before
each append. A replacement that reports failure may have happened (a failed
directory sync after the rename); a marker is written on a best effort. The
owner is not in the repository: it is modelled from `GateCRecoveryJournal` and
the registration store, the interface it has to use, with these assumptions,
each from a comment or a test of that interface: it assesses the start before
it registers; it registers before it begins its journal; it makes a change only
between that change's Prepared and Applied record and records what is true of
it; a refused owner exits and leaves its registration; session generations
advance. `Serialized` says that a start of the owner and a run of the tool do
not overlap ("callers serialize access to one recovery directory",
`crash_journal.hpp`). Left out: history copies (never read back),
`FailureRecorded` (ends a journal as `RecoveryRequired` does), version 1
registrations, the final inspection that only decides what is printed.

**Transactions.** `AudioTransaction`, `HidHideSession`, `InstallerTransaction`,
`StartupPolicy`, the migration of `SessionProfile`, `InstanceMaterialization`,
`WindowPlacement`, `SeatActivation` have one shape: what really is
(`endpointOf`, `hid`, `disk`, `registration`, `directory`, `roots`, ...)
beside what the code remembers of it, and the step the transaction is at. A
call of the platform may do its work, half of it or nothing, and its answer is
independent of that, except where an interface promises otherwise (stated in
the module's header). What the code does next depends on the answer alone.

**GateCSession.** The worker's stages are those of `bridgeThreadMain`; each
patch of a table of imports is one step and may fail, and a partial patch is
taken back or remembered as the code does. A game thread inside a replaced
function holds a reference to the adapter (`beginHook`, `finishHook`); frames
are a sequence number and a kind, in two bounded queues.

**Messages.** `Frames` says what it is to write and read a layout: cells for
integers, lengths and characters. It gives each message its layout and
the conditions its decoder checks; `HostExchange` sends each through every damage
the channel may do, and has client and host write and read frames piece
by piece with time limits in the middle.

**What games see.** `VirtualRawInput` (keys, Raw Input, cursor) and
`VirtualXInput` take the
host's commands in any order, late and twice, while the game calls; each call is
one step under the context's lock. One probed key, one axis, packets that carry
the number of their input stand for the data.

**Launch authority.** `RequirementAuthority` follows one piece of evidence:
report, record, review, publication, resolution, plan, fresh check. Between any
two, the game is updated, the provider refreshed, the store damaged, months
pass, HydraSeat is upgraded.

**Documents.** `SessionProfile` reads documents that may say anything, edits and
saves them and compiles plans; identities have a device and a spelling, because
the three places that compare them fold case differently. `PortableSetup`
exports with placeholders for paths, lets the carrier alter the package, and
imports with bindings. The decision store has two savers on one staging file.
The package part of `CompatibilityShare` installs and rolls back while the
trust policy changes.

## 3. The runs

| Run | Question | Bounds |
|---|---|---|
| `host_pairing` | Do bindings follow assignments while pads, clients and the host come and go? | 2 Seats, 2 clients, 2 pads, 1 slot that reconnects once |
| `host_progress` | Do file and memory agree, do leases follow connections, does the revision tell, do sessions and the host end? | 2 Seats, 2 clients, 1 device that needs activity, 1 process, 3 revisions |
| `launch` | Is everything that runs owned and isolated, and every ended game reaped? | 2 Seats, 2 processes, 1 slot |
| `reset` | Do the files implement `SafeTransaction`, and do resets get through? | 2 sessions of 2 actions, 1 damaged file at a time, damaged while no reset runs |
| `services` | Do window runtime, audio, pipe server, watchdog, HidHide session and Gate C session keep what they promise, and end? | 3 windows; 2 audio callers; 2 sessions; 2 clients; plan of 2; 2 game threads, 1 function of each kind, 3 frames |
| `components` | Is what was set up accounted for, what has effects owned, what happens approved? | per part: 2 installers and revisions; 2 recipes, 3 materializations; 2 Seats with 1 game each; 3 process births over 2 ids; 2 results, 2 previews; 2 savers; 2 packages, 2 steps; 1 edit of profiles |
| `platform` | Is what a Seat sees its own, and does what comes late change nothing? | per scene: 2 handles of 2 generations; 2 slots, 2 controllers; 2 windows; 2 outputs, 2 topologies; every message of the protocols with one edit and one damage; 2 recording threads |
| `window_race` | *violated*: the host has the tracker's target | 2 windows |
| `reset_window` | *violated*: a crash before the journal is recoverable | 2 sessions, 1 action |
| `audio_memory` | *violated*: a transaction remembers what it moved | 1 session |
| `hidhide_record` | *violated*: a clean rollback removes the record | 1 setting, 2 sessions |
| `window_reissue` | *violated*: the lease puts the original back | 2 windows of 2 identities |

The composites of the three wide runs are conjunctions of named parts; each
part's comment says what it means and of which code.

Why the bounds are enough. HydraSeat v1 has two Seats, and exclusivity is a
relation of two. Two epochs give every stale token, and a second session every
stale file; nothing in the code compares more than the previous with the
current one. Two clients are the least that contend for one lease while the
launcher serves a third party's request. In `launch` a Seat's epoch is kept
open by a UI lease, so a Seat launches again within one life of the host
although `MaxGeneration` is 1; the first Seat's Job may refuse to be
terminated, the second's may only be slow, which separates the two outcomes
`BrokenInputStopsTree` tells apart. Two actions are the least with a rollback
order. A second damaged file, and damage under a running reset, which works on
what it has read, are left out to keep the run short (without these two bounds
it has 4.6 million states and passes as well). Three births over two process
ids are the least in which an id is given to a third process while a late
packet names it; a fourth process exists only where it tells something new
(`ProcessBounds`). In the tracker's scene of `platform` the first Seat's windows look like an input
window or a dialog, in turn; its tree grows, changes its root, loses what lives
of it and ends beside the tree of the other Seat; for the lease, where the game's
role stays, the first window may come to look worse than the second once
(`TrackerBounds`). `InstallerBounds`, `AuthorityBounds` and `PackageBounds` keep
apart what is independent of each other: one installer installs, repairs and
removes while the other updates (two alike exclude each other by the lock before
they differ), one launch plan is followed at a time, and a history that
overflows is one of packages without entries. What `InstallerBounds` leaves out
is covered by `InstallerSafe`. In `launch` processes are created
in the order of their names, which are all alike (`CreatedInOrder`). A plan of three resources (`MCPlanOrder`) has an outermost, a
middle and an innermost one. Two handle slots of two generations let a handle
be used after its slot was given away. The bounds on generations, slot
generations, sequences and the revision stand for the 64-bit limits where the
code saturates or refuses: the runs reach them.

`MaxRevision = 0` switches the revision off where it is not the question.
Symmetry is used in the safety run of `MCHostControl` only. Deadlock is not
checked where the system may really stop: all generations used, the host down,
the game ended, the files damaged.

### Fairness

* `FairControlSpec`: a worker handles what it has begun and notices the end of
  its client or of the host (weak fairness); clients owe nothing. In the code
  handlers block on no client, and a stop cancels the I/O of every pipe.
* `OrderedLauncherSpec`, which is `FairLauncherSpec` for processes created in
  order: weak fairness of the steps of a launch, each wait of
  which has a timeout, and strong fairness of the reaper: requests keep coming
  because the UI polls, and a poll reaps whenever it finds the mutex free.
  Stops are not fair: nobody has to ask for one.
* `FairRecoverySpec`: a person runs the reset again and again and each run goes
  on; `Calm` ends the faults, after which `ResetReopens` must hold.
* `ServicesSpec`: of the window runtime both threads run; no window event has to
  come; strong fairness of `Shutdown` stands for `stop()` setting the stop flag,
  after which the worker finishes its current call and takes up no other. Of
  the pipe server the accept loop and each worker run, a client need not send or
  leave. Of the watchdog its own steps and the clock. Of a game the bridge's
  worker and the return of a game thread from a replaced function; the game
  need not call, the host need not send.
* The other runs check safety only.

### What the violated runs show

* **`window_race`** (`game_launcher.cpp:577`): `placeInitial` runs the target
  handler on the launching thread with a target it has sampled, while the
  tracker's worker runs it for a newer one. Without a lock the older may be
  bound last. The launch succeeds, and the host keeps a window that is not the
  target, until the target changes again.
* **`reset_window`** (`reset_actions.cpp:276`): a crash between registration
  and journal is recoverable only in a directory without an earlier session;
  otherwise the old clean journal makes the registration look foreign.
* **`audio_memory`** (`audio_routing.cpp:356`): a repeated `attempt()` takes what
  the first one moved for what it found, and a later rollback leaves it there.
* **`hidhide_record`** (`hidhide_session_recovery.cpp:505`): a refused `prepare()`
  makes the guard forget its action; a rollback then reports success and leaves
  the durable record.
* **`window_reissue`** (`window_placement.cpp:432`): a placed window that gets a
  new identity is taken for a new one, and captured as HydraSeat placed it.

### Other observations

Met while modelling; each is what the code does, and the models do it too.

*Host and launcher.* Two controllers with persistent identities may be paired
with one XInput slot, and both Seats read it (`controller_identity.cpp:173`
against `:144`). A process that could not be put into a Job is killed without a
look whether that worked before its lease ends (`game_launcher.cpp:1093`). A
catalogue within its limit of entries can exceed the 64 KB of a frame and then
cannot be encoded. `waitForOverlapped` (`gate_c_transport.cpp:41`) discards a
frame that completed while its read timed out.

*Recovery.* Without `Serialized` a reset that overlaps the start of an owner
removes a registration it has not inspected (`reset_actions.cpp:1016`).

*Game edge.* A mask of Raw Input functions alone is refused at
`gate_c_shim.cpp:783` although `validProfiledShimMask` accepts it, so such a
target never attaches. A function that is imported twice is left out by the
automatic mask. While a game is ended for a broken channel its imports are
restored before `TerminateProcess`, so its threads may see the machine's own
input for a moment. A control frame resets the game's own clip and capture.
A window handle that is reused is not configured again by the bridge.

*Process groups.* A handoff that ended `Unverifiable` is opened again by the next
look (`process_group.cpp:415`). A helper that ends between `OpenProcess` and the
reading of its path makes the tree unverifiable for good (`:460`). Ended
processes count towards the 256 that are tracked. When the second
`processIdentity()` of `adoptLaunchedProcess` fails, the handle is already
closed and the suspended process may be left (`:932`; the model's step
`abandoned`, an exception named in `NoStartIsLost`).

*Window targets.* A window that loses the role while it is the target of a
distinct input stays the target as long as no other window is as near to that
role as it was when it was bound: `refreshBindingLocked` compares and rebinds the
same window (`window_tracker.cpp:533`, `:555`) without asking for the role. When
that window then goes, the penalty of the role it had *last* becomes the limit of
the search (`:559`), so that an input target may be found among windows of other
roles, visual and helper windows included; `:346` says that such a profile "must
prove exactly that role", and `window_tracker.hpp:118` that the input "never
falls back to a visual/helper HWND". `Rebound` and `Reacquired` do the same, and
`TargetsAreOwned` claims no more than holds: one owned window of a present
identity, and no rival within the limit. The host asks for no distinct input
(`game_launcher.cpp:519`); the API and its tests do.

*Windows and displays.* A placement's partial rollback is only a diagnostic
(`window_placement.cpp:217`; the exception `unrestored` of
`PlacedWindowsAreHeld`). The policy coordinator overwrites `RecoveryRequired`
with `Degraded` and then `Healthy`, keeps older plans after a failed retry and
stops at the first window that fails. Recovery plans each Seat alone, so the
groups of two Seats may overlap.

*Isolation.* No built-in backend suppresses physical input, so a profile that
requires zero bleed is never supported. `InputRouter::stop` destroys the window
even when the caller supplied it. Removing a workspace leaves its bindings, so a
Seat re-created with that number inherits them. A sample of the input metrics
without a known receiver is never counted as another Seat's.

*Activation.* A failed Process rollback does not keep the lifecycle hook from
restoring files, although `two_seat_launch.cpp:547` says that no running process
can observe them while restored.

*Setup.* The bootstrap passes `-ExpectedReleaseVersion` and
`-ExpectedReleaseRevision` (`installer_bootstrap.cpp:546`), which
`tools/install_hydraseat.ps1` does not declare, and its exact list of files
(`:26`) and the script's required set exclude each other; the model treats the
script as external. Two savers of decisions share one staging name and can
publish a mixture, which the load then refuses.

*Instances.* `rollback()` of a session that has not recovered removes the restored
instance and renames an earlier phase's tree into its place
(`provider_launch_plan.cpp:1837`). The staging directory exists before its
manifest: a crash in between makes the later recovery refuse it. The manifest is
rewritten in place.

*Profiles and setups.* The schema folds the case of device identities
(`profile_schema.cpp:285`), the provider-aware compiler compares them exactly
(`provider_launch_plan.cpp:283`), the two-Seat compiler folds wide characters
(`two_seat_launch.cpp:68`): a device spelled in another case in each Seat passes
the exclusivity of the provider-aware compiler. Names and arguments of an
exported setup may carry local paths. A setup without a compatibility
reference is never stale.

*Evidence and packages.* Removing a requirement restarts its revisions at 1 and
forgets its guard. Evidence and approval carry the version but not the hash of
the executable. The evidence writer loads the history with the default retention
of 32 and so trims a larger one the user chose. "Revision must increase" compares
with the package in use only (`community_package.cpp:151`), so an older revision
can return after another package; a rollback does not ask the trust policy
again.

## 4. The proofs

| Theorem | Says |
|---|---|
| `SeatAuthority_proofs!TypeCorrect` | `AuthoritySpec => []AuthorityTypeOK` |
| `SeatAuthority_proofs!Exclusivity` | `AuthoritySpec => []ExclusiveOwnership` |
| `SeatAuthority_proofs!NoOrphans` | `AuthoritySpec => []NoOrphanAuthority` |
| `SeatAuthority_proofs!GameObjectsFrozen` | `AuthoritySpec => FrozenDuringGame` |
| `SeatAuthority_proofs!EpochsAreFresh` | `AuthoritySpec => FreshEpoch` |
| `Services_proofs!WindowTypeCorrect` | `WindowSpec => []WindowTypeOK` |
| `Services_proofs!NothingLeftBehind` | `WindowSpec => []NothingOutlivesTheLease` |
| `Session_proofs!LauncherTypeCorrect` | `LauncherSpec => []LauncherTypeOK` |
| `Session_proofs!NothingRunsUnowned` | `LauncherSpec => []RunningTreeIsOwned` |
| `Session_proofs!NothingRunsUnisolated` | `LauncherSpec => []RunsIsolated` |
| `Session_proofs!NothingRunsBehindBrokenInput` | `LauncherSpec => []BrokenInputStopsTree` |
| `Session_proofs!LeaseEndsLast` | if `KillFails = FALSE`: `LauncherSpec => LeaseEndsAfterStop` |
| `Session_proofs!ControlTypeCorrect` | `ControlSpec => []ControlTypeOK` |
| `Session_proofs!HostKeepsAuthority` | `ControlSpec => [](ExclusiveOwnership /\ NoOrphanAuthority)` |
| `Session_proofs!LeasesOwned` | `ControlSpec => []LeasesHaveOneOwner` |
| `Session_proofs!AssignmentsKept` | `ControlSpec => []AssignmentsExclusiveAndDurable` |
| `Session_proofs!BindingsFollow` | `ControlSpec => []BindingFollowsAssignment` |
| `Session_proofs!GamesKeepTheirController` | `ControlSpec => []GameHasItsController` |
| `Session_proofs!TitlesAreTrue` | `ControlSpec => []TitleOfRunningGame` |
| `Session_proofs!RevisionNotesEveryChange` | `ControlSpec => RevisionCoversEveryChange` |
| `EmergencyReset_proofs!RecoveryTypeCorrect` | `RecoverySpec => []RecoveryTypeOK` |
| `EmergencyReset_proofs!EffectsAreAuthorized` | if `Serialized`: `RecoverySpec => []EffectsHaveAuthority` |
| `EmergencyReset_proofs!VolatileIsNeverAhead` | if `Serialized`: `RecoverySpec => []VolatileFollowsDurable` |
| `EmergencyReset_proofs!CleanIsUndone` | if `Serialized`: `RecoverySpec => []CleanMeansUndone` |
| `EmergencyReset_proofs!RecoveryImplementsTransaction` | if `Serialized`: `RecoverySpec => ImplementsTransaction` |
| `Services_proofs!WorkersEnd` | `PipeSpec => []WorkersEndWithServer` |
| `Services_proofs!ServicesTypeCorrect` | `ServicesSpec => []ServicesTypeOK` |
| `Services_proofs!AudioAnswersAreTrue` | `ServicesSpec => []AnswersAreTrue` |
| `Services_proofs!UndoneAsReported` | `ServicesSpec => []UndoneExactly` |
| `Services_proofs!SeatsAreIsolated` | `ServicesSpec => []SeatsStayIsolated` |
| `Setup_proofs!InstallerSafe` | `InstallerSpec => [](InstallerTypeOK /\ InstallationAccountedFor)` |
| `Setup_proofs!StartupSafe` | `StartupSpec => [](StartupTypeOK /\ RegistrationAccountedFor)` |
| `Setup_proofs!MigrationSafe` | `MigrationSpec => [](MigrationTypeOK /\ BundlesSurvive)` |
| `Setup_proofs!MaterializationSafe` | `MaterialSpec => [](MaterialTypeOK /\ InstanceIsKept)` |
| `Setup_proofs!SetupStaysAccountedFor` | `ComponentsSpec => []SetupAccountedFor` |
| `Components_proofs!EffectsStayOwned` | `ComponentsSpec => EffectsAreOwned` |
| `Components_proofs!ApprovalsStayExact` | `ComponentsSpec => ApprovalsAreExact` |
| `Components_proofs!ComponentsTypeCorrect` | `ComponentsSpec => []ComponentsTypeOK` |
| `Platform_proofs!PlatformTypeCorrect` | `PlatformSpec => []PlatformTypeOK` |
| `Platform_proofs!GamesSeeTheirInput` | `PlatformSpec => []InputIsExact` |
| `Platform_proofs!SeatsKeepTheirWindows` | `PlatformSpec => []WindowsAreOwned` |
| `Platform_proofs!LateEventsUndoNothing` | `PlatformSpec => AcceptedForward /\ RoutesFollowOwners` |

`Services_proofs` also has one theorem per component about its own
specification: `TransactionSafe`, `WatchdogSafe`, `HidSafe`, `GateSafe`,
`AudioSafe`.

They hold for every set of Seats, connections, devices, processes, windows,
controllers, slots, titles, sessions, actions, clients, threads, patched
functions, installers, revisions, recipes, file phases, names of players, games
and setups, and every bound on the counters, from the assumptions named in the
modules: the absent values (`NONE`, `FAILED`, `CORRUPT`) are none of these
objects, nor a record, a request, a game or a call; the bounds are natural
numbers, and there are at least two frame numbers, 0 for "none yet" and a first
one; a retention of results is positive, with the default among those a user may
choose (`compatibility_share_model.cpp:26`); the process ids of a machine are
positive numbers with a greatest one; a plan of activation contains the process;
there is a game for a profile and a process for a check; which stops and kills
may fail is any constant; for `SeatWindow` there is a Seat, a process and one
generation. `MCPlatform` needs a little more: Seats tracked are positive
numbers, windows are finitely many and no two that look alike have one handle
(`TieRank`), what an inspection may see and what a profile may ask for are any
sets of roles (`Appearance`, `TargetRules`), a clip rectangle and an active display are not empty, the primary
display is one that may be selected, a window that is reported has a generation
other than 0, and each queue and counter has a limit of at least one.

*Authority.* `ExclusiveOwnership` is not inductive. The checks of
`publishProcess`, `bindTargetWindow` and `bindController` skip Seats without a
lease, so they exclude a second owner only because such a Seat owns nothing.
`AuthorityInv` is therefore types, `NoOrphanAuthority` and
`ExclusiveOwnership` together; one lemma per action shows that it is kept. The
two action properties follow from it and a case analysis of the step.

*Window runtime.* `NothingOutlivesTheLease` speaks of the end, but a handler
under way at the end would bind again. `WindowInv` adds that whoever may bind
has gone: the worker has been joined before the lease is released, the
launching thread is inside of the handler at two places of the launch only,
and every handler has the window it is about to bind or clear. The authority
part is kept by the lemmas of `SeatAuthority_proofs`, since every host call is
one of `SeatAuthority`'s actions.

*Launcher.* `RunningTreeIsOwned` says nothing of a process that is about to run.
`LauncherInv` adds what the steps of a launch rely on: before there is a record
the Seat has none (so no other tree of it can run while the lease is handed
back), from the record on it is the record of this launch, until the resume the
process does not run, and at the resume it is in its Job, published and
isolated. It contains `AuthorityInv`, kept by the lemmas of
`SeatAuthority_proofs`, and needs its `FrozenDuringGame` step: no client takes
away the binding a launch is about to take over. `BrokenInputStopsTree` needs
besides that a launch never has broken input, which holds because events are
routed under the same mutex; `LeaseEndsAfterStop` that a process just created
has no children. The last is proved for kills that cannot fail, because
`terminateCreatedProcess` does not look at the result: with `KillFails` a
suspended process outlives its lease.

*Host.* A handler is two steps with other connections between them, so what the
second step relies on must be kept by everybody else. `ControlInv` adds three
such facts to what the runs check. A request is only in progress while its
connection has the control role and the Seat's UI lease, which nobody but that
connection gives back (`RequestsAreHeld`). One launch runs at a time, on a Seat
without a game (`LaunchInProgress`): hence the configuration it has checked
cannot be changed under it. And the title a connection has still to show is
that of its own game, if there is one (`PresentsOwnGame`), because no other
connection can launch on that Seat. From there every handler is a case analysis
over `SeatAuthority`'s action lemmas. `RevisionCoversEveryChange` is a property
of steps; it follows from `ControlInv` and one lemma per handler.

*Recovery.* Types need only that owner and tool hold a journal where they use
one (`ShapeInv`). The safety of the changes rests on what no file shows: the
owner knows of every change in effect and of no other session's
(`OwnerKnowsEffects`), a tool's idea of the journal stays true of the session it
is about until it is done (`ToolReadsTruth`), and the owner is down before its
changes are taken back (`ToolProgress`). The second one is where `Serialized`
is needed, and TLC finds the counterexample without it: a tool that has read
"no session" removes the registration that a new owner has just written.
`crash_journal.hpp` asks its callers for exactly this. The refinement maps the
session of an incomplete journal to the abstract open session; the step
simulation shows that changes belong to it, that none is left when it closes,
and that no step leads from one open session to another. It is
`RecoverySpec => SafeTransaction` without fairness; that resets get through is
TLC's.

*Services.* Each component has an inductive invariant of its own.
`PipeInv`: a worker that reads for its client is found by the stop, and the
flag is raised before a pipe is broken. `TransactionInv`: what was captured
before a repetition is kept, and a session's endpoint is known unless a user
moved it. `WatchdogInv`: every handle belongs to the process it was opened for,
an action that was tried is undone, and success means complete. `HidInv`
relates the durable record, the guard's memory, the restorer's and the
driver's settings at every place of the two protocols; of it the central part
is that settings differ from the user's only while a record is on disk and the
guard knows of it. `GateInv`: a game thread inside a replaced function holds
the adapter, a function that answers itself is served by one, and a broken
channel is on its way to the end of the game. `AudioInv`: one request is in the
lane of a process, and the lane knows which role of the endpoint it has moved;
together with `AuthorityInv`, since an answer must belong to the lease that
asked. In the composition the components that do not run stand still, so
`ServicesInv` is the conjunction of these, each for the component that runs.

*Setup.* Again one inductive invariant per component, and `SetupInv` for the run
that composes them. `InstallerInv` says who holds the mutation lock, what is on
disk at each place of the one transaction that does, and that an update is still
held to the preview it was approved on; without the last a rejected update could
not be told from one that installed something else. `BootstrapInv` ties the
operation under way to the setup that was shown and confirmed. `MigrationInv`
tells for each place of the migration what destination, staging and rollback
directory hold; "there was a whole bundle once" is inductive only together with
"and this migration started with it". `PortableInv` follows the package from the
export: as long as it was not altered its paths are those of the committed
setup, and what decodes has a variable for every placeholder. `ProfileInv` needs
of the documents only that the plans were compiled from the ones recorded with
them: that a choice resolves is a property of the two compilers, proved by cases
over at most two bindings. `MaterialInv` is the largest. A tree that is kept is
found at the instance's place or in the rollback at every point of two protocols
that undo each other: the session that advances through its phases, and the
recovery of what an earlier session left. `RecoveryKeeps` says where it is
while a session recovers, `SessionKeeps` where it is afterwards, depending on
whether the original was backed up; both are relative to no torn removal and no
session that skips its recovery (`torn`, `blind`), the two cases that
`InstanceIsKept` itself excepts.

*Effects.* What is done for a Seat. `AttachmentInv` adds to the exclusivity of the
attachments that the registration accepted last is attached or was disarmed
last (`LastIsKept`): a registration is compared with those two only, so this is
what "a late one takes nothing back" rests on. `StartInv` says at every step of
a start who holds the process and whether the Job does. `GroupInv` is the
largest, for a tree of any size: the world of processes (`WorldFits`: a parent
is born before its child, an id is given again only after its process has ended,
and what the worker has opened is the process the notice was about), the records
(`GroupFits`: each is a process of the Job with its real end and, where one is
recorded, its real parent, and one not yet ended shares its id with no
later process; there were fewer handoffs than the number of the process in
authority), and what a settled state claims
(`TreeSettled`). The operators of the code are then one relation, `Follows`: none of
them changes the containment, authority moves only from an ended process to a
later one and is counted as a handoff, and trust that was lost stays lost. That
`refreshAuthorityLocked` may be modelled by as many rounds as there were births
is proved too: every round but the last hands authority to a later process.
`ActivationInv` says for each Seat what its phase leaves active and which files
are changed, relative to the command under way, which may be half way through
the plan or its reverse. `CheckInv` tells what each step of a check has found
out, so that a check that ends has nothing running. `ShareInv` binds the
submission and the export to the result, the preview number and the consent they
were made from, while results are added, trimmed, deleted and read again; what
leaves (`Leaves`) is then what was agreed to.

*Approvals.* `StoreInv` follows several savers over one staging name. As long as no
two of them have overlapped, the staged file is the decision of the one saver
there is (`NoOverlap`); when they have, only what a load accepts is claimed, for
a mixture does not decode. `CommunityInv` is about the installations that were
made and not rolled back: package in use and history are the last of them, each
trusted when it was installed, with revisions that increase within one package
(`HistoryIs`); a rollback is exact because of it. `RequirementInv` is types and the
binding of a record to its evidence; that an accepted plan was current is a
property of the step. `ComponentsInv` is the conjunction of `SetupInv`,
`EffectsInv` and the types, each part for the component that runs, and gives
the properties of the run.

*Platform.* One inductive invariant per component. For the Raw Input state it
is about tokens: what is queued is what resolves, once each, and a token of a
generation its slot has not reached stands for no input yet (`TokensHold`);
without the second `TokensAreNotReused` would not survive an allocation.
`XInputInv` says what the game may have read of a slot: a state of an earlier
generation, or an earlier or the present one of this (`ReadHolds`).
`PlanInv` holds the partition of
capabilities over backends that the planner builds backend by backend.
`EvidenceInv` follows each sample from its thread to the ring: recorded once,
dropped and counted, or still on the way.
`TrackerInv` holds for each binding where it came from: a bound window is
recorded for that Seat, in a process that lives, under the identity it was bound
with and the role it was last seen in, and a distinct input target has no rival
within the limit it was bound with (`TargetsOwned`); what is recorded has one of
the roles (`WindowsHold`). A refresh must establish this from records and trees
that have changed at will, roles included, since the refresh before; one lemma
(`RefreshHolds`) shows it of *any* records and trees.
`PlacementInv` adds the lease: between the halves of a replacement nothing is
changed, what the lease last looked at is older than what comes next, and what
was changed can be put back (`RestoreHolds`). `LayoutInv` makes an overlap a
conflict, which is what the layout was refused for, and says that a recovery in
effect is one of the accepted topology. `PolicyInv` describes the cache of what
was applied (`CacheHolds`), since `HealthySeatIsPlaced` is true only because
the coordinator applies again whenever the cache may be wrong.
`AcceptedForward` and `RoutesFollowOwners` are properties of steps and follow
from these invariants and one case per action.

Only model-checked, and why:

* the liveness properties (`DeadClientLosesItsLeases`, `StopCompletes`,
  `EndedGameFreesSeat`, `ResetReopens`, `ShutdownCompletes`, `ServicesEnd`): they
  need fairness and `ENABLED`, which the provers do not treat;
* `LateCallsChangeNothing` of `platform`, but for the two action properties
  above: that what is decoded is what was encoded (`WireIsExact`) and that an
  answer belongs to its request in a damaged stream (`AnswersBelong`) are
  inductions over the frames;
* what a recursive definition computes for every input: the provers cannot
  instantiate the induction theorems. There is none in these modules.

## 5. Not modelled

`PROJECT.json` lists every component with the reason. In short:

* diagnostic programs, probes and harnesses, build and evidence scripts, UI and
  command line tools: not part of what runs between host and game; the UI is a
  client of the host, which `HostControl` lets send anything at any time;
* JSON and manifest codecs, Steam metadata, catalogue merge, statistics over
  results, support bundles: pure functions of their input;
* enumeration of devices, drivers, Windows and the game: environment, modelled by
  what the code may be told;
* a vibration whose generations the game read before a `reset()` of the virtual
  controllers (`virtual_xinput_state.cpp:523`): `XInputReset` also forgets what the
  game has read, since nothing in the repository resets in mid-session;
* the injection of the bridge, the elevated installer script and the start of the
  watchdog process: external to the C++ code that is modelled.

## 6. Plan

1. **Done**: everything in section 2.
2. Modules: the loop of the virtual controller's pipe service
   (`virtual_xinput_pipe.cpp`); the physical evidence a HidHide session needs
   (`hidhide_session_backend.cpp`); the custom executable provider; the C
   interface of the adapter (`gate_c_adapter.cpp`); aggregation of results.
3. **Done**: proofs about the authority, the window runtime, the launcher, the
   host, the recovery protocol with its refinement, the services, the platform and
   every component of `MCComponents`: each invariant and each action property
   of the passing runs, except what section 4 names.
4. Proofs that remain: the frames (`WireIsExact`, `AnswersBelong`) once an induction
   over sequences can be cited.

## 7. Running

    tlc -workers 2 -config MCReset.cfg EmergencyReset.tla
    tlapm Platform_proofs.tla
