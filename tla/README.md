# A TLA+ model of VBoxShell

This directory is a verification project for
`src/src/VBox/Frontends/VBoxShell/vboxshell.py`. That file is the Python 2
interactive shell that ships with VirtualBox OSE. The shell reads a line,
resolves it to a command, and drives the VirtualBox service through its API
objects: the machine registry, sessions, progress objects, event callbacks and
the performance collector.

The project has two kinds of module:

- TLA+ modules of the shell's control flow and of its view of the service,
  with TLC runs on small instances;
- TLAPS proofs that the checked safety properties hold for every set of
  machines, every registry and every pump bound, and that the shell refines
  an abstract specification of the resources it holds.

## 1. Inventory

### Components

| Component | Code | State it touches | Module |
|---|---|---|---|
| Interactive Loop | `interpret` 682–717, `main` 722–738 | the shell's place, `g_verbose`, host metric set-up | `VBoxShell` |
| Command Dispatcher | `runCommand` 668–679, `aliases`/`commands` 639–666 | none of its own; it chooses the handler | `VBoxShell` |
| Session Manager | `startVm` 297–324, `cmdExistingVm` 379–414, the op commands 519–555 | the sessions the shell holds; the machine and session state | `VBoxShell`, `VBoxShellProofs`, `ShellSessions` |
| Machine lifecycle | `createVm`/`createCmd` 274–281, 494–510; `removeVm`/`removeCmd` 283–295, 512–517; `setvarCmd` 557–577 | the registry; settings files; detached disks; direct sessions | `VBoxShell`, `VBoxShellProofs` |
| Event Monitor | `monitorGuest`/`monitorVbox` 344–377 and their commands 606–627 | callback registrations; the pump deadline | `VBoxShell`, `VBoxShellProofs`, `ShellSessions` |
| Read-only commands | help, aliases, list, info, host, eval, verbose, quit | `g_verbose` only | `VBoxShell` |
| Metric Facade | `PerfCollector` 32–97 | the collector's configured/enabled metrics and samples | `PerfCollector`, `PerfCollectorProofs` |
| Machine Resolver | `machById`/`argsToMach` 417–439, `getMachines` 326–327 | none (a lookup) | `MachineResolver`, `MachineLookup`, `MachineResolverProofs`; abstracted in `VBoxShell` |
| Tab completion | `CompleterNG`, `autoCompletion` 199–267 | none | not modelled |
| Callback listeners | `GuestMonitor`, `VBoxMonitor` 101–196 | none: they only print | not modelled |

### How the parts interact

The shell runs in one thread, so there is no concurrency inside the program.
It interacts with three things:

- **The user.** The user chooses each line and may press Ctrl-C at any moment.
  In Python 2.5+ a `KeyboardInterrupt` is not an `Exception`: an
  `except Exception` lets it through, while a bare `except:` catches it.
- **The service.** Every service call that acquires, changes or reads
  something may return, raise, or be interrupted. The three calls that
  release are the exception: `session.close()` (lines 320, 414),
  `closeMachineSession` (292) and `unregisterCallback` (357, 376) are
  assumed to succeed (see *Assumptions* below). A launch is asynchronous:
  `waitForCompletion(-1)` waits for it with no timeout.
- **Other clients of the same service.** Between the moment the shell resolves
  a machine and the moment it opens a session on it, another frontend, or the
  guest itself, may start or stop that machine.

An `Exception` that escapes a handler is printed by `interpret`, and the loop
goes on. A `KeyboardInterrupt` leaves the loop and runs the teardown.

### Hard behaviours and the properties that matter

- **Sessions are released.** A creation session (`openRemoteSession`) and an
  attach session (`openExistingSession`) must be closed on every path. The
  paths include failing calls, a machine in the wrong state, and interrupts.
- **Callbacks are unregistered.** A registered callback must be unregistered
  whether the event pump reaches its deadline, raises, or is interrupted. The
  code uses a bare `except:` for exactly this reason.
- **The direct session of `removeVm` is released**, and so is the collector's
  set-up at teardown.
- **Queries are decoded correctly.** `query()` rebuilds per-metric records
  from flat parallel arrays using index and length arithmetic. It must neither
  drop nor mix up samples.

## 2. Modules

### `VBoxShell.tla`: the shell and its view of the service

**State.**

- `pc` is where the thread stands.
- `tgt`, `op`, `mon` and `slices` are the running command's locals.
- `verbose` is `g_verbose`.
- `hostPerf` says whether host metric collection is enabled.
- On the service side: `registered`, `mstate`, `sessionState`, `sessions` and
  `callbacks`.
- On the host: `settings`, the machines whose settings file exists, and
  `detached`, the machines whose disks `removeVm` has begun to detach.
  - `sessions` holds the sessions the shell has open, as `<<machine, kind>>`.
  - The kind is `"remote"` (startVm), `"shared"` (cmdExistingVm) or `"direct"`
    (removeVm).

**Actions.** There is one action per handler, or per service call inside a
handler, and each has every outcome that call can produce, except the
release calls `StartClose`, `Close`, `RmClose` and `MonUnreg`, which always
succeed:

- `Boot` / `BootFails`; `ReadEnd` (EOF, or Ctrl-C at the prompt); `Teardown`;
- one action per read-only command;
- `CreateCmd`, with `CreateVm` for `createVm`'s three calls. A failure
  after `saveSettings` leaves the file behind. `createMachine` refuses a name
  whose file exists; that is the service's documented behaviour;
- `StartCmd`, `StartWait`, `StartPerf`, `StartClose`;
- `ExistingCmd`, `RunOp`, `Close`, and `StartMonitorGuest` for the
  `monitorGuest` operation;
- `MonitorVboxCmd`, `MonReg`, `MonWait`, `MonUnreg`;
- `RemoveCmd`, `RmDetach` (which may fail after some disks are detached),
  `RmClose`, `RmUnreg` (`unregisterMachine`, refused while the machine has a
  session, then `deleteSettings`).

`OtherStart` and `OtherPowerOff` model the other clients.

**Abstractions.**

- The resolver is abstracted: a token names either a registered machine or
  nothing.
- Output text is left out.
- The pump's wall-clock deadline becomes at most `MaxSlices` slices of
  `waitForEvents(500)`. Both `dur = -1` (mapped to 100000 s) and small
  durations run out in finitely many slices, and a monitor can be interrupted
  or fail in any slice.

### `MachineResolver.tla`: the lookup of a machine by name or id

**State.** `registry` is the list `getMachines` returns; `braced` says
whether `str(m.id)` carries braces on this binding; `token` is `args[1]`;
`i` and `mach` are the loop's position and result; `pc` is `idle`, `loop`,
`done` or `raised`.

**Actions.** `NoArgument` (fewer than two words), `Lookup` (the call of
`machById`), `Visit` (one iteration of the `for` loop), `LoopEnd` (the loop
runs out) and `NextCommand`.

**Abstractions.** A string is a sequence of one-character strings, so
`str(m.id)`, `mid[0]` and `mid[1:-1]` are modelled by what they do
(`IdString`, `Strip`). A machine is a name, a uuid and an accessible flag:
reading the name of an inaccessible machine raises. Registries have unique
names and ids, as the service keeps them.

**Contract.** `MachineLookup.tla` states what the lookup promises as one
step: `Resolve(tok)` raises at the first inaccessible machine the scan
reaches, returns the first machine that answers to `tok` by name or by
brace-stripped id, or returns `None`. `MachineResolver` instantiates it as
`Contract`. Each machine maps to `Entries`, its name, printed id
(`IdString`) and accessibility. While `pc = "loop"` the mapping shows the
abstract state as still `idle`, so each `Visit` is a stutter and
`LoopEnd`, or the `Visit` that breaks or raises, is the abstract
`Resolve`. `ImplementsMachineLookup == Contract!Spec`.

### `ShellSessions.tla`: what the shell promises about what it holds

This is the abstract specification. It has a phase (`boot`, `idle`, `busy`,
`ended`), the set of sessions held and the set of event sources the callback
is registered with. A step takes or releases at most one session or
registration. A creation or attach session is taken only with nothing else
but direct sessions held. At most one callback registration exists at a
time. The phase becomes `idle` only when no creation or attach session is
held and no callback is registered, and `ended` only with no callback
registered. Direct sessions are not constrained, because `removeVm` does
leak them (run vbox_remove_leak).

`VBoxShell` instantiates it as `Abstract`:

- `Phase` maps `pc` to the phase;
- `held` is `sessions`;
- `regs` is `callbacks`.

`ImplementsShellSessions == Abstract!Spec` is checked by TLC on the
vbox_core instance and proved by `Refinement`.

### `PerfCollector.tla`: the metric facade

**State.** The collector's configured metrics, its enabled metrics,
`nsamples`, the retained samples and their scales, and `out`, the list the
last `query()` returned.

**Actions.** `Setup`, `Enable`, `Disable` and `Query` translate the wrapper.
`Collect` is the service sampling a metric. It is modelled from the
collector's documented behaviour, since that behaviour is not in this
repository.

**Operators.**

- `queryMetricsData`'s answer comes from the service, which is not in this
  repository. It is stated by its layout equations:
  - `Lengths` gives each metric's number of retained samples;
  - `Layout` says metric i starts at 0-based offset `idx[i]`, right after
    metric i - 1;
  - `Concatenates` says the flat `values` array holds that metric's samples
    there;
  - `Orderings` are the orders in which the collector may list the metrics.

  The equations determine the arrays uniquely. `Query` quantifies over the
  offsets and the flat array (`Offsets` is `Nat`, and TLC is given
  `0..4`), and keeps the one answer that satisfies them.
- `QueryResult` is `query()`'s decoding of that answer, with
  `xrange(indices[i], indices[i] + lengths[i])` over the flat array.
- `Render` formats a sample with Python 2 integer division.

### `VBoxShellProofs.tla`

This module holds the inductive invariant and the TLAPS proofs about the
shell. `MachineResolverProofs.tla` holds the resolver's and
`PerfCollectorProofs.tla` the collector's.

### MC modules

`MC_VBoxShell`, `MC_MachineResolver` and `MC_PerfCollector` give the
constants as model values and small sets.

## 3. Runs

| Run | cfg | Expect | Checks |
|---|---|---|---|
| vbox_core | `MC_VBoxShell.cfg` | pass | `TypeOK`, `SessionReleasedAtPrompt`, `CallbackReleased`, `RegisteredPersisted`, `MonitorEnds`, `DetachUnderLock`, `ImplementsShellSessions` |
| vbox_remove_leak | `MC_VBoxShell_RemoveLeak.cfg` | violation | `NoSessionLeakAtPrompt` |
| vbox_interrupt_leak | `MC_VBoxShell_InterruptLeak.cfg` | violation | `SessionReleasedAtExit` |
| vbox_teardown_metrics | `MC_VBoxShell_Teardown.cfg` | violation | `TeardownDisablesMetrics` |
| vbox_orphan_settings | `MC_VBoxShell_Orphan.cfg` | violation | `NoOrphanSettings` |
| vbox_half_remove | `MC_VBoxShell_HalfRemove.cfg` | violation | `RemoveAllOrNothing` |
| resolver_first_match | `MC_MachineResolver.cfg` | pass | `ResolvesFirstMatch`, `ListedIdResolvesUnbraced`, `ImplementsMachineLookup` |
| resolver_raises | `MC_MachineResolver_Raises.cfg` | violation | `NeverRaises` |
| resolver_listed_id | `MC_MachineResolver_ListedId.cfg` | violation | `ListedIdResolves` |
| perf_query | `MC_PerfCollector.cfg` | pass | `TypeOK`, `QueryReturnsRetainedSamples` |
| perf_display | `MC_PerfCollector_Display.cfg` | violation | `DisplayShowsScaledValue` |

### Bounds

The shell runs use two machines and `MaxSlices = 2`. That gives 25,328
distinct states. Two machines are enough for the cases that matter:

- one machine can be busy in the shell while the other is started or stopped
  by another client;
- the registry can hold none, one or both machines, and each can have an
  orphan settings file or detached disks;
- two slices let the pump be interrupted or fail both before and after a
  slice has run.

The resolver runs use registries of up to two machines, over uuids `a` and
`b` and names `a`, `c` and `{b}`, with both bindings. This covers a name
that is also another machine's id, a name that looks like a braced id, an
inaccessible machine before the one asked for, and every token form: bare
id, braced id, name, and unknown.

The collector runs use two metrics, samples {5, 250}, scales {1, 100} and
`nsamples` up to 2. Two metrics are the least for which the index arithmetic
between neighbouring metrics can go wrong. Two retained samples make the
oldest sample get dropped. The flat array then holds at most four samples,
so the offsets `0..4` that TLC is given include every offset the collector
can report.

An earlier version of the module built the flat array with `SequencesExt`'s
`FlattenSeq`. TLC reaches the same 182,084 distinct states with either
form.

### What the runs show

- **vbox_core passes.** Whatever the service raises and whatever the other
  clients do, the shell never returns to the prompt holding a creation or
  attach session. It never leaves a callback registered at the prompt or after
  exit, and every registration is eventually withdrawn. Every registered
  machine keeps its settings file. `removeVm` detaches disks only
  while it holds the direct session it opened on that machine
  (`DetachUnderLock`, an action property). Every step is a step of
  `ShellSessions`.
- **vbox_orphan_settings is violated: a code bug** (line 281). `createVm`
  saves the settings before `registerMachine`, and nothing undoes the save
  when registration fails. A settings file is left that no registered
  machine owns, and `createMachine` then refuses the name. A failing
  `deleteSettings` in `removeVm` (line 295) leaves the same orphan.
- **vbox_half_remove is violated: it diverges from spec §6–7** (line 293).
  `removeVm` closes its session before `unregisterMachine`. Another client
  can open a session in between; then the unregister fails and the machine
  stays registered with its disks detached. A failing `detachHardDisk`
  (line 291) ends the same way, and that shorter trace is the one TLC
  reports.
- **resolver_first_match passes.** `machById` returns the first machine that
  answers by name or brace-stripped id, and `None` only when none does.
  On the binding without braces, a listed id always resolves
  (`ListedIdResolvesUnbraced`), which confines the gap below to the braced
  binding. The loop implements `MachineLookup`.
- **resolver_raises is violated: it diverges from spec §4.2** (line 421).
  `m.name` is read from every machine before the one asked for; for an
  inaccessible machine that read raises, so resolution raises.
- **resolver_listed_id is violated: a spec gap** (line 424). Only the
  registry's id is stripped of braces. On the binding that prints braces,
  the id that `list` shows does not resolve when typed back.
- **vbox_remove_leak is violated: a code bug** (line 291). When
  `detachHardDisk` raises, `removeVm` never reaches `closeMachineSession`, and
  the shell carries on with the machine locked.
- **vbox_interrupt_leak is violated: it diverges from spec §4.3** (line 409).
  A Ctrl-C during pause, resume, powerdown, stats or guest escapes
  `except Exception` and skips `session.close()`.
- **vbox_teardown_metrics is violated: a code bug** (line 714). The teardown
  reads the undefined name `ct`. The bare `except:` swallows the `NameError`,
  so host metrics are never disabled.
- **perf_query passes.** `query(['*'])` returns every configured metric once,
  with exactly its retained samples.
- **perf_display is violated: it diverges from spec §8** (line 95). `'%.2f%s'
  % (int(v)/scale, unit)` floors: 250 at scale 100 prints as `2.00%`, not
  `2.50 %`.

### Mutants

Every property of a passing run has a mutant, a plausible bug in the mapped
code that TLC then catches:

- the pump running past its deadline;
- `session.close()` moved inside the `try`;
- unregistering from the wrong source;
- `except Exception` instead of a bare `except:` in the pump;
- `setup` replacing the configured set;
- an off-by-one in the `xrange` that slices samples;
- `registerMachine` called before `saveSettings`;
- `startVm` forgetting to drop the closed session (breaks the refinement);
- `machById` comparing the braced id unstripped;
- `removeVm` going on to detach disks after a failed open (breaks
  `DetachUnderLock`);
- `machById` without its `break`, so the last match wins (breaks
  `ImplementsMachineLookup`);
- `mid[1:-1]` taken without testing `mid[0]` (breaks
  `ListedIdResolvesUnbraced`).

## 4. Fairness

`Spec` has `WF_vars(ShellStep)` and nothing else:

- **Shell steps.** The shell thread is the only thread, and every service call
  it waits on returns or raises. For `waitForCompletion(-1)` this is an
  assumption: the service finishes every launch.
- **User steps** (the command typed at the prompt) have no fairness. A user
  may never type again.
- **Other clients** have no fairness either.

`MonitorEnds` depends only on the shell's own steps.
Its termination rests on the abstraction of the pump's wall-clock deadline
(100000 s for `dur = -1`) to at most `MaxSlices` slices: that a deadline
in the past ends the loop is built into `MonWait`, not checked. What
`MonitorEnds` does check is that every exit from the pump (the deadline,
an `Exception`, an interrupt) reaches `unregisterCallback`.

### Assumptions about the service

- **Release calls succeed.** `session.close()` (`StartClose`, `Close`),
  `closeMachineSession` (`RmClose`) and `unregisterCallback` (`MonUnreg`)
  have no failure or interrupt outcome in the model. If one of them could
  raise, no handler in `vboxshell.py` could keep `SessionReleasedAtPrompt`,
  `CallbackReleased` or `MonitorEnds`: nothing can be done about a release
  that fails. So these properties say that the shell calls the release on
  every path, not that the release works.
- **Every launch ends.** `waitForCompletion(-1)` returns or raises (see
  Fairness).
- **Names and uuids are unique** in the registry (`MachineResolver`).

## 5. Proofs

`VBoxShellProofs.tla` proves the following for every `Machines`, `NoMachine`
and `MaxSlices` allowed by `ConstantsAssumption` (`NoMachine` is not a
machine, and `MaxSlices` is a natural number):

- `TypeCorrect`: `Spec => []TypeOK`
- `SessionsReleased`: `Spec => []SessionReleasedAtPrompt`
- `CallbacksReleased`: `Spec => []CallbackReleased`
- `SettingsKept`: `Spec => []RegisteredPersisted`
- `Refinement`: `Spec => ImplementsShellSessions`
- `DetachLocked`: `Spec => DetachUnderLock`, an action property

`MachineResolverProofs.tla` proves `FirstMatchResolved`
(`Spec => []ResolvesFirstMatch`), `UnbracedIdsResolve`
(`Spec => []ListedIdResolvesUnbraced`) and `LookupRefinement`
(`Spec => ImplementsMachineLookup`). They hold for every registry, binding and
token allowed by `ResolverAssumption`: uuids are non-empty strings that do
not start with a brace, and names and tokens are strings.

`PerfCollectorProofs.tla` proves `TypeCorrect` (`Spec => []TypeOK`),
`RetainedSamplesReturned` (`Spec => QueryReturnsRetainedSamples`, an action
property). They hold for every set of metrics, samples, scales and bound
allowed by `PerfAssumption`:

- samples are natural numbers;
- scales are positive;
- `MaxSamples` is positive;
- the collector offers finitely many metrics.

### The inductive invariant

None of the three properties is inductive on its own. A session is opened by
one step and closed several steps later, so a state at `"op"` holding a
session must be known to reach the prompt only through `Close`. The
strengthening `IInv` adds:

- `FrameOK`: while a command works on a machine, `tgt` is a machine, and a
  monitor knows its kind.
- `SessionsPlaced`: every non-direct session is on `tgt`, and it is held only
  at the places between its open and its close. An escaping interrupt may
  still hold it through `teardown` and `exited`.
- `VboxMonitorHoldsNone`: `monitorVbox` runs from the prompt and holds no
  such session.
- `CallbacksPlaced`: `callbacks` is `{Source}` exactly at `mon_wait` and
  `mon_unreg`, and `{}` elsewhere.
- `RegisteredPersisted` itself, which is inductive;
- `DirectPlaced`: at `rm_detach` the direct session on `tgt` is held.

`InitIInv` and `NextIInv` prove that `IInv` holds initially and is preserved.
`NextIInv` has one case per action, and the environment's steps among them.
`IInvariant` combines the two with PTL, and each theorem follows from
`IInv => P`. `IInv` was also checked with TLC as an invariant on the vbox_core
instance before the proof was written.

### The refinement

`Refinement` follows the usual pattern. `Init` maps to `Abstract!Init`. By
`StepRefines`, every step between two `IInv` states maps to an abstract step
or a stutter. PTL combines the two with `IInvariant`. `StepRefines` has one
case per group of actions:

- a session opened is an `Acquire`;
- a close is a `Release`, or a `Step` when it closes a session already gone;
- a registration is a `Register`, and an unregistration an `Unregister`;
- an escaping `Exception` is a `Step` to `idle`;
- an escaping `KeyboardInterrupt` is an `End`;
- every other step is a `Step` or a stutter.

`IInv` is what makes this go through. An `Exception` escaping a command
lands at the prompt, and `SessionsPlaced` and `CallbacksPlaced` say that
the places it escapes from hold no creation session and no registration.

`DetachLocked` uses `DirectPlaced`: the only step that adds to `detached`
is `RmDetach`, at `rm_detach`, where `IInv` says the direct session is held.

### The resolver's loop invariant

`LoopOK` says that while the loop runs, `mach` is `None`, and no machine
before position `i` answers. The one fact about strings needed is
`StripUnbraced`: on every id the service prints, the code's stripping
(`mid[0]`, `mid[1:-1]`) agrees with the spec's (strip enclosing braces). It
is proved from two small lemmas about putting a character before or after a
string.

`UnbracedIdsResolve` follows from the same invariant. Without braces, the
printed id is the uuid. No uuid starts with a brace, so `Unbraced` leaves
it as it is and its machine answers. `ResolvesFirstMatch` then rules out
`None`.

`LookupRefinement` needs two more conjuncts in `IInv`. `LoopOK` also says
the token is one of `Tokens`. `IdleOK` says that at `idle` no token is held
and `mach` is `None`, as `MachineLookup` has it. Lemmas show that `Entries`
is a sequence of `MachineLookup` entries of the same length (`EntriesTyped`,
`EntriesShape`). `EntryFacts` shows that answering in one module's sense is
answering in the other's, and `ReachesFacts` does the same for reaching.
`StepRefines` has one case per action.

### The collector's query

`IInv` adds one conjunct to `TypeOK`: `data` is a function on the metrics.
Without it, the `EXCEPT` in `Collect` might update nothing. Two lemmas
carry the argument about `QueryResult`:

- `DecodeSamples`: the record built for the i-th listed metric holds
  exactly `data` of that metric. `query()` reads `xrange(indices[i],
  indices[i] + lengths[i])`, and `Concatenates` puts that metric's samples
  exactly there.
- `QueryResultTyped`: every record is well typed. It uses `RenderTyped` for
  both format branches.

`RetainedSamplesReturned` also needs a counting argument, `OrderingFacts`.
An injective list of `Cardinality(S)` elements of a finite set `S` lists
all of `S`. It is proved from `FiniteSetTheorems` (`FS_Injection`,
`FS_Interval`). From it, `query(['*'])` returns as many records as there
are configured metrics, with one record per metric.

No induction is needed. The layout equations describe the answer
directly, and the decoding reads it back slot by slot.

### What stays with TLC

- **Liveness.** `MonitorEnds` needs fairness and ENABLED, which are beyond
  TLAPS.
- **That the collector's answer exists.** The proofs take the answer
  `Layout` and `Concatenates` describe as given. That such arrays exist for
  every list of metrics is the statement that concatenation is defined, and
  proving it needs induction over the list, which these provers cannot do.
  TLC shows that `Query` is enabled on its instance.
- **Negative properties.** The violation runs stay with TLC, since TLC's
  traces are their evidence.

## 6. Not modelled, and planned

**Not modelled:**

- tab completion;
- the service's own settings store, beyond a file existing or not;
- the listener classes;
- output text;
- `eval`'s arbitrary Python (only its exception handling is modelled);
- the web-service binding flag, which only gates a print and the dead `stats2`
  branch.

**Hazards without a property:**

- `waitForCompletion(-1)` in `startVm` (line 304) has no timeout. The model
  assumes, as fairness, that the service ends every launch.
- `setvarCmd` always fails with `NameError` (line 564). It is modelled, but
  no property states the spec's "assign and persist" contract, because the
  machine's settings values are not state of the model.

**Planned:**

- **Composing `PerfCollector` into the shell.** `StartPerf` would then call
  `Setup` on the machine's metrics, and `Teardown` its disable.
- **Composing `MachineResolver` into the shell's commands**, in place of the
  abstract "a registered machine or none".
