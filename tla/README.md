# Verification of SolarOS

TLA+ specifications of the concurrent core of SolarOS, the firmware under
`src/`, with the TLC instances that check them and the theorems TLAPS proves.
Source paths below are relative to `src/src/`, documents to `src/doc/`.

SolarOS runs apps, background jobs and services on FreeRTOS tasks. The services
are registries: tables of slots behind a mutex or a critical section, used by
the main task, by port shells, by script workers and by the jobs' own workers.
Drivers, jobs and apps are called back with no lock held
(`service-concurrency.md`), so nearly every operation of a registry is a
sequence of short locked sections with foreign code in between. That is where
the code is hard to test, and what these modules are about.

| Module | What it is | Checked by |
| --- | --- | --- |
| `Jobs` | job registry, launch queue, tick pass | `MCJobs`: 2 passing runs, 2 violations |
| `JobsProofs` | inductive invariant of `Jobs`, 5 theorems | TLAPS |
| `JobRecordsProofs` | its modules and records, 4 theorems | TLAPS |
| `PortClaims` | what the port registry promises | as a property of `Ports` |
| `Ports` | port registry and stream endpoints | `MCPorts`: 1 passing run, 2 violations |
| `PortsProofs` | inductive invariant of `Ports`, 8 theorems | TLAPS |
| `OwnerMap` | what the resource registry promises | as a property of `Resources` and `Pins` |
| `Resources` | the table of resource claims | inside `Pins` |
| `ResourcesProofs` | the table implements `OwnerMap` | TLAPS |
| `Pins` | GPIO, PWM, ADC and the flash tool over `Resources` | `MCPins`: 1 passing run, 1 violation |
| `PinsProofs` | inductive invariant of `Pins`, 6 theorems | TLAPS |
| `Buses` | bus registry, leases, transactions, I2C service, over `OwnerMap` | inside `Expansion` |
| `Expansion` | expansion devices over `Buses` | `MCExpansion`: 1 passing run |
| `ExpansionProofs` | inductive invariant of `Buses` and `Expansion`, 9 theorems | TLAPS |
| `LinkStream` | two ends of a virtual serial port over a lossy link | `MCLinkStream`: 1 passing run, 1 violation |
| `LinkStreamProofs` | types and sessions of `LinkStream`, 2 theorems | TLAPS |
| `LinkDeliveryProofs` | inductive invariant of what it delivers, 3 theorems | TLAPS |

`PROJECT.json` lists the runs, the source lines of every definition, the fault
variants that show each property can fail, the hazards and the theorems.

## Inventory

Components with state that several tasks touch; the others, which are
drivers, protocol I/O, rendering or parsing, are listed in `PROJECT.json` with
the reason why they are not modelled.

**Job registry** (`solar_os_jobs.c`). Keeps per job its state, an incarnation
number, a reference to a callback in flight, the reserved flag
`lifecycle_busy`, a waiting start request and the resources it lists.
Operations: start, stop, completion by a worker (`mark_stopped`), the tick
pass, queries. Calls the job's callbacks and the task service. Hard: all of it
is interleaved; a job may stop itself from its own callback; a worker reports
late; a launch waits for memory and is retried while it is cancelled. Correct
when a transition has one owner, callbacks of one job never overlap, a start
request is freed exactly once and nothing stays reserved for ever.

**Task admission** (`solar_os_task.c`). A launch mutex, heap thresholds per
role, counters. Start of a worker is check and creation under the mutex. Hard:
memory disappears between the advisory check of the job registry and the
launch; counters are updated outside the sections they count. Correct when no
admitted launch undercuts the reserve and the counters agree with the queue.

**Cooperative scheduler and main loop** (`solar_os_scheduler.c`, `main.c`).
Millisecond counters that wrap, next-wake computation. Correct when a callback
is neither starved nor called early, across the wrap.

**Application host** (`solar_os.c`). The foreground app, its cold state, the
requests to launch, suspend or exit. Hard: a worker that outlives its app keeps
the state. Correct when a state block is never freed under a worker, never
reused by the next start, never lost.

**Port registry** (`services/solar_os_port.c`) and **stream registry**
(`services/solar_os_stream.c`). Eight named ports with one claim each, 40
endpoints with generations and open counts; every port publishes an endpoint
whose open claims the port. Hard: three registries' sections per call, driver
callbacks in between, failing callbacks. Correct when a claim is exclusive and
lasts until its holder ends it, no device runs without a claim, and an endpoint
always leads to its own port.

**UART service** (`services/solar_os_uart.c`). Instances with generations,
references, a retiring flag and a permanent mutex each; register, attach,
detach, unregister, start, stop. It registers ports and is called back by them.
Correct when no reference outlives its instance and a refused detach changes
nothing.

**Resource registry** (`services/solar_os_resources.c`). 64 claims of pins,
hosts and addresses by owner name; bundles are all or nothing. Correct when no
key has two owners and a refused bundle leaves no trace.

**Bus registry** (`services/solar_os_buses.c`). Eight buses, 16 leases with
reference counts, pinned transactions; claims resources and ports. Hard: leases
and pins against detach, owners that end while a transaction runs, stop
operations that fail half-way. Correct when a detached bus has no lease, no pin
and no resources, and an attached one has all of them.

**Expansion devices** (`services/solar_os_expansion.c`). Attach reserves a
name, claims resources and leases, starts the driver; every step can fail and
is undone. Correct when a failed attach leaves no claim and a name is reserved
once.

**Displays** (`services/solar_os_display.c`). Targets with claim references,
snapshot references and generations. Correct when a target in use cannot be
unregistered and every claim has its release.

**Port shells** (`services/solar_os_port_shell.c`). Session slots with
generations; start claims a port and creates a task while stop may come in.
Correct when each exit path releases exactly what it still owns.

**Link streams** (`services/solar_os_link_stream.c`). Per stream a session number
for each direction, a window of one frame, the next sequence numbers, a pending
acknowledgement, byte queues. The task of the link job sends and receives, programs
open, close, read and write. Hard: frames are lost and repeated, either end
reopens, times out or restarts at any time, and a frame is numbered again in the
next session. Correct when bytes are delivered once and in order within a
session, nothing is dropped as acknowledged that was not accepted, no byte of an
earlier session is read, and both ends agree on their sessions again.

**Messaging, schedules, RAM files, update.** Delivery state and retry of
messages, missed alarms, block allocation. Candidates after the registries.

### Interaction

The tick pass and the shells call the job registry; a job's start callback
claims ports and resources and creates tasks; a port calls its driver (UART,
telnet, link stream); a UART bus lease claims a port; a stream opened by a data
job claims the port behind it. No registry lock is held across these calls, and
the mutex of the bus registry is the one that is held while it calls the
UART and port services below it.

## Plan

1. `Jobs` and its proofs; `Ports` with `PortClaims`. Done.
2. `OwnerMap` and `Resources` with the proof that one implements the other;
   `Pins` on the table, `Buses` and `Expansion` on the map. Done.
3. `Uart` under `Ports`: instance table, generations, retiring, the slot mutex,
   then composed with `Buses` in place of its three-valued port.
   `LinkStream` is done; its unserialised removal needs `Ports` and is left.
4. `AppHost`, `Displays` or `PortShells`, in that order, as far as their
   hazards are not those of a module already there; `Scheduler` (wrapping
   arithmetic against unbounded time) and `TaskAdmission`.
5. Proofs: every safety property a passing run checks and both refinements are
   proved. What comes with the modules of 3 and 4 is left.

## Jobs

One action per `portENTER_CRITICAL(&jobs_lock)` section of `solar_os_jobs.c`;
what happens between two sections (waiting for callback references, running a
callback, freeing a record) is an action of its own. Two kinds of task call:
`Main`, which also runs `solar_os_jobs_tick`, and `Client`s. A call keeps its
local variables in `frame` and its position in `pc`; the tick pass has `tick`
and `tpc`. Inside a tick callback the main task may call the registry again, so
its call nests in its pass: the steps of the pass need `pc[Main] = "idle"`.

State: `state`, `gen`, `refs`, `cbTask`, `stopAfter`, `busy`, `pending`,
`noted` are the fields of `solar_os_job_runtime_t`; `live` is the set of
allocated start records, `waiting` is `task_waiting`; `active`, `workers` and
`reporting` are the job modules as the registry sees them: the incarnation
they run, workers still running, workers about to report.

Left out or abstracted: incarnation numbers are natural numbers (32 bits that
skip zero in the code; a wrap needs 2^32 starts during one call); error codes,
arguments and tick statistics; whether a tick is due and whether memory
suffices are choices. A start callback succeeds only when no earlier worker of
the job still runs, as the job modules check themselves
(`jobs/solar_os_bridge_job.c:345`). Every worker reports when it ends, with the
incarnation it was started under; some jobs report less often. The callbacks
and their listing of resources are one step; queries are left out.

Runs:

- `jobs_safety`: two jobs with workers, one of them with a tick callback, the
  main task and one client, two records, at most three calls. Two records let
  one be pending while another is being replaced; three calls allow a stop or
  start against the retry of a replaced request, and a job's own stop in its
  callback against a client's start. 1.9 million states. Records and clients
  are interchangeable, hence the symmetry.
- `jobs_live`: the same with two calls and one worker job, without symmetry.
  `FairSpec` assumes that every call and the tick pass keep taking
  steps (FreeRTOS runs ready tasks, the main loop never ends, and callbacks
  "must return promptly", `service-concurrency.md`) and, for waiting jobs
  only, that memory is available again and again. The last is strong fairness
  because the pass offers the step only from time to time. Under it calls return, a
  reserved job is released, waiting launches are settled.
- `jobs_waiting_count` fails, as does the code: the count of waiting launches
  is raised after the section that publishes the request. If the request is
  freed in between, the saturating decrement comes first and the count stays
  too high for good, while `memory-policy.md` calls it the current number of
  waiting jobs. `NoWaiterUncounted` is what does hold.
- `jobs_lost_completion` fails, as does the code: a worker that ends before
  `start` commits is refused by `mark_stopped` because the job is reserved;
  nobody repeats the report and the job is shown running for good.

## Ports

One action per section under `port_mutex` or the stream mutex; driver callbacks
and the calls of one registry into the other are actions between them. A
`Provider` task registers and unregisters the port of its driver, one call at a
time (the UART manager and telnet worker serialise theirs). A `Client`
claims a port by name, or opens the port's endpoint, which claims it through
`port_stream_open`, and gives it back.

State: `port` (name and token; a token of zero is "not claimed", which is
exactly the code's `claimed` because the counter skips zero), `nextToken`,
`stream` (id, `driver.user`, generation, `active_handles`), `dev` (drivers
opened and not closed), and `fr`, what a task keeps in its locals and handles.
Tokens wrap at `TokenSpace` (2^32 in the code, 3 in the runs); generations do
not, a wrap takes 2^32 registrations. A driver's open callback may always fail; its
close callback may fail for the drivers in `SlowClose`, as a UART's does when
its output does not drain in 100 ms. Clients in `Careless` ignore a failed
release, as jobs and transfers do; a bus lease keeps the handle. Owner names,
directions, labels and the read and write calls, which change no registry
state, are left out, and refused calls leave no trace in the model.

`MCPorts` has drivers `a` and `b` and one whose name, `mic`, a stream of
another service already has, so that its registration is rolled back.

- `ports_safety`: two port slots for three drivers (so a full table and reused
  slots occur), three registrations and two calls by two clients; `b` may fail
  to close and its clients retry; streams are opened on `a`. Clients do not
  ask for `mic`. With two calls each client can hold one port while the other
  is anywhere in its call, and tokens wrap. Everything holds, and `Ports` implements
  `PortClaims`: a port vanishes only while free and passes from one owner to
  the next only through being free. 270 thousand states. A `Rest` step stands for
  idle tasks, so deadlock checking means that no call gets stuck.
- `ports_published_early` fails, as does the code: a client that asks for `mic`
  can claim the port before its endpoint is refused; the rollback then clears
  the claimed slot. `service-concurrency.md` demands that a slot is published
  only after the start succeeded.
- `ports_failed_release` fails, as does the code: after a failed close the port
  stays claimed, and a careless holder drops the only handle.

Known and stated in no run: an unregister refused at its second check
has already removed the endpoint; two unserialised removals of one name can
clear a new registration. Both are listed as hazards.

## Resources and Pins

`Resources` is the table of `solar_os_resources.c`: entries with a key (kind,
primary and secondary number together) and an owner name. Each call is one
section under `claims_mutex`, so each is one operator; a claim of one resource
is a bundle of one, and a refused call changes nothing. A bundle takes the
first free entries; which of its keys takes which of them is left open, since
only listings show it. `OwnerMap` says what callers rely on: no key has two
owners, a bundle is granted as a whole or not at all, an owner gives back only
what it has. It is the fault variant of a missing scan (`Missing`, `Conflict`)
that breaks it.

`Pins` composes the table with the services that use pins directly. None of
them holds a lock across a call, so each registry call, each access to a pin
and each section under `pwm_mutex` is an action, and `pc` and `fr` hold the
position and the locals of each calling task. `cfg` is `gpio_slots` together
with the hardware it describes, `pwmOn` the active PWM channels.

- GPIO configure looks for a claim, looks again whose it is, or claims; a read
  or write of a pin that is not set up configures it first. Claims are made
  under one name per pin (`gpio:<pin>`), whoever calls.
- PWM claims the pin and its channel under one name per pin, ADC under one
  name per pin and task, the flash tool under its own.
- Frequencies, duty, levels and pulls are left out; setting a timer may fail.
  A reset of a pin and the stop of a channel do not fail, as in ESP-IDF for a
  valid pin and channel. Only one flash operation runs at a time.

Runs:

- `pins`: an ordinary pin and an input-only one, two users, one flash
  operation, a table of three claims (so it is full as soon as one bundle of
  two and one more are claimed). Two users suffice for two calls of any kind
  to overlap on one pin, the flash tool adds an owner that holds two pins.
  388 thousand states. With one pin that can be an output, the limit of
  channels (one) is never what refuses a channel.
- `pins_pwm` fails, as does the code: set a channel, set it again to a
  frequency the divider cannot reach, and the claims are gone while the
  channel runs. The same property (`UsedPinsClaimed`) also fails when one task
  configures a pin while another releases it.

## Buses and Expansion

`Buses` is `solar_os_buses.c`: `bus` (the table), `attached`, `ready`, `gens`,
`refs` and `mutex` are its arrays, `lease` is the table of leases as a count
per slot and owner. Every call is one section under `buses_mutex` and thus one
action or operator, except transactions (`pin_ready_bus`, the transfer,
`unpin_bus`: pin, wait for the mutex of the slot, check again, transfer, give
the mutex back, unpin) and the change of an I2C rate, which counts a bus as in
use without a lease. The resource registry appears as its promise, `OwnerMap`;
that `Resources` keeps it is a theorem. A claim may be refused
without a conflict, because the table is shared with every other service.

The UART service below the bus registry is a port that is free, has a lease or
was claimed by somebody else, and a refusal to unregister. MIDI buses are UARTs
to this module, 1-Wire and PS/2 are `plain`. `Faulty` are the descriptors whose
hardware may refuse to start or stop.

`Expansion` adds the devices: an attach reserves the name, claims keys, leases
each bus, attaches the driver and publishes, each under another lock, and undoes
what it did from the stage it fails in; a detach goes back the same way. The
reservation gives a device to one call at a time, so `stage` is both the state
of the node and the position of that call. A driver reads the name of its bus
before it uses it (`drivers/shtc3.c`), which is `DriverCall`.

Runs:

- `expansion`: two slots, one of them the board's UART; an I2C and an SPI bus of
  one name, so that a slot changes its protocol under a waiting transaction, and
  a second UART; two devices that need two buses each, in opposite order; two
  service calls, one driver transaction, one change of rate; three leases for
  four lessees of a slot; two registrations of a slot (`MaxGen`). A device leases a
  bus at most once and the service twice (`LeaseCap`); a device whose lease was
  left behind can therefore not lease that bus again in this run. One of the
  devices cannot be detached, as a board's own. 590 thousand states.
`PinnedStable` is why `Recheck` never takes its second branch. `RefsCounted`
rests on `Unregister` leaving `refs` alone, so the count goes over to the next
bus of the slot.

Where documents say otherwise, without a run of their own:

- `release_owner` skips the last lease of a bus that counts an operation; a change
  of rate counts as one without a lease, and the callers ignore the result. A
  device detached at that moment leaves its lease behind (`boards.md`: detaching
  "releases that lease"), and the bus can be neither detached nor removed.
- `set_speed` notes a slot, waits for its mutex and checks that an I2C bus is in
  it, not which. A detached bus can be removed while it waits, whatever the count
  says, and the rate is set on the bus registered in its place
  (`service-concurrency.md` asks for a generation).
- `manual/expansion.reference.md` says that only UART claims follow attach and
  detach while other signals stay claimed "for the descriptor lifetime";
  `detach_bus_locked` gives back the keys of every protocol.

## Link stream

`LinkStream` is `solar_os_link_stream.c` at two ends, `st` the `link_stream_t` of
each. The task of the link job is one loop: `solar_os_link_stream_process`, then
perhaps one received frame. `process` has two sections under `stream_mutex`, one
that prepares a frame (`act`) and one that notes it was queued (`Finish`, or
`Refused`, whose result changes nothing); programs run in between. `win` is
`tx_window` (of size 1) and `ack` the pending acknowledgement, each a set of at most
one element; `due` says that `next_open_ms` has passed. `wrote`, `since` and `last`
are history: what was written, what was written before the port was last opened,
and the last item accepted with the sessions of both ends at that moment.

- One item stands for the bytes of one data frame; the queues hold `TxMax` and
  `RxMax` of them. Every interval may have ended; only what is due at once (`due`)
  has precedence. The clock's wrap is therefore not modelled (a hazard says where it
  bites).
- A new session is any number nobody still knows, and of those the smallest: the
  numbers are random 32-bit values, and a collision is left out. `MCSessionsOf`
  has more of them than are ever in use at once.
- The link loses frames and delivers copies of a frame next to it, and keeps the
  order. `solar_os_link.c:690` does not filter copies of stream frames. Frames
  that fail to decode, or come from another peer, are lost frames here.
- One stream per link; with several, the first one that has something to send is
  served. A transport stops when nothing is being sent; a job task that is killed
  is left out. Creation and removal are in `Ports` as far as the port goes.

Runs:

- `link_stream`: one end writes two items, sequence numbers wrap at 2 (the
  smallest space with a next and a previous number), queues and link hold one, and
  one closing, peer timeout, stop or refused send happens at any moment. A frame is
  then lost, repeated, answered late, numbered again in a new session, and
  acknowledged in the old one. The other end writes nothing, so acknowledgements travel
  on open, close and acknowledgement frames. 73 thousand states. `Delivered` is
  under `FairSpec`: the job passes over its stream for ever, intervals end (strong
  fairness of `PrepareOpen` and `PrepareData`, because frames with precedence
  come between), programs read, and the link lets through some of the frames that open
  or close a stream, some that carry data and some that acknowledge. It claims
  nothing once a fault has happened: closing a port discards what it has queued.
- `link_epochs` fails, as does the code: an end that hears a new session and had
  heard an earlier one starts a new session itself. After one restart of
  the transport or one peer timeout (or a port opened again that hears the old session
  before the new one), each end's new session makes the other draw one, without
  end, whether frames are lost or not. Data may still get through between two changes, sent again from sequence number 1, so `InOrderOnce`
  allows an item to be accepted again when a session has changed. `link.md` says
  that the epochs "then resynchronize". Writers are left out of this run.

## Proofs

`JobsProofs` proves for any number of jobs, clients, records and calls, from
`JobsAssumption` alone, `IInvHolds == Spec => []IInv` and from it `TypeCorrect`,
`OneOwner` (`BusyOwned`), `CallbacksExclusive` (`LifecycleExclusive`) and
`WaitingHasRequest` (`PendingMatchesWaiting`).

`BusyOwned` is not inductive by itself: a commit clears the flag only when the
job still has the incarnation the call reserved, so the proof must know that
nobody else advances it. `IInv` is the conjunction of

- `TypeOK` and `BusyOwned`;
- `CallbackRefs`: a callback reference is counted exactly while the main task
  is inside that job's tick callback, the registry then names the main task as
  the callback's task, and a stop is deferred only then;
- `OwnersCurrent`: a call or pass that owns a transition holds the current
  incarnation of its job and knows its state, hence its commit is accepted;
- `OwnersDrained`: past the wait for references there is no callback of that
  job in flight, which gives exclusion of callbacks;
- `NewRecords`: a start holds its own record where it is about to publish it,
  none while the callback runs, and at its commit only when memory ran out;
- `PendingMatchesWaiting`;
- `WorkersStarted`: no worker has an incarnation its job has not reached, and
  a job whose current worker has not reported is being launched or not waiting.

The proof has a lemma per action; the argument for `BusyOwned` is stated once
for each way a step can move the ownership (`BusyApiTakes` to
`BusyTickPicksUp`) and cited by the actions that move it so.

`JobRecordsProofs` adds, from the same assumption, two invariants on top of
`IInv`:

- `ModuleInv` for `NoForgottenJob` (`NoModuleForgotten`) and `StoppedListsNothing`
  (`NothingListedAfterStop`). It says which transitions leave the module inactive
  (`TransitionsInactive`), that a module with workers is active (`WorkersActive`), and
  that a stop that has run its callback lists nothing (`StopsListNothing`);
- `RecordInv` for `RecordsOwned` (`RecordsHaveOneHolder`) and `NoWaiterUncounted`
  (`WaitersNotLost`). Counting holders is replaced by a function: each live record has
  a place (`Place`: the registry or a call) and `OneHolder` says that it is held there
  and nowhere else. `CallsHold` says at which positions a call can hold one, and
  `WaitersCovered` that the published records are at most the waiters counted and
  the publications whose count is still to be added.

`PortsProofs` proves `TypeCorrect` and `HandlesAreCounted` from `PortsAssumption`.
The other theorems name what they rest on, because the code does not enforce it:

- `DriversDistinct`: no two drivers register one name (the UART ports, `telnetd` and the
  link streams have names of their own). `EndpointsAreBacked` needs it;
- `EndpointsFit`: no client asks for a port whose name another service gave to a stream,
  and 40 streams (`SOLAR_OS_STREAM_MAX`) are enough for those services and eight ports
  (`SOLAR_OS_PORT_MAX`), so a registration is rolled back only for a port nobody
  asks for. `ClaimsAreKept`,
  `OpenIsCalledOnClosed`, `OpenDriversAreClaimed` and `RegistryImplementsClaims` need it
  too; the run `ports_published_early` shows what happens without it;
- `ReleasesLand`: no driver refuses to close, or those that do have no endpoint and
  every client heeds a failed release. `ClaimsAreHeld` needs it as well;
  `ports_failed_release` shows what happens without it.

The instance of `ports_safety` satisfies all three (`ReleasesLand` by its second
half, and `mic` is rolled back there). The invariant follows a claim from the entry that has its token to the
task that holds the token, through every position of a call, and an endpoint from its
entry to the slot of its port.

`ResourcesProofs` proves, from `ResourcesAssumption` alone, that the table is
well formed with at most one entry per key (`TableInvariant`) and that it
implements `OwnerMap` (`TableImplementsMap`). `OneEntryPerKey` is inductive with
the type invariant: a claim fills distinct free entries (`Places`) with keys that
had none. The refinement maps a key to the owner of its entry; a release only
empties entries (`EmptyingMaps`), a claim gives each key of the bundle to its
owner (`ClaimMaps`).

`PinsProofs` carries the rest of the pin services, so that every property of
the run `pins` is a theorem for any pins, tasks, channels and table. It sees the
table only through `ClaimedBy` (who has which key): four lemmas say what each
registry call does to it, one lemma per action says which of adding a bundle,
dropping a key, dropping an owner or keeping all it is, and `PinsSeeMap` follows
from these and `ResourcesProofs`. `PinsInv` adds to the types and `OneEntryPerKey`

- `PwmWhole`: a pwm owner takes and drops its two keys together;
- `GpioAccounted`, `PwmAccounted`, `AdcAccounted`, `FlashAccounted`: a claim is
  backed by a pin set up, a channel, or a call still at a step that undoes it.
  `ClaimsExplained` is what is left of them when no call is under way; by itself
  it says nothing of the moments in between and is not inductive;
- `OwnersKnown`: no other owner appears in the table;
- `AdcKept` and `FlashKept`, the two halves of `OwnClaimsKept`, with what the
  frame of a flash operation holds of its targets.

`UsedPinsClaimed` is not among them: the run `pins_pwm` refutes it.

`ExpansionProofs` proves every property of the run `expansion` for any slots, buses,
devices, owners, tasks and registrations of a slot, from `BusesAssumption` and
`ExpansionAssumption` alone. The invariant `DevicesInv` has three layers:

- `TableInv`: the types, names and ports of the table with `AttachedOwns`,
  `HardwareFollowsLeases` and `ExclusiveLease`. A manager's call is one section, so
  this layer is inductive by itself;
- `TaskInv`: `PinnedStable`, `RefsCounted` and `ServiceLeaseCovers` hold each other up. A
  pinned bus stays because the count of its pins is not zero and then the last
  lease is not given up; the count is right because the bus of a pin stays;
- `DeviceInv`: at each stage a device has the keys and leases the stage says
  (`KeysHeld`, `BusesHeld`, `NextBus`), and none outside (`NoKeys`).

A step is shown to one layer only by its effect on it: `ManagerKeeps`, `LeaseKeeps`,
`OthersKeep` are what a task may expect of everybody else.

`LinkStreamProofs` proves, from `LinkStreamAssumption` alone, `TypeCorrect` and
`StaleBytesGone` (`NoStaleBytes`) for any sessions, sequence space and sizes. `LinkInv`
adds to the types that an open stream has a session, a known peer means an
open port, no more items are queued than were written (or the number of the next
item would not be one), and the link has room for a frame that is prepared: only the
other end adds to that direction, which is where two ends are needed
(`PeerUnique`). `NoStaleBytes` is inductive with it. Lemmas about `Renewed`,
`Acknowledged`, `Opened`, `Answered`, `Taken` and `Sent` say what they keep of a
stream, so that each action is a step on one record.

`LinkDeliveryProofs` proves what the protocol is for, `AckedWasAccepted`,
`WindowAligned` and `InOrderOnce`, again for any sessions, sequence space and sizes, with
both ends writing and any number of faults. `Direction` is stated of one direction
at a time, with all frames the receiver has not yet taken in a sequence (`Chan`, which has
the frame that is prepared at its end):

- `InOrder`, `Numbered`: data of whatever session are in order, none is behind what was
  accepted, none is missing that no closed port dropped, and one item of one session has
  one number;
- `Windowed`, `Acked`: of the present session there are only the frame in the window and
  copies of the one before it, and acknowledgements first of the one before and then of
  the frame in the window. The latter come only once it was accepted. With
  sequence numbers that wrap this is what makes a number mean one frame;
- `Expected`: what the receiver expects once it has accepted something of the session;
- `Starting`: an end that knows the session of its peer has its window at the start,
  unacknowledged, until the peer has accepted something. Without it an acknowledgement of
  the first frame could arrive before the sessions are agreed on;
- `EndSound`: what an end remembers of its epoch, without which an item could be accepted
  twice in one.

An action is taken apart into changes of one record and of one sequence, each with a
lemma for the sender, the receiver and the end itself (`SenderAcknowledged`,
`ReceiverTakes`, ...), none of which mentions a primed variable. A frame is handled while it
is still at the front of its sequence, and then leaves or stays. The order of the
acknowledgements matters there: once one of the frame in the window has arrived, all that
come after it are of that frame too, so none can count for the next.

Each inductive invariant was checked by TLC on the instance of its component's run before
it was proved, that of `LinkDeliveryProofs` also with two frames under way.

Only model-checked: the liveness properties (`CallsReturn`, `BusyReleased`,
`WaitersSettled`, `Delivered`), which are out of the prover's reach. `UsedPinsClaimed`,
`WaitersCounted`, `CompletionNotLost` and `EpochsSettle` are not theorems, since runs
refute them.

## Not modelled

Everything in `PROJECT.json` with status `not_modelled`: planned registries
(above), device and protocol I/O, code driven by the vendor's radio and
network stacks, rendering, parsing and signal processing. FreeRTOS itself is
taken as interleaving of tasks with mutual exclusion in locked sections; the
lazy creation of registry mutexes happens at start-up in one task and is
assumed done.
