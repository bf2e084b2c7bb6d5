# A verification of libgpiod

libgpiod gives user space the GPIO lines of a Linux machine: a C library over the
kernel's character devices (`lib/`), bindings of it (`bindings/`), command-line
tools (`tools/`), and a D-Bus service that owns lines on behalf of its clients
(`dbus/`). This directory holds TLA+ models of its core logic, checked with TLC on
small instances, and theorems about them, checked with TLAPS for every instance.
`PROJECT.json` maps each definition to the lines it models, and lists the runs,
mutants, findings, hazards and theorems.

## 1. The system

### Components, their state and operations

| Component | State | Operations | What makes it correct | Here |
|---|---|---|---|---|
| line-config object (`lib/line-config.c`) | a table of 64 entries (offset, node), a doubly linked list of reference-counted settings nodes, output values by position | new, free, reset, add_line_settings, set_output_values, get_line_settings, get_configured_offsets | counts match entries; nothing dangles or leaks; the table stays in its array; the user sees an ordered map | `LineConfig`, `LineConfigSpec`, `LineConfigProofs` |
| encoding for the kernel (`gpiod_line_config_to_uapi`) | none | groups lines with equal settings into at most 10 attributes | each line gets its own flags, debounce period and value back out of the encoding; refused only when full | `LineConfigUapi`, `RequestProofs` |
| line settings, line information (`lib/line-settings.c`, `lib/line-info.c`) | one record each | setters that refuse values out of range; flags read back | the information says what the settings were | `LineInfo`, `RequestProofs` |
| line request (`lib/line-request.c`, `gpiod_chip_request_lines`) | offsets in order, the file | request, reconfigure, get and set values, release | lines are held exactly while the object exists; values and settings reach the line named | `LineRequest`, `RequestProofs` |
| edge events (`lib/edge-event.c`) | the buffer, its count; the kernel's queue | new, free, read, get_event | order kept, none lost by a read | `EdgeEvents`, `EdgeEventsProofs` |
| D-Bus manager (`dbus/manager`) | tables of chips, lines, requests; the tree of request ids | udev bind and unbind, enumeration at start, info events, RequestLines, ReconfigureLines, GetValues, SetValues, Release | the bus mirrors udev and the kernel; lines taken and requests agree; restart recovers; a variant is read as it was meant | `GpioManager`, `GpioManagerProofs`, `DbusRequest`, `RequestProofs`, `GpioCli` |
| gpiocli (`dbus/client`) | proxies and copies of the manager's objects, timeouts | wait, request, reconfigure, release, set, get, notify, monitor, detect, find, info, requests | a call reaches the lines named; wait sees what it waits for; no change is missed | `GpioCli`, `GpioCliProofs`, `DbusRequest`, `RequestProofs` |
| GLib bindings (`bindings/glib`) | handle, event source, references, released flag | new, close, request, release, watch, reconfigure, dispose; the sources' callbacks | descriptors are owned; nothing that is gone is used by programs that drop what they close; events are emitted | `GlibSources`, `GlibSourcesProofs` |
| Python bindings (`bindings/python`) | names and offsets of a request | request_lines, reconfigure_lines, get_values, set_values | dictionaries over names and offsets become the lists the library wants | `PyRequest`, `RequestProofs` |
| line resolution (`tools/tools-common.c`) | resolver: ids, chips, found count | resolve by name, by offset, strict or not | the line found is the line named | `LineResolver`, `GpiosetProofs`, `ObservingToolsProofs` |
| gpioset | line values, toggle and hold periods | set, toggle, interactive get/set/toggle/sleep/exit | every value set reaches its request; schedule and hold period are kept | `Gpioset`, `GpiosetProofs` |
| gpiomon, gpionotify | the requests or watches polled, events done | poll, read, print | stops after the events wanted, none skipped, none starved | `EventTools`, `ObservingToolsProofs` |
| gpioget, gpioinfo, gpiodetect | lines found, values read | find, request, read, print | what is printed is what was read of the lines named | `ReadingTools`, `ObservingToolsProofs` |
| request-config, chip-info, copies | a record | accessors | | left out: data without control |
| C++ and Rust bindings | wrappers | | | left out |
| gpiosim (`tests/gpiosim`) | devices, banks, deferred banks | enable, disable, release | test support | left out |

### How they interact

A client builds a line-config out of settings objects, hands it to the chip, gets a
request and reads edge events from the request's file. The kernel owns the lines:
it grants them to one file at a time and takes them back when the file is closed,
whoever closes it. The bindings and the manager are clients of the same calls, each
with its own spelling of settings: Python's dictionaries by name, gpiocli's options,
the manager's D-Bus variants. The GLib binding attaches an event source per chip and
request to the main loop. The manager runs on it: its loop dispatches udev events,
info events from the chips' files, edge events from the requests' files and the calls
of D-Bus clients, one callback at a time; it is restarted by systemd when it ends
(`Restart=always`). gpiocli sees the manager through copies of its objects, calls, and
signals that wait until its own main loop runs.

### What is hard

The library does no locking and starts no thread: its hazards are long sequences of
legal calls (shared settings nodes), limits (64 lines, 10 attributes, the buffer's
capacity), indices that must agree between three orders (configuration, request,
call), and calls that fail half-way. Around it everything is concurrent: chips come
and go under the manager and the tools, other processes take lines, info events and
udev events wait in queues of their own that drop events when full, the daemon may die
at any point, handlers close the object that called them, descriptors are used again,
and what a client read of the manager is old when it calls. `PROJECT.json` lists the
hazards at their lines with the properties that would catch them.

## 2. Modules

| Module | What it is |
|---|---|
| `OffsetLists` | members of a set in ascending order, and lists without repetitions; used by `LineConfigSpec`, `LineConfigUapi`, `GpioManager` and `LineResolver` |
| `LineConfigSpec` | abstract: an ordered map from offsets to settings, and values by position |
| `LineConfig` | the table, nodes, counts and links of `lib/line-config.c`; implements `LineConfigSpec` |
| `LineConfigUapi` | encoder and the kernel's decoder, over the object of `LineConfigSpec` |
| `LineRequest` | client, chip and kernel around one request; extends `LineConfigUapi` |
| `LineInfo` | setters of settings, and what the kernel's information says of a requested line; extends `LineRequest` |
| `DbusRequest` | a request through gpiocli and the manager: options, variant, settings, properties; extends `LineInfo` |
| `PyRequest` | a request through the Python bindings; extends `LineInfo` |
| `RequestPaths` | composes the C, D-Bus and Python paths into one system |
| `EdgeEvents` | the kernel's queue, a buffer and its reads |
| `GpioManager` | the daemon, udev, the kernel and other processes |
| `GlibSources` | objects of the GLib bindings, their descriptors and sources, the main loop and handlers |
| `GpioCli` | the commands of gpiocli against a manager, its chips and other clients |
| `LineResolver` | how the tools find the lines named, chip by chip and line by line |
| `Gpioset` | gpioset and the kernel's lines, around `LineResolver` |
| `EventTools` | gpiomon and gpionotify, around `LineResolver` |
| `ReadingTools` | gpioget, gpioinfo and gpiodetect, around `LineResolver` |
| `ObservingTools` | composes the tools that only look, over chips that come and go |
| `LineConfigProofs`, `EdgeEventsProofs`, `GpiosetProofs`, `GpioManagerProofs`, `GlibSourcesProofs`, `GpioCliProofs`, `ObservingToolsProofs` | the proofs about the modules they are named after |
| `RequestProofs` | the proofs about `LineConfigUapi`, `LineRequest` and `RequestPaths` with the modules between them |
| `MC...` | the instances TLC checks |

The modules with proofs or with a heap of objects have a `TypeOK`, which can be added to
any configuration. Those of `LineConfig`, `LineRequest` and `GpioCli` are proved; the other proofs carry
the part of it that they need (section 4).

**LineConfig.** `slots` is `line_configs[0..num_configs-1]`, `outputs` the output
values, `live`/`settings`/`refcnt`/`prev`/`next`/`head` the heap of nodes. A node is
named by its allocation, never by an address that malloc might reuse, so that a
stale pointer shows. The add loop runs one offset per step (`AddBegin`,
`AddNewOffset`, `AddKeepOld`, `AddFreeOld`, `AddReturn`), because the node counts and
the list must be right whenever the loop looks at them. The two mallocs fail
together (`AddNoMemory`): the half-built node is freed before the call returns.
Under the refinement the whole add takes effect at `AddBegin`: from there on it
cannot fail. `ImplementsPromise` asks a little more than the abstract behaviour: its
steps happen between calls only, so an iteration cannot undo what the call promised
under the cover of another abstract add.

**LineConfigUapi.** Flags are sets of names; a mask is a set of indices; an
attribute is a record. `Takers` and `Sharing` are the loop that `set_debounce_periods`
and `set_flags` have in common, told by what it leaves: a line that no earlier attribute
covers takes the next one, for itself and the later lines whose key is the same; the
attributes are in the order of the lines that took them. The keys are the debounce period
of one and the settings behind the flags of the other. Periods are compared in full and
stored modulo `PeriodMod`, 2^32 in the code. The settings are those the setters of
`lib/line-settings.c` store, and the values 0 and 1 (`UapiAssumption`). `KernelFlags`, `KernelDebounce` and
`KernelValue` read the request as `lib/uapi/gpio.h` says the kernel does: the first
attribute of a kind whose mask has the line, else the default.

**LineRequest.** Each library call is an action per outcome (too big, rejected,
busy, out of memory, granted; other lines, reconfigured; ...). The kernel is external
and modelled as far as the library relies on it: it refuses contradictory flags,
grants lines nobody has, frees them with the file, sets and gets values by bit. A
line whose direction was not asked for keeps it, and on a reconfiguration may be left
as it was, which is what kernels differ in (`Reconfigured(skip)`).

**LineInfo, DbusRequest, PyRequest, RequestPaths.** `Stored` is a setter: what is not a
choice resets the field. `GetLineInfo` reads the kernel's flags as
`gpiod_line_info_from_uapi` does, one field after the other. `DbusRequest` follows a
setting through its five spellings: `ValidOptions` and the dictionary of `gpiocli request`
(`SettingsDict`, which has the settings that are `Mentioned`), the variant, the settings
object, the flags, and the properties of the line object as gpiocli shows them. The manager
reads one group of lines of the variant per step (`Receive`, `ReadGroup`, `ReadValues`, or
`Unreadable` at the first thing it cannot take) into one settings object, `last`, that it
uses for all of them; `named` is the history of the lines it has read. The variants, lines
and periods are typed (`DbusAssumption`): values and settings have the types that
`io.gpiod1.xml` gives them and no period is negative, which GObject keeps from being stored.
`PyRequest` resolves ids (`LineOffsetFromId`: a name first, then a number) and builds the
list of values and the configuration of `reconfigure_lines` in the order of the request; a
dictionary is the sequence of its entries, a key of several ids as many entries
(`PyAssumption` gives their types). `RequestPaths` runs any of the three, with calls that
set values and reconfigure afterwards. `wanted` is a history variable: the value the user
means for each line, by name and not by position.

**EdgeEvents.** The kernel numbers events over the request and over each line and
drops the oldest when the queue is full. `ReadFd` and `ReadFails` are the two outcomes
of `gpiod_edge_event_buffer_read_fd`; both zero the buffer first, as the code does.
`delivered` and `lost` are history variables. A buffer is used with one request.

**GpioManager.** One action per callback the main loop dispatches; `ProcessChipDev`
is one iteration of the enumeration, during which the rest of the world goes on.
Chips have instances (`present`, `plugs`): a request made on one instance holds
nothing on the next. `UnexportChip` frees the chip's requests, then its lines.
`DaemonNew` creates the udev client, `Start` connects the handler and lists the chips:
a uevent that arrives in between is ignored (`UeventIgnored`) if the main loop gets to
it before `Start`, and handled after the enumeration if it does not. A call on a
request that reads, sets or reconfigures lines changes no table of the daemon; these
calls are in `DbusRequest` and `GpioCli`.

**GlibSources.** A descriptor is given out lowest first, and a source polls a number,
not an object: `Readable` looks at whose file the number is now. `ChipClose` and
`RequestRelease` leave the source attached, as the code does; `Finalized` is dispose
and finalize, after which it is gone. User calls are enabled outside the loop and in
handlers; while a handler runs the emission holds a reference of its own, so that the
last `Unref` takes effect when the handler returns (`HandlerDropped`). `fault` records
the first use of something that was given up, and the system stops there.

**GpioCli.** A command is a sequence of steps; between any two of them the manager may
stop or start, a chip may come or go, and other clients may request and release lines
(`Moves`). What the client read is in `places`, `id`, `asOf`; signals wait in `inbox`
in order and only for what is in `heard`. `grants` counts how often each number was
given out, so that `hits`, the calls on a request, can tell a number that was given
again from a call that went wrong on its own account. The module ends with the parts of
its inductive invariant, which say for each command what the client may still hold, has
read and has to hear at each place of it.

**LineResolver.** `resolve_lines` is cut where the world can move: opening a chip,
reading the info of each line, closing it. `i` and `at` are its two loop indices;
`lines` and `chips` are the resolver's arrays, where a line keeps the number of its
chip among those *used*, not among those in /dev. A path holds the names of the lines
of the chip there, or nothing; `seen` remembers what a chip held when it was opened.
`AsOffset` is the outcome of `parse_uint`. A chip that may not be opened is passed over
(`OpenDenied`), one that is gone ends the program.

**Gpioset.** From the command line to the release: one request per chip
(`RequestChip`), then the toggle sequence, the hold period, and the prompt or the wait
on the first request. A period is slept within the step that follows it; `since` and
`kept` measure how long values stood. `DeviceChanges` removes or replaces a chip at any
point: its requests are dead, setting their values fails and is only reported. Options
are chosen where the code first looks at them. Commands that change no value have no
action, nor has the end of input, after which the program stays at its prompt. A line
of blanks has (`PromptBlank`): it may do what any command does.

**EventTools, ReadingTools, ObservingTools.** gpiomon and gpionotify share a module:
both open a file per chip, poll all, and go through the ready ones in turn; `batch` is
what was read and not printed. They differ in what a read takes (up to a buffer, one
event), in what a full queue drops (the oldest edge event, the newest info event) and
in the events passed over. The numbers of events printed, passed over and dropped are
history; `Forget` starts them anew, without touching what the programs see, so that with
bounded numbers a file can be busy for ever (`AllHeard`). gpioget requests and reads chip
by chip into the lines of the resolver. gpioinfo has a search of its own, which prints lines while it searches;
the model keeps the order of its lines' printing and its marks (`listed`, `failed`).
The events of gpionotify are told with their type (`InfoPrinted`), those of gpiomon with
the line alone.

## 3. Runs

| Run | Checks | Bounds, and why they are enough |
|---|---|---|
| `line_config` | `RefcntExact`, `NoLeak`, the inductive invariant `IInv`, and that `LineConfig` implements `LineConfigSpec` (`ImplementsPromise`) | a table of 3 for 4 offsets, 3 allocations between resets, calls of up to 2 offsets: nodes are freed from the middle and the tail, and by the second iteration of a call; adds are refused for room |
| `request_paths` | `ValuesReachLines`, `RefusedWhenFull`, `InfoTellsSettings` for requests in C; `ShownAsAsked`, `KeptApart` for gpiocli and other D-Bus clients; `ValuesAsAsked`, `NamedLinesChange` for Python | 3 lines, 2 of them named, the name of one the number of another; 6 settings with inputs, outputs and two periods equal modulo `PeriodMod`; a period that is `PeriodMod`; 3 attributes, which some configurations exceed; variants of two groups that share a line or not, and some that cannot be read |
| `line_request` | `HeldWhileRequested`, `GetReadsNamedLines`, `ConfigReachesLines`, `SetReachesNamedLines` | 2 lines in either order, 4 settings, one of which the kernel rejects, lists with repetitions, a table of 3 so that a call with one offset twice still has room beside a line that is configured, 2 attributes so that some are too big |
| `edge_events` | `InOrder`, `NoneMissing` | a queue of 3 overflowed by 5 edges of 2 lines; buffers of 1 and 2, asked for up to 3 |
| `manager` | `ManagedMirrors`, `OwnershipMatches`, `IdsMatch`, `UsedFresh`, `QuiescentMirror`; liveness `PlugSeen` | 1 chip of 2 lines plugged in twice, 2 ids, 2 uevents queued (unbind and bind wait together), 2 info events (one request of both lines fills the queue), one death. Ids of several chips are the subject of the proof |
| `gpioset` | `ResolvedRight`, `ShownIsDriven`, `SequencePlayedOnce`, `HoldRespected`; liveness `ToggleEnds` | 2 paths, 4 kinds of chip with up to 3 lines, names used twice and one that is an offset, up to 3 ids that alternate between the chips, one removal or replacement, schedules of up to 3 periods with zeros anywhere, hold periods of 0 and of more than a period |
| `observing_tools` | `NothingSkipped`, `StopsForCause`, `ReadIsTold`, `InfoListsNamed`; liveness `AllHeard` | 2 paths, chips of 2 lines that share a name that is also an offset, queues and batches of 2: a full queue, a batch that is full and one that is not; 3 events are remembered, and without a limit on those to print they are forgotten at times (`Forget`), so that a file can be busy for ever |
| `glib_sources` | `SafeIfDropped`, `FilesOwned`; liveness `Emitted` | 2 chips and a request on 3 descriptors: a number given up by one is taken by another of either kind; 3 events, a buffer of 2 |
| `gpiocli` | `ReachesNamed`, `FollowsAll`; liveness `WaitSees` | 2 chips of 2 lines, the same name on both, 2 request numbers so that one is given again; 4 moves of the rest of the world |
| `manager_start` | **finding 1** (`NoAssert` fails) | as `manager` |
| `gpiocli_wait` | **finding 2** (`WaitNoticesVanish` fails) | as `gpiocli`, 2 moves |
| `glib_closed` | **finding 3** (`ChipAsserted` fails) | as `glib_sources` |

The properties of `LineConfigUapi` and of the modules between it and `RequestPaths` are
about operators without state; the steps of `RequestPaths` bring in the configurations,
options, variants and dictionaries they are evaluated for.

`CHECK_DEADLOCK FALSE` is said where the system stops: the tools and the client end, a
request path is a sequence of calls that ends, and the environment of the manager and of
the bindings is bounded (plugs, deaths, events) and has nothing left to do at the end.
Symmetry is used in `line_config`, `line_request` and `edge_events`, which check no
liveness and do not order the values that are permuted.

`PROJECT.json` has a mutant for each property: a plausible bug in a mapped definition, under
which TLC finds the property violated.

### Fairness

| Property | Fairness | Why the code justifies it |
|---|---|---|
| `PlugSeen` (`GpioManager`) | weak, on the daemon's steps | systemd restarts it, `start` runs to its end, the main loop dispatches what is queued, udev delivers or drops. The chip must stay: nothing is assumed of chips and clients |
| `ToggleEnds` (`Gpioset`) | weak, on the rounds of the sequence, the hold period, the release | sleeps end and nothing else blocks; nothing is assumed of the prompt |
| `AllHeard` (`EventTools`) | weak, on the program's own steps | the loop goes on as long as poll says that something is ready; nothing is assumed of the events, which may come for ever on the other files |
| `Emitted` (`GlibSources`) | weak on the loop and on handlers; strong, for each object, on a dispatch that succeeds | the main loop polls again after each round and does not pass over a ready source for ever; a read that can succeed does not fail for ever |
| `WaitSees`, `WaitNoticesVanish` (`GpioCli`) | weak, on the client's steps and its two timers | the client's main loop; a timeout expires. Nothing is assumed of the manager, chips and other clients |

### Findings

1. A chip plugged in while the manager starts is enumerated and announced: the daemon's
   `g_assert` (`dbus/manager/daemon.c:744`) fails and systemd starts it anew. After the
   restart the chip is exported once: `PlugSeen` holds with the assertion failing.
2. `gpiocli wait` for a chip does not notice that the manager vanishes:
   `on_name_vanished` ends the program under a condition (`dbus/client/wait.c:71`) that is
   true only when the wait is over, though its message is about "waiting for chip".
3. A closed `GpiodglibChip` leaves its source attached to the main loop
   (`bindings/glib/chip.c:140`), polling the number of a closed descriptor. When that
   number is used again, the callback of the closed chip reads events from a null chip,
   which `assert(chip)` in `lib/chip.c:173` refuses.

### Noticed without a run of its own

Other places where the code differs from what is said of it, or where a reader of a
property may stumble. The models follow the code.

- `gpiod_line_config_add_line_settings` counts offsets, not new entries, against its limit
  (`lib/line-config.c:108`): on a full table the settings of a configured line can no longer
  be replaced, though the header says the last assignment takes precedence.
- `gpiod_line_request_reconfigure_lines` refuses extra lines (`lib/line-request.c:270`)
  that its documentation says are ignored; a test expects the refusal.
- After a failed read `gpiod_edge_event_buffer_read_fd` has zeroed its events and keeps
  their count (`lib/edge-event.c:190`).
- With `--strict` a line whose name is its own offset counts as its own duplicate
  (`tools/tools-common.c:538`); the help of gpioset speaks of names that are not unique.
  gpioinfo takes the line at an offset away again when another line has that number as its
  name (`tools/gpioinfo.c:128`), so that `InfoListsNamed` asks for either line.
- The help of `gpiocli request` gives the debounce period in milliseconds
  (`dbus/client/common.h:175`); the number is passed on as it is (`common.c:604`) and the
  manager takes it as microseconds (`io.gpiod1.xml:68`). The model has one unit.
- A debounce period that is a multiple of 2^32 microseconds is taken by `gpiocli request`
  (`common.c:604`), the manager and the library, and is 0 in the 32 bits of the kernel's
  attribute (`lib/line-config.c:364`): the lines are granted and not debounced. gpiomon
  refuses such periods (`tools/gpiomon.c:395`). What is shown is therefore compared with the
  period asked for modulo `PeriodMod` (`ShownAsAsked`).
- Values given for a line that is named twice shift by position
  (`dbus/client/common.c:632`); `ShownAsAsked` leaves such lists out. `gpiocli find` reads a
  number as an offset.
- gpiocli notify keeps the object of a line that has left (`dbus/client/notify.c:226`), and
  `get_request_offsets` uses line objects it did not find (`dbus/client/common.c:294`); the
  properties of followed lines are about chips that stay.
- The GLib bindings rely on programs that drop what they give up. A released request leaves
  its edge source attached (`bindings/glib/line-request.c:202`), whose callback reads from a
  freed handle; its handle stays set, and a second release frees it again; and a request
  dropped in its own handler takes the buffer with it that the loop over the batch still
  reads (`bindings/glib/line-request.c:65`). The model records each as a `fault`
  (`DispatchClosed`, `RequestRelease`, `HandlerDroppedEarly`). `SafeIfDropped` says which
  programs (`Dropped`) meet none but the second release: they drop a closed object before the
  loop goes on to another source and no object early in its own handler. `ChipAsserted`,
  about closed chips that are kept, fails (finding 3).
- Python's `reconfigure_lines` says that "if no entry exists, or a None is passed as the
  settings, then the configuration for that line is not changed"
  (`bindings/python/gpiod/line_request.py:168`), and its tests look at direction, active-low
  and drive of such lines (`bindings/python/tests/tests_line_request.py:552-584`). The code gives these
  lines the default settings, which ask for no direction: a kernel that skips lines without
  a direction leaves all of their configuration alone, and one that does not keeps direction
  and value and resets the flags. The tests ask for a kernel of 5.19 or later
  (`bindings/python/tests/__init__.py:7`) and say no more of it. `NamedLinesChange` has both: where the kernel
  skips them (`stage = "changed"`) the lines are as before in everything, elsewhere
  (`"reset"`) in direction and value.
- A call of gpiocli goes to a number that was read before. If the request is gone and its
  number given again (`dbus/client/set.c:141`), it reaches lines of another request:
  `ReachesNamed` excuses these calls, which nothing in the protocol prevents.
- At gpioset's prompt a line of blanks looks at a word that is not there
  (`tools/gpioset.c:783`), and the end of input does not end the program
  (`tools/gpioset.c:768`).
- The hold period is kept around toggles and before the release (`HoldRespected`). Two
  commands at the prompt are not held apart, and the property leaves the prompt out.

## 4. Proofs

Checked by TLAPS for every value of the constants, in eight modules. Each proves an
inductive invariant, one lemma per action, and derives the properties from it. TLC checked
each invariant on the instances of section 3 before it was proved.

**LineConfigProofs**: `Spec => []IInv` and from it `TypeOK`, `RefcntExact`, `NoLeak` and
`TableSound`, for any sets of offsets, settings and values, any table size and bounds. The
bounds are naturals, there is a settings value, and the bad value is no value. That a freed
node is not the head, which the code relies on without a test, needs `Linked`: the head is
the newest node and next leads to older ones. That the newest node is not the one freed
needs `InCall`: after the first offset of a call its count is positive. Room for the rest of
the call makes the table sound. `NoLeak` follows from `Linked` by induction over the finite
set the walk reaches, written out with a least counterexample. TLC checks `IInv` too.

`Implements` is the refinement, `Spec => ImplementsPromise`. An add is an abstract add at
its first step, when the offsets of the call are appended to the list of those configured
and given the new node's settings; each iteration then leaves the abstract map alone. For
that it needs `Processed`: the offsets already done have the node of the call, and a later
iteration, of an offset that may be in the call twice, does not take it away. The rest is
about lists without repetitions (`OffsetLists`): they depend only on the offsets in order of
their first occurrence, and moving one offset from the arguments to the table changes none.

**RequestProofs**, the request: for any lines, settings and lists of offsets and any limits,
`Spec => []RInv` and from it `HeldWhileRequested` and `GetReadsNamedLines`;
`Spec => []CInv` and from it `ValuesReachLines` and `RefusedWhenFull`; and `TypeOK`,
`ConfigReachesLines` and `SetReachesNamedLines`.
- `RInv`, whose lines they are: the file names the lines of the request object, in its
  order. A configuration changes what a line does and never whose it is (`AppliedUser`), so
  that the users of lines change with the file alone.
- `CInv`, the configuration: each offset in its order has settings, none other has, and the
  output values are values.
- The encoder. The first line of each key is the one that takes an attribute (`TakerOf`,
  by a least element), and each attribute with a line in its mask has the key of that line
  (`FlagMembers`, `DebounceMembers`), so that it does not matter which of them the kernel
  reads first; a line in none of the masks has the default (`FlagsReach`, `PeriodReaches`,
  `ValueReaches`). There are as many takers as keys, by a bijection (`TakersCount`), so that
  a configuration is refused exactly if it has more kinds of settings than there are
  attributes (`RoomFor`).
- What was encoded is applied to the line with that offset when a request is granted or
  reconfigured (`AppliedAs`), and what is set by position reaches the line of the last place
  a list names it at (`SetReaches`).

**RequestProofs**, the paths to it: `PathsSpec => []PInv` and from it `InfoTellsSettings`,
`ValuesReachLines`, `RefusedWhenFull`, `ShownAsAsked`, `KeptApart`, `ValuesAsAsked` and
`NamedLinesChange`, for any chip and limits, any options and periods of gpiocli, any variants
with any number of groups, and any dictionaries, names and numbers of Python's ids. `PInv`
is `RInv` and `CInv` above and seven parts, of which each says what the next needs.
- `PathInv`: which of the three programs runs, by where it is, and variants are well formed.
- `AskInv`, the options of gpiocli: they are valid and what was sent is made of them. The
  settings made of the dictionary are those asked for (`AskedSettings`, `SettingsFromIs`).
- `ReadInv`, the manager's reading: of the groups read so far, each line has the settings of
  the last one that names it, made from the defaults and that group's dictionary alone
  (`ReadGroupStep`), though one object serves for all; the order is the lines named if none
  is named twice (`DistinctFirst`).
- `WantInv`, values: the value wanted for a line stands at the place of the line in the list
  of values, and once the lines are granted is what the line drives. That a list by place
  meets the right lines is where orders without repetitions are needed.
- `GrantInv`, a requested line: it has the flags, and the period modulo `PeriodMod`, of its
  settings, and the kernel accepted them (`Granted`). What the information of a line tells is
  then read off the flags, field by field (`FlagsOf`, `InfoTells`): the accepted ones have at
  most one flag of each group, so that the order in which the library looks does not matter.
- `ShownInv`: what gpiocli shows is how the lines are (`ShownIs` follows it through the
  properties to the options).
- `ChangeInv`, Python's reconfiguration: the new configuration has all lines of the request in
  its order, with the last settings given for those named and the defaults for the others,
  which ask for no direction (`Undirected`): these lines keep everything where the kernel
  skips them, else direction and value. Of a dictionary the last entry for a line counts
  (`LastPlaceIs`, `DictIs`).

**EdgeEventsProofs**: `Spec => []IInv` and from it `InOrder` and `NoneMissing`, for any
number of lines, queue, capacity and edges. The strengthening is `AllNumbered`: no event is
ahead of the kernel's counters, so that a new edge is later than all before it.

**GpiosetProofs**: `Spec => []SInv` and from it `HoldRespected` and `SequencePlayedOnce`;
`Spec => [](LInv /\ DInv)` and from it `ResolvedRight` and `ShownIsDriven`; for any
schedules, hold periods, ids, values, layouts and number of paths, and any number of
removals and replacements.
- `SInv`, the schedule: the next period of the toggling program is not a last one of 0, so
  that it has been raised to the hold period, and the parity of the rounds is that of the
  index when the sequence is to end; for the waiting and the releasing one, the hold period
  has passed.
- `LInv`, the search: paths and used chips ascend, nothing was read of the paths to come
  (`SeenRead`), a line that was found has the number of a used chip, or of the one being
  read if that counts as used (`LinesPlaced`). A line found is the first of its name in all
  that was read, and with the strict option the only one but for what is still unread; of a
  name without a line none was read, unless the search is done (`Searched`). The first by
  path and offset is the first to be read since `Ascending` sorts the paths.
- `DInv`, the requests: they are of used chips, no two of one chip, and the lines of those
  that live are among the device's. A request drives a line to the value with the line's
  number because its list holds each line of the chip and no two of them are at one offset,
  which the check of doubles (`ValidLines`) is for.

**GpioManagerProofs**: `Spec => [](TInv /\ NInv /\ FInv)` and from it `ManagedMirrors`,
`OwnershipMatches`, `IdsMatch`, `QuiescentMirror` and `UsedFresh`, for any chips, any
number of plugs, requests and deaths and queues of any length; a chip has finitely many
lines, numbered by naturals. The parts of `TInv` need each other: that a release frees
exactly the lines it manages needs the mirror, and that unexporting a chip leaves no
request of it needs `OnExported`. A fresh id is a least element of those not in use.
`QuiescentMirror` needs to know what the uevents in the queue will tell (`NInv`): the last
one queued for a chip says whether the chip is there, and of a chip without news the table
is right, through enumeration, events that arrive before the handler is connected, and
restarts. `UsedFresh` needs the same of the info events (`FInv`): the last one queued
for a line says whether the kernel's line is used, and of a line without one the object is
right, but for the lines whose last event found the queue full. That a request of several
lines queues one event for each of them is where the order of a set is needed: `Ascending`
lists the members of a set, each once.

**GlibSourcesProofs**: `Spec => []GInv` and from it `SafeIfDropped` and `FilesOwned`, for any
finite sets of chips and requests, with as many descriptors as objects or more. The
strengthening ties references, sources and handlers to objects that live: a source that is
ready is that of a live object, so that it finds the handle given up only if the object is
still referenced, which `Dropped` excludes. That a new object
finds a free descriptor is a counting argument on the owners of those in use; that the one
given out is the lowest free one is not needed, that it is free is.

**GpioCliProofs**: `Spec => []IInv` and from it `TypeOK`, `ReachesNamed` and
`FollowsAll`, for any chips, names, numbers of requests and moves of the others. A call
reaches the lines named because, as long as the number the client read was given out as
often as when it was read, the request of that number is the one it read (`CallsForLine`,
`CallsForRequest`): requests do not change their lines. It misses no change because the last
signal about its line, or what it read when none is left, is the present state
(`LastProps`), and of the edges those not printed wait, in order (`EdgesFollowed`).

**ObservingToolsProofs**: `Spec => []OInv` and from it `NothingSkipped`, `StopsForCause`,
`ReadIsTold` and `InfoListsNamed`, for any number of paths, layouts, ids, files and events,
any size of queues and batches, and chips that are removed and replaced at any point.
`OInv` has five parts.
- `Program`: which tool runs, by where it is.
- `LInv`, the search: paths and used chips are there once, and a line that was found has the
  number of a used chip, or of the one being read if that counts as used.
- `GInv`, gpioget: the lines of the chips that are done have the levels read of them. That a
  line's value is at its place in the list of its chip's lines needs that `Ascending` lists
  them once each.
- `IInv`, gpioinfo: what was printed was read and stands for an id, each line once, and what
  was read and has a name that was asked for was printed (`ReadListed`). At the end the
  number of lines printed is that of the ids: then each id has its line, by the pigeonhole
  principle, as each line printed is that of an id and stays with it (`ListedFound`), which
  is how the program can do without looking.
- `EInv`, gpiomon and gpionotify: of each file, the events printed, in the batch and in the
  queue ascend in that order and, with those passed over and dropped, are all there were. A
  file that poll found ready is still ready when its turn comes, so that a read never finds
  an empty queue.

Checked by TLC only: the liveness properties (`PlugSeen`, `ToggleEnds`, `AllHeard`,
`Emitted`, `WaitSees`), which are beyond the prover. Every invariant and action property of
the passing runs is proved.

## 5. Not modelled

- A chip of the manager whose lines cannot all be watched (`dbus/manager/daemon.c:311`): the
  clean-up unwatches one line repeatedly. In the model an export succeeds or fails at the
  opening of the chip, since a watch fails only once the chip is gone.
- Request-config, chip-info and the accessors of line-info and of events: they hold and
  return data.
- The C++ and Rust bindings, which pass each call on. Of the Python bindings, events and the
  closing of objects, and lists of values longer than the request (`ext/request.c:165`).
- Parsing of options beyond their outcome, formatting, completion and the history of
  gpioset's prompt, and gpiodetect's and gpiocli's layout of what they print.
- gpiosim, the simulator of the tests.
- The kernel beyond what the library relies on.
