# Waverider and its tools, modelled and proved

TLA+ modules for the parts of this repository where order matters. On the
instrument: the tables Waverider keeps on the +Drive, the lists of tables each
project plays, and the path that takes a table from the drive to the DSP while it
renders. On the computer: the host of the USB probe, the command that combines mods
in one image, and the progress files of long jobs. TLC checks them on small
instances; TLAPS proves the main results for every value of the constants.

## The system

The repository builds modifications of a synthesizer's firmware. A ColdFire
processor runs the user interface, the +Drive (an eMMC) and the sequencer; a
SHARC DSP renders sound. They exchange one frame 1500 times a second. Most of
the tree is Python (a package, tools, scripts), a web site and documentation of the
stock firmware; the code that runs on the instrument is under `csrc/`. Almost all of
the Python reads a file, computes and writes a file, once; three parts of it do more,
and those are modelled.

| component | where | state | operations | what makes it correct |
|---|---|---|---|---|
| table store | `csrc/wrstore/store.c`, `route.c` | two groups (superblock, index) and 256 extents on the drive; `wr_store` | DNX upload, rename, delete, list, read; delete from the page | an acknowledged change stays; a change is whole or absent; other slots keep their tables |
| pool lists | `records.c`, `poolroute.c`, `projects.c`, `waverider/wtedit.c` | two sectors per project | DNX read and write, the page's edits, SAVE, LOAD, CREATE NEW, erase | a list is never lost half-written; no writer loses another's edit unseen; the pool plays the list |
| table loader | `waverider/loader.c`, `sharc/load.asm` | a queue of three chunks, the chunk in flight, the DSP's answer, the load area | the UI task reads and publishes; the ISR sends, waits, resends; the DSP writes and answers | chunks arrive whole and in order; no note is lost; it settles |
| pool fill, level builder | `waverider/pool.c`, `sharc/build3.asm`, `pool.asm`, `dclk.asm` | the fill's state, the request directory, the regions, what voices play | fill, build a pair of frames, name a table, crossfade | a voice never plays a half-built table; the pool ends up being what the list says |
| UI pages | `waverider/page.c`, `wtlist.c`, `wtmenu.c` | rows, cursors | keys, drawing | a row still names the table it showed |
| events, song position | `waverider/events.c`, `sync.c`, `sharc/sync.asm`, `modulator.asm` | event counters, the position | one call per frame | the position is continuous |
| DSP engine | `waverider/sharc/*.asm` | per-voice state | one block at a time | sample arithmetic |
| LFO extension | `csrc/lfo4/` | side tables beside the stock values | copy, save, load, edit | values follow their slot |
| probe's host | `tools/dn2poll.py`, `dn2live.py`, `dn2port.py` | the request waited for, the round, the spans read, the watches; the port | a poll thread steps, a pump handles replies, HTTP threads reopen and change watches | a watch is of one round; a silent probe is not flooded; a probe is found when it is there |
| mods: platform and bus | `src/dnfw/mods`, `cli/mods.py` | the image: MAIN OS, the area appended to it | choose, check, split, edit, join, write, over several commands | every mod stays in effect; the image can be taken apart again; order does not matter |
| progress | `src/dnfw/progress.py`, `tools/dn2progress.py` | a file for each job | a job writes, a pane reads and prunes | no half file; the last word stands; a job that has gone is shown gone |
| rest of the package, scripts, site | `src/dnfw`, `scripts`, `site`, `tools` | files | sequential | round trips |

**How they interact.** DNX (a program on a computer) makes one transfer at a time
over the instrument's data API; its handlers, the pages and the pool all run on
the UI task, so two handlers never interleave, but a +Drive write inside one can
fail, and the power can go anywhere. Every commit steps `wr_store.changes`, which
the pool compares with what it saw at its last fill. The pool asks the loader for
one extent at a time; the audio ISR preempts the UI task to send chunks in place
of frames; the DSP's load command writes them; the DSP's idle loop builds what the
request directory names, while its render reads what the builder named.

On the computer, the probe's host has four threads over one lock and two queues, and
the instrument at the other end may be slow, frozen or flashed. `dnfw mods apply`
reads an image, perhaps one it wrote before, and applies one mod after another to it;
what the mods share (the loader, counts, event hooks) the platform takes out before
each and puts back after it. A job and the pane share a file and nothing else.

**What is hard.** Losses of power and failed writes between the writes of a
commit; several writers of one list, one of which keeps its view for minutes; the
ISR against the UI task; lost, garbled and late messages with a sequence that
wraps; a builder and a reader of the same regions with a fade between them; replies
that belong to an older round, and a port that changes under the threads that use it;
bytes that run somewhere else than where they were; a file replaced, read and removed
by two processes, either of which may stop anywhere. The
hazards that matter most, with the line where each bites and the properties that cover it, are
`hazards` in `PROJECT.json`.

## The modules

| module | models | proofs |
|---|---|---|
| `StoreSpec` | what the store promises: one index, changed one entry at a time | |
| `WrStore` | `store.c`, `route.c`, `wt_store_delete`: implements `StoreSpec` | `WrStoreProofs` |
| `ListSpec` | what the pool lists promise: one list a project, with a version that clients compare | |
| `WrRecords` | `records.c`, `poolroute.c`, `projects.c`, the edits of `wtedit.c`: implements `ListSpec` | `WrRecordsProofs` |
| `LoadSpec` | what the loader promises the fill: chunks come to their places one at a time, in order | |
| `WrLoader` | `loader.c` and `load.asm` over the frame exchange: implements `LoadSpec` | `WrLoaderProofs` |
| `WrBuild` | `build3.asm` and the contract its loads keep | `WrPoolProofs` |
| `WrVoices` | `pool.asm`, `dclk.asm` over `WrBuild`: a voice while its tables change | `WrPlayProofs` |
| `WrPool` | `pool.c` over `WrBuild`: the fill; implements `WrBuild`'s contract | `WrPoolProofs` |
| `WrPlay` | `WrPool` and `WrVoices` together, over one builder | `WrPlayProofs` |
| `Dn2Poll` | `dn2poll.py`, the port of `dn2port.py` and `dn2live.py` | `Dn2PollProofs` |
| `DnfwMods` | `mods/platform.py`, `bus.py`, `matrix.py`, `Extent`, a mod's `apply`, `cli/mods.py` | `DnfwModsProofs` |
| `DnfwProgress` | `progress.py` | `DnfwProgressProofs` |
| `MC...` | the instances TLC checks, with their symmetry | |

### WrStore

A group is `sb[g]` (generation and index hash, or None) and `idx[g]`; `data[n]` is
slot n's extent. `Chosen` is `wr_store_index`. DNX's transfer is opened with
everything its chunks will have put in the stage (`OpenTable`, `OpenRename`) and
ends in `CommitTable`, `CommitRename` or `Abort`. A commit is a `job`, whose three
drive writes are three steps, `WriteTable`, `WriteIndex`, `WriteSuperblock`, each
with one of four outcomes: it succeeded; or it returned an error and the medium
holds the old bytes, the new, or neither. `PowerLoss` may come between any two
steps, or cut the write under way in one of the last three ways. `Delete` may come
while a transfer is open, since the page can delete then.

A hash is the content it was computed over; the field checks of an uploaded entry
are one Boolean. `acked` and `damaged` are history: what a writer was last told,
and which slots an unfinished upload has written to.

### WrRecords

`rec[p]` is project p's two sectors. Reading picks the valid one with the higher
generation; `Write` writes the other one. `ClientRead` gives a client a view and
its generation, `ClientWrite` compares it as `wp_commit_fill` does. `PageAdd`,
`PageClear`, `Save`, `Load`, `Create` are the other writers; `StoreCommits`,
`StoreFails` and `Refill` are what the store and the pool do to them. A handler is one
step: it has one sector write, whose outcome is the step's parameter. `stale` is
`wr_store.changes` differing from what the pool has seen, and `Counts` the step of
`changes`. A superblock's write that returns an error and landed changes what is
playable and steps nothing (`route.c:391-395`): that is `StoreFails`, and `untold`
remembers it until the next change that is counted. `KeepsOneList` is `ListSpec`
with `Shown`, what a reader finds, for its lists: neither sectors nor torn writes are
left in it, and a client's write is a swap of the version it read.

### WrLoader

Chunk n is the number n. The UI task's steps are `Ask`, `Read` (a slot is being
filled), `Publish` (`head` is stepped) and `ReadError`; the ISR's is `Exchange`,
which does all that `wr_frame_src` does in one call: reads the answer, counts it,
and sends a chunk or lets the frame pass. The DSP handles the frame in the same
step, since only the answer's delay is visible: `replies` holds the answers still
under way. What the wire does to a frame carrying a chunk is chosen from `Wire`. A
garbled chunk is `Garbage` in its place; `whole` is the chunks of which a copy came whole.
`DeliversInOrder` is `LoadSpec`, which knows nothing of the queue, the frames, the
answers and their sequence: the next chunk, or garbage, is written to its place,
perhaps more than once, and counts as accepted only after a copy of it came whole.

### WrBuild

The builder's words are its variables: `seen` is GEN against the directory's
generation, `j` and `f` are J and the pairs done, `region`, `spare` and `built` are
REGION, SPARE and BUILT, `age` the blocks since the swap that was last recorded. A
call is two steps, since the load command and the blocks preempt it tens of times:
`Start` (the decisions at its head and the copy of its frames) and `Finish` (the
levels are in the spare; after the last pair, `Swap`). `Skip` and `Wait` are the
calls that build nothing. `LoadCommand` is all the ColdFire may do: rewrite while the
magic is clear, set it over a new generation.

That the copy is one step is an assumption about time: it takes 80,000 of an
exchange's 266,000 cycles, and a chunk loaded after the magic was cleared comes at
least an exchange later. A pair of frames is the table it is of, which is what tells
a half-built or mixed table from a whole one; the FFTs are left out.

### WrVoices

One oscillator of one voice beside the builder: `Play` is a block, in which the slot
is looked up (`Lookup`) and DCLK does one of `Cut`, `Steady`, `Hold`, `Jump`, or the
oscillator is not run at all. What a block reads is `reads`. `named`, `late` and
`dropped` are history, to say which fades the 160 blocks are for.

### WrPool

`Pass` is one call of `wr_drive_poll`, an action per state; `Arrives` is the loader
delivering a message (a pair of frames, the directory, the magic), as `LoadSpec`
promises but for the late copies named under Limits; `ReadError` and `Fails` are its two ways
to stop. `Change` is what the writers of `WrStore` and `WrRecords` do to the list and
the tables, at any moment of a fill. `KeepsContract` is `BuildSpec`: every step of the
fill is one the builder allows.

### WrPlay

The ColdFire, the builder and a voice as they run together. `WrVoices` knows of the
ColdFire only the builder's contract; here the fill is what loads, and the voice reads
what comes of it: `HeardIsRight` goes from the list and the store to the levels a voice
finds under its slot.

### Dn2Poll

`step` is `Lose`, `Poll` or `Search`, and `on_sysex` is `Handle`, with a disjunct for
each thing a reply can be: `Refused`, `Greeted` (`_hello`), `Reading` (`_stats` and
the round it starts), `Peeked` (`_watch`, `_peek`) and `Noted`. Both hold the
poller's lock, so each is one step. A reopen is three, `Close`, `Open`, `Restart`:
the holder and the poller have locks of their own, and between them the pump goes on
with what it had taken (`Service`). A round's PEEKs are a set, and a reading is
whether it was asked in this round: `now`, of which the code knows nothing.

Time is in ticks. An age stops one past the last value the code compares it with, so
the delays' order is kept and no clock grows. The instrument answers in order, may
refuse or garble, may freeze, and may be flashed, after which the open handle hears
nothing (`deaf`) until a reopen.

A message keeps the age it got when the callback appended it: the pump passes its
arrival time on, so the PEEK that the handling of it sends is as old as that
(`NextPeek`), and may be given up at once. A garbled reply is one of no use that keeps
its number and kind; one of a PEEK too short to decode raises `struct.error`, which
nothing catches (`dn2probe.py:153`, `dn2live.py:232`): `Ends` makes it the pump's last
(`pump`), and from then on nothing is taken or handled. `SetWatches` is one step,
though `Live.watch` reads the list before it takes the lock (`dn2live.py:186`, `196`).

### DnfwMods

An image is where each byte runs: `content` (MAIN OS at its stock length), `copy` (the
bytes a hook displaced, as the area's code replays them), `moved` (the parameter table
in its copier's chunk), the mods with chunks in the area, and the dispatchers'
`tables`. A byte is who wrote it: stock, a mod, a count of the bus, or an event's jump.
`Runs` is `platform.read` and `Put` is `platform.write`; `Detach` and `Attach` are the
bus's; `Fits` and `Applied` are a mod's `apply`, from the split to the join. The
mods are data (`Def`): what each edits, displaces, guards, adds, subscribes to, and
which of the platform's reads and writes it uses, since not all do. What every mod of
the registry keeps to is `RegistryAssumption`.

A command (`Choose`, `Apply` for each mod, `Write` or `Refuse`) may read stock or
what the last one wrote.

### DnfwProgress

`Begin` is the temporary file, `Rename` one try of `os.replace`, which Windows refuses
while the pane is between `Open` and `Close`; `Kill` may come anywhere. `Show` asks for
the process after the file was closed, and `Unlink` is a prune's, on what was read
before. `gaveUp` is history: the last write was dropped after its last try.

A record is the state, the count, whether the job has left, and `nth`, which number of
record it is, of which the code knows nothing. `Update` takes any count, a lower one
too: `run_command` sets it from whatever `k/n` the command prints
(`progress.py:215-217`). `Conclude` is `update(state=...)`, with which `run_command` and
the test runner say how it went before `Finish` (`__exit__`), which then keeps that.

## The runs

Bounds are CONSTANTS of the modules, named in their comments.

| run | asks | bounds, and why they are enough |
|---|---|---|
| `store` | everything `WrStore` states, with failed and torn writes and losses of power | two slots (one changed, one not), two tables and two names (a change is visible), three generations: both groups written, then the first one again |
| `store_reupload` | `docs/waverider-store.md`'s "a failed write costs that attempt only": **violated** | two generations |
| `records` | everything `WrRecords` states, and that it implements `ListSpec` | one DNX client beside the page, SAVE, LOAD and CREATE NEW; two store slots, so that order and full pools occur; three generations of the two projects together; a failed write leaves a second list possible and the next may fail once it is settled |
| `records_lost_edit` | `poolroute.c`'s "two writers can't lose each other's edit": **violated** for generation 0 | two clients, one store slot (lists differ by one entry and by follows-store) |
| `loader` | everything `WrLoader` states, that it implements `LoadSpec`, and that it settles | sequences modulo 2 (shorter than any window of answers, harder than 2^16), answers three exchanges late, two timeouts to give up, six chunks: every slot of the queue is used twice |
| `play` | that what is named is never written, that the guard covers the fades it can, and that what is heard after a fill is what the list and the store say | two entries (one is rebuilt while the other plays), two pairs, fades of up to two blocks under a guard of three; one change or error, after a first fill or during it |
| `pool` | the contract, the levels as loaded, and that the pool becomes right and stays so | two entries, two pairs, two store slots with two contents; two changes or errors, so that one can come while another's fill is under way |
| `pool_half_table` | `pool.c`'s "never half a table": **violated** after a read error | one error |
| `probe` | everything `Dn2Poll` states, and that a probe is found or called absent | one watch of two PEEKs beside lfo4's timers, so a round can be cut at each; a request is given up one tick before its probe is lost, so that both happen; two messages under way; one fault (a lost, garbled or short answer, a freeze, a flash) and one press, each at any moment |
| `mods` | everything `DnfwMods` states | six mods for the six ways to be one: on the platform or not, displacing a site, editing inside one, editing the table, copying it, adding to a count and subscribing; the sixth, of no registry, shares bytes and RAM with others, so conflicts occur; up to three mods a command, any number of commands |
| `mods_two_commands` | `matrix.py`'s "will not build it": **violated** by two commands | as `mods`, with a refused pair |
| `progress` | everything `DnfwProgress` states, and that it settles | three counts, in any order, two updates before the job says how it went, two tries of a rename, one reuse of the pid |

`CHECK_DEADLOCK FALSE` stands in the loader's configuration only: there the model
stops at its bound on chunks or, as the code, after it has given up; exchanges go
on in both.

**Fairness.** `WrLoader`, `WrPool`, `Dn2Poll` and `DnfwProgress` state it. In `WrLoader`
the UI task's pass and the frame exchange run for ever (weak fairness on `Read`,
`Publish` or `ReadError`, and `Exchange`). Strong fairness on an exchange with a frame
without note events, and on one that sends, says that quiet frames come two in a row
again and again: event masks stand for one frame. `Settles` further assumes that from
some moment chunks get through; without it a wire that loses every chunk ends in the
loader giving up, which settles too, but a DSP half that refuses every copy keeps it
sending for ever, since refusals count towards nothing (`loader.c:20-22` promises
otherwise).

In `WrPool` the UI pass, the deliveries, the blocks and the DSP's idle loop each go on
for ever: weak fairness on each, none on changes and failures. `Converges` assumes the
changes stop; it excuses a loader that has failed, and an error since the last fill,
which nothing in the code retries until the next change.

In `Dn2Poll` the poll thread and the pump loop for ever, a reopen that was started ends,
the instrument gets to its requests and time passes: weak fairness on each. No button is
pressed and no fault happens by itself, so `IsFound` says nothing of a deaf handle that
nobody reopens. `Handle` and `Service` need a pump that goes on; once a short PEEK has
ended it, the code starts no other, so `IsFound` assumes it has not, and `SaysAbsent`
also says that without one the page ends up showing the probe absent. In `DnfwProgress`
the pane redraws each second, a write that was begun goes on, and the process that got
the pid ends; the job itself may hang, and is never killed of necessity.

**Limits.** Eight things the modules have and no run asks for, since the answer is known:
with a read error in its first part a commit takes the other group for the current one
and writes over it (`ReadErrors` in `WrStore`; the runs and the safety proofs keep it
FALSE, and `docs/waverider-store.md:44` does not say so); a refusal is read again
while it stands, so copies of a chunk follow each other, and one garbled after one
accepted stays in the load area (`load.asm:31-32` says it is sent again); a fade
held back by another, or by an oscillator at level 0, reads a region while it is
rebuilt (`PromptFadesIntact` is about the others, where `docs/waverider-stage3.md:162-164`
means all); a probe slower than `GIVE_UP` and faster than `LOST_AFTER` has requests
queueing up in it (`SilenceBound` is about a silent one, where `dn2poll.py:18-21`
promises one in flight), and a short PEEK ends the pump thread for good; a job's last
word is dropped after five refused renames (`LastWordStands` excepts it, where
`progress.py:13-16` says it is always written), and one that ends between the pane's
read and its question is shown lost until the next redraw (`Settles` has it corrected);
and a store's or a list's write that reports an error and landed is not counted, so the
pool goes on with what it had until the next change (`PoolUpToDate` excepts both).

## What is proved

For every value of the constants that meets the modules' ASSUMEs (no bound on
slots, projects, clients, queue length, lag, generations):

- **The store** (`WrStoreProofs`), if the reads of a commit succeed: an
  acknowledged entry stays (`AcknowledgedIsDurable`); only an unfinished upload
  costs a table, and its own (`OthersTablesIntact`); no step writes a sector of
  the current group (`CurrentGroupSafe`); the whole implements `StoreSpec`
  (`GroupsImplementOneIndex`). None of these is inductive: writing the index of
  the other group must not make it current, which needs that its generation is
  lower (`GroupInv`); the table under way must be in its extent before the entry
  that names it (`UploadInv`); and the superblock must be written beside the index
  it is about (`JobInv`). The central lemmas say which group is current after a
  write of the other's index and after a write of its superblock.
- **The lists** (`WrRecordsProofs`), if reads succeed: `AcknowledgedListIsDurable`,
  `PoolFollowsTheList`, `CurrentSectorSafe`, `CompareAndSwapWorks`, and the whole
  implements `ListSpec` (`SectorsImplementOneList`): whatever becomes of a sector write,
  its project's list is replaced and its version one higher, or both are as they were
  (`WriteEffect`, from which the rest follows), and a client's write is a swap. The
  invariant adds that a client's view is fresh exactly if it holds the current generation.
- **The loader** (`WrLoaderProofs`), for any wire: `QueueNeverOverwritten`,
  `AcceptedChunksWereWritten` (of each a copy came whole), `LateAnswersAreOrdered`,
  `EventsAreHeardOnce`. The
  argument is that the answers under way are, in order, about the last chunk
  accepted and then about the one in flight (`AnswersInOrder`), so with two
  sequences or more an old answer cannot be taken for a new chunk's, however long
  it stands; and that an answer that accepts was given after the chunk came whole,
  even if a copy of it that comes later does not.
  The whole implements `LoadSpec` (`LoaderDeliversInOrder`): an exchange of the ISR, the
  DSP and the wire is a write of the next chunk, the acceptance of one that came whole
  (perhaps with a write of the one after it), the end, or nothing.

- **The builder** (`BuilderSafe`), under the ColdFire's contract: regions apart, and
  what is named in a generation is the whole table as loaded. Inductive with
  `Copied`: the pairs done so far, and the one under way, are those of J's table as it
  stands.
- **Voices** (`RegionsStayApart`, `FadesAreGuarded`), for every guard longer than the
  longest fade. Of the tables of the last block only the one just swapped can be the
  spare (`Prompt`), which needs that every region a voice knows is named, the spare or
  dropped (`Tracked`); from that block on the fade and the guard are counted together
  (`Within`), and the first pair waits for the guard (`Guarded`).
- **The fill** (`PoolKeepsContract`, `PoolBuildsAsLoaded`, `PoolSettlesRight`), for any
  number of entries, pairs, slots, changes and errors. `Protocol` says which message is
  under way in each state and what the magic and the builder's generation then are;
  that makes every step one of `WrBuild`'s, so its lemmas apply. `Delivered` says which
  pairs hold what the store says, as long as nothing has changed since `begin`.
- **The pool as it plays** (`PlayImplementsBoth`, `PlaysRight`): the fill, the builder
  and a voice together are a behaviour of `WrPool` and one of `WrVoices`, so everything
  proved of either holds of the whole, and a slot whose fill has settled is heard as the
  list and the store have it (`HeardIsRight`).

- **The mods** (`EditsStayInEffect`, `BusStaysInEffect`, `SplitAndJoinAgain`, `OrderDoesNotMatter`), for any
  registry that meets `RegistryAssumption`, any counts, events and commands. The
  invariant says who wrote each byte where it runs (`Explained`: a mod of the image, the
  bus as it is due, or stock), that the copies are of the sites of the mods in the area
  and no two overlap, and that the table moved is the table as the image had it. A step
  keeps it because it looks before it writes: a mod's bytes and the bus's are stock
  where they run, so nothing that is in effect is written over. `Bare` is the same
  image between a split and a join. That the order does not matter needs that an event's
  handlers are the one sorted enumeration of its subscribers, which is proved without
  induction: a subscription's rank (those before it, and one) grows with the order, so it
  is an injection from n subscriptions into 1..n, hence onto it. It takes that a mod's
  subscriptions are finitely many (`ModAssumption`; in the code, a list).
- **The probe's host** (`WatchesAreOfOneRound`, `SilentProbeIsLost`), for any delays,
  watches and faults. The bound is not inductive; with `Silence` it is: each request but
  the one under way was given its `GIVE_UP` since the last reply arrived; the first of
  them counts from there too, as a PEEK is as old as the message that led to it. It takes
  that `GIVE_UP` is no longer than `LOST_AFTER` (`PollAssumption`; 0.5 and 2 seconds).
- **Progress** (`LastWordAlwaysStands`, `ShownIsAlwaysTrue`, `OnlyGoesOn`), for any
  number of counts, tries and reused pids. Counts may go back, so the argument is by the
  records: only the last one is ever written (`FileInv`, `PastInv`), so a file is never
  older than the one before, what the pane holds is no newer than the file (`ReaderInv`),
  and what it shows is a record that was (`ViewInv`). `OnlyGoesOn` is about every step: as
  long as there is a file, neither it nor what is shown goes back to an earlier record,
  and a file that says how the job ended keeps saying so, with that count.

Types are proved for all modules, and for the store and the lists also with read
errors (`StoreTypes`, `RecordsTypes`). Model-checked only: liveness (`Settles` of the
loader and of the progress files, `Converges`, `IsFound`, `SaysAbsent`), as fairness and
ENABLED are out of the proof system's reach; and every property that a run shows violated.
Two theorems are about state predicates no run checks by themselves, since one it does
check implies them: `AcceptedChunksWereWritten` (`LoadSpec` has it as a guard) and
`AcknowledgedListIsDurable` (in `ListSpec` a list stored is one promised or tried).
`PoolSettlesRight` is what `HeardIsRight` says, before the voice's lookup.

## Not modelled

- Arithmetic of samples (the DSP engine, the FFTs): floating point, no
  interleaving inside a block; the repository checks it bit for bit elsewhere.
- Drawing and key handling; the firmware's own probes.
- Most of the Python, and so most of the repository's lines: codecs, patches, reference
  models of the DSP's arithmetic, and 358 scripts that build, emulate or report from top
  to bottom. They keep no state and nothing runs beside them; what could be said of
  them is what they compute, which the repository's tests compare with real images.
- In the probe's host: the rate and the calibration (a period is below the model's
  tick), what the readings say and which changes a watch marks, the log, the event stream;
  two HTTP threads that reopen at once, of which the holder's lock makes one wait.
- In the mods: the area's layout and its loader, sections other than MAIN OS, the
  rebuild and its verification, and what a mod's code does. A count of the bus is one
  byte of the model, and `Runs` follows a range byte by byte.
- In the progress files: steps, details, the tree of parents, the drawing.
- The compiler's order of plain and volatile writes in `loader.c`, and the wrap of
  `head` and `tail` at 2^32 (a month of continuous loading).
- In the pool: display spans, names and counts; tables of different sizes; two
  oscillators at once (they share nothing but the regions, which they only read).
  `pool.c:22`'s "an entry being rebuilt is silent meanwhile" is older than the spare
  region: the old table plays on, as `build3.asm:18-19` says.
- Two transfers at once from DNX: `route.c:122` says it makes one at a time.

## The plan

1. `WrStore`, `WrRecords`, `WrLoader` with their proofs, and the abstract
   specifications they implement: done.
2. `WrBuild`, `WrVoices`, `WrPool`, `WrPlay` with their proofs: done. Left: tables of different
   sizes (a stale call writes rows of the old size), a second oscillator.
3. `Dn2Poll`, `DnfwMods`, `DnfwProgress` with their proofs: done.
4. The erase control: in `WrStore` (both groups) and `WrRecords` (both sets of
   sectors), with its confirmation by counts.
5. `WrSync`: the song position; its phase as a 32-bit number.
6. `csrc/lfo4`: the side tables through copy, save and load.
