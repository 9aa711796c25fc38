# A TLA+ model of ddpdemo

ddpdemo stores blocks of event data in HDF5 files and moves them between stores. This directory
holds TLA+ modules that model it, TLC configurations that check them on small instances, and proofs
that TLAPS checks for every instance. Line numbers refer to `src/`.

## 1. The system

| Component | State | Operations | Talks to |
|---|---|---|---|
| `StorageKey` (`include/ddpdemo/StorageKey.hpp`) | event, detector, geoLocation | getters; invalid values | everything |
| `KeyedDataBlock` | key, size, owned or borrowed data | `getDataStart` | stores, modules |
| `DataStore`, `makeDataStore` (`DataStore.hpp`) | none | `write`, `read`, `getAllExistingKeys`; plugin factory | the modules call it |
| `HDF5KeyTranslator` | none | key to path, path to key | `HDF5DataStore` |
| `HDF5FileUtils` | none | paths of a file's datasets, files of a pattern | `HDF5DataStore` |
| `HDF5DataStore` (`plugins/HDF5DataStore.hpp`) | the open file, its recorded name and flags, prefix and mode | the `DataStore` interface, `openFileIfNeeded` | HDF5 library; other stores on the same files |
| `TrashCanDataStore` | none | the `DataStore` interface, keeping nothing | the disk modules |
| `DataGenerator` | sizes, store, working thread and its locals | `conf start stop unconfigure`, `do_work` | one store |
| `DataTransferModule` | two stores, working thread | the same | two stores |
| `SimpleDiskWriter`, `SimpleDiskReader`, `GetAllKeysTest` | values of the configuration, a store, working thread | `configure start stop unconfigure`, `do_work` | one store; each other's files |
| schemas, demo configurations | - | defaults; which modules and stores an application has | generator, transfer |
| HDF5, HighFive, file system; appfwk, `ThreadHelper` | external | | |

What is hard about it, and what makes each part correct:

- **A store is a small state machine around a cached file handle.** A call opens a file only if the
  recorded name or flags differ, and records them before the open can fail. A call must only use the
  handle of the file of its key; the block it acknowledges must be durable, found again, listed
  once, and never mixed with another.
- **A write is five library calls** (exist, create group, create dataset, write, flush). Any can
  fail, the process can die between any two, and another store of the process can come between. What
  is created and not yet written can be listed, and read, where `read` makes room for the storage of
  a dataset and copies its extent.
- **Names are built and parsed** through `int`, `size_t` and padding, and files are found by a
  regular expression that is written down apart from the function that joins their names.
- **Two threads per module** without a lock: commands against `do_work`. A stop must end, must not
  cut an event or a copy, and a configuration that failed half way must not be run with.
- **Nothing catches an exception in `do_work`**, so every store error there ends the process, and
  the files it leaves are where the next process begins.
- **Generator and transfer share a directory** and a prefix, and in one application the library: the
  listing of one runs into the files the other is writing.

## 2. The modules

| Module | Models | State | Actions |
|---|---|---|---|
| `StorageKeys` | StorageKey, HDF5KeyTranslator, the naming in HDF5DataStore | none (operators) | - |
| `HDF5FileUtils` | the descent through the groups of a file | none (operators) | - |
| `KeyPairs` | pairs of keys, for `StorageKeys` | two keys | `Compare` |
| `KeysMC` | `KeyPairs` and, beside it, every small file for `HDF5FileUtils`; the values | those, a file | `CompareKeys`, `OpenFile` |
| `DataStore` | abstract: what `write()` promises | `stored`, `durable`, `acked` | `Store`, `Sync`, `Ack`, `Die` |
| `HDF5Files` | external: the HDF5 library and the file system | open handles, `fs`, `disk`, `readWrite`, `torn` | operators for opening, closing, flushing, and what a crash leaves |
| `HDF5DataStore` | the stores of one process | below | one per library call, below |
| `DAQModule` | external: commands and the working thread | `rc`, `cmd`, `running`, `worker`, `died`, `inOrder` | operators the modules build their actions from |
| `DataGenerator` | the module of that name | configuration, locals of `do_work`, what is stored | one per assignment, call or test that another thread can come between |
| `DataTransferModule` | the module of that name | configuration, keys to copy, block in hand, what is stored | likewise |
| `SimpleDisk` | SimpleDiskWriter, SimpleDiskReader, GetAllKeysTest, TrashCanDataStore | which of them runs, its configuration and locals, what is stored | likewise |
| `Pipeline` | a generator and a transfer over three HDF5DataStores of one process | that of `HDF5DataStore`, and where the two `do_work` are | the steps of the stores, and the calls the two make |
| `HDF5DataStoreMC`, `PipelineMC` | values for TLC | - | - |
| `StorageKeys_proofs`, `KeyPairs_proofs`, `HDF5DataStore_proofs`, `HDF5Callers_proofs`, `Pipeline_proofs`, `DataGenerator_proofs`, `DataTransferModule_proofs`, `SimpleDisk_proofs` | theorems | | |

`HDF5DataStore` extends `StorageKeys` and `HDF5Files` and instantiates `DataStore`. `DataGenerator`,
`DataTransferModule` and `SimpleDisk` extend `DAQModule`; the stores they use are abstract
write-once stores, which is what the refinement says the HDF5 stores are. `Pipeline` extends
`HDF5DataStore` and puts two of the modules on the detailed stores.

**StorageKeys.** A text is a number with the zeros before it, a word, or empty. `ToSizeT` is the
conversion to `size_t` (modulo `SizeMod`); `Extract` is `stringstream >> int`: an empty text leaves
the invalid value, a word gives zero, a value out of range is clamped. A file name is the sequence
of the words and numbers it is joined from, the prefix included, so a prefix may look like the
beginning of a file name (`fake_event_1`). `Ending` is what `getFileNameFromKey` (231-251) appends
to the prefix, `EndingRegex` what `getAllFiles_` (253-265) appends to it, each translated from its
own function; `matchesPattern` fits the elements of the expression to those of a name one by one
(`\d+` to a number, the unescaped dot to any one character), as `regex_match` does. A prefix stands
for directory and prefix together, and `PrefixRegex` says which prefixes it matches when it is read
as a regular expression.

**HDF5DataStore.** `filePtr`, `fullNameOfOpenFile`, `openFlagsOfOpenFile` are the members of the
same names (223-229). `pc` says where a call is: `open` (267-285), `group` to `flush` (160-184),
`read` (103-137), `list` and `paths` (193-215), `return`, `throw`. `fs` is what the library shows to
every store of the process, `disk` what would survive its death, `acked` a history of the writes
that returned. Of the library the model (`HDF5Files`) assumes:

- the stores of a process share the library's state, so one sees what another has created;
- opening for writing a file that is open for reading only fails, other opens of an existing
  readable file succeed, creating what exists fails, and nothing is created through a handle of a
  file open for reading only;
- what `flush()` was called for, or whose file was closed, is durable; of the rest any part may
  survive a crash that leaves no entry without the one that holds it, and a file that was created,
  never flushed and lost all its groups may be unreadable (`torn`);
- the new file of `filePtr.reset(new File(...))` is opened before the old one is closed (277).

Everything `read` returns is decided by the storage its dataset has at line 123, and storage is only
ever added, so a read that finds its block whole, or no dataset, is one step (`ReadBlock`): what its
library calls find one after the other is what one moment shows. A dataset without storage is where
they differ (`SizeBuffer`, `Overrun`): the buffer has no bytes (125), and the copy (126) does not
fit it, also when the data was written in between. What follows is undefined. Two of its outcomes
are modelled: the process ends there (`UndefinedEnds`), or it goes on with a block of size zero; a
later end is that of any process (`Crash`). A null `filePtr` that is dereferenced may end the
process likewise (`Undefined`). The constant `Reuse` tells whether a caller goes on using a store
that has thrown. The modules and unit tests of this repository never do: nothing in `do_work`
catches, so the process ends; a caller of the interface may.

**HDF5FileUtils.** A file is a group, an object with named children; a path is the sequence of names
the code joins with '/'. The walk over the top level (63-74) is the one over a group (37-58) without
a parent path. `DataSetPaths` is the reference: the paths that can be followed to a dataset.

**DAQModule.** One command at a time; a command that throws changes nothing but what it had
assigned, and the process may end while a field is looked up that the payload lacks (`ConfAborts`).
The code registers its commands without states, so any command may come at any time. `inOrder` is a
history: it stays true as long as run control keeps the order conf, start, stop, unconfigure. Safety
properties of the modules are claimed while it is true; that a stop ends, always.

**DataGenerator.** `do_conf` is three actions, since the working thread may run between its
assignments (59-65); likewise the allocation (110), the block (121) and the write (126) of
`do_work`. If the store is replaced during a write, or the block is longer than the buffer, the
process may end (`Undefined`) or go on. A payload field may be missing (`Absent`, which is no count
or size; zero is one). `ToInt` is the narrowing of the `size_t` location to the `int` of a key, and
`GeneratorAssumption` bounds counts and events so that every id fits: beyond two thousand million
events the code's own counter overflows.

**DataTransferModule.** Datasets arrive in the input first without and then with their data, from a
writer in another process. What is listed before its data is there (`"unwritten"`) overruns its
buffer when it is read (`ReadOverruns`); if the process survives that, an empty block is copied
(`"empty"`). A read that fails is taken for a missing dataset and swallowed
(`HDF5DataStore.hpp:129`); nobody has set the size or the data of the block that comes back
(`"unset"`), and what its write puts on disk, if that does not end the process, is `"garbled"`. A
`conf` out of order destroys a store under a call of the working thread (`dangling`, 60-62).

**SimpleDisk.** One application runs one of the three modules; when it has exited or died, the same
or another starts over the same files. `ToInt` is the narrowing of the reader's `size_t` ids to
`int`. A write that fails may leave the group of its event without a dataset (`GroupOnly`), or the
dataset without its data (`Unwritten`); `Uninitialised` is the block of a read that found nothing.
What is undefined is five named operators: a call of a destroyed store (`UsesDestroyedStore`), a
fill loop that reads its length anew and passes its vector (`FillOverruns`, 127-131), a trash can
that prints four bytes of an empty block (`PrintsEmptyBlock`), a read of an unwritten dataset
(`ReadOverruns`), and the unset size that the reader prints (`PrintsUnset`, 141), which has no other
effect. Two applications at the same time are not modelled: it is assumed that the library keeps a
second process from opening a file.

**Pipeline.** Generator and transfer are loaded into one application, with one store each for what
is written, listed and combined. The demonstrations are two applications, run one after the other
(`src/README.md:15-19`), whose stores have the prefix and modes that `PipelineMC` takes over; an
application may load any modules, and together the two meet in the library. Two processes that run
one after the other over the same files are what `DataGenerator` and `DataTransferModule` have.
Every call they make is made of the steps of `HDF5DataStore`, interleaved, under its rules for
opening a file twice. `todo` keeps the datasets as listed, so one that were listed twice would be
copied twice. An exception ends the process, which starts again from the files; so may following the
pointer of a block nobody filled, where the library fails, and a read of a dataset whose data is
still to be written. Events are counted from one and locations from zero, so keys have no negative
id, and with a key the one a listing reports of it, without its detector, is a key too
(`PipelineAssumption`). The generator's fragments come in the order of its loops
(`FragmentsAssumption`, `DataGenerator.cpp:116-129`).

## 3. Runs and bounds

| Run | Question | Bounds | Result |
|---|---|---|---|
| `keys` | are names recovered, distinct, and found again? is every dataset of a file listed once? | 8-bit int, 16-bit size_t, ids at every boundary of sign, padding and width, all 10 000 pairs; every file of two names nested three deep | holds |
| `keys_identify_block` | does the key identify the block? | two detectors | **violated**: the detector is in no name |
| `hdf5_one_store` | one store, dropped when it throws: durability, read-back, placement, is it a `DataStore`? | three keys in two files, one id negative, two payloads, faults, crashes | holds |
| `hdf5_two_stores` | a second store reads and lists while the first writes (or both write): are listings complete, and is no dataset left without data? | three keys in two files, one payload, no faults or crashes | holds |
| `hdf5_unwritten` | is there room for what `read` copies? | two keys of one event, one payload | **violated**: not for a dataset whose write has just begun |
| `hdf5_reuse` | a store is used again after it threw | two keys in two files, two payloads, faults, crashes | nothing acknowledged is lost, no place holds two blocks |
| `hdf5_stale_handle` | is filePtr the handle of the file of the call, with reuse? | two keys | **violated** |
| `generator` | safety of a run in order, with failing writes, kills and restarts; does a stop end in any order, and does every step bring its end nearer? | one store, counts of zero, two and the default of five, missing fields, two events, 4-bit int | holds |
| `generator_defaults` | are the schema's defaults used? | as above | **violated** |
| `transfer` | safety of a copy in order while blocks arrive, with faults, unnoticed read errors and kills; does a stop end in any order, and does every step bring its end nearer? | two stores, one of them fed, two keys | holds |
| `disk` | writer, reader and lister follow one another over one directory: gaps, wrong blocks, mixed configurations, causes of undefined behaviour; does a stop end? | one file store and the trash can, 8-bit int, an event id of 257, events of zero or four integers, two events, faults and kills | holds |
| `pipeline` | do generator and transfer disturb each other through the library? is a finished copy on disk? does a copy end, and does every step leave less of it? | three fragments of two events, one payload, one end of the process at any step | holds |

Why the bounds are enough. The HDF5 hazards need two files (a stale handle names the other one) and
two datasets in one file (a group that exists and one that does not); both are present, and what the
key sets leave out the proofs cover for any number of stores, keys and blocks. An 8-bit int has
every boundary a wider one has (sign, padding to 3 and 4 digits, invalid value, clamping), and the
width is a parameter of the proofs; 257 is the least id beyond an int whose low bits are those of an
event the writer makes. Two names nested three deep give the descent a sibling after a group and a
group in a group. Two events of two fragments are the least in which a cut event and a repeated one
differ from a whole one. `MaxEvents` stops the working threads of the generator and the writer from
beginning a third event; without it a run has no end, and no property depends on it. `Fed` names the
stores a writer elsewhere fills; a second one would double the input, which a copy never mixes.
`MaxLives` lets the pipeline end and start again once: `NoStoreThrows` and `OutputFromInput` are
about the first life, `CopyOnDisk` and `CopyEnds` about both. After that it may stop for good, as
after an exception, so the run is checked without deadlock detection; every other run has it on.
Commands and restarts are not bounded.

`ReadFindsAcked` excepts negative ids because the code does not look for them where it put them
(`ReadLooksWhereWritten`). `AbandonedOnlyByFailure` excepts the two steps that do leave a dataset
without data, a write that fails and the death of the process; the run has neither, so there it says
that no interleaving of two stores leaves one. Such a dataset is listed, makes the retry of the
write throw, and overruns the buffer of a read. If `DataTransferModule` survives that, it copies an
empty block, and the output then refuses the whole one: `CopyComplete` promises only what was whole
when it was listed. A listing is a set in `HDF5DataStore` and `Pipeline`, whose `NoKeyTwice` is
about two datasets of one key; that the descent lists no dataset twice is `EveryDataSetOnce`.

A file a crash left unreadable ends every later listing of its store (`ListThrows`), and a copy that
was interrupted ends, when it is started again, at the first block it had already copied: both are
what the code does, and why `CopyOnDisk` is about copies that finish. `UndefinedHasCause` lists what
is undefined in the disk modules while commands are in order, and its cause: with events of zero
integers the writer hands `&v[0]` of an empty vector to its store and the trash can prints what is
there; a reader that asks for the event a run broke off in overruns its buffer; and it prints a size
nobody set if its store is a trash can, lacks the dataset, or failed. A store in use is not
destroyed, and no fill loop passes its vector.

**Fairness.** `HDF5DataStore` has none: it has no liveness property, since a caller need not call.
The three specifications on `DAQModule` have weak fairness of `Work` (the operating system runs the
thread, and every library call returns or throws) and of `do_stop_returns` (the command thread
returns from a join whose thread has ended). `Pipeline` has weak fairness of `Transfer`, the working
thread of the transfer with the calls of its stores; the generator may stop at any call. No command,
no arrival of a block and no kill is fair.

**Variants.** `StopEnds` and `CopyEnds` need fairness. Where a thread loops before it ends, their
safety half is stated beside them and needs none: `StopAdvances`, in the generator and the transfer,
while a stop waits every step of the working thread leaves fewer phases of `do_work` (`Phase`), or
the same and less of the event or copy (`EventLeft`, `CopyLeft`), and no other step takes that back;
`CopyAdvances`, every step of a transfer that copies leaves less of the copy, and no step of the
generator adds to it. They say more than that it ends: a stop waits for no further event, and a copy
takes at most sixteen steps for each dataset of its one listing.

**Findings.** PROJECT.json quotes the lines.

- `HDF5DataStore.hpp:275` records name and flags before the open: with a caller that retries, a call
  runs on the handle of another file or on none, against the comment at lines 100 and 154.
- `HDF5DataStore.hpp:123` sizes the buffer of a read by the storage of the dataset and copies its
  extent, which is longer until the data is written; the comment at 120 says that the dataset is
  copied.
- The detector of a key is in no name, against `StorageKey.hpp:19-20`.
- The generator's defaults are not those of its schema.

Without a run of its own: `write` names groups and datasets without the padding that
`HDF5KeyTranslator.hpp:39-40` intends for them. Both forms are in `StorageKeys` (`WritePath`,
`getPathElements`), and `RoundTrip` says that a listing reads either.

## 4. What is proved

For every set of stores, configurations, keys and blocks, and ints and size_ts of every width with
`SizeMod >= 2 * (IntMax + 1)` (`WidthAssumption`). Prefixes are arbitrary but where a theorem names
one of two hypotheses: `SelfMatching`, every prefix, read as a regular expression, matches itself (a
dot does, `a+b` does not), or `PlainPrefixes`, it matches itself alone, as the letters, digits and
underscores of the demonstrations' do. Keys have int ids (`KeysAssumption`); blocks are not the
signals a call returns (`BlocksAssumption`).

**Names.**

- `StorageKeys_proofs`: an int and its size_t determine each other, so a written name is parsed to
  the id or to the invalid id (`ListedKeyOfWritePath`), different ids have different names
  (`WritePathInjective`), reads and writes agree on ids that are not negative
  (`ReadPathIsWritePath`). The name of a file tells the prefix and the mode that made it, whatever
  the prefixes look like, since the last words of a name do (`FileNameInjective`). With plain
  prefixes the expression of a listing fits the names of its own store and no others
  (`PatternMatchesOwnFiles`): element by element it can be no other ending, and then what is left of
  the name is the prefix.
- `KeyPairs_proofs`: from these, the five properties of pairs that `keys` checks, for all ids of
  every width of int.

**The HDF5 stores.**

- `HDF5DataStore_proofs`, without assuming anything of callers: `TypeCorrect`, from `TypeInv`, which
  adds to `TypeOK` what a label says of a call (`CallOK`): a write label has a key, a block and an
  open file. `OneBlockPerPlaceCorrect`: `OneBlockPerPlace` is not inductive, since `write_raw` may
  only fill a dataset that is still empty. `ContentInv` adds that (`Progress`) and that no two
  stores are about to fill the same dataset (`OwnDataset`). `AbandonedOnlyByFailureCorrect`: only a
  write that fails, or the death of the process, leaves a dataset without data that no write is
  about to fill. `AckedKeptSomewhereCorrect` (`SelfMatching`): a store that is used again after it
  threw may have any handle, but only of a file some key of its own belongs in (`OwnFiles`), and
  that is a file it lists.
- `HDF5Callers_proofs`, with callers that drop a store that threw (`~Reuse`): `HandleInv`, the
  recorded name is that of the open handle unless the call threw, gives `HandleAgreesCorrect`; with
  `ContentInv` it gives `PlacementCorrect` and `AckedDurableCorrect`. The assumption is needed:
  `hdf5_stale_handle` is the counterexample without it. `ReadFindsAckedCorrect` adds `ReadInv`,
  which ties a read to what was acknowledged when it was called. `ListCompleteCorrect`
  (`SelfMatching`): `ListInv`, what has to be found is in the list or in a file still to be opened,
  and the files of acknowledged blocks are there when the listing begins. `NoKeyTwiceCorrect`
  (`PlainPrefixes`): `PlacesInv`, every dataset that a listing can meet is the place of some key,
  and within one configuration places of the same ids are the same. With prefixes that match each
  other's files the same key may be listed from two of them.
- `ImplementsDataStoreCorrect`: a `write_raw` is a `Store`, a `flush` is an `Ack`, the death of the
  process is a `Die`, and every other step is a `Sync` or a stutter.

**The pipeline** (`Pipeline_proofs`, `~Reuse`, which is what the modules do). Every step is a step
of the stores or the death of the process (`StoreSteps`, `StoresDie`), so the invariants of the
stores hold here too, for any sequence of fragments and number of restarts, and but for
`NoStoreThrowsCorrect` with library faults.

- `PipelineStoresHold` and `PipelineImplementsDataStore` (`SelfMatching`): what is proved of the
  stores of any caller that drops one that threw, of these. The refinement adds to
  `ImplementsDataStoreCorrect` that the process may also die by an exception.
- `CopyOnDiskCorrect` (`SelfMatching`): `CopyInv`, a promised block is still to copy, in the hands
  of the transfer (then a read of it returns it, or fails unnoticed and returns a block without
  data), or its write to the output has returned. The first comes from `ListInv`, the last is
  durable by `AckedDurable`.
- `OutputFromInputCorrect` (`PlainPrefixes`, generator and input configured alike): `SourceInv`,
  what is listed is there, what has been read is what is there, is the empty block of a read past
  its buffer or was not filled because the library failed, and that is what is written. It is about
  the first life: a crash may keep a block of the output and lose its source.
- `NoStoreThrowsCorrect` (`DemoStores`: generator and input configured alike, the output otherwise,
  as in the two demonstrations; `PlainPrefixes`): `QuietInv` says, of a life that did not begin with
  old files, that no file is damaged, that the two writers have their file open for writing and none
  of the other's (`Writers`, `OwnFiles`), that the files and datasets of the generator are those of
  the fragments it has come to (`GenInv`), and that the output has no dataset yet for what is to be
  copied (`OutInv`). So a writer opens a file only when it is new or nobody else's, creates what is
  not there, and the reader finds what it listed. Were the generator to come back to an event after
  another one while its input is open for reading, opening the file again would throw:
  `FragmentsAssumption` is why it does not. `~Faults` is needed: a failing call throws.
- `CopyAdvancesCorrect` (`SelfMatching`): `PhaseInv`, a store of the transfer is in a call only
  where `do_work` has made one, so every step of the transfer is one that the measure counts
  (`ReadAdvances`, `WriteAdvances`: a call never goes back); `FiniteInv`, the files hold finitely
  many datasets, whose number bounds the listing.

The run `pipeline` is an instance with all these hypotheses, `~Faults` included. With `Faults` the
same instance has about five times as many states; `CopyOnDisk` and `OutputFromInput` hold there
too.

For the modules, for every set of targets, values and keys, with and without faults, for any bound
on the events that fits an int, commands in any order and restarts. Each `OrderInv` says that while
commands are in order a command that configures never meets a live working thread and that the
values assigned so far are those of the last payload; what a command does in order follows from two
lemmas, `InOrderBefore` and `InOrderCommand`.

- `DataGenerator_proofs`: `TypeCorrect`, with what the working thread counts within an int
  (`FitsNext`), so that the narrowing keeps it (`ToIntKeeps`); `NoUndefinedBehaviourHolds` and
  `ConfigurationIsWholeHolds` from `OrderInv`. `RunInv` says which fragments a run has written at
  each label (`Fragments`), that they are in the file and that the file has no others once the first
  is there. It gives `WholeEventsHolds` and `DuplicateOnlyFirstHolds`. The last part is inductive
  only with what it says of earlier lives: a file with any block has `<<1, 0>>`.
- `DataTransferModule_proofs`: `TypeCorrect`, `ConfigurationIsWholeHolds`, `CopyCompleteHolds`.
  `CopyInv`: a promised block is still to copy, in the hands of the thread, or in the output, where
  only unwritten datasets ever change (`StoredStays`).
- `SimpleDisk_proofs`: `TypeCorrect`, whose hard part is that no id leaves the range of an int: the
  writer counts its events up to `MaxEvents`, which `DiskAssumption` bounds by `IntMax`, beyond
  which the counter itself overflows. `ConfigurationIsWholeHolds`. `EventsContiguousHolds`:
  `EventInv`, the writer has completed the last event it counted, so the next block it makes follows
  a complete one. `UndefinedHasCauseHolds`: from `OrderInv` that a store in use stays and the vector
  is filled as long as it was made; from `WrittenOnce`, a dataset has one size, and
  `EventsContiguous`, that a dataset without data is that of the last event of its store
  (`UnwrittenIsLast`). `ReadsTheBlockAskedForHolds`: `ReadInv`, a read in order asks for the
  configured ids narrowed to `int` (`AtKey`) and reports what the store has there (`Report`).
- `StopAdvancesHolds` in the generator and the transfer, commands in order or not, from `StopSeen`:
  while a stop waits the flag is cleared, since only `start` sets it and no command begins before
  the last has ended. For the transfer the measure is a number only because the files are finite
  sets (`Finite`): each step adds at most one block, and what is listed is no more than there is.

Only model-checked: `EveryDataSetOnce`, since the descent through the groups is recursive and what a
recursive definition computes is beyond this prover; and liveness, `StopEnds` of the three modules
and `CopyEnds` of the pipeline, since the prover treats neither fairness nor `ENABLED`. What is
missing from `StopAdvances` and `CopyAdvances` to the liveness of the generator, the transfer and
the copy is that a thread that can take a step does take one, and the descent along the measure.
Every other property of a passing run is stated by a theorem.

## 5. Not modelled, and why

Of `makeDataStore`, the loading of the plugin: only whether it makes a store, throws or ends the
process. The code generation of the schemas, the JSON parser, logging, progress messages and sleeps:
none changes the state. Ownership of a block's memory, which is the compiler's. The unit tests and
demo configurations keep no state; the demonstrations gave `Pipeline` its stores. Threads inside one
HDF5 store: each is used by one thread. Threads calling the library at once are interleaved call by
call, as a thread-safe build of HDF5 does. Two processes over one directory, but for the writer of
the transfer's input, which `DataTransferModule` has as `Arrive`.

## 6. Plan

Done: the names and the descent, the HDF5 store with its abstract specification, the modules, the
pipeline, and proofs of every safety and action property but one. What could follow, in order:

1. A pipeline whose modules are stopped, reconfigured and started again, so that a store is made
   anew over files another one has open.
2. The listing of `DataTransferModule`, which is one step there, shown to be what the listing of
   `Pipeline` comes to. It is not as it stands: datasets that appear while the listing runs may or
   may not be in it, while the one step has all of its moment.
3. Two applications over one directory at the same time, once it is settled what file locking the
   library is built with.
