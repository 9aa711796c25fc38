----------------------------- MODULE SimpleDisk -----------------------------
(***************************************************************************)
(* The modules of the disk demonstrations: SimpleDiskWriter,               *)
(* SimpleDiskReader and GetAllKeysTest.  One application runs one of them; *)
(* it may be ended and started again with the same or another module over  *)
(* the same directory.  All three are driven by the same commands and make *)
(* one store, an HDF5DataStore or a TrashCanDataStore.                     *)
(***************************************************************************)
EXTENDS Integers, DAQModule

CONSTANTS
  Targets,            \* parameters of HDF5DataStores that name different files
  Ints,               \* values of "number_ints_per_fake_event"
  EventIDs, GeoIDs,   \* values of "event_id" and "geolocation_id", as size_t
  IntMax,             \* std::numeric_limits<int>::max()
  Faults,             \* TRUE: a store may fail for reasons of its own, or the process be killed
  MaxEvents           \* bound: the writer begins no event past this one, so that
                      \* every event number fits the int of a StorageKey

Writer == "SimpleDiskWriter"
Reader == "SimpleDiskReader"
Lister == "GetAllKeysTest"

NoStore == "null"      \* no store yet; parameters no store can be made from
TrashCan == "trash"    \* parameters of a TrashCanDataStore

Absent == -1           \* a field the payload does not have
Uninitialised == -2    \* the size of a block nobody filled
Unwritten == -3        \* the size of a dataset whose data was never written
GroupOnly == -4        \* the group of an event whose dataset was never made

REASONABLE_DEFAULT_INTSPERFAKEEVENT == 4
REASONABLE_DEFAULT_INTFRAGMENT == 1
SIZEOF_INT == 4
GEO_LOCATION == 101

ASSUME DiskAssumption ==
  /\ {NoStore, TrashCan} \cap Targets = {}
  /\ (Ints \cup EventIDs \cup GeoIDs \cup {IntMax, MaxEvents}) \subseteq Nat
  /\ {GEO_LOCATION, MaxEvents} \subseteq 0 .. IntMax
  /\ Faults \in BOOLEAN

Only(module, p, values) == IF p = module THEN values \cup {Absent} ELSE {Absent}

Payloads(p) ==
  [store : Targets \cup {TrashCan, NoStore}, ints : Only(Writer, p, Ints),
   event : Only(Reader, p, EventIDs), geo : Only(Reader, p, GeoIDs),
   detector : IF p = Reader THEN {"FELIX", "not a text"} ELSE {"FELIX"}]

NoPayload == [store |-> NoStore, ints |-> Absent, event |-> Absent, geo |-> Absent,
              detector |-> "FELIX"]

VARIABLES
  plugin,               \* the module this application runs
  payload,              \* the payload of the last configure
  dataStore_,           \* dataWriter_ and dataReader_ in the other two
  nIntsPerFakeEvent_, key_eventID_, key_geoLocationID_,
  generatedCount,
  dataBlock,            \* the block written or read
  dangling,             \* the store was destroyed under a call in progress
  stored                \* <<target, event, geo, size>> on disk

conf == << payload, dataStore_, nIntsPerFakeEvent_, key_eventID_, key_geoLocationID_ >>
locals == << generatedCount, dataBlock >>
vars == << rc, cmd, running, worker, died, inOrder, plugin, payload, dataStore_,
           nIntsPerFakeEvent_, key_eventID_, key_geoLocationID_, generatedCount,
           dataBlock, dangling, stored >>

Block(event, geo, size) == [event |-> event, geo |-> geo, size |-> size]

NoBlock == Block(0, 0, 0)

----------------------------------------------------------------------------
Init ==
  /\ ModuleInit
  /\ plugin \in {Writer, Reader, Lister}
  /\ payload = NoPayload
  /\ dataStore_ = NoStore
  /\ nIntsPerFakeEvent_ = REASONABLE_DEFAULT_INTSPERFAKEEVENT
  /\ key_eventID_ = REASONABLE_DEFAULT_INTFRAGMENT
  /\ key_geoLocationID_ = REASONABLE_DEFAULT_INTFRAGMENT
  /\ generatedCount = 0 /\ dataBlock = NoBlock
  /\ dangling = FALSE /\ stored = {}

\* The process ends, and everything in its memory with it.
Ends(cause) ==
  /\ Dies(cause)
  /\ payload' = NoPayload
  /\ dataStore_' = NoStore
  /\ nIntsPerFakeEvent_' = REASONABLE_DEFAULT_INTSPERFAKEEVENT
  /\ key_eventID_' = REASONABLE_DEFAULT_INTFRAGMENT
  /\ key_geoLocationID_' = REASONABLE_DEFAULT_INTFRAGMENT
  /\ generatedCount' = 0 /\ dataBlock' = NoBlock
  /\ dangling' = FALSE
  /\ UNCHANGED plugin

\* An application is started; the files are still there.
Boot ==
  /\ ModuleBoot
  /\ plugin' \in {Writer, Reader, Lister}
  /\ UNCHANGED << conf, locals, dangling, stored >>

Quit == ~Active /\ cmd = "idle" /\ Ends("exit") /\ UNCHANGED stored

Killed == Faults /\ Ends("killed") /\ UNCHANGED stored

----------------------------------------------------------------------------
(* The commands *)

Value(field, default) == IF field = Absent THEN default ELSE field

do_configure ==
  /\ payload' \in Payloads(plugin)
  /\ Begins("initial", IF plugin = Reader THEN "detector" ELSE "store")
  /\ nIntsPerFakeEvent_' = IF plugin # Writer THEN nIntsPerFakeEvent_
       ELSE Value(payload'.ints, REASONABLE_DEFAULT_INTSPERFAKEEVENT)
  /\ key_eventID_' = IF plugin # Reader THEN key_eventID_
       ELSE Value(payload'.event, REASONABLE_DEFAULT_INTFRAGMENT)
  /\ UNCHANGED << plugin, dataStore_, key_geoLocationID_, locals, dangling, stored >>

\* The reader, once it has the detector.
ConfGeoLocation ==
  /\ payload.detector = "FELIX"
  /\ CommandMoves("detector", "store")
  /\ key_geoLocationID_' = Value(payload.geo, REASONABLE_DEFAULT_INTFRAGMENT)
  /\ UNCHANGED << plugin, payload, dataStore_, nIntsPerFakeEvent_, key_eventID_,
                  locals, dangling, stored >>

\* The new store replaces the old one, which is destroyed.
ConfStore ==
  /\ payload.store # NoStore
  /\ Succeeds("store", "configured")
  /\ dataStore_' = payload.store
  /\ dangling' = (dangling \/ worker \in {"write", "read", "list"})
  /\ UNCHANGED << plugin, payload, nIntsPerFakeEvent_, key_eventID_, key_geoLocationID_,
                  locals, stored >>

Refused ==
  \/ cmd = "detector" /\ payload.detector # "FELIX"
  \/ cmd = "store" /\ payload.store = NoStore

\* Mutant: the exception is swallowed.
ConfFails_Swallowed ==
  /\ Refused
  /\ Succeeds(cmd, "configured")
  /\ UNCHANGED << plugin, conf, locals, dangling, stored >>

\* A field that is no text, or parameters no plugin accepts: the command throws,
\* with the values already assigned.
ConfFails ==
  /\ Refused
  /\ CommandMoves(cmd, "idle")
  /\ UNCHANGED << plugin, conf, locals, dangling, stored >>

\* A field that is missing: operator[] of a const json asserts that it is there.
ConfAborts == Refused /\ Ends("missing field") /\ UNCHANGED stored

do_start == StartThread /\ UNCHANGED << plugin, conf, locals, dangling, stored >>

do_stop == StopThread /\ UNCHANGED << plugin, conf, locals, dangling, stored >>

do_stop_returns == StopReturns /\ UNCHANGED << plugin, conf, locals, dangling, stored >>

\* The store and the ids stay.
do_unconfigure ==
  /\ AtOnce("configured", "initial")
  /\ nIntsPerFakeEvent_' = REASONABLE_DEFAULT_INTSPERFAKEEVENT
  /\ UNCHANGED << plugin, payload, dataStore_, key_eventID_, key_geoLocationID_,
                  locals, dangling, stored >>

Command ==
  \/ do_configure \/ ConfGeoLocation \/ ConfStore \/ ConfFails \/ ConfAborts
  \/ do_start \/ do_stop \/ do_stop_returns \/ do_unconfigure

----------------------------------------------------------------------------
(* do_work *)

Moves(from, to) == WorkerMoves(from, to) /\ UNCHANGED << plugin, conf, dangling, stored >>

\* Mutant: the id stays a size_t.
ToInt_SizeT(id) == id

\* A size_t handed to a constructor that takes an int keeps its low bits.
ToInt(id) == ((id + IntMax + 1) % (2 * (IntMax + 1))) - (IntMax + 1)

\* Mutant: the two ids are handed over in the wrong order.
DataKey_Swapped == << ToInt(key_geoLocationID_), ToInt(key_eventID_) >>

DataKey == << ToInt(key_eventID_), ToInt(key_geoLocationID_) >>

NoDataStore ==
  /\ worker = "entry"
  /\ dataStore_ = NoStore /\ plugin # Lister
  /\ Ends("no data store")
  /\ UNCHANGED stored

WriterEnters ==
  /\ plugin = Writer /\ dataStore_ # NoStore
  /\ Moves("entry", "while")
  /\ generatedCount' = 0
  /\ UNCHANGED dataBlock

NextEvent ==
  /\ running /\ generatedCount < MaxEvents
  /\ Moves("while", "fill")
  /\ dataBlock' = Block(0, 0, SIZEOF_INT * nIntsPerFakeEvent_)
  /\ UNCHANGED generatedCount

Filled ==
  /\ Moves("fill", "write")
  /\ generatedCount' = generatedCount + 1
  /\ dataBlock' = Block(generatedCount + 1, GEO_LOCATION, dataBlock.size)

\* The dataset of the block is in the store.
Dataset(size) == << dataStore_, dataBlock.event, dataBlock.geo, size >>

Held == \E b \in stored : b[4] # GroupOnly /\ b = Dataset(b[4])

\* What a write leaves in the store; a TrashCanDataStore throws the block away.
After(size) ==
  IF dataStore_ = TrashCan THEN stored
  ELSE stored \cup {Dataset(size)}

WriteReturns ==
  /\ ~Held
  /\ WorkerMoves("write", "while")
  /\ stored' = After(dataBlock.size)
  /\ UNCHANGED << plugin, conf, locals, dangling >>

\* Mutant: the exception is caught, and the loop goes on.
WriteThrows_Caught ==
  /\ worker = "write" /\ (Held \/ Faults)
  /\ Moves("write", "while")
  /\ UNCHANGED locals

\* Where a write may break off, after its group, its dataset or its data; an empty
\* dataset has no data to miss.
LeftBehind == {GroupOnly, dataBlock.size} \cup (IF dataBlock.size = 0 THEN {} ELSE {Unwritten})

WriteThrows ==
  /\ worker = "write"
  /\ \/ Held /\ Ends("duplicate") /\ UNCHANGED stored
     \/ /\ Faults /\ ~Held /\ Ends("store failed")
        /\ UNCHANGED stored \/ \E size \in LeftBehind : stored' = After(size)

ReaderEnters ==
  /\ plugin = Reader /\ dataStore_ # NoStore
  /\ Moves("entry", "read")
  /\ dataBlock' = Block(DataKey[1], DataKey[2], Uninitialised)
  /\ UNCHANGED generatedCount

\* The size is what the store keeps of the dataset: of an unwritten one, nothing.  A
\* dataset that is missing from its group, or cannot be opened, is let pass.
ReadReturns ==
  /\ Moves("read", "wait")
  /\ \/ \E b \in stored :
          /\ b[4] # GroupOnly /\ b = Dataset(b[4])
          /\ dataBlock' = [dataBlock EXCEPT !.size = IF b[4] = Unwritten THEN 0 ELSE b[4]]
     \/ /\ dataStore_ = TrashCan \/ (Held /\ Faults)
           \/ (~Held /\ \E b \in stored : b[1] = dataStore_ /\ b[2] = dataBlock.event)
        /\ UNCHANGED dataBlock
  /\ UNCHANGED generatedCount

\* The file or the group is missing.
ReadThrows ==
  /\ worker = "read"
  /\ Faults \/ (dataStore_ # TrashCan /\ ~Held)
  /\ Ends("store failed")
  /\ UNCHANGED stored

\* Without a store there is nothing to list, and no error.
ListerEnters ==
  /\ plugin = Lister
  /\ Moves("entry", IF dataStore_ = NoStore THEN "wait" ELSE "list")
  /\ UNCHANGED locals

ListReturns == Moves("list", "wait") /\ UNCHANGED locals

ListThrows == Faults /\ worker = "list" /\ Ends("store failed") /\ UNCHANGED stored

Exit ==
  /\ ~running
  /\ Moves("while", "done") \/ Moves("wait", "done")
  /\ UNCHANGED locals

\* What is undefined.  Anything may happen in a call of a store that is destroyed
\* under it, ...
UsesDestroyedStore == dangling /\ worker \in {"write", "read", "list"}

\* ... in a fill loop that reads a length longer than the vector it fills, ...
FillOverruns == worker = "fill" /\ SIZEOF_INT * nIntsPerFakeEvent_ > dataBlock.size

\* ... when a TrashCanDataStore prints the first bytes of an empty block, ...
PrintsEmptyBlock == worker = "write" /\ dataStore_ = TrashCan /\ dataBlock.size = 0

\* ... and when the whole of an unwritten dataset is read into a buffer of size zero.
ReadOverruns == worker = "read" /\ Dataset(Unwritten) \in stored

Undefined ==
  /\ UsesDestroyedStore \/ FillOverruns \/ PrintsEmptyBlock \/ ReadOverruns
  /\ Ends("undefined behaviour")
  /\ UNCHANGED stored

\* The summary of the reader prints a size that nobody set: any number, and no more.
PrintsUnset == plugin = Reader /\ worker = "wait" /\ ~running /\ dataBlock.size = Uninitialised

Work ==
  \/ NoDataStore \/ WriterEnters \/ NextEvent \/ Filled \/ WriteReturns \/ WriteThrows
  \/ ReaderEnters \/ ReadReturns \/ ReadThrows
  \/ ListerEnters \/ ListReturns \/ ListThrows \/ Exit \/ Undefined

Next == Command \/ Work \/ Killed \/ Quit \/ Boot

\* The threads run; nobody has to send a command.
Spec == Init /\ [][Next]_vars /\ WF_vars(Work) /\ WF_vars(do_stop_returns)

----------------------------------------------------------------------------
(* Properties *)

CInt == -IntMax - 1 .. IntMax

\* Every variable has its type.
TypeOK ==
  /\ ModuleTypeOK
  /\ plugin \in {Writer, Reader, Lister}
  /\ cmd \in {"idle", "detector", "store", "stop"}
  /\ worker \in {"none", "entry", "while", "fill", "write", "read", "list", "wait", "done"}
  /\ payload \in Payloads(plugin) \cup {NoPayload}
  /\ dataStore_ \in Targets \cup {TrashCan, NoStore}
  /\ {nIntsPerFakeEvent_, key_eventID_, key_geoLocationID_, generatedCount} \subseteq Nat
  /\ dataBlock \in [event : CInt, geo : CInt, size : Nat \cup {Uninitialised}]
  /\ dangling \in BOOLEAN
  /\ stored \subseteq Targets \X CInt \X {GEO_LOCATION} \X (Nat \cup {Unwritten, GroupOnly})

\* Event n is in the store, with its data.
Complete(target, n) ==
  \E c \in stored : c[1] = target /\ c[2] = n /\ c[4] \notin {Unwritten, GroupOnly}

\* The events in the files of a store are 1 to n, and none but the last of them
\* is there without its data: whatever was killed, failed, ended or started again
\* over the same files, no run leaves a gap or goes on behind a broken event
\* (SimpleDiskWriter.cpp:115, 134-147, HDF5DataStore.hpp:163-184).
EventsContiguous ==
  inOrder => \A b \in stored : \A n \in 1 .. b[2] - 1 : Complete(b[1], n)

\* The reader reports the block an earlier application wrote under the ids it was
\* configured with, if they fit an int; ids beyond an int find a block only under
\* ids that are equal modulo the width of an int (SimpleDiskReader.cpp:53-56, 128,
\* 133, 141), and of one without its data it reports the size zero.  Without faults it
\* misses no block that is there.
ReadsTheBlockAskedFor ==
  plugin = Reader /\ inOrder /\ (worker = "wait" \/ (worker = "done" /\ cmd = "stop")) =>
    /\ key_eventID_ \in CInt => dataBlock.event = key_eventID_
    /\ key_geoLocationID_ \in CInt => dataBlock.geo = key_geoLocationID_
    /\ dataBlock.size # Uninitialised =>
         \E b \in stored : b[1] = dataStore_
           /\ \/ b[4] = dataBlock.size
              \/ b[4] = Unwritten /\ dataBlock.size = 0
           /\ (b[2] - key_eventID_) % (2 * (IntMax + 1)) = 0
           /\ (b[3] - key_geoLocationID_) % (2 * (IntMax + 1)) = 0
    /\ dataBlock.size = Uninitialised /\ ~Faults /\ dataStore_ # TrashCan =>
         \A b \in stored : b[4] # GroupOnly =>
           << b[1], b[2], b[3] >> # << dataStore_, key_eventID_, key_geoLocationID_ >>

\* As long as commands keep the order, what is undefined has a known cause.  No store
\* is used after it was destroyed and no fill loop passes the end of its vector; a
\* TrashCanDataStore prints bytes that are not there only of events configured to be
\* empty; a read overruns its buffer only at the event a run broke off in, the last
\* one of its store; and the reader prints a size nobody set only if its store throws
\* blocks away, has no such dataset, or failed (SimpleDiskWriter.cpp:60, 127-131,
\* TrashCanDataStore.hpp:47-49, HDF5DataStore.hpp:123-132, SimpleDiskReader.cpp:141).
UndefinedHasCause ==
  inOrder =>
    /\ ~UsesDestroyedStore /\ ~FillOverruns
    /\ PrintsEmptyBlock => payload.ints = 0
    /\ ReadOverruns => \A b \in stored : b[1] = dataStore_ => b[2] <= dataBlock.event
    /\ PrintsUnset => dataStore_ = TrashCan \/ ~Held \/ Faults

\* A working thread runs with all of one payload: a configure that failed half
\* way, at the detector or at the store, leaves no mixture of two behind it
\* (SimpleDiskReader.cpp:53-64, SimpleDiskWriter.cpp:53-60).
ConfigurationIsWhole ==
  inOrder /\ Active =>
    /\ dataStore_ = payload.store
    /\ plugin = Writer => nIntsPerFakeEvent_ = Value(payload.ints, REASONABLE_DEFAULT_INTSPERFAKEEVENT)
    /\ plugin = Reader =>
         /\ key_eventID_ = Value(payload.event, REASONABLE_DEFAULT_INTFRAGMENT)
         /\ key_geoLocationID_ = Value(payload.geo, REASONABLE_DEFAULT_INTFRAGMENT)

\* A stop command ends, whatever the module and the order of the commands before
\* it (SimpleDiskWriter.cpp:125, SimpleDiskReader.cpp:135, GetAllKeysTest.cpp:97).
StopEnds == cmd = "stop" ~> cmd = "idle" \/ ~Alive
=============================================================================
