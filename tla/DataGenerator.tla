--------------------------- MODULE DataGenerator ---------------------------
(***************************************************************************)
(* The DataGenerator module (plugins/DataGenerator.cpp): a command thread  *)
(* that runs one command at a time, and the working thread that start      *)
(* spawns and stop joins.  They share nGeoLoc_, io_size_ and dataWriter_   *)
(* without a lock.  The data store is the write-once store of module       *)
(* DataStore: a second write of a key throws, and nothing in do_work       *)
(* catches it, so the process ends.  What was stored outlives the process, *)
(* and so may the dataset of a write that failed half way.                 *)
(***************************************************************************)
EXTENDS Integers, DAQModule

CONSTANTS
  Targets,     \* data store parameters that name different files
  Counts,      \* values of "geo_location_count" in a payload
  Sizes,       \* values of "io_size" in a payload
  IntMax,      \* std::numeric_limits<int>::max()
  Faults,      \* TRUE: a write may fail for reasons of its own, or the process be killed
  MaxEvents    \* bound: the working thread begins no event past this one

Absent == -1       \* a field the payload does not have
NoStore == "null"  \* no store yet; a target no store can be made for

REASONABLE_DEFAULT_GEOLOC == 5
REASONABLE_IO_SIZE_BYTES == 1024

\* Two bounds: no event has more locations than an int can number, and none has a
\* number beyond the int that counts them.
ASSUME GeneratorAssumption ==
  /\ IntMax \in Nat
  /\ Counts \cup {REASONABLE_DEFAULT_GEOLOC} \subseteq 0 .. IntMax + 1
  /\ Sizes \subseteq Nat
  /\ Faults \in BOOLEAN
  /\ MaxEvents \in 0 .. IntMax - 1

ASSUME TargetsAssumption == NoStore \notin Targets

\* The defaults the schema declares for the same two fields.
SCHEMA_GEOLOC == 4
SCHEMA_IO_SIZE == 1048576

Payloads == [geo : Counts \cup {Absent}, size : Sizes \cup {Absent}, target : Targets \cup {NoStore}]

NoPayload == [geo |-> Absent, size |-> Absent, target |-> NoStore]

VARIABLES
  payload,      \* the payload of the last conf
  nGeoLoc_, io_size_, dataWriter_,
  eventID, geoID, membuffer, data_size,   \* the locals of do_work
  dangling,     \* the store was destroyed under a write in progress
  stored,       \* <<target, event, geo>> on disk
  written       \* history: <<event, geo>> this run has written

conf == << payload, nGeoLoc_, io_size_, dataWriter_ >>
locals == << eventID, geoID, membuffer, data_size >>
data == << dangling, stored, written >>
vars == << rc, cmd, running, worker, died, inOrder, payload, nGeoLoc_, io_size_, dataWriter_,
           eventID, geoID, membuffer, data_size, dangling, stored, written >>

----------------------------------------------------------------------------
Init ==
  /\ ModuleInit
  /\ payload = NoPayload
  /\ nGeoLoc_ = REASONABLE_DEFAULT_GEOLOC
  /\ io_size_ = REASONABLE_IO_SIZE_BYTES
  /\ dataWriter_ = NoStore
  /\ eventID = 1 /\ geoID = 0 /\ membuffer = 0 /\ data_size = 0
  /\ dangling = FALSE /\ stored = {} /\ written = {}

\* The process ends, and everything in its memory with it.
Ends(cause) ==
  /\ Dies(cause)
  /\ payload' = NoPayload
  /\ nGeoLoc_' = REASONABLE_DEFAULT_GEOLOC
  /\ io_size_' = REASONABLE_IO_SIZE_BYTES
  /\ dataWriter_' = NoStore
  /\ eventID' = 1 /\ geoID' = 0 /\ membuffer' = 0 /\ data_size' = 0
  /\ dangling' = FALSE /\ written' = {}

\* It is started again; the files are still there.
Boot == ModuleBoot /\ UNCHANGED << conf, locals, data >>

----------------------------------------------------------------------------
(* do_conf: the values one by one, then the store *)

Value(field, default) == IF field = Absent THEN default ELSE field

do_conf ==
  /\ Begins("initial", "conf")
  /\ \E p \in Payloads :
       /\ payload' = p
       /\ nGeoLoc_' = Value(p.geo, REASONABLE_DEFAULT_GEOLOC)
  /\ UNCHANGED << io_size_, dataWriter_, locals, data >>

ConfSize ==
  /\ CommandMoves("conf", "makeDataStore")
  /\ io_size_' = Value(payload.size, REASONABLE_IO_SIZE_BYTES)
  /\ UNCHANGED << payload, nGeoLoc_, dataWriter_, locals, data >>

\* The new store replaces the old one, which is destroyed.
ConfStore ==
  /\ payload.target # NoStore
  /\ Succeeds("makeDataStore", "configured")
  /\ dataWriter_' = payload.target
  /\ dangling' = (dangling \/ worker = "write")
  /\ UNCHANGED << payload, nGeoLoc_, io_size_, locals, stored, written >>

\* Mutant: the exception of makeDataStore is swallowed.
ConfFails_Swallowed ==
  /\ payload.target = NoStore
  /\ Succeeds("makeDataStore", "configured")
  /\ UNCHANGED << conf, locals, data >>

\* makeDataStore throws: the command fails, with the values already assigned.
ConfFails ==
  /\ payload.target = NoStore
  /\ CommandMoves("makeDataStore", "idle")
  /\ UNCHANGED << conf, locals, data >>

\* A field that is missing: operator[] of a const json asserts that it is there.
ConfAborts ==
  /\ cmd = "makeDataStore" /\ payload.target = NoStore
  /\ Ends("missing field")
  /\ UNCHANGED stored

----------------------------------------------------------------------------
(* do_start, do_stop, do_unconfigure *)

do_start == StartThread /\ written' = {} /\ UNCHANGED << conf, locals, dangling, stored >>

do_stop == StopThread /\ UNCHANGED << conf, locals, data >>

do_stop_returns == StopReturns /\ UNCHANGED << conf, locals, data >>

\* The store stays.
do_unconfigure ==
  /\ AtOnce("configured", "initial")
  /\ nGeoLoc_' = REASONABLE_DEFAULT_GEOLOC
  /\ io_size_' = REASONABLE_IO_SIZE_BYTES
  /\ UNCHANGED << payload, dataWriter_, locals, data >>

Command ==
  \/ do_conf \/ ConfSize \/ ConfStore \/ ConfFails \/ ConfAborts
  \/ do_start \/ do_stop \/ do_stop_returns \/ do_unconfigure

----------------------------------------------------------------------------
(* do_work *)

CheckWriter ==
  /\ dataWriter_ # NoStore
  /\ WorkerMoves("entry", "malloc")
  /\ UNCHANGED << conf, locals, data >>

\* InvalidDataWriterError leaves do_work.
NoWriter ==
  /\ worker = "entry"
  /\ dataWriter_ = NoStore
  /\ Ends("no data writer")
  /\ UNCHANGED stored

Allocate ==
  /\ WorkerMoves("malloc", "while")
  /\ membuffer' = io_size_
  /\ eventID' = 1
  /\ UNCHANGED << conf, geoID, data_size, data >>

\* The running flag is looked at once per event.
NextEvent ==
  /\ running /\ eventID <= MaxEvents
  /\ WorkerMoves("while", "for")
  /\ geoID' = 0
  /\ UNCHANGED << conf, eventID, membuffer, data_size, data >>

Exit ==
  /\ ~running
  /\ WorkerMoves("while", "done")
  /\ UNCHANGED << conf, locals, data >>

\* Mutant: the inner loop gives up as soon as the flag is cleared.
MoreGeo_ChecksFlag == geoID < nGeoLoc_ /\ running

MoreGeo == geoID < nGeoLoc_

MakeBlock ==
  /\ MoreGeo
  /\ WorkerMoves("for", "write")
  /\ data_size' = io_size_
  /\ UNCHANGED << conf, eventID, geoID, membuffer, data >>

\* Mutant: the event number is not advanced.
EventDone_SameEvent ==
  /\ ~MoreGeo
  /\ WorkerMoves("for", "while")
  /\ UNCHANGED << conf, locals, data >>

\* The event is complete; the sleep that follows changes nothing.
EventDone ==
  /\ ~MoreGeo
  /\ WorkerMoves("for", "while")
  /\ eventID' = eventID + 1
  /\ UNCHANGED << conf, geoID, membuffer, data_size, data >>

\* A size_t handed to a constructor that takes an int keeps its low bits.
ToInt(id) == ((id + IntMax + 1) % (2 * (IntMax + 1))) - (IntMax + 1)

\* Mutant: the block goes to no store.
Block_NoTarget == << NoStore, eventID, ToInt(geoID) >>

Block == << dataWriter_, eventID, ToInt(geoID) >>

WriteReturns ==
  /\ Block \notin stored
  /\ WorkerMoves("write", "for")
  /\ stored' = stored \cup {Block}
  /\ written' = written \cup {<< eventID, geoID >>}
  /\ geoID' = geoID + 1
  /\ UNCHANGED << conf, eventID, membuffer, data_size, dangling >>

\* An exception leaves do_work, and with it the process.  A write that fails for
\* reasons of its own may have made its dataset.
WriteThrows ==
  /\ worker = "write"
  /\ \/ Block \in stored /\ Ends("duplicate") /\ UNCHANGED stored
     \/ Faults /\ Ends("write failed") /\ stored' \in {stored, stored \cup {Block}}

\* A destroyed store, or a block longer than the buffer: anything may happen.
Undefined ==
  /\ worker = "write"
  /\ dangling \/ data_size > membuffer
  /\ Ends("undefined behaviour")
  /\ UNCHANGED stored

Killed == Faults /\ Ends("killed") /\ UNCHANGED stored

Work ==
  \/ CheckWriter \/ NoWriter \/ Allocate \/ NextEvent \/ Exit \/ MakeBlock \/ EventDone
  \/ WriteReturns \/ WriteThrows \/ Undefined

Next == Command \/ Work \/ Killed \/ Boot

\* The operating system runs the working thread, and the command thread once the
\* thread it joins has ended; nobody has to send a command.
Spec == Init /\ [][Next]_vars /\ WF_vars(Work) /\ WF_vars(do_stop_returns)

----------------------------------------------------------------------------
(* Properties *)

\* Every variable has its type.
TypeOK ==
  /\ ModuleTypeOK
  /\ cmd \in {"idle", "conf", "makeDataStore", "stop"}
  /\ worker \in {"none", "entry", "malloc", "while", "for", "write", "done"}
  /\ died \in {"no", "missing field", "no data writer", "duplicate", "write failed",
              "undefined behaviour", "killed"}
  /\ payload \in Payloads
  /\ nGeoLoc_ \in Nat /\ io_size_ \in Nat
  /\ dataWriter_ \in Targets \cup {NoStore}
  /\ eventID \in Nat /\ geoID \in Nat /\ membuffer \in Nat /\ data_size \in Nat
  /\ dangling \in BOOLEAN
  /\ stored \subseteq Targets \X Nat \X Nat
  /\ written \subseteq Nat \X Nat

\* As long as commands keep the order, no write ever runs on a destroyed store or
\* reads past the buffer: conf and unconfigure never meet a live working thread
\* (DataGenerator.cpp:59-65, 92-93 against 110-126).
NoUndefinedBehaviour ==
  inOrder /\ worker = "write" => ~dangling /\ data_size <= membuffer

\* A stop never cuts an event: the run that ended wrote every fragment of each
\* of its events, and nothing else (DataGenerator.cpp:116-129), and what it
\* wrote is stored.
WholeEvents ==
  inOrder /\ worker = "done" /\ cmd = "stop" =>
    /\ written = (1 .. eventID - 1) \X (0 .. nGeoLoc_ - 1)
    /\ \A w \in written : << dataWriter_, w[1], w[2] >> \in stored

\* A run that has written a block never meets a key that is there already: the
\* duplicate that ends the process comes with the first write of a run or not at
\* all, however often the process was killed, restarted or reconfigured, with
\* whatever counts, before (DataGenerator.cpp:115-126).
DuplicateOnlyFirst ==
  inOrder /\ worker = "write" /\ Block \in stored =>
    written = {} /\ eventID = 1 /\ geoID = 0

\* A working thread runs with all of one payload: a conf that failed half way
\* leaves no mixture of two behind it (DataGenerator.cpp:59-65).
ConfigurationIsWhole ==
  inOrder /\ Active =>
    /\ nGeoLoc_ = Value(payload.geo, REASONABLE_DEFAULT_GEOLOC)
    /\ io_size_ = Value(payload.size, REASONABLE_IO_SIZE_BYTES)
    /\ dataWriter_ = payload.target

\* A stop command ends, whatever the order of the commands before it: the
\* working thread sees the flag and is joined, or the process has ended
\* (DataGenerator.cpp:79-86, 116).
StopEnds == cmd = "stop" ~> cmd = "idle" \/ died # "no"

\* The phases of do_work still to come, and what is left of an event: a block and
\* a write for each location.
Phase ==
  [entry |-> 4, malloc |-> 3, for |-> 2, write |-> 2, while |-> 1, done |-> 0, none |-> 0][worker]

EventLeft ==
  LET writing == IF worker = "write" THEN 1 ELSE 0
      next == geoID + writing
  IN  2 * (IF next < nGeoLoc_ THEN nGeoLoc_ - next ELSE 0) + writing

\* While a stop waits, every step of the working thread brings its end nearer and
\* no other step takes it back: the thread begins no further event, and within the
\* one it is in less and less is left, although nGeoLoc_ may have been changed
\* under it by a command out of order (DataGenerator.cpp:79-86, 116-129).
StopAdvances ==
  [][cmd = "stop" /\ cmd' = "stop" =>
       \/ ~Work /\ UNCHANGED << worker, geoID, nGeoLoc_ >>
       \/ Work /\ Phase' < Phase
       \/ Work /\ Phase' = Phase /\ EventLeft' < EventLeft]_vars

\* ddpdemo-DataGenerator-schema.jsonnet:39-42: a field the payload leaves out has
\* the default of the schema.
SchemaDefaults ==
  inOrder /\ rc = "configured" =>
    /\ payload.geo = Absent => nGeoLoc_ = SCHEMA_GEOLOC
    /\ payload.size = Absent => io_size_ = SCHEMA_IO_SIZE
=============================================================================
