------------------------- MODULE DataTransferModule -------------------------
(***************************************************************************)
(* The DataTransferModule (plugins/DataTransferModule.cpp): its working    *)
(* thread lists the keys of the input store once, copies block after block *)
(* to the output store, and then waits for the stop.  The stores are the   *)
(* write-once stores of module DataStore; the blocks of the input arrive   *)
(* from a writer elsewhere, each first as a dataset without its data and   *)
(* then whole, as HDF5DataStore writes them.                               *)
(***************************************************************************)
EXTENDS Naturals, FiniteSets, DAQModule

CONSTANTS
  Targets,   \* data store parameters that name different files
  Fed,       \* bound: the targets that a writer elsewhere fills
  Keys,
  Live,      \* TRUE: blocks arrive while a copy is under way too
  Faults     \* TRUE: a store may throw for reasons of its own, or the process be killed

NoStore == "null"
NoKey == "none"

ASSUME TransferAssumption ==
  /\ Fed \subseteq Targets
  /\ NoStore \notin Targets /\ NoKey \notin Keys
  /\ Live \in BOOLEAN /\ Faults \in BOOLEAN

Payloads == [input : Targets \cup {NoStore}, output : Targets \cup {NoStore}]

NoPayload == [input |-> NoStore, output |-> NoStore]

VARIABLES
  payload,
  inputDataStore_, outputDataStore_,
  keyList,     \* the keys still to copy
  block,       \* <<key, content>> read and not yet written
  dangling,    \* a store was destroyed under a call in progress
  stored,      \* <<target, key, content>>
  promised,    \* history: the keys that were whole in the input when it was listed
  copied       \* history: <<target, key, content>> this module wrote

conf == << payload, inputDataStore_, outputDataStore_, dangling >>
copy == << keyList, block, promised >>
vars == << rc, cmd, running, worker, died, inOrder, payload, inputDataStore_, outputDataStore_,
           keyList, block, dangling, stored, promised, copied >>

\* A dataset is "unwritten" from its creation to the write of its data, "empty" when
\* a block of size zero was copied to it, and "garbled" when nobody had set the size
\* or the data of that block.
Contents == {"unwritten", "empty", "whole", "garbled"}

\* Of a block in memory, "unset" says that nobody set its size or its data.
BlockContents == {"empty", "whole", "garbled", "unset"}

NoBlock == << NoKey, "empty" >>

Holds(t, k) == \E c \in Contents : << t, k, c >> \in stored

----------------------------------------------------------------------------
Init ==
  /\ ModuleInit
  /\ payload = NoPayload
  /\ inputDataStore_ = NoStore /\ outputDataStore_ = NoStore
  /\ keyList = {} /\ block = NoBlock /\ promised = {}
  /\ dangling = FALSE /\ stored = {} /\ copied = {}

\* The process ends, and everything in its memory with it.
Ends(cause) ==
  /\ Dies(cause)
  /\ payload' = NoPayload
  /\ inputDataStore_' = NoStore /\ outputDataStore_' = NoStore
  /\ keyList' = {} /\ block' = NoBlock /\ dangling' = FALSE /\ promised' = {}

\* It is started again; the files are still there.
Boot == ModuleBoot /\ UNCHANGED << conf, copy, stored, copied >>

\* The writer of the input, in its own process.
Arrive(t, k) ==
  /\ Live \/ ~Active
  /\ \/ ~Holds(t, k) /\ stored' = stored \cup {<< t, k, "unwritten" >>}
     \/ /\ << t, k, "unwritten" >> \in stored \ copied
        /\ stored' = (stored \ {<< t, k, "unwritten" >>}) \cup {<< t, k, "whole" >>}
  /\ UNCHANGED << moduleVars, conf, copy, copied >>

----------------------------------------------------------------------------
(* The commands *)

do_conf ==
  /\ Begins("initial", "input")
  /\ \E p \in Payloads : payload' = p
  /\ UNCHANGED << inputDataStore_, outputDataStore_, dangling, copy, stored, copied >>

\* The new store replaces the old one, which is destroyed, in a call of it too.
ConfInput ==
  /\ payload.input # NoStore
  /\ CommandMoves("input", "output")
  /\ inputDataStore_' = payload.input
  /\ dangling' = (dangling \/ worker \in {"list", "copy"})
  /\ UNCHANGED << payload, outputDataStore_, copy, stored, copied >>

ConfOutput ==
  /\ payload.output # NoStore
  /\ Succeeds("output", "configured")
  /\ outputDataStore_' = payload.output
  /\ dangling' = (dangling \/ worker = "write")
  /\ UNCHANGED << payload, inputDataStore_, copy, stored, copied >>

\* Mutant: the exception of makeDataStore is swallowed.
ConfFails_Swallowed ==
  /\ \/ payload.input = NoStore /\ Succeeds("input", "configured")
     \/ payload.output = NoStore /\ Succeeds("output", "configured")
  /\ UNCHANGED << conf, copy, stored, copied >>

\* makeDataStore throws; the input store may have been replaced already.
ConfFails ==
  /\ \/ payload.input = NoStore /\ CommandMoves("input", "idle")
     \/ payload.output = NoStore /\ CommandMoves("output", "idle")
  /\ UNCHANGED << conf, copy, stored, copied >>

\* A field that is missing: operator[] of a const json asserts that it is there.
ConfAborts ==
  /\ \/ cmd = "input" /\ payload.input = NoStore
     \/ cmd = "output" /\ payload.output = NoStore
  /\ Ends("missing field")
  /\ UNCHANGED << stored, copied >>

do_start ==
  /\ StartThread
  /\ keyList' = {} /\ block' = NoBlock /\ promised' = {}
  /\ UNCHANGED << conf, stored, copied >>

do_stop == StopThread /\ UNCHANGED << conf, copy, stored, copied >>

do_stop_returns == StopReturns /\ UNCHANGED << conf, copy, stored, copied >>

\* Only the time to sleep is reset.
do_unconfigure ==
  /\ AtOnce("configured", "initial")
  /\ UNCHANGED << conf, copy, stored, copied >>

Command ==
  \/ do_conf \/ ConfInput \/ ConfOutput \/ ConfFails \/ ConfAborts
  \/ do_start \/ do_stop \/ do_stop_returns \/ do_unconfigure

----------------------------------------------------------------------------
(* do_work *)

CheckStores ==
  /\ inputDataStore_ # NoStore /\ outputDataStore_ # NoStore
  /\ WorkerMoves("entry", "list")
  /\ UNCHANGED << conf, copy, stored, copied >>

NoDataStore ==
  /\ worker = "entry"
  /\ inputDataStore_ = NoStore \/ outputDataStore_ = NoStore
  /\ Ends("no data store")
  /\ UNCHANGED << stored, copied >>

\* A dataset is listed as soon as it exists.
Listed == {k \in Keys : Holds(inputDataStore_, k)}

getAllExistingKeys ==
  /\ WorkerMoves("list", "copy")
  /\ keyList' = Listed
  /\ promised' = {k \in Keys : << inputDataStore_, k, "whole" >> \in stored}
  /\ UNCHANGED << conf, block, stored, copied >>

\* Mutant: the block handed on is the one its constructor made.
Content_Unread(k) == "uninitialised"

\* The block is as long as what is stored of the dataset: of an unwritten one, nothing.
Content(k) ==
  IF << inputDataStore_, k, "whole" >> \in stored THEN "whole"
  ELSE IF << inputDataStore_, k, "garbled" >> \in stored THEN "garbled" ELSE "empty"

\* Mutant: the key stays in the list.
Read_KeepsKey ==
  /\ \E k \in keyList : block' = << k, Content(k) >> \/ (Faults /\ block' = << k, "unset" >>)
  /\ WorkerMoves("copy", "write")
  /\ UNCHANGED << conf, keyList, promised, stored, copied >>

\* An error while the dataset is read is taken for a missing dataset and caught:
\* the block comes back as far as it was filled.
Read ==
  /\ \E k \in keyList :
       /\ keyList' = keyList \ {k}
       /\ block' = << k, Content(k) >> \/ (Faults /\ block' = << k, "unset" >>)
  /\ WorkerMoves("copy", "write")
  /\ UNCHANGED << conf, promised, stored, copied >>

Copied == IF block[2] = "unset" THEN "garbled" ELSE block[2]

Put(content) ==
  /\ stored' = stored \cup {<< outputDataStore_, block[1], content >>}
  /\ copied' = copied \cup {<< outputDataStore_, block[1], content >>}

Write ==
  /\ ~Holds(outputDataStore_, block[1])
  /\ WorkerMoves("write", "copy")
  /\ Put(Copied)
  /\ block' = NoBlock
  /\ UNCHANGED << conf, keyList, promised >>

\* An exception leaves do_work, and with it the process.  A write that fails for
\* reasons of its own may have made its dataset, and written its data too.
StoreThrows ==
  \/ /\ worker = "write" /\ Holds(outputDataStore_, block[1])
     /\ Ends("duplicate")
     /\ UNCHANGED << stored, copied >>
  \/ /\ Faults /\ worker \in {"list", "copy", "write"}
     /\ Ends("store failed")
     /\ UNCHANGED << stored, copied >>
  \/ /\ Faults /\ worker = "write" /\ ~Holds(outputDataStore_, block[1])
     /\ Ends("store failed")
     /\ \E content \in {"unwritten", Copied} : Put(content)

\* A store that is destroyed in the middle of a call; a read of a dataset without its
\* data, which fills a buffer of size zero with the whole of the dataset; a write of a
\* block whose pointer nobody set: anything may happen.
UsesDestroyedStore == dangling /\ worker \in {"list", "copy", "write"}

ReadOverruns ==
  worker = "copy" /\ \E k \in keyList : << inputDataStore_, k, "unwritten" >> \in stored

WritesUnset == worker = "write" /\ block[2] = "unset"

Undefined ==
  /\ UsesDestroyedStore \/ ReadOverruns \/ WritesUnset
  /\ Ends("undefined behaviour")
  /\ UNCHANGED << stored, copied >>

\* Mutant: a stop ends the copy.
CopyDone_OrStopped == keyList = {} \/ ~running

\* The copy does not look at the running flag.
CopyDone == keyList = {}

Wait ==
  /\ CopyDone
  /\ WorkerMoves("copy", "wait")
  /\ UNCHANGED << conf, copy, stored, copied >>

Exit ==
  /\ ~running
  /\ WorkerMoves("wait", "done")
  /\ UNCHANGED << conf, copy, stored, copied >>

Killed == Faults /\ Ends("killed") /\ UNCHANGED << stored, copied >>

Work ==
  \/ CheckStores \/ NoDataStore \/ getAllExistingKeys \/ Read \/ Write \/ StoreThrows
  \/ Undefined \/ Wait \/ Exit

Next ==
  \/ Command \/ Work \/ Killed \/ Boot
  \/ \E t \in Fed, k \in Keys : Arrive(t, k)

\* As for DataGenerator: the threads run, nobody has to send a command, and the
\* writer of the input may stop at any block.
Spec == Init /\ [][Next]_vars /\ WF_vars(Work) /\ WF_vars(do_stop_returns)

----------------------------------------------------------------------------
(* Properties *)

\* Every variable has its type.
TypeOK ==
  /\ ModuleTypeOK
  /\ cmd \in {"idle", "input", "output", "stop"}
  /\ worker \in {"none", "entry", "list", "copy", "write", "wait", "done"}
  /\ died \in {"no", "missing field", "no data store", "duplicate", "store failed",
              "undefined behaviour", "killed"}
  /\ payload \in Payloads
  /\ {inputDataStore_, outputDataStore_} \subseteq Targets \cup {NoStore}
  /\ keyList \subseteq Keys /\ promised \subseteq Keys
  /\ block \in (Keys \X BlockContents) \cup {NoBlock}
  /\ dangling \in BOOLEAN
  /\ copied \subseteq stored
  /\ stored \subseteq Targets \X Keys \X Contents

\* A stop never cuts a copy: the working thread waits for the stop, or has ended,
\* only when every block that was whole when the input was listed is whole in the
\* output, unless its read failed unnoticed; it is never left without data there
\* (DataTransferModule.cpp:106-116, HDF5DataStore.hpp:129).
CopyComplete ==
  inOrder /\ (worker = "wait" \/ (worker = "done" /\ cmd = "stop")) =>
    \A k \in promised : \E c \in Contents :
      /\ << outputDataStore_, k, c >> \in stored
      /\ c = "whole" \/ (c = "garbled" /\ Faults)

\* A working thread copies between the two stores of one payload: a conf whose
\* second store could not be made leaves no mixture of two behind it, and no store is
\* replaced while the thread is in a call of it (DataTransferModule.cpp:58-62, 106-109).
ConfigurationIsWhole ==
  inOrder /\ Active =>
    inputDataStore_ = payload.input /\ outputDataStore_ = payload.output /\ ~dangling

\* A stop command ends: the copy is finite, its blocks are those of one listing
\* however many more arrive, and the thread is joined, or the process has ended
\* (DataTransferModule.cpp:76-83, 106-116).
StopEnds == cmd = "stop" ~> cmd = "idle" \/ ~Alive

\* The phases of do_work still to come, and what is left of a copy: a read and a
\* write for each key.
Phase ==
  [entry |-> 4, list |-> 3, copy |-> 2, write |-> 2, wait |-> 1, done |-> 0, none |-> 0][worker]

CopyLeft == 2 * Cardinality(keyList) + (IF worker = "write" THEN 1 ELSE 0)

\* While a stop waits, every step of the working thread brings its end nearer and
\* no other step takes it back: the thread never returns to an earlier phase, and
\* within the copy less and less is left, whatever arrives in the input meanwhile
\* and whatever was configured, started and stopped before
\* (DataTransferModule.cpp:76-83, 106-116).
StopAdvances ==
  [][cmd = "stop" /\ cmd' = "stop" =>
       \/ ~Work /\ UNCHANGED << worker, keyList >>
       \/ Work /\ Phase' < Phase
       \/ Work /\ Phase' = Phase /\ CopyLeft' < CopyLeft]_vars
=============================================================================
