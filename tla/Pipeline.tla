------------------------------ MODULE Pipeline ------------------------------
(***************************************************************************)
(* A DataGenerator and a DataTransferModule loaded into one application,   *)
(* over HDF5DataStores in one directory: the generator writes its          *)
(* fragments through one store while the transfer lists and reads them     *)
(* through another and combines them into the files of a third.  (The      *)
(* demonstrations load each module into an application of its own and run  *)
(* one after the other; an application takes any list of modules.)         *)
(* Nothing catches what a store throws: it ends the process.  The modules' *)
(* own life cycles are in DataGenerator and DataTransferModule; here both  *)
(* are started, and every call of theirs is made of the steps of           *)
(* HDF5DataStore.                                                          *)
(***************************************************************************)
EXTENDS HDF5DataStore

CONSTANTS
  Fragments,   \* the keys the generator writes, in its order
  Payloads,    \* the blocks it writes
  MaxLives     \* bound: the process is not ended more often

Gen == "gen"
In == "in"
Out == "out"

\* What the transfer writes for a block of size zero, as a read returns it that
\* survived overrunning its buffer, and for one nobody filled.
EmptyBlock == "empty"
Garbled == "garbled"

\* Events are counted from one and locations from zero; a listing reports keys
\* without their detector.
ASSUME PipelineAssumption ==
  /\ Stores = {Gen, In, Out}
  /\ \A k \in Keys : /\ k.event >= 0 /\ k.geo >= 0
                    /\ StorageKey(k.event, INVALID_DETECTORID, k.geo) \in Keys
  /\ Fragments \in Seq(Keys)
  /\ Payloads \cup {EmptyBlock, Garbled} \subseteq Blocks
  /\ MaxLives \in Nat

\* The fragments of an event follow each other and none comes twice: the order of
\* the loops in DataGenerator::do_work (DataGenerator.cpp:116-129).
ASSUME FragmentsAssumption ==
  \A i, j \in 1 .. Len(Fragments) : i < j =>
    /\ Fragments[i].event # Fragments[j].event \/ Fragments[i].geo # Fragments[j].geo
    /\ Fragments[i].event = Fragments[j].event =>
         \A m \in i .. j : Fragments[m].event = Fragments[i].event

VARIABLES
  written,    \* how many fragments the generator has written
  xfer,       \* where the transfer's do_work is
  todo,       \* the listed datasets it has still to copy
  inHand,     \* the block it has read and not yet written
  promised,   \* history: the writes that had returned when the input was listed
  lives       \* history: how often the process has ended

modules == << written, xfer, todo, inHand, promised >>
pipelineVars == << vars, modules, lives >>

NothingInHand == << InvalidKey, "none" >>

PipelineInit ==
  /\ Init
  /\ written = 0 /\ xfer = "list" /\ todo = {} /\ inHand = NothingInHand /\ promised = {}
  /\ lives = 0

Alive == \A s \in Stores : pc[s] # "throw"

Made == \A s \in Stores : pc[s] # "none"

\* An exception leaves do_work, a wild pointer of a garbled block is followed, a
\* buffer is overrun, or the process is killed; it is started again.
Ends ==
  /\ ~Alive \/ Crashes \/ inHand[2] = Garbled \/ \E s \in Stores : Undefined(s)
  /\ lives < MaxLives /\ lives' = lives + 1
  /\ ProcessDies
  /\ written' = 0 /\ xfer' = "list" /\ todo' = {} /\ inHand' = NothingInHand /\ promised' = {}

Configure(s) == Construct(s) /\ UNCHANGED << modules, lives >>

Calls(s) == Alive /\ Made /\ Step(s) /\ UNCHANGED << modules, lives >>

----------------------------------------------------------------------------
(* DataGenerator::do_work *)

GeneratorWrites ==
  /\ Alive /\ Made
  /\ written < Len(Fragments)
  /\ \E b \in Payloads : BeginWrite(Gen, Fragments[written + 1], b)
  /\ UNCHANGED << modules, lives >>

GeneratorGoesOn ==
  /\ Alive /\ Return(Gen)
  /\ written' = written + 1
  /\ UNCHANGED << xfer, todo, inHand, promised, lives >>

----------------------------------------------------------------------------
(* DataTransferModule::do_work *)

TransferLists ==
  /\ Alive /\ Made
  /\ xfer = "list" /\ BeginList(In)
  /\ xfer' = "listing"
  /\ UNCHANGED << written, todo, inHand, promised, lives >>

TransferHasList ==
  /\ Alive /\ xfer = "listing" /\ Return(In)
  /\ todo' = keyList[In]
  /\ promised' = call[In].before
  /\ xfer' = "copy"
  /\ UNCHANGED << written, inHand, lives >>

\* Mutant: the dataset stays in the list.
TransferReads_Kept ==
  /\ Alive /\ xfer = "copy"
  /\ \E d \in todo : BeginRead(In, ListedKey(<< d[2], d[3] >>))
  /\ xfer' = "read"
  /\ UNCHANGED << written, todo, inHand, promised, lives >>

TransferReads ==
  /\ Alive /\ xfer = "copy"
  /\ \E d \in todo : BeginRead(In, ListedKey(<< d[2], d[3] >>)) /\ todo' = todo \ {d}
  /\ xfer' = "read"
  /\ UNCHANGED << written, inHand, promised, lives >>

\* Mutant: the block handed on is the one its constructor made.
Content_Unread(value) == Garbled

Content(value) ==
  IF value = "unwritten" THEN EmptyBlock
  ELSE IF value = "uninitialised" THEN Garbled
  ELSE value

TransferHasBlock ==
  /\ Alive /\ xfer = "read" /\ Return(In)
  /\ inHand' = << call[In].key, Content(result[In]) >>
  /\ xfer' = "got"
  /\ UNCHANGED << written, todo, promised, lives >>

TransferWrites ==
  /\ Alive /\ xfer = "got"
  /\ BeginWrite(Out, inHand[1], inHand[2])
  /\ xfer' = "write"
  /\ UNCHANGED << written, todo, inHand, promised, lives >>

TransferGoesOn ==
  /\ Alive /\ xfer = "write" /\ Return(Out)
  /\ inHand' = NothingInHand
  /\ xfer' = "copy"
  /\ UNCHANGED << written, todo, promised, lives >>

\* Mutant: the transfer lists its input again.
TransferWaits_ListsAgain ==
  /\ Alive /\ xfer = "copy" /\ todo = {}
  /\ xfer' = "list"
  /\ UNCHANGED << vars, written, todo, inHand, promised, lives >>

\* One listing, one copy; then it waits for the stop.
TransferWaits ==
  /\ Alive /\ xfer = "copy" /\ todo = {}
  /\ xfer' = "wait"
  /\ UNCHANGED << vars, written, todo, inHand, promised, lives >>

----------------------------------------------------------------------------
Generator == Calls(Gen) \/ GeneratorWrites \/ GeneratorGoesOn

Transfer ==
  \/ Calls(In) \/ Calls(Out)
  \/ TransferLists \/ TransferHasList \/ TransferReads \/ TransferHasBlock
  \/ TransferWrites \/ TransferGoesOn \/ TransferWaits

PipelineNext == Generator \/ Transfer \/ Ends \/ \E s \in Stores : Configure(s)

\* The operating system runs the working thread of the transfer; nobody has to
\* configure a store, and the generator may stop at any call.
PipelineSpec == PipelineInit /\ [][PipelineNext]_pipelineVars /\ WF_pipelineVars(Transfer)

----------------------------------------------------------------------------
(* Properties *)

\* Generator and transfer never make each other's stores throw, whatever their
\* calls' steps interleave with: in its first life the process does not end by an
\* exception, and no file is refused, found twice or taken for another's
\* (HDF5DataStore.hpp:107, 176, 199, 254-264, 277).
NoStoreThrows == lives = 0 => Alive

\* What the transfer copies for a block whose read failed unnoticed.
Unfilled == IF Faults THEN {Garbled} ELSE {}

\* Once the transfer waits, every block whose write had returned when it listed
\* its input is on disk in the output, under the same ids and with the same data
\* (DataTransferModule.cpp:106-110 over HDF5DataStore.hpp:146-215), unless the
\* library failed while it was read: that error is swallowed (129-132), and what
\* is on disk then is a block nobody filled.
CopyOnDisk ==
  xfer = "wait" =>
    \A a \in promised : \E b \in {a[3]} \cup Unfilled :
      << Place(Conf[Out], a[2]), b >> \in disk.contents

\* Until the process ends for the first time, the output holds no block that the
\* input does not hold under the same ids, but for empty copies of datasets whose
\* write was under way, if reading them past the buffer did not end it
\* (DataTransferModule.cpp:107-110 over HDF5DataStore.hpp:123-126), and blocks whose
\* read failed unnoticed (129-132).
OutputFromInput ==
  lives = 0 =>
    \A k \in Keys, b \in Blocks \ ({EmptyBlock} \cup Unfilled) :
      << Place(Conf[Out], k), b >> \in fs.contents => << Place(Conf[In], k), b >> \in fs.contents

\* A copy ends, however many fragments the generator adds meanwhile, or the process
\* does (DataTransferModule.cpp:106-116).
CopyEnds == xfer = "copy" ~> xfer = "wait" \/ ~Alive \/ ~Made

\* The steps left of a read() and of a write().
ReadLeft == [open |-> 4, read |-> 3, overrun |-> 2, return |-> 1, throw |-> 0]

WriteLeft ==
  [open |-> 7, group |-> 6, createGroup |-> 5, dataset |-> 4, raw |-> 3, flush |-> 2,
   return |-> 1, throw |-> 0]

\* What is left of a copy: at most sixteen steps for each dataset, those of one
\* read() and one write(), and the step to the wait.
CopyLeft ==
  16 * Cardinality(todo) +
  ( IF xfer = "read" THEN 11 + ReadLeft[pc[In]]
    ELSE IF xfer = "got" THEN 11
    ELSE IF xfer = "write" THEN 2 + WriteLeft[pc[Out]]
    ELSE IF xfer = "copy" THEN 1
    ELSE 0 )

Copying == xfer \in {"copy", "read", "got", "write"}

\* Every step of a transfer that copies leaves less of the copy, no step of the
\* generator or of its store adds to it, and only the wait follows: the bound is set
\* by the one listing, whatever the generator writes into the files of the input
\* meanwhile (DataTransferModule.cpp:106-116 over HDF5DataStore.hpp:91-185).
CopyAdvances ==
  [][Copying /\ lives' = lives =>
       /\ Copying' \/ xfer' = "wait"
       /\ IF Transfer THEN CopyLeft' < CopyLeft ELSE CopyLeft' = CopyLeft]_pipelineVars
=============================================================================
