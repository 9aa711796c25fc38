-------------------------- MODULE Pipeline_proofs --------------------------
(***************************************************************************)
(* What a generator and a transfer over HDF5DataStores in one process      *)
(* promise together, for every sequence of fragments, set of keys and      *)
(* configuration.  Every step of theirs is a step of HDF5DataStore or the  *)
(* death of the process, so that its invariants hold here as well.         *)
(***************************************************************************)
EXTENDS Pipeline, HDF5Callers_proofs, FiniteSetTheorems

\* What HDF5Callers_proofs proves of the stores.
StoresInv == DurableInv /\ ReadInv /\ ListInv /\ PlacesInv

LEMMA StoresInit == Init => StoresInv
<1> SUFFICES ASSUME Init PROVE StoresInv
  OBVIOUS
<1>1. AckedDurable
  BY DEF Init, AckedDurable
<1>2. ReadInv
  BY DEF Init, ReadInv, NoCall
<1>3. ListInv
  BY DEF Init, ListInv, Matches, Finds, NoCall
<1>4. PlacesInv
  BY DEF Init, NoFiles, PlacesInv
<1> QED
  BY <1>1, <1>2, <1>3, <1>4, InitTypeInv, ContentInit, HandleInit DEF StoresInv, DurableInv

LEMMA StoresNext ==
  ASSUME ~Reuse, SelfMatching, StoresInv, [Next]_vars
  PROVE  StoresInv'
<1>1. DurableInv'
  BY TypeNext, ContentNext, HandleNext, AckedDurableNext DEF StoresInv, DurableInv
<1>2. ReadInv' /\ ListInv' /\ PlacesInv'
  BY ReadNext, ListNext, PlacesNext DEF StoresInv
<1> QED
  BY <1>1, <1>2 DEF StoresInv

\* The process also ends by an exception, whether or not it may crash.
LEMMA StoresDie ==
  ASSUME StoresInv, ProcessDies
  PROVE  StoresInv'
<1>1. PICK a \in Survivors : fs' = a /\ disk' = a /\ acked' = acked
  BY DEF ProcessDies
<1>2. disk.contents \subseteq a.contents /\ a.datasets \subseteq fs.datasets
  BY SurvivorsBounds DEF StoresInv, DurableInv, ContentInv, DiskWithinFs
<1>3. AckedDurable'
  BY <1>1, <1>2 DEF StoresInv, DurableInv, AckedDurable
<1>4. HandleInv' /\ ReadInv' /\ ListInv'
  BY DEF ProcessDies, HandleInv, InFile, ReadInv, ListInv, Matches, Finds, NoCall
<1>5. PlacesInv'
  BY <1>1, <1>2 DEF ProcessDies, StoresInv, PlacesInv
<1> QED
  BY <1>3, <1>4, <1>5, DiesTypeInv, ContentDies DEF StoresInv, DurableInv

----------------------------------------------------------------------------
(* The steps of a store *)

SameIds(k, l) == k.event = l.event /\ k.geo = l.geo

LEMMA SamePlace ==
  ASSUME NEW c, NEW k, NEW l, SameIds(k, l)
  PROVE  Place(c, k) = Place(c, l)
BY DEF SameIds, Place, getFileNameFromKey, Ending, WritePath

\* What the name of a file says of the key it was made from.
LEMMA SameFile ==
  ASSUME NEW conf, conf.prefix \in Prefixes, NEW k, NEW l, Key(k), Key(l),
         getFileNameFromKey(conf, k) = getFileNameFromKey(conf, l)
  PROVE  /\ conf.mode = "one-event-per-file" => k.event = l.event
         /\ conf.mode = "one-fragment-per-file" => SameIds(k, l)
<1> DEFINE name == getFileNameFromKey(conf, k)
           n == Len(conf.prefix)
           a == Ending(conf.mode, k)
           b == Ending(conf.mode, l)
<1>1. \A i \in 1 .. Len(a) : name[n + i] = a[i]
  BY NameParts
<1>5. \A i \in 1 .. Len(b) : name[n + i] = b[i]
  <2>1. \A i \in 1 .. Len(b) : getFileNameFromKey(conf, l)[n + i] = b[i]
    BY NameParts
  <2> HIDE DEF n, b
  <2> QED
    BY <2>1
<1>2. ASSUME NEW i \in CInt, NEW j \in CInt, ToString(ToSizeT(i)) = ToString(ToSizeT(j))
      PROVE  i = j
  BY <1>2, SizeTInjective DEF ToString, Number
<1> HIDE DEF name, n
<1>3. CASE conf.mode = "one-event-per-file"
  <2>1. a[2] = ToString(ToSizeT(k.event)) /\ b[2] = ToString(ToSizeT(l.event))
        /\ 2 \in 1 .. Len(a) /\ 2 \in 1 .. Len(b)
    BY <1>3 DEF Ending
  <2>2. a[2] = b[2]
    BY <1>1, <1>5, <2>1
  <2> QED
    BY <1>2, <1>3, <2>1, <2>2 DEF Key
<1>4. CASE conf.mode = "one-fragment-per-file"
  <2>1. /\ a[2] = ToString(ToSizeT(k.event)) /\ b[2] = ToString(ToSizeT(l.event))
        /\ a[4] = ToString(ToSizeT(k.geo)) /\ b[4] = ToString(ToSizeT(l.geo))
        /\ {2, 4} \subseteq 1 .. Len(a) /\ {2, 4} \subseteq 1 .. Len(b)
    BY <1>4 DEF Ending
  <2>2. a[2] = b[2] /\ a[4] = b[4]
    BY <1>1, <1>5, <2>1
  <2> QED
    BY <1>2, <1>4, <2>1, <2>2 DEF Key, SameIds
<1> QED
  BY <1>3, <1>4

\* Where read() looks for a key that is not negative.
LEMMA ReadsPlace ==
  ASSUME StoresInv, NEW s \in Stores, pc[s] = "read"
  PROVE  DatasetToRead(s) = Place(Conf[s], call[s].key) /\ call[s].key \in Keys
<1>1. call[s].key \in Keys
  BY DEF StoresInv, DurableInv, TypeInv, CallOK
<1>2. filePtr[s] = File(s)
  BY DEF StoresInv, DurableInv, HandleInv, InFile
<1>3. ReadPath(call[s].key) = WritePath(call[s].key)
  BY <1>1, KeyIds, PipelineAssumption, ReadPathIsWritePath DEF NonNegativeIds
<1> QED
  BY <1>1, <1>2, <1>3 DEF DatasetToRead, Place, File, FileOf

\* A step of s goes on with its call and leaves the other stores alone.
LEMMA StepFrame ==
  ASSUME StoresInv, NEW s \in Stores, Step(s)
  PROVE  /\ call' = call /\ acked \subseteq acked'
         /\ pc[s] \notin {"none", "idle", "return", "throw"}
         /\ \A t \in Stores : t # s =>
              /\ pc'[t] = pc[t] /\ result'[t] = result[t] /\ filePtr'[t] = filePtr[t]
              /\ fileList'[t] = fileList[t] /\ keyList'[t] = keyList[t]
              /\ localFilePtr'[t] = localFilePtr[t]
              /\ openFlagsOfOpenFile'[t] = openFlagsOfOpenFile[t]
<1> USE DEF StoresInv, DurableInv, TypeInv, TypeOK
<1>1. acked \subseteq acked'
  BY AckedStays DEF Next
<1>2. CASE OpenFileIfNeeded(s)
  BY <1>1, <1>2 DEF OpenFileIfNeeded, OpenSkip, OpenFile, OpenThrows, RecordNameAndFlags,
     Handles, Throw, Finish, Goto, storeVars, listVars
<1>3. CASE Write(s)
  BY <1>1, <1>3 DEF Write, CheckGroup, CreateGroup, CreateDataSet, CreateThrows, WriteRaw,
     Flush, WriteFails, Throw, Finish, Goto, storeVars, listVars
<1>4. CASE Read(s)
  BY <1>1, <1>4 DEF Read, ReadThrows, ReadFails, ReadBlock, SizeBuffer, Overrun, Throw, Finish,
     Goto, storeVars, listVars
<1>5. CASE List(s)
  BY <1>1, <1>5 DEF List, ListOpen, ListThrows, ListPaths, PathsThrow, ListDone, Handles,
     Throw, Finish, Goto, storeVars, listVars
<1> QED
  BY <1>2, <1>3, <1>4, <1>5 DEF Step

\* The steps after which a call has returned.
LEMMA StepReturns ==
  ASSUME StoresInv, NEW s \in Stores, Step(s), pc'[s] = "return"
  PROVE  Flush(s) \/ ReadFails(s) \/ ReadBlock(s) \/ Overrun(s) \/ ListDone(s)
<1> USE DEF StoresInv, DurableInv, TypeInv, TypeOK
<1> QED
  BY DEF Step, OpenFileIfNeeded, OpenSkip, OpenFile, OpenThrows, RecordNameAndFlags, Opened,
     Write, CheckGroup, CreateGroup, CreateDataSet, CreateThrows, WriteRaw, WriteFails, Read,
     ReadThrows, SizeBuffer, List, ListOpen, ListThrows, ListPaths, PathsThrow, Throw, Finish, Goto

----------------------------------------------------------------------------
(* The steps of the pipeline *)

\* Where do_work of the transfer is, and the calls it has made.
CallsInv ==
  /\ written \in Nat /\ lives \in Nat
  /\ todo \subseteq KeyPlaces
  /\ xfer \in {"got", "write"} => inHand[1] \in Keys /\ inHand[2] \in Blocks
  /\ xfer = "listing" => call[In].op = "list"
  /\ xfer = "read" => call[In].op = "read" /\ call[In].key \in Keys
  /\ xfer = "write" =>
       call[Out].op = "write" /\ call[Out].key = inHand[1] /\ call[Out].block = inHand[2]

\* What a call has to show when it returns.
ReturnInv ==
  \A s \in Stores : pc[s] = "return" =>
    /\ call[s].op = "write" => << Conf[s], call[s].key, call[s].block >> \in acked
    /\ call[s].op = "read" => result[s] \in Blocks \cup {"unwritten", "uninitialised"}

PipelineInv == StoresInv /\ CallsInv /\ ReturnInv

\* The key a listing reports for a place has the ids of the key that was written.
LEMMA ListedIds ==
  ASSUME NEW c \in Configurations, NEW k \in Keys
  PROVE  LET d == Place(c, k)
             l == ListedKey(<< d[2], d[3] >>)
         IN  l \in Keys /\ SameIds(l, k)
<1> DEFINE d == Place(c, k)
<1>1. << d[2], d[3] >> = WritePath(k)
  BY DEF Place, WritePath
<1>2. Key(k) /\ k.event >= 0 /\ k.geo >= 0
      /\ StorageKey(k.event, INVALID_DETECTORID, k.geo) \in Keys
  BY KeyIds, PipelineAssumption
<1>3. ListedKey(WritePath(k)) = StorageKey(k.event, INVALID_DETECTORID, k.geo)
  BY <1>2, ListedKeyOfWritePath
<1> QED
  BY <1>1, <1>2, <1>3 DEF StorageKey, SameIds

LEMMA ListedKeys ==
  ASSUME CallsInv, NEW d \in todo
  PROVE  ListedKey(<< d[2], d[3] >>) \in Keys
<1>1. PICK c \in Configurations, k \in Keys : d = Place(c, k)
  BY DEF CallsInv, KeyPlaces
<1> QED
  BY <1>1, ListedIds

LEMMA ThreeStores == Stores = {Gen, In, Out} /\ Gen # In /\ Gen # Out /\ In # Out
BY PipelineAssumption DEF Gen, In, Out

\* Every step that does not end the process is a step of the stores.
LEMMA StoreSteps ==
  ASSUME CallsInv, PipelineNext, ~Ends
  PROVE  [Next]_vars
<1>1. Gen \in Stores /\ In \in Stores /\ Out \in Stores
  BY ThreeStores
<1>2. CASE GeneratorWrites
  <2>1. PICK b \in Payloads : BeginWrite(Gen, Fragments[written + 1], b) /\ written < Len(Fragments)
    BY <1>2 DEF GeneratorWrites
  <2>2. Fragments[written + 1] \in Keys /\ b \in Blocks
    BY <2>1, PipelineAssumption DEF CallsInv
  <2> QED
    BY <1>1, <2>1, <2>2 DEF Next, Caller
<1>3. CASE TransferReads
  BY <1>1, <1>3, ListedKeys DEF TransferReads, Next, Caller
<1>4. CASE TransferWrites
  BY <1>1, <1>4 DEF TransferWrites, CallsInv, Next, Caller
<1>5. CASE GeneratorGoesOn \/ TransferLists \/ TransferHasList \/ TransferHasBlock \/ TransferGoesOn
  BY <1>1, <1>5 DEF GeneratorGoesOn, TransferLists, TransferHasList, TransferHasBlock,
     TransferGoesOn, Next, Caller
<1>6. ASSUME NEW s \in Stores, Calls(s) \/ Configure(s) PROVE Next
  BY <1>6 DEF Calls, Configure, Next, Caller
<1>7. CASE TransferWaits
  BY <1>7 DEF TransferWaits
<1> QED
  BY <1>1, <1>2, <1>3, <1>4, <1>5, <1>6, <1>7 DEF PipelineNext, Generator, Transfer

LEMMA StoresPipeline ==
  ASSUME ~Reuse, SelfMatching, CallsInv, StoresInv, [PipelineNext]_pipelineVars
  PROVE  StoresInv'
<1>1. CASE Ends
  BY <1>1, StoresDie DEF Ends
<1>2. CASE PipelineNext /\ ~Ends
  <2>1. [Next]_vars
    BY <1>2, StoreSteps
  <2> QED
    BY <2>1, StoresNext
<1>3. CASE UNCHANGED pipelineVars
  <2>1. [Next]_vars
    BY <1>3 DEF pipelineVars
  <2> QED
    BY <2>1, StoresNext
<1> QED
  BY <1>1, <1>2, <1>3

\* A call that begins or returns changes nothing but that store's call.
LEMMA CallerFrame ==
  ASSUME StoresInv, NEW s \in Stores,
         \/ Construct(s) \/ BeginList(s) \/ Return(s)
         \/ \E k : BeginRead(s, k) \/ \E b : BeginWrite(s, k, b)
  PROVE  /\ UNCHANGED << acked, fs, disk, readWrite, torn >>
         /\ UNCHANGED << filePtr, openFlagsOfOpenFile, localFilePtr >>
         /\ pc'[s] \notin {"return", "throw"}
         /\ \A t \in Stores : t # s =>
              /\ pc'[t] = pc[t] /\ call'[t] = call[t] /\ result'[t] = result[t]
              /\ fileList'[t] = fileList[t] /\ keyList'[t] = keyList[t]
BY DEF StoresInv, DurableInv, TypeInv, TypeOK, Construct, BeginList, Return, BeginRead, BeginWrite,
   Finish, Goto, storeVars, listVars, fileVars

LEMMA ReturnNext ==
  ASSUME StoresInv, CallsInv, ReturnInv, PipelineNext, ~Ends
  PROVE  ReturnInv'
<1> USE DEF StoresInv, DurableInv, TypeInv, TypeOK
<1>1. Gen \in Stores /\ In \in Stores /\ Out \in Stores
  BY ThreeStores
<1>2. ASSUME NEW s \in Stores, Step(s) PROVE ReturnInv'
  <2>1. /\ call' = call /\ acked \subseteq acked'
        /\ \A t \in Stores : t # s => pc'[t] = pc[t] /\ result'[t] = result[t]
    BY <1>2, StepFrame
  <2>2. CASE Flush(s)
    BY <2>1, <2>2 DEF Flush, ReturnInv, CallOK, WriteLabels
  <2>3. CASE ReadFails(s) \/ ReadBlock(s) \/ Overrun(s)
    <3>1. call[s].op = "read" /\ result'[s] \in Blocks \cup {"unwritten", "uninitialised"}
      BY <2>3 DEF ReadFails, ReadBlock, Overrun, Finish, CallOK
    <3> QED
      BY <2>1, <3>1 DEF ReturnInv
  <2>4. CASE ListDone(s)
    <3>1. call[s].op = "list"
      BY <2>4 DEF ListDone, ReadInv
    <3> QED
      BY <2>1, <3>1 DEF ReturnInv
  <2>5. CASE pc'[s] # "return"
    BY <2>1, <2>5 DEF ReturnInv
  <2> QED
    BY <1>2, <2>2, <2>3, <2>4, <2>5, StepReturns
<1>3. ASSUME NEW s \in Stores,
             \/ Construct(s) \/ BeginList(s) \/ Return(s)
             \/ \E k : BeginRead(s, k) \/ \E b : BeginWrite(s, k, b)
      PROVE  ReturnInv'
  <2>1. /\ acked' = acked /\ pc'[s] # "return"
        /\ \A t \in Stores : t # s =>
             pc'[t] = pc[t] /\ call'[t] = call[t] /\ result'[t] = result[t]
    BY <1>3, CallerFrame
  <2> QED
    BY <2>1 DEF ReturnInv
<1>4. CASE UNCHANGED vars
  BY <1>4 DEF vars, ReturnInv
<1> QED
  BY <1>1, <1>2, <1>3, <1>4 DEF PipelineNext, Generator, Transfer, Calls, Configure,
     GeneratorWrites, GeneratorGoesOn, TransferLists, TransferHasList, TransferReads,
     TransferHasBlock, TransferWrites, TransferGoesOn, TransferWaits

LEMMA CallsNext ==
  ASSUME ~Reuse, StoresInv, CallsInv, ReturnInv, PipelineNext, ~Ends
  PROVE  CallsInv'
<1> USE ThreeStores DEF StoresInv, DurableInv, TypeInv, TypeOK
<1>1. ASSUME NEW s \in Stores, Calls(s) PROVE CallsInv'
  <2>1. call' = call /\ UNCHANGED << written, xfer, todo, inHand, lives >>
    BY <1>1, StepFrame DEF Calls, modules
  <2> QED
    BY <2>1 DEF CallsInv
<1>2. ASSUME NEW s \in Stores, Configure(s) PROVE CallsInv'
  BY <1>2 DEF Configure, Construct, modules, CallsInv
<1>3. CASE GeneratorWrites \/ GeneratorGoesOn
  <2>1. /\ UNCHANGED << xfer, todo, inHand, lives >> /\ written' \in Nat
        /\ call'[In] = call[In] /\ call'[Out] = call[Out]
    BY <1>3 DEF GeneratorWrites, GeneratorGoesOn, BeginWrite, Return, modules, CallsInv
  <2> QED
    BY <2>1 DEF CallsInv
<1>4. CASE TransferLists
  <2>1. UNCHANGED << written, todo, inHand, lives >> /\ xfer' = "listing" /\ call'[In].op = "list"
    BY <1>4 DEF TransferLists, BeginList
  <2> QED
    BY <2>1 DEF CallsInv
<1>5. CASE TransferHasList
  BY <1>5 DEF TransferHasList, CallsInv, PlacesInv
<1>6. CASE TransferReads
  <2>1. PICK d \in todo : BeginRead(In, ListedKey(<< d[2], d[3] >>)) /\ todo' = todo \ {d}
    BY <1>6 DEF TransferReads
  <2>2. /\ call'[In].op = "read" /\ call'[In].key \in Keys
        /\ xfer' = "read" /\ UNCHANGED << written, lives >>
    BY <1>6, <2>1, ListedKeys DEF TransferReads, BeginRead
  <2> QED
    BY <2>1, <2>2 DEF CallsInv
<1>7. CASE TransferHasBlock
  <2>1. result[In] \in Blocks \cup {"unwritten", "uninitialised"} /\ call[In].key \in Keys
    BY <1>7, BlocksAssumption DEF TransferHasBlock, Return, CallsInv, ReturnInv
  <2>2. Content(result[In]) \in Blocks
    BY <2>1, PipelineAssumption DEF Content
  <2> QED
    BY <1>7, <2>1, <2>2 DEF TransferHasBlock, CallsInv
<1>8. CASE TransferWrites
  <2>1. /\ UNCHANGED << written, todo, inHand, lives >> /\ xfer' = "write"
        /\ call'[Out] = [op |-> "write", key |-> inHand[1], block |-> inHand[2], before |-> {}]
        /\ inHand[1] \in Keys /\ inHand[2] \in Blocks
    BY <1>8 DEF TransferWrites, BeginWrite, CallsInv
  <2> QED
    BY <2>1 DEF CallsInv
<1>9. CASE TransferGoesOn \/ TransferWaits
  BY <1>9 DEF TransferGoesOn, TransferWaits, CallsInv
<1> QED
  BY <1>1, <1>2, <1>3, <1>4, <1>5, <1>6, <1>7, <1>8, <1>9 DEF PipelineNext, Generator, Transfer

LEMMA PipelineInvNext ==
  ASSUME ~Reuse, SelfMatching, PipelineInv, [PipelineNext]_pipelineVars
  PROVE  PipelineInv'
<1>1. StoresInv'
  BY StoresPipeline DEF PipelineInv
<1>2. CASE PipelineNext /\ ~Ends
  BY <1>1, <1>2, CallsNext, ReturnNext DEF PipelineInv
<1>3. CASE Ends
  <2>1. lives' \in Nat
    BY <1>3 DEF Ends, PipelineInv, CallsInv
  <2>2. CallsInv' /\ ReturnInv'
    BY <1>3, <2>1 DEF Ends, ProcessDies, CallsInv, ReturnInv
  <2> QED
    BY <1>1, <2>2 DEF PipelineInv
<1>4. CASE UNCHANGED pipelineVars
  <2>1. CallsInv' /\ ReturnInv'
    BY <1>4 DEF pipelineVars, modules, vars, PipelineInv, CallsInv, ReturnInv
  <2> QED
    BY <1>1, <2>1 DEF PipelineInv
<1> QED
  BY <1>2, <1>3, <1>4

LEMMA PipelineInvariant ==
  ASSUME ~Reuse, SelfMatching
  PROVE  PipelineSpec => []PipelineInv
<1>1. PipelineInit => PipelineInv
  BY StoresInit DEF PipelineInit, Init, PipelineInv, CallsInv, ReturnInv
<1>2. PipelineInv /\ [PipelineNext]_pipelineVars => PipelineInv'
  BY PipelineInvNext
<1> QED
  BY <1>1, <1>2, PTL DEF PipelineSpec

----------------------------------------------------------------------------
(* A copy that is finished is on disk *)

\* A block is in the hands of the transfer, ...
Held(a) ==
  \/ xfer = "read" /\ SameIds(call[In].key, a[2])
  \/ /\ xfer \in {"got", "write"} /\ SameIds(inHand[1], a[2])
     /\ inHand[2] \in {a[3]} \cup Unfilled

\* ... or its write to the output has returned.
Copied(a) ==
  \E k \in Keys, b \in {a[3]} \cup Unfilled :
    SameIds(k, a[2]) /\ << Conf[Out], k, b >> \in acked

\* Every block that was there when the input was listed has still to be copied, is
\* being copied or has been; a read of it overruns no buffer and returns it, if it
\* does not fail.
CopyInv ==
  /\ \A a \in promised :
       /\ a \in acked /\ a[1] = Conf[In]
       /\ xfer # "list" /\ xfer # "listing" =>
            Place(a[1], a[2]) \in todo \/ Held(a) \/ Copied(a)
       /\ xfer = "read" /\ SameIds(call[In].key, a[2]) =>
            /\ pc[In] # "overrun"
            /\ pc[In] = "return" =>
                 result[In] = a[3] \/ (Faults /\ result[In] = "uninitialised")
  /\ xfer = "wait" => todo = {}

\* A step of a store: read() returns the block that was acknowledged.
LEMMA CopyCalls ==
  ASSUME PipelineInv, CopyInv, NEW s \in Stores, Calls(s)
  PROVE  CopyInv'
<1> USE DEF PipelineInv, StoresInv, DurableInv, TypeInv, TypeOK
<1>1. /\ call' = call /\ acked \subseteq acked' /\ Step(s)
      /\ pc[s] # "return"
      /\ \A t \in Stores : t # s => pc'[t] = pc[t] /\ result'[t] = result[t]
      /\ UNCHANGED << xfer, todo, inHand, promised >>
  BY StepFrame DEF Calls, modules
<1>2. ASSUME NEW a \in promised
      PROVE  (Held(a) => Held(a)') /\ (Copied(a) => Copied(a)')
  BY <1>1 DEF Held, Copied
<1>3. ASSUME NEW a \in promised, xfer = "read", SameIds(call[In].key, a[2])
      PROVE  /\ pc'[In] # "overrun"
             /\ pc'[In] = "return" =>
                  result'[In] = a[3] \/ (Faults /\ result'[In] = "uninitialised")
  <2>1. CASE s # In
    BY <1>1, <1>3, <2>1, ThreeStores DEF CopyInv
  <2>2. CASE s = In
    <3>1. call[In].op = "read" /\ pc[In] # "overrun"
      BY <1>3 DEF CallsInv, CopyInv
    <3>2. pc[In] \notin WriteLabels \cup {"list", "paths"}
      BY <3>1, ThreeStores DEF CallOK, ReadInv
    <3>3. CASE pc[In] = "read"
      <4>1. DatasetToRead(In) = Place(a[1], a[2])
        BY <1>3, <3>3, ReadsPlace, SamePlace, ThreeStores DEF CopyInv
      <4>2. << DatasetToRead(In), a[3] >> \in fs.contents /\ a[3] \in Blocks
        BY <1>3, <4>1 DEF CopyInv, AckedDurable, ContentInv, DiskWithinFs, Acks
      <4>3. DatasetToRead(In) \in fs.datasets /\ Written(DatasetToRead(In))
        BY <4>2 DEF ContentInv, WellFormed, Written
      <4>4. ReadThrows(In) \/ ReadFails(In) \/ ReadBlock(In)
        BY <1>1, <2>2, <3>3, <4>3 DEF Step, OpenFileIfNeeded, OpenSkip, OpenThrows, OpenFile,
           RecordNameAndFlags, Write, CheckGroup, CreateGroup, CreateDataSet, CreateThrows,
           WriteRaw, Flush, WriteFails, Read, SizeBuffer, Overrun, List, ListOpen, ListThrows,
           ListPaths, PathsThrow, ListDone
      <4>5. CASE ReadThrows(In) \/ ReadFails(In)
        BY <4>5, ThreeStores DEF ReadThrows, ReadFails, Throw, Finish
      <4>6. CASE ReadBlock(In)
        <5>1. PICK b \in Blocks : << DatasetToRead(In), b >> \in fs.contents /\ result'[In] = b
          BY <4>3, <4>6, ThreeStores DEF ReadBlock, Finish
        <5> QED
          BY <4>2, <4>6, <5>1, ThreeStores DEF ContentInv, OneBlock, ReadBlock, Finish
      <4> QED
        BY <4>4, <4>5, <4>6
    <3>4. CASE pc[In] # "read"
      <4>1. pc'[In] \notin {"return", "overrun"}
        BY <1>1, <2>2, <3>1, <3>2, <3>4, ThreeStores DEF Step, OpenFileIfNeeded, OpenSkip,
           OpenThrows, OpenFile, RecordNameAndFlags, Opened, Write, CheckGroup, CreateGroup,
           CreateDataSet, CreateThrows, WriteRaw, Flush, WriteFails, WriteLabels, Read, ReadThrows,
           ReadFails, ReadBlock, SizeBuffer, Overrun, List, ListOpen, ListThrows, ListPaths,
           PathsThrow, ListDone, Throw, Finish, Goto
      <4> QED
        BY <4>1
    <3> QED
      BY <3>3, <3>4
  <2> QED
    BY <2>1, <2>2
<1> QED
  BY <1>1, <1>2, <1>3 DEF CopyInv

LEMMA CopyReads ==
  ASSUME PipelineInv, CopyInv, TransferReads
  PROVE  CopyInv'
<1> USE ThreeStores DEF PipelineInv, StoresInv, DurableInv, TypeInv, TypeOK
<1>1. PICK d \in todo : BeginRead(In, ListedKey(<< d[2], d[3] >>)) /\ todo' = todo \ {d}
  BY DEF TransferReads
<1>2. /\ call'[In].key = ListedKey(<< d[2], d[3] >>) /\ pc'[In] = "open"
      /\ xfer = "copy" /\ xfer' = "read" /\ UNCHANGED << inHand, promised, acked >>
  BY <1>1 DEF TransferReads, BeginRead, Goto
<1>3. ASSUME NEW a \in promised, Place(a[1], a[2]) = d
      PROVE  SameIds(call'[In].key, a[2])
  <2>1. Conf[In] \in Configurations /\ a[1] = Conf[In] /\ a[2] \in Keys
    BY <1>1, <1>3 DEF CopyInv, Acks, BeginRead, CallOK
  <2> QED
    BY <1>2, <1>3, <2>1, ListedIds
<1>4. ASSUME NEW a \in promised
      PROVE  Place(a[1], a[2]) \in todo' \/ Held(a)' \/ Copied(a)'
  <2>1. Place(a[1], a[2]) \in todo \/ Copied(a)
    BY <1>2 DEF CopyInv, Held
  <2> QED
    BY <1>1, <1>2, <1>3, <2>1 DEF Held, Copied
<1> QED
  BY <1>2, <1>4 DEF CopyInv

LEMMA CopyHasBlock ==
  ASSUME ~Reuse, PipelineInv, CopyInv, TransferHasBlock
  PROVE  CopyInv'
<1> USE ThreeStores DEF PipelineInv, StoresInv, DurableInv, TypeInv, TypeOK
<1>1. /\ pc[In] = "return" /\ xfer = "read" /\ xfer' = "got"
      /\ inHand' = << call[In].key, Content(result[In]) >>
      /\ UNCHANGED << todo, promised, acked >>
  BY DEF TransferHasBlock, Return
<1>2. ASSUME NEW a \in promised, SameIds(call[In].key, a[2])
      PROVE  Content(result[In]) \in {a[3]} \cup Unfilled
  <2>1. a[3] \in Blocks /\ (result[In] = a[3] \/ (Faults /\ result[In] = "uninitialised"))
    BY <1>1, <1>2 DEF CopyInv, Acks
  <2> QED
    BY <2>1, BlocksAssumption DEF Content, Signals, Unfilled
<1>3. ASSUME NEW a \in promised
      PROVE  Place(a[1], a[2]) \in todo' \/ Held(a)' \/ Copied(a)'
  <2>1. Place(a[1], a[2]) \in todo \/ SameIds(call[In].key, a[2]) \/ Copied(a)
    BY <1>1 DEF CopyInv, Held
  <2> QED
    BY <1>1, <1>2, <2>1 DEF Held, Copied
<1> QED
  BY <1>1, <1>3 DEF CopyInv

LEMMA CopyGoesOn ==
  ASSUME ~Reuse, PipelineInv, CopyInv, TransferGoesOn
  PROVE  CopyInv'
<1> USE ThreeStores DEF PipelineInv
<1>1. /\ pc[Out] = "return" /\ xfer = "write" /\ xfer' = "copy"
      /\ UNCHANGED << todo, promised, acked >>
  BY DEF TransferGoesOn, Return
<1>2. << Conf[Out], inHand[1], inHand[2] >> \in acked /\ inHand[1] \in Keys
  BY <1>1 DEF CallsInv, ReturnInv
<1>3. ASSUME NEW a \in promised
      PROVE  Place(a[1], a[2]) \in todo' \/ Held(a)' \/ Copied(a)'
  BY <1>1, <1>2 DEF CopyInv, Held, Copied
<1> QED
  BY <1>1, <1>3 DEF CopyInv

LEMMA CopyNext ==
  ASSUME ~Reuse, PipelineInv, CopyInv, [PipelineNext]_pipelineVars
  PROVE  CopyInv'
<1> USE ThreeStores DEF PipelineInv, StoresInv, DurableInv, TypeInv, TypeOK
<1>1. ASSUME NEW s \in Stores, Configure(s) PROVE CopyInv'
  BY <1>1 DEF Configure, Construct, Goto, modules, CopyInv, Held, Copied
<1>2. CASE GeneratorWrites \/ GeneratorGoesOn
  <2>1. /\ UNCHANGED << xfer, todo, inHand, promised, acked >>
        /\ call'[In] = call[In] /\ pc'[In] = pc[In] /\ result'[In] = result[In]
    BY <1>2 DEF GeneratorWrites, GeneratorGoesOn, BeginWrite, Return, Finish, Goto, modules
  <2> QED
    BY <2>1 DEF CopyInv, Held, Copied
<1>3. CASE TransferLists
  BY <1>3 DEF TransferLists, BeginList, CopyInv
<1>4. CASE TransferHasList
  <2>1. /\ pc[In] = "return" /\ call[In].op = "list" /\ xfer' = "copy"
        /\ todo' = keyList[In] /\ promised' = call[In].before /\ acked' = acked
    BY <1>4 DEF TransferHasList, Return, CallsInv
  <2>2. \A a \in call[In].before :
          a \in acked /\ a[1] = Conf[In] /\ Place(a[1], a[2]) \in keyList[In]
    BY <2>1 DEF ListInv, Finds, Found
  <2> QED
    BY <2>1, <2>2 DEF CopyInv
<1>5. CASE TransferWrites
  <2>1. /\ xfer = "got" /\ xfer' = "write" /\ UNCHANGED << todo, inHand, promised, acked >>
    BY <1>5 DEF TransferWrites, BeginWrite
  <2> QED
    BY <2>1 DEF CopyInv, Held, Copied
<1>6. CASE TransferWaits
  BY <1>6 DEF TransferWaits, vars, CopyInv, Held, Copied
<1>7. CASE Ends
  BY <1>7 DEF Ends, CopyInv
<1>8. CASE UNCHANGED pipelineVars
  BY <1>8 DEF pipelineVars, modules, vars, CopyInv, Held, Copied
<1> QED
  BY <1>1, <1>2, <1>3, <1>4, <1>5, <1>6, <1>7, <1>8, CopyCalls, CopyReads, CopyHasBlock, CopyGoesOn
     DEF PipelineNext, Generator, Transfer

\* If the prefixes match themselves, then whenever the transfer waits, every block
\* whose write had returned when it listed its input is on disk in the output under
\* the same ids, or its read failed unnoticed, whatever the generator writes
\* meanwhile and however often a store failed or the process ended before
\* (DataTransferModule.cpp:106-110 over HDF5DataStore.hpp:129-132, 146-215).
THEOREM CopyOnDiskCorrect ==
  ASSUME ~Reuse, SelfMatching
  PROVE  PipelineSpec => []CopyOnDisk
<1>1. PipelineInit => CopyInv
  BY DEF PipelineInit, CopyInv
<1>2. PipelineInv /\ CopyInv /\ [PipelineNext]_pipelineVars => CopyInv'
  BY CopyNext
<1>3. PipelineInv /\ CopyInv => CopyOnDisk
  <2> SUFFICES ASSUME PipelineInv, CopyInv, xfer = "wait", NEW a \in promised
               PROVE  \E b \in {a[3]} \cup Unfilled :
                        << Place(Conf[Out], a[2]), b >> \in disk.contents
    BY DEF CopyOnDisk
  <2>1. Copied(a)
    BY DEF CopyInv, Held
  <2>2. PICK k \in Keys, b \in {a[3]} \cup Unfilled :
          SameIds(k, a[2]) /\ << Conf[Out], k, b >> \in acked
    BY <2>1 DEF Copied
  <2>3. << Place(Conf[Out], k), b >> \in disk.contents
    BY <2>2 DEF PipelineInv, StoresInv, DurableInv, AckedDurable
  <2> QED
    BY <2>2, <2>3, SamePlace
<1> QED
  BY <1>1, <1>2, <1>3, PipelineInvariant, PTL DEF PipelineSpec

----------------------------------------------------------------------------
(* The output comes from the input *)

\* While the process lives, what is in the files stays there.
LEMMA StepGrows ==
  ASSUME StoresInv, NEW s \in Stores, Step(s)
  PROVE  /\ torn' = torn
         /\ fs.files \subseteq fs'.files /\ fs.datasets \subseteq fs'.datasets
         /\ fs.groups \subseteq fs'.groups /\ fs.contents \subseteq fs'.contents
         /\ fs'.files = fs.files \/ OpenFile(s)
         /\ fs'.groups = fs.groups \/ CreateGroup(s)
         /\ fs'.datasets = fs.datasets \/ CreateDataSet(s)
         /\ fs'.contents = fs.contents \/ WriteRaw(s)
<1> USE DEF StoresInv, DurableInv, TypeInv, TypeOK
<1>1. CASE OpenFile(s) \/ CreateGroup(s) \/ CreateDataSet(s) \/ WriteRaw(s)
  BY <1>1 DEF OpenFile, CreateGroup, CreateDataSet, WriteRaw, Entries
<1>2. CASE fs' = fs /\ torn' = torn
  BY <1>2
<1> QED
  BY <1>1, <1>2 DEF Step, OpenFileIfNeeded, OpenSkip, OpenThrows, Write, CheckGroup,
     CreateThrows, Flush, WriteFails, Read, ReadThrows, ReadFails, ReadBlock, SizeBuffer, Overrun,
     List, ListOpen, ListThrows, ListPaths, PathsThrow, ListDone, fileVars

\* Group and dataset determine the ids.
LEMMA PlaceIds ==
  ASSUME NEW c, NEW d, NEW k \in Keys, NEW l \in Keys, Place(c, k) = Place(d, l)
  PROVE  SameIds(k, l)
<1>1. WritePath(k) = WritePath(l)
  BY DEF Place, WritePath
<1>2. Key(k) /\ Key(l)
  BY KeyIds
<1> QED
  BY <1>1, <1>2, WritePathInjective DEF SameIds

\* A block of key k comes from the input, or is one without data.
Sourced(k, b) ==
  b \in {EmptyBlock} \cup Unfilled \/ << Place(Conf[In], k), b >> \in fs.contents

\* What is listed is there, what has been read is what is there, and that is what
\* is written.
SourceInv ==
  /\ keyList[In] \cup todo \subseteq fs.datasets
  /\ \A d \in todo : matchesPattern(Conf[In], d[1])
  /\ call[In].op # "write"
  /\ call[In].op = "read" =>
       /\ Place(Conf[In], call[In].key) \in fs.datasets
       /\ pc[In] = "return" => Sourced(call[In].key, Content(result[In]))
  /\ xfer \in {"got", "write"} => Sourced(inHand[1], inHand[2])
  /\ call[Out].op = "write" => Sourced(call[Out].key, call[Out].block)

FromInput ==
  \A k \in Keys, b \in Blocks \ ({EmptyBlock} \cup Unfilled) :
    << Place(Conf[Out], k), b >> \in fs.contents => << Place(Conf[In], k), b >> \in fs.contents

LEMMA SourceCalls ==
  ASSUME PipelineInv, SourceInv, NEW s \in Stores, Calls(s)
  PROVE  SourceInv'
<1> USE ThreeStores DEF PipelineInv, StoresInv, DurableInv, TypeInv, TypeOK
<1>1. /\ call' = call /\ Step(s) /\ pc[s] # "return"
      /\ \A t \in Stores : t # s =>
           pc'[t] = pc[t] /\ result'[t] = result[t] /\ keyList'[t] = keyList[t]
      /\ UNCHANGED << xfer, todo, inHand >>
  BY StepFrame DEF Calls, modules
<1>2. fs.datasets \subseteq fs'.datasets /\ fs.contents \subseteq fs'.contents
  BY <1>1, StepGrows
<1>3. \A k, b : Sourced(k, b) => Sourced(k, b)'
  BY <1>2 DEF Sourced
<1>4. keyList'[In] \subseteq fs'.datasets
  <2>1. CASE s # In
    BY <1>1, <1>2, <2>1 DEF SourceInv
  <2>2. CASE ListPaths(In)
    BY <1>2, <2>2 DEF ListPaths, SourceInv
  <2>3. CASE s = In /\ ~ListPaths(In)
    <3>1. keyList' = keyList
      BY <1>1, <2>3 DEF Step, OpenFileIfNeeded, OpenSkip, OpenFile, OpenThrows,
         Write, CheckGroup, CreateGroup, CreateDataSet, CreateThrows, WriteRaw, Flush, WriteFails,
         Read, ReadThrows, ReadFails, ReadBlock, SizeBuffer, Overrun, List, ListOpen, ListThrows,
         PathsThrow, ListDone, listVars
    <3> QED
      BY <1>2, <3>1 DEF SourceInv
  <2> QED
    BY <2>1, <2>2, <2>3
<1>5. ASSUME call[In].op = "read", pc'[In] = "return"
      PROVE  Sourced(call[In].key, Content(result'[In]))
  <2>1. CASE s # In
    BY <1>1, <1>5, <2>1 DEF SourceInv
  <2>2. CASE s = In
    <3>1. pc[In] \notin WriteLabels \cup {"list"}
      BY <1>5 DEF CallOK, ReadInv
    <3>2. ReadBlock(In) \/ ReadFails(In) \/ Overrun(In)
      BY <1>1, <1>5, <2>2, <3>1, StepReturns DEF Flush, ListDone, WriteLabels
    <3>3. CASE ReadFails(In) \/ Overrun(In)
      <4>1. result'[In] = "unwritten" \/ (Faults /\ result'[In] = "uninitialised")
        BY <3>3 DEF ReadFails, Overrun, Finish
      <4> QED
        BY <4>1 DEF Content, Sourced, Unfilled
    <3>4. CASE ReadBlock(In)
      <4>1. DatasetToRead(In) = Place(Conf[In], call[In].key) /\ DatasetToRead(In) \in fs.datasets
        BY <1>5, <3>4, ReadsPlace DEF ReadBlock, SourceInv
      <4>2. PICK b \in Blocks : << DatasetToRead(In), b >> \in fs.contents /\ result'[In] = b
        BY <3>4, <4>1 DEF ReadBlock, Finish
      <4>3. Content(b) = b
        BY BlocksAssumption DEF Content, Signals
      <4> QED
        BY <4>1, <4>2, <4>3 DEF Sourced
    <3> QED
      BY <3>2, <3>3, <3>4
  <2> QED
    BY <2>1, <2>2
<1>6. call[In].op = "read" /\ pc'[In] = "return" => Sourced(call[In].key, Content(result[In]))'
  <2>1. ASSUME call[In].op = "read", pc'[In] = "return"
        PROVE  Sourced(call[In].key, Content(result[In]))'
    <3>1. Content(result[In])' = Content(result'[In])
      BY DEF Content
    <3> QED
      BY <1>1, <1>2, <1>5, <2>1, <3>1 DEF Sourced
  <2> QED
    BY <2>1
<1> QED
  BY <1>1, <1>2, <1>3, <1>4, <1>6 DEF SourceInv

\* A dataset the transfer lists belongs to the input at the ids of its listed key.
LEMMA ListedPlace ==
  ASSUME PlainPrefixes, PipelineInv, SourceInv, pc[In] # "none", NEW d \in todo
  PROVE  LET k == ListedKey(<< d[2], d[3] >>) IN k \in Keys /\ Place(Conf[In], k) = d
<1>1. PICK c \in Configurations, k \in Keys : d = Place(c, k)
  BY DEF PipelineInv, CallsInv, KeyPlaces
<1>2. Conf[In] \in Configurations /\ matchesPattern(Conf[In], getFileNameFromKey(c, k))
  BY <1>1, ThreeStores DEF PipelineInv, StoresInv, DurableInv, TypeInv, CallOK, SourceInv, Place
<1>3. c = Conf[In]
  BY <1>2, KeyIds, PatternMatchesOwnFiles
<1> QED
  BY <1>1, <1>3, ListedIds, SamePlace

\* A call of the transfer's, or of the generator's, that begins or returns.
LEMMA SourceCallers ==
  ASSUME ~Reuse, PlainPrefixes, PipelineInv, SourceInv, PipelineNext, ~Ends,
         \A s \in Stores : ~Calls(s)
  PROVE  SourceInv'
<1> USE ThreeStores DEF PipelineInv, StoresInv, DurableInv, TypeInv, TypeOK
<1>1. ASSUME NEW s \in Stores, Configure(s) PROVE SourceInv'
  BY <1>1 DEF Configure, Construct, Goto, modules, listVars, fileVars, SourceInv, Sourced
<1>2. CASE GeneratorWrites \/ GeneratorGoesOn
  <2>1. \/ Return(Gen)
        \/ \E k : BeginRead(Gen, k) \/ \E b : BeginWrite(Gen, k, b)
    BY <1>2 DEF GeneratorWrites, GeneratorGoesOn
  <2>2. /\ fs' = fs
        /\ \A t \in Stores : t # Gen =>
             /\ pc'[t] = pc[t] /\ call'[t] = call[t] /\ result'[t] = result[t]
             /\ keyList'[t] = keyList[t]
    BY <2>1, CallerFrame
  <2>3. UNCHANGED << xfer, todo, inHand >>
    BY <1>2 DEF GeneratorWrites, GeneratorGoesOn, modules
  <2> QED
    BY <2>2, <2>3 DEF SourceInv, Sourced
<1>3. CASE TransferLists
  BY <1>3 DEF TransferLists, BeginList, listVars, fileVars, SourceInv, Sourced
<1>4. CASE TransferHasList
  <2>1. /\ xfer' = "copy" /\ todo' = keyList[In] /\ fs' = fs
        /\ keyList'[In] = {} /\ call'[In].op = "none" /\ call'[Out] = call[Out]
    BY <1>4 DEF TransferHasList, Return, fileVars, NoCall
  <2>2. \A d \in keyList[In] : matchesPattern(Conf[In], d[1])
    BY DEF ListInv, Matches
  <2> QED
    BY <2>1, <2>2 DEF SourceInv, Sourced
<1>5. CASE TransferReads
  <2>1. PICK d \in todo : BeginRead(In, ListedKey(<< d[2], d[3] >>)) /\ todo' = todo \ {d}
    BY <1>5 DEF TransferReads
  <2>2. /\ call'[In].op = "read" /\ call'[In].key = ListedKey(<< d[2], d[3] >>)
        /\ pc[In] = "idle" /\ pc'[In] = "open" /\ call'[Out] = call[Out]
        /\ xfer' = "read" /\ UNCHANGED << fs, keyList >>
    BY <1>5, <2>1 DEF TransferReads, BeginRead, Goto, listVars, fileVars
  <2>3. Place(Conf[In], call'[In].key) = d
    BY <2>2, ListedPlace
  <2> QED
    BY <2>1, <2>2, <2>3 DEF SourceInv, Sourced
<1>6. CASE TransferHasBlock
  <2>1. /\ pc[In] = "return" /\ xfer = "read" /\ xfer' = "got"
        /\ inHand' = << call[In].key, Content(result[In]) >>
        /\ UNCHANGED << todo, fs >> /\ keyList'[In] = {} /\ call'[In].op = "none"
        /\ call'[Out] = call[Out] /\ call[In].op = "read"
    BY <1>6 DEF TransferHasBlock, Return, fileVars, NoCall, CallsInv
  <2>2. Sourced(call[In].key, Content(result[In]))
    BY <2>1 DEF SourceInv
  <2> QED
    BY <2>1, <2>2 DEF SourceInv, Sourced
<1>7. CASE TransferWrites
  <2>1. /\ xfer = "got" /\ xfer' = "write" /\ UNCHANGED << todo, fs, inHand, keyList >>
        /\ call'[In] = call[In] /\ pc'[In] = pc[In] /\ result' = result
        /\ call'[Out].key = inHand[1] /\ call'[Out].block = inHand[2]
    BY <1>7 DEF TransferWrites, BeginWrite, Goto, listVars, fileVars
  <2> QED
    BY <2>1 DEF SourceInv, Sourced
<1>8. CASE TransferGoesOn
  <2>1. /\ xfer' = "copy" /\ UNCHANGED << todo, fs >>
        /\ call'[Out].op = "none" /\ call'[In] = call[In] /\ pc'[In] = pc[In]
        /\ result'[In] = result[In] /\ keyList'[In] = keyList[In]
    BY <1>8 DEF TransferGoesOn, Return, Finish, fileVars, NoCall
  <2> QED
    BY <2>1 DEF SourceInv, Sourced
<1>9. CASE TransferWaits
  BY <1>9 DEF TransferWaits, vars, SourceInv, Sourced
<1> QED
  BY <1>1, <1>2, <1>3, <1>4, <1>5, <1>6, <1>7, <1>8, <1>9 DEF PipelineNext, Generator, Transfer

\* Only write_raw of a generator or of a transfer adds content.
LEMMA FromInputNext ==
  ASSUME Conf[Gen] = Conf[In], PipelineInv, SourceInv, FromInput, NEW s \in Stores, Calls(s)
  PROVE  FromInput'
<1> USE ThreeStores DEF PipelineInv, StoresInv, DurableInv, TypeInv, TypeOK
<1>1. Step(s)
  BY DEF Calls
<1>2. fs.contents \subseteq fs'.contents /\ (fs'.contents = fs.contents \/ WriteRaw(s))
  BY <1>1, StepGrows
<1>3. ASSUME WriteRaw(s), NEW k \in Keys, NEW b \in Blocks \ ({EmptyBlock} \cup Unfilled),
             << Place(Conf[Out], k), b >> \in fs'.contents
      PROVE  << Place(Conf[In], k), b >> \in fs'.contents
  <2> DEFINE l == call[s].key
  <2>1. /\ pc[s] = "raw" /\ fs'.contents = fs.contents \cup {<< Dataset(s), call[s].block >>}
        /\ l \in Keys /\ call[s].op = "write"
    BY <1>3 DEF WriteRaw, Entries, CallOK, WriteLabels
  <2>2. Dataset(s) = Place(Conf[s], l)
    BY <2>1, DatasetIsPlace DEF InFile
  <2>3. CASE << Place(Conf[Out], k), b >> \in fs.contents
    BY <1>2, <2>3 DEF FromInput
  <2>4. CASE Place(Conf[Out], k) = Place(Conf[s], l) /\ b = call[s].block
    <3>1. Place(Conf[In], k) = Place(Conf[In], l)
      BY <2>1, <2>4, PlaceIds, SamePlace
    <3>2. CASE s = Gen
      BY <2>1, <2>2, <2>4, <3>1, <3>2
    <3>3. CASE s = Out
      <4>1. Sourced(l, b)
        BY <2>1, <2>4, <3>3 DEF SourceInv
      <4> QED
        BY <1>2, <1>3, <3>1, <4>1 DEF Sourced
    <3>4. s # In
      BY <2>1 DEF SourceInv
    <3> QED
      BY <3>2, <3>3, <3>4
  <2> QED
    BY <1>3, <2>1, <2>2, <2>3, <2>4
<1>4. CASE fs'.contents = fs.contents
  BY <1>4 DEF FromInput
<1> QED
  BY <1>2, <1>3, <1>4 DEF FromInput

\* Until the process ends for the first time, only stores and modules take steps.
LEMMA FirstLife ==
  ASSUME CallsInv, [PipelineNext]_pipelineVars, lives' = 0
  PROVE  lives = 0 /\ (UNCHANGED pipelineVars \/ (PipelineNext /\ ~Ends))
<1>1. ~Ends
  BY DEF Ends, CallsInv
<1>2. PipelineNext => lives' = lives
  BY <1>1 DEF PipelineNext, Generator, Transfer, Calls, Configure, GeneratorWrites,
     GeneratorGoesOn, TransferLists, TransferHasList, TransferReads, TransferHasBlock,
     TransferWrites, TransferGoesOn, TransferWaits
<1> QED
  BY <1>1, <1>2 DEF pipelineVars

\* A step that is not part of a call begins or ends one, or is a module's alone.
LEMMA BetweenCalls ==
  ASSUME PipelineNext, ~Ends, \A s \in Stores : ~Calls(s)
  PROVE  \/ UNCHANGED vars
         \/ \E s \in Stores :
              \/ Construct(s) \/ BeginList(s) \/ Return(s)
              \/ \E k : BeginRead(s, k) \/ \E b : BeginWrite(s, k, b)
BY ThreeStores DEF PipelineNext, Generator, Transfer, Configure, GeneratorWrites, GeneratorGoesOn,
   TransferLists, TransferHasList, TransferReads, TransferHasBlock, TransferWrites,
   TransferGoesOn, TransferWaits

\* A call that begins or returns, and a step of a module alone, changes no file.
LEMMA NoCallNoChange ==
  ASSUME PipelineInv, PipelineNext, ~Ends, \A s \in Stores : ~Calls(s)
  PROVE  UNCHANGED << fs, disk, readWrite, torn, filePtr, openFlagsOfOpenFile, localFilePtr >>
<1> USE ThreeStores
<1>1. ASSUME NEW s \in Stores,
             \/ Construct(s) \/ BeginList(s) \/ Return(s)
             \/ \E k : BeginRead(s, k) \/ \E b : BeginWrite(s, k, b)
      PROVE  UNCHANGED << fs, disk, readWrite, torn, filePtr, openFlagsOfOpenFile, localFilePtr >>
  BY <1>1, CallerFrame DEF PipelineInv
<1>2. CASE UNCHANGED vars
  BY <1>2 DEF vars
<1> QED
  BY <1>1, <1>2, BetweenCalls

\* If the transfer reads from the store configuration the generator writes to, and
\* prefixes are plain, then until the process ends for the first time the output
\* holds no block that the input does not hold under the same ids, but for empty ones
\* and those whose read failed unnoticed, whatever else the library fails to do
\* (DataTransferModule.cpp:107-110, HDF5DataStore.hpp:129-132).
THEOREM OutputFromInputCorrect ==
  ASSUME ~Reuse, PlainPrefixes, Conf[Gen] = Conf[In]
  PROVE  PipelineSpec => []OutputFromInput
<1> DEFINE I == lives = 0 => SourceInv /\ FromInput
<1>1. SelfMatching
  BY DEF SelfMatching, PlainPrefixes
<1>2. PipelineInit => I
  BY ThreeStores DEF PipelineInit, Init, NoCall, NoFiles, SourceInv, FromInput
<1>3. PipelineInv /\ I /\ [PipelineNext]_pipelineVars => I'
  <2> SUFFICES ASSUME PipelineInv, I, [PipelineNext]_pipelineVars, lives' = 0
               PROVE  SourceInv' /\ FromInput'
    BY DEF SourceInv, FromInput, Sourced
  <2>1. SourceInv /\ FromInput /\ (UNCHANGED pipelineVars \/ (PipelineNext /\ ~Ends))
    BY FirstLife DEF PipelineInv
  <2>2. ASSUME NEW s \in Stores, Calls(s) PROVE SourceInv' /\ FromInput'
    BY <2>1, <2>2, SourceCalls, FromInputNext
  <2>3. ASSUME PipelineNext, ~Ends, \A s \in Stores : ~Calls(s) PROVE SourceInv' /\ FromInput'
    <3>1. fs' = fs
      BY <2>3, NoCallNoChange
    <3> QED
      BY <2>1, <2>3, <3>1, SourceCallers DEF FromInput
  <2>4. CASE UNCHANGED pipelineVars
    BY <2>1, <2>4 DEF pipelineVars, modules, vars, SourceInv, Sourced, FromInput
  <2> QED
    BY <2>1, <2>2, <2>3, <2>4
<1>4. I => OutputFromInput
  BY DEF FromInput, OutputFromInput
<1> HIDE DEF I
<1> QED
  BY <1>1, <1>2, <1>3, <1>4, PipelineInvariant, PTL DEF PipelineSpec

----------------------------------------------------------------------------
(* The stores do not make each other throw *)

\* The generator comes back neither to a key nor to an event.
LEMMA FragmentsInOrder ==
  \A i, j \in 1 .. Len(Fragments) : i < j =>
    /\ ~SameIds(Fragments[i], Fragments[j])
    /\ Fragments[i].event = Fragments[j].event =>
         \A m \in i .. j : Fragments[m].event = Fragments[i].event
BY FragmentsAssumption DEF SameIds

Unopened == {"none", "idle", "open"}
Unmade == Unopened \cup {"group", "createGroup", "dataset"}

\* The two stores that write keep the file they opened for it.
Writers ==
  \A s \in {Gen, Out} :
    /\ call[s].op \in {"none", "write"}
    /\ pc[s] \notin {"none", "idle"} => call[s].op = "write"
    /\ localFilePtr[s] = NoFile
    /\ filePtr[s] # NoFile => openFlagsOfOpenFile[s] = OpenOrCreate /\ filePtr[s] \in readWrite
    /\ pc[s] = "createGroup" => Group(s) \notin fs.groups

\* How many fragments have had their file opened, and their dataset made.
FilesOpened == IF pc[Gen] \in Unopened THEN written ELSE written + 1
DatasetsMade == IF pc[Gen] \in Unmade THEN written ELSE written + 1

\* What the generator has made is what it has come to, and the file it has open is
\* the last one.
GenInv ==
  /\ pc[Gen] \notin {"none", "idle"} =>
       written < Len(Fragments) /\ call[Gen].key = Fragments[written + 1]
  /\ FilesOpened > 0 => filePtr[Gen] = FileOf(Gen, Fragments[FilesOpened])
  /\ \A f \in fs.files : matchesPattern(Conf[Gen], f) =>
       \E i \in 1 .. FilesOpened : f = FileOf(Gen, Fragments[i])
  /\ \A d \in fs.datasets : matchesPattern(Conf[Gen], d[1]) =>
       \E i \in 1 .. DatasetsMade : d = Place(Conf[Gen], Fragments[i])

\* The key the transfer has taken from its list.
InHands ==
  IF xfer = "read" THEN {call[In].key} ELSE IF xfer \in {"got", "write"} THEN {inHand[1]} ELSE {}

\* The output has no dataset yet for what is to be copied.
OutInv ==
  /\ pc[Out] \notin {"none", "idle"} => xfer = "write"
  /\ xfer \in {"list", "listing"} => \A f \in fs.files : ~matchesPattern(Conf[Out], f)
  /\ \A k \in Keys : Place(Conf[In], k) \in todo => Place(Conf[Out], k) \notin fs.datasets
  /\ \A k \in InHands :
       /\ Place(Conf[In], k) \notin todo
       /\ xfer # "write" \/ pc[Out] \in Unmade => Place(Conf[Out], k) \notin fs.datasets

Calm == torn = {} /\ \A s \in Stores : pc[s] # "throw"

QuietInv ==
  /\ Calm
  /\ Writers
  /\ OwnFiles
  /\ fileList[In] \subseteq fs.files
  /\ GenInv
  /\ OutInv

----------------------------------------------------------------------------
\* A file belongs to stores of one configuration.
LEMMA OneConfiguration ==
  ASSUME PlainPrefixes, \A s \in Stores : Conf[s] \in Configurations,
         NEW a \in Configurations, NEW b \in Configurations, NEW f \in FileName,
         matchesPattern(a, f), matchesPattern(b, f)
  PROVE  a = b
<1>1. PICK s \in Stores, k \in Keys \cup {InvalidKey} : f = getFileNameFromKey(Conf[s], k)
  BY DEF FileName, FileOf
<1>2. a = Conf[s]
  BY <1>1, KeyIds, PatternMatchesOwnFiles
<1>3. b = Conf[s]
  BY <1>1, KeyIds, PatternMatchesOwnFiles
<1> QED
  BY <1>2, <1>3

\* The steps of a call that writes.
LEMMA WriterSteps ==
  ASSUME StoresInv, ~Faults, NEW s \in Stores, Step(s), call[s].op = "write"
  PROVE  \/ OpenSkip(s) \/ OpenFile(s) \/ OpenThrows(s)
         \/ CheckGroup(s) \/ CreateGroup(s) \/ CreateDataSet(s) \/ CreateThrows(s)
         \/ WriteRaw(s) \/ Flush(s)
<1>1. pc[s] \notin {"read", "overrun", "list", "paths"}
  BY DEF StoresInv, DurableInv, TypeInv, CallOK, ReadInv
<1>2. ~WriteFails(s)
  BY DEF StoresInv, DurableInv, WriteFails
<1> QED
  BY <1>1, <1>2 DEF Step, OpenFileIfNeeded, Write, Read, ReadThrows, ReadFails, ReadBlock,
     SizeBuffer, Overrun, List, ListOpen, ListThrows, ListPaths, PathsThrow, ListDone

\* The steps that throw.
LEMMA WhoThrows ==
  ASSUME StoresInv, ~Faults, NEW s \in Stores, Step(s), pc'[s] = "throw"
  PROVE  OpenThrows(s) \/ CreateThrows(s) \/ ReadThrows(s) \/ ListThrows(s)
<1> USE DEF StoresInv, DurableInv, TypeInv, TypeOK
<1> QED
  BY DEF Step, OpenFileIfNeeded, OpenSkip, OpenFile, Opened, Write, CheckGroup, CreateGroup,
     CreateDataSet, WriteRaw, Flush, WriteFails, Read, ReadFails, ReadBlock, SizeBuffer, Overrun,
     List, ListOpen, ListPaths, PathsThrow, ListDone, Finish, Goto

\* A file that is open for writing and stays open stays open for writing.
LEMMA HandlesKeepWriters ==
  ASSUME NEW ptr, NEW local, NEW opened, Handles(ptr, local, opened),
         NEW t \in Stores, ptr[t] \in readWrite
  PROVE  ptr[t] \in readWrite'
BY DEF Handles

LEMMA StepKeepsWriters ==
  ASSUME StoresInv, NEW s \in Stores, Step(s), NEW t \in Stores, t # s \/ ~OpenFile(s)
  PROVE  /\ filePtr'[t] = filePtr[t]
         /\ filePtr[t] \in readWrite => filePtr[t] \in readWrite'
<1> USE DEF StoresInv, DurableInv, TypeInv, TypeOK
<1>1. CASE OpenFile(s)
  <2> DEFINE ptr == [filePtr EXCEPT ![s] = File(s)]
             opened == IF Flags(s) = OpenOrCreate THEN {File(s)} ELSE {}
  <2>1. Handles(ptr, localFilePtr, opened) /\ t # s
    BY <1>1 DEF OpenFile
  <2>2. ptr[t] = filePtr[t]
    BY <2>1
  <2>3. filePtr' = ptr
    BY <2>1 DEF Handles
  <2> HIDE DEF ptr, opened
  <2> QED
    BY <2>1, <2>2, <2>3, HandlesKeepWriters
<1>2. CASE ListPaths(s) \/ PathsThrow(s)
  <2>1. Handles(filePtr, [localFilePtr EXCEPT ![s] = NoFile], {})
    BY <1>2 DEF ListPaths, PathsThrow
  <2>2. filePtr' = filePtr
    BY <2>1 DEF Handles
  <2> QED
    BY <2>1, <2>2, HandlesKeepWriters
<1>3. CASE ~OpenFile(s) /\ ~ListPaths(s) /\ ~PathsThrow(s)
  <2>1. filePtr' = filePtr /\ readWrite' = readWrite
    BY <1>3 DEF Step, OpenFileIfNeeded, OpenSkip, OpenThrows, Write, CheckGroup,
       CreateGroup, CreateDataSet, CreateThrows, WriteRaw, Flush, WriteFails, Read, ReadThrows,
       ReadFails, ReadBlock, SizeBuffer, Overrun, List, ListOpen, ListThrows, ListDone, storeVars,
       listVars, fileVars
  <2> QED
    BY <2>1
<1> QED
  BY <1>1, <1>2, <1>3

\* The generator and the transfer's input use one configuration, the output another.
DemoStores == Conf[Gen] = Conf[In] /\ Conf[Out] # Conf[In]

LEMMA NotTheirs ==
  ASSUME PlainPrefixes, DemoStores, StoresInv, Made, NEW f \in FileName,
         matchesPattern(Conf[Out], f)
  PROVE  ~matchesPattern(Conf[Gen], f) /\ ~matchesPattern(Conf[In], f)
<1>1. \A s \in Stores : Conf[s] \in Configurations
  BY DEF StoresInv, DurableInv, TypeInv, CallOK, Made
<1> QED
  BY <1>1, OneConfiguration, ThreeStores DEF DemoStores

LEMMA OwnPlace ==
  ASSUME PlainPrefixes, NEW s \in Stores, NEW k \in Keys \cup {InvalidKey}
  PROVE  /\ matchesPattern(Conf[s], FileOf(s, k)) /\ matchesPattern(Conf[s], Place(Conf[s], k)[1])
         /\ FileOf(s, k) \in FileName /\ Place(Conf[s], k)[1] \in FileName
<1>1. SelfMatching
  BY DEF SelfMatching, PlainPrefixes
<1> QED
  BY <1>1, OwnFileMatches, KeyIds, FileTyped, ConfAssumption DEF FileOf, Place

\* A file that appears is that of a call which writes, ...
LEMMA NewFile ==
  ASSUME PlainPrefixes, StoresInv, NEW s \in Stores, Step(s), NEW f \in fs'.files, f \notin fs.files
  PROVE  /\ OpenFile(s) /\ f = File(s) /\ call[s].op = "write"
         /\ matchesPattern(Conf[s], f) /\ f \in FileName
<1>1. OpenFile(s)
  BY StepGrows
<1>2. fs'.files = fs.files \cup {File(s)} /\ CanOpen(File(s), Flags(s))
  BY <1>1 DEF OpenFile, StoresInv, DurableInv, TypeInv, TypeOK, Entries
<1>3. f = File(s)
  BY <1>2
<1>4. call[s].op = "write"
  BY <1>2, <1>3 DEF CanOpen, Flags, ReadOnly, OpenOrCreate
<1>5. call[s].key \in Keys \cup {InvalidKey}
  BY DEF StoresInv, DurableInv, TypeInv, TypeOK, CallType
<1> QED
  BY <1>1, <1>3, <1>4, <1>5, OwnPlace DEF File

\* ... and so is a dataset.
LEMMA NewDataset ==
  ASSUME PlainPrefixes, StoresInv, NEW s \in Stores, Step(s),
         NEW d \in fs'.datasets, d \notin fs.datasets
  PROVE  /\ CreateDataSet(s) /\ d = Place(Conf[s], call[s].key) /\ d = Dataset(s)
         /\ call[s].key \in Keys /\ call[s].op = "write"
         /\ matchesPattern(Conf[s], d[1]) /\ d[1] \in FileName
<1> USE DEF StoresInv, DurableInv
<1>1. CreateDataSet(s)
  BY StepGrows
<1>2. pc[s] = "dataset" /\ fs'.datasets = fs.datasets \cup {Dataset(s)}
  BY <1>1 DEF CreateDataSet, TypeInv, TypeOK, Entries
<1>3. Dataset(s) = Place(Conf[s], call[s].key)
  BY <1>2, DatasetIsPlace DEF InFile
<1>4. call[s].key \in Keys /\ call[s].op = "write"
  BY <1>2 DEF TypeInv, CallOK, WriteLabels
<1> QED
  BY <1>1, <1>2, <1>3, <1>4, OwnPlace

\* The file a writer wants to open is new, or nobody else has it.
LEMMA WritersOpen ==
  ASSUME PlainPrefixes, DemoStores, PipelineInv, QuietInv, Made,
         NEW s \in {Gen, Out}, pc[s] = "open", NeedsOpen(s)
  PROVE  CanOpen(File(s), OpenOrCreate)
<1> USE ThreeStores DEF PipelineInv, StoresInv, DurableInv, QuietInv
<1>1. fullNameOfOpenFile[s] = filePtr[s] /\ Flags(s) = OpenOrCreate
  BY DEF HandleInv, Writers, Flags
<1>2. File(s) \in FileName /\ File(s) # NoFile
  BY FileTyped, NoFileIsNoFileName DEF File, TypeInv, TypeOK, CallType
<1>3. filePtr[s] # File(s)
  BY <1>1, <1>2 DEF NeedsOpen, Writers
<1>4. CASE s = Gen
  <2>1. written < Len(Fragments) /\ call[Gen].key = Fragments[written + 1] /\ FilesOpened = written
    BY <1>4 DEF GenInv, FilesOpened, Unopened
  <2>2. ASSUME File(Gen) \in fs.files PROVE FALSE
    <3>1. PICK i \in 1 .. written : File(Gen) = FileOf(Gen, Fragments[i])
      BY <2>1, <2>2, OwnPlace DEF GenInv, File, TypeInv, TypeOK, CallType
    <3>2. FileOf(Gen, Fragments[i]) = FileOf(Gen, Fragments[written + 1])
      BY <2>1, <3>1 DEF File
    <3>3. FileOf(Gen, Fragments[i]) = FileOf(Gen, Fragments[written])
      <4>1. CASE i = written
        BY <4>1
      <4>2. CASE i # written
        <5>1. /\ i \in 1 .. Len(Fragments) /\ written + 1 \in 1 .. Len(Fragments)
              /\ i < written + 1 /\ written \in i .. written + 1
              /\ Fragments[i] \in Keys /\ Fragments[written] \in Keys
              /\ Fragments[written + 1] \in Keys
          BY <2>1, <4>2, PipelineAssumption DEF CallsInv
        <5>2. ~SameIds(Fragments[i], Fragments[written + 1])
              /\ (Fragments[i].event = Fragments[written + 1].event =>
                    Fragments[written].event = Fragments[i].event)
          BY <5>1, FragmentsInOrder
        <5>3. Key(Fragments[i]) /\ Key(Fragments[written + 1]) /\ Conf[Gen].prefix \in Prefixes
          BY <5>1, KeyIds, ConfAssumption
        <5>4. /\ Conf[Gen].mode = "one-event-per-file" =>
                   Fragments[i].event = Fragments[written + 1].event
              /\ Conf[Gen].mode # "one-fragment-per-file"
          BY <3>2, <5>2, <5>3, SameFile DEF FileOf
        <5> QED
          BY <5>2, <5>4 DEF FileOf, getFileNameFromKey, Ending
      <4> QED
        BY <4>1, <4>2
    <3>4. written > 0
      BY <3>1 DEF CallsInv
    <3>5. filePtr[Gen] = FileOf(Gen, Fragments[written])
      BY <2>1, <3>4 DEF GenInv
    <3> QED
      BY <1>3, <1>4, <3>1, <3>3, <3>5
  <2> QED
    BY <1>4, <2>2 DEF CanOpen
<1>5. CASE s = Out
  <2>1. matchesPattern(Conf[Out], File(Out))
    BY OwnPlace DEF File, TypeInv, TypeOK, CallType
  <2>2. ~matchesPattern(Conf[Gen], File(Out)) /\ ~matchesPattern(Conf[In], File(Out))
    BY <1>2, <1>5, <2>1, NotTheirs
  <2>3. filePtr[Gen] # File(Out) /\ filePtr[In] # File(Out) /\ filePtr[Out] # File(Out)
    BY <1>2, <1>3, <1>5, <2>2 DEF OwnFiles
  <2>4. localFilePtr[In] # File(Out)
    BY <1>2, <1>5, <2>2 DEF ListInv, Matches
  <2>5. localFilePtr[Gen] # File(Out) /\ localFilePtr[Out] # File(Out)
    BY <1>2, <1>5 DEF Writers
  <2>6. \A t \in Stores : filePtr[t] # File(Out) /\ localFilePtr[t] # File(Out)
    BY <2>3, <2>4, <2>5
  <2> QED
    BY <1>5, <2>6 DEF CanOpen, Calm
<1> QED
  BY <1>4, <1>5

\* What a writer creates does not exist yet.
LEMMA WritersCreate ==
  ASSUME PlainPrefixes, PipelineInv, QuietInv, NEW s \in {Gen, Out}
  PROVE  ~CreateThrows(s)
<1> USE ThreeStores DEF PipelineInv, StoresInv, DurableInv, QuietInv
<1>1. SUFFICES ASSUME CreateThrows(s), pc[s] \in {"createGroup", "dataset"} PROVE FALSE
  BY DEF CreateThrows
<1>2. call[s].key \in Keys /\ filePtr[s] # NoFile
  BY <1>1 DEF TypeInv, CallOK, WriteLabels
<1>3. filePtr[s] \in readWrite
  BY <1>2 DEF Writers
<1>4. pc[s] = "createGroup" => Group(s) \notin fs.groups
  BY DEF Writers
<1>5. pc[s] = "dataset" /\ Dataset(s) \in fs.datasets
  BY <1>1, <1>3, <1>4 DEF CreateThrows
<1>6. Dataset(s) = Place(Conf[s], call[s].key)
  BY <1>5, DatasetIsPlace DEF InFile
<1>7. CASE s = Gen
  <2>1. written < Len(Fragments) /\ call[Gen].key = Fragments[written + 1] /\ DatasetsMade = written
    BY <1>5, <1>7 DEF GenInv, DatasetsMade, Unmade
  <2>2. PICK i \in 1 .. written : Dataset(Gen) = Place(Conf[Gen], Fragments[i])
    BY <1>2, <1>5, <1>6, <1>7, <2>1, OwnPlace DEF GenInv
  <2>3. /\ i \in 1 .. Len(Fragments) /\ written + 1 \in 1 .. Len(Fragments) /\ i < written + 1
        /\ Fragments[i] \in Keys
    BY <2>1, PipelineAssumption DEF CallsInv
  <2>4. SameIds(Fragments[i], Fragments[written + 1])
    BY <1>2, <1>6, <1>7, <2>1, <2>2, <2>3, PlaceIds
  <2> QED
    BY <2>3, <2>4, FragmentsInOrder
<1>8. CASE s = Out
  <2>1. xfer = "write" /\ call[Out].key = inHand[1]
    BY <1>5, <1>8 DEF OutInv, CallsInv
  <2>2. Place(Conf[Out], inHand[1]) \notin fs.datasets
    BY <1>5, <1>8, <2>1 DEF OutInv, InHands, Unmade
  <2> QED
    BY <1>5, <1>6, <1>8, <2>1, <2>2
<1> QED
  BY <1>7, <1>8

\* What is listed can be read.
LEMMA ReaderFinds ==
  ASSUME ~Faults, PipelineInv, SourceInv, QuietInv
  PROVE  /\ ~OpenThrows(In) /\ ~CreateThrows(In) /\ ~ReadThrows(In) /\ ~ListThrows(In)
<1> USE ThreeStores DEF PipelineInv, StoresInv, DurableInv, QuietInv
<1>1. ~CreateThrows(In)
  BY DEF CreateThrows, SourceInv, TypeInv, CallOK, WriteLabels
<1>2. ~ListThrows(In)
  BY DEF ListThrows, CanOpen, Calm
<1>3. ~OpenThrows(In)
  <2>1. SUFFICES ASSUME OpenThrows(In), pc[In] = "open" PROVE FALSE
    BY DEF OpenThrows, RecordNameAndFlags
  <2>2. call[In].op = "read"
    BY <2>1 DEF SourceInv, TypeInv, CallOK
  <2> DEFINE d == Place(Conf[In], call[In].key)
  <2>3. d \in fs.datasets /\ d[1] = File(In)
    BY <2>2 DEF SourceInv, Place, File, FileOf
  <2>4. << d[1], d[2] >> \in fs.groups
    BY <2>3 DEF ContentInv, WellFormed
  <2>5. d[1] \in fs.files
    BY <2>4 DEF ContentInv, WellFormed
  <2>6. CanOpen(File(In), Flags(In))
    BY <2>2, <2>3, <2>5 DEF CanOpen, Flags, Calm
  <2> QED
    BY <2>1, <2>6 DEF OpenThrows
<1>4. ~ReadThrows(In)
  <2>1. SUFFICES ASSUME ReadThrows(In), pc[In] = "read" PROVE FALSE
    BY DEF ReadThrows
  <2>2. DatasetToRead(In) = Place(Conf[In], call[In].key) /\ call[In].op = "read"
    BY <2>1, ReadsPlace DEF TypeInv, CallOK
  <2>3. DatasetToRead(In) \in fs.datasets
    BY <2>2 DEF SourceInv
  <2>4. GroupToRead(In) = << DatasetToRead(In)[1], DatasetToRead(In)[2] >>
    BY DEF GroupToRead, DatasetToRead
  <2>5. GroupToRead(In) \in fs.groups
    BY <2>3, <2>4 DEF ContentInv, WellFormed
  <2> QED
    BY <2>1, <2>5 DEF ReadThrows
<1> QED
  BY <1>1, <1>2, <1>3, <1>4

LEMMA CalmCalls ==
  ASSUME ~Faults, PlainPrefixes, DemoStores, PipelineInv, SourceInv, QuietInv,
         NEW s \in Stores, Calls(s)
  PROVE  Calm'
<1> USE ThreeStores
<1>1. Step(s) /\ Made
  BY DEF Calls
<1>2. torn' = torn
  BY <1>1, StepGrows DEF PipelineInv
<1>3. ASSUME s \in {Gen, Out}, pc'[s] = "throw" PROVE FALSE
  <2>1. call[s].op = "write"
    BY <1>1, <1>3, StepFrame DEF PipelineInv, QuietInv, Writers
  <2>2. OpenThrows(s) \/ CreateThrows(s)
    BY <1>1, <1>3, <2>1, WhoThrows DEF PipelineInv, StoresInv, DurableInv, TypeInv, CallOK,
       ReadInv, ReadThrows, ListThrows
  <2>3. pc[s] = "open" /\ NeedsOpen(s) /\ ~CanOpen(File(s), Flags(s))
    BY <1>3, <2>2, WritersCreate DEF OpenThrows, RecordNameAndFlags
  <2> QED
    BY <1>1, <1>3, <2>1, <2>3, WritersOpen DEF Flags
<1>4. ASSUME s = In PROVE pc'[In] # "throw"
  BY <1>1, <1>4, WhoThrows, ReaderFinds DEF PipelineInv
<1>5. \A t \in Stores : t # s => pc'[t] = pc[t]
  BY <1>1, StepFrame DEF PipelineInv
<1> QED
  BY <1>2, <1>3, <1>4, <1>5 DEF QuietInv, Calm

\* The two writers never have the same file open.
LEMMA WritersApart ==
  ASSUME PlainPrefixes, DemoStores, StoresInv, OwnFiles, Made,
         filePtr[Gen] # NoFile, filePtr[Out] # NoFile
  PROVE  filePtr[Gen] # filePtr[Out]
<1>1. matchesPattern(Conf[Gen], filePtr[Gen]) /\ matchesPattern(Conf[Out], filePtr[Out])
  BY ThreeStores DEF OwnFiles
<1>2. filePtr[Out] \in FileName
  BY ThreeStores DEF StoresInv, DurableInv, TypeInv, TypeOK
<1> QED
  BY <1>1, <1>2, NotTheirs

LEMMA WritersCalls ==
  ASSUME ~Faults, PlainPrefixes, DemoStores, PipelineInv, SourceInv, QuietInv,
         NEW s \in Stores, Calls(s)
  PROVE  Writers'
<1> USE ThreeStores DEF PipelineInv, StoresInv, DurableInv, TypeInv, TypeOK, QuietInv
<1>1. /\ Step(s) /\ Made /\ call' = call /\ pc[s] \notin {"none", "idle", "return", "throw"}
      /\ \A t \in Stores : t # s =>
           /\ pc'[t] = pc[t] /\ filePtr'[t] = filePtr[t] /\ localFilePtr'[t] = localFilePtr[t]
           /\ openFlagsOfOpenFile'[t] = openFlagsOfOpenFile[t]
  BY StepFrame DEF Calls
<1>2. ASSUME NEW t \in {Gen, Out}
      PROVE  /\ call'[t].op \in {"none", "write"}
             /\ pc'[t] \notin {"none", "idle"} => call'[t].op = "write"
  BY <1>1 DEF Writers
<1>3. ASSUME s \in {Gen, Out}
      PROVE  /\ call[s].op = "write"
             /\ \/ OpenSkip(s) \/ OpenFile(s) \/ OpenThrows(s)
                \/ CheckGroup(s) \/ CreateGroup(s) \/ CreateDataSet(s) \/ CreateThrows(s)
                \/ WriteRaw(s) \/ Flush(s)
  BY <1>1, <1>3, WriterSteps DEF Writers
<1>4. ASSUME NEW t \in {Gen, Out} PROVE localFilePtr'[t] = NoFile
  <2>1. CASE s = t
    <3>1. localFilePtr' = localFilePtr
      BY <1>3, <2>1 DEF OpenSkip, OpenFile, Handles, OpenThrows, CheckGroup, CreateGroup,
         CreateDataSet, CreateThrows, WriteRaw, Flush, listVars
    <3> QED
      BY <3>1 DEF Writers
  <2> QED
    BY <1>1, <2>1 DEF Writers
<1>5. ASSUME NEW t \in {Gen, Out}, filePtr'[t] # NoFile
      PROVE  openFlagsOfOpenFile'[t] = OpenOrCreate /\ filePtr'[t] \in readWrite'
  <2>1. CASE s # t
    BY <1>1, <1>5, <2>1, StepKeepsWriters DEF Writers
  <2>2. CASE s = t /\ OpenFile(s)
    BY <1>3, <2>2 DEF OpenFile, RecordNameAndFlags, Flags, Handles
  <2>3. CASE s = t /\ ~OpenFile(s)
    <3>1. filePtr'[t] = filePtr[t] /\ filePtr'[t] \in readWrite'
      BY <1>1, <1>5, <2>3, StepKeepsWriters DEF Writers
    <3>2. openFlagsOfOpenFile' = openFlagsOfOpenFile \/ OpenThrows(s)
      BY <1>3, <2>3 DEF OpenSkip, CheckGroup, CreateGroup, CreateDataSet, CreateThrows, WriteRaw,
         Flush, storeVars
    <3>3. OpenThrows(s) => openFlagsOfOpenFile'[t] = OpenOrCreate
      BY <1>3, <2>3 DEF OpenThrows, RecordNameAndFlags, Flags
    <3> QED
      BY <1>5, <3>1, <3>2, <3>3 DEF Writers
  <2> QED
    BY <2>1, <2>2, <2>3
<1>6. ASSUME NEW t \in {Gen, Out}, pc'[t] = "createGroup" PROVE Group(t)' \notin fs'.groups
  <2>1. CASE s = t
    <3>1. CheckGroup(s)
      BY <1>3, <1>6, <2>1 DEF OpenSkip, OpenFile, OpenThrows, Opened, CreateGroup, CreateDataSet,
         CreateThrows, WriteRaw, Flush, Throw, Finish, Goto
    <3>2. Group(t) \notin fs.groups
      BY <1>6, <2>1, <3>1 DEF CheckGroup, Goto
    <3> QED
      BY <1>1, <2>1, <3>1, <3>2 DEF CheckGroup, Group, storeVars, fileVars
  <2>2. CASE s # t
    <3>1. pc[t] = "createGroup" /\ Group(t)' = Group(t) /\ Group(t) \notin fs.groups
      BY <1>1, <1>6, <2>2 DEF Writers, Group
    <3>2. CASE CreateGroup(s)
      <4>1. pc[s] = "createGroup" /\ fs'.groups = fs.groups \cup {Group(s)}
        BY <3>2 DEF CreateGroup, Entries
      <4>2. s # In
        BY <4>1 DEF SourceInv, CallOK, WriteLabels
      <4>3. filePtr[s] # filePtr[t]
        BY <1>1, <2>2, <3>1, <4>1, <4>2, WritersApart DEF CallOK, WriteLabels
      <4> QED
        BY <3>1, <4>1, <4>3 DEF Group
    <3>3. CASE fs'.groups = fs.groups
      BY <3>1, <3>3
    <3> QED
      BY <1>1, <3>2, <3>3, StepGrows
  <2> QED
    BY <2>1, <2>2
<1> QED
  BY <1>2, <1>4, <1>5, <1>6 DEF Writers

\* No file that is still to be listed goes away.
LEMMA ListedFilesStay ==
  ASSUME StoresInv, fileList[In] \subseteq fs.files, NEW s \in Stores,
         \/ Step(s)
         \/ Construct(s) \/ BeginList(s) \/ Return(s)
         \/ \E k : BeginRead(s, k) \/ \E b : BeginWrite(s, k, b)
  PROVE  fileList'[In] \subseteq fs'.files
<1> USE ThreeStores DEF StoresInv, DurableInv, TypeInv, TypeOK
<1>1. ASSUME Step(s) PROVE fileList'[In] \subseteq fs'.files
  <2>1. fs.files \subseteq fs'.files
    BY <1>1, StepGrows
  <2>2. CASE s = In /\ List(s)
    BY <2>1, <2>2 DEF List, ListOpen, ListThrows, ListPaths, PathsThrow, ListDone, listVars
  <2>3. CASE s = In /\ ~List(s)
    <3>1. fileList' = fileList
      BY <1>1, <2>3 DEF Step, OpenFileIfNeeded, OpenSkip, OpenFile, OpenThrows,
         Write, CheckGroup, CreateGroup, CreateDataSet, CreateThrows, WriteRaw, Flush, WriteFails,
         Read, ReadThrows, ReadFails, ReadBlock, SizeBuffer, Overrun, listVars
    <3> QED
      BY <2>1, <3>1
  <2>4. CASE s # In
    BY <1>1, <2>1, <2>4, StepFrame
  <2> QED
    BY <2>2, <2>3, <2>4
<1>2. CASE BeginList(s)
  BY <1>2 DEF BeginList, getFilesMatchingPattern, fileVars
<1>3. CASE Return(s)
  BY <1>3 DEF Return, fileVars
<1>4. CASE Construct(s) \/ \E k : BeginRead(s, k) \/ \E b : BeginWrite(s, k, b)
  BY <1>4 DEF Construct, BeginRead, BeginWrite, listVars, fileVars
<1> QED
  BY <1>1, <1>2, <1>3, <1>4

\* The generator's files and datasets grow in its own calls alone, in order.
LEMMA GenCallsOwn ==
  ASSUME ~Faults, PlainPrefixes, PipelineInv, QuietInv, Calls(Gen), pc'[Gen] # "throw"
  PROVE  GenInv'
<1> USE ThreeStores DEF PipelineInv, StoresInv, DurableInv, TypeInv, TypeOK, QuietInv
<1>1. /\ Step(Gen) /\ call' = call /\ written' = written /\ written \in Nat
      /\ pc[Gen] \notin {"none", "idle", "return", "throw"}
  BY StepFrame DEF Calls, modules, CallsInv
<1>2. /\ call[Gen].op = "write"
      /\ \/ OpenSkip(Gen) \/ OpenFile(Gen) \/ CheckGroup(Gen) \/ CreateGroup(Gen)
         \/ CreateDataSet(Gen) \/ WriteRaw(Gen) \/ Flush(Gen)
  <2>1. call[Gen].op = "write"
    BY <1>1 DEF Writers
  <2>2. ~OpenThrows(Gen) /\ ~CreateThrows(Gen)
    BY DEF OpenThrows, CreateThrows, Throw, Finish
  <2> QED
    BY <1>1, <2>1, <2>2, WriterSteps
<1>3. written < Len(Fragments) /\ call[Gen].key = Fragments[written + 1]
  BY <1>1 DEF GenInv
<1>4. File(Gen) = FileOf(Gen, Fragments[written + 1])
  BY <1>3 DEF File
<1>5. CASE OpenSkip(Gen) \/ OpenFile(Gen)
  <2>1. pc[Gen] = "open" /\ pc'[Gen] = "group"
    BY <1>2, <1>5 DEF OpenSkip, OpenFile, RecordNameAndFlags, Opened, Goto
  <2>2. filePtr'[Gen] = File(Gen)
    BY <1>5 DEF OpenSkip, NeedsOpen, HandleInv, OpenFile, Handles, storeVars
  <2>3. FilesOpened = written /\ FilesOpened' = written + 1
    BY <1>1, <2>1 DEF FilesOpened, Unopened
  <2>4. DatasetsMade = written /\ DatasetsMade' = written
    BY <1>1, <2>1 DEF DatasetsMade, Unmade, Unopened
  <2>5. fs'.datasets = fs.datasets
    BY <1>5 DEF OpenSkip, OpenFile, fileVars, Entries
  <2>6. fs'.files \subseteq fs.files \cup {File(Gen)}
    BY <1>5 DEF OpenSkip, OpenFile, fileVars, Entries
  <2>7. ASSUME NEW f \in fs'.files, matchesPattern(Conf[Gen], f)
        PROVE  \E i \in 1 .. written + 1 : f = FileOf(Gen, Fragments[i])
    <3>1. CASE f = File(Gen)
      <4>1. written + 1 \in 1 .. written + 1
        BY <1>1
      <4> QED
        BY <1>4, <3>1, <4>1
    <3>2. CASE f \in fs.files
      <4>1. PICK i \in 1 .. written : f = FileOf(Gen, Fragments[i])
        BY <2>3, <2>7, <3>2 DEF GenInv
      <4>2. i \in 1 .. written + 1
        BY <1>1
      <4> QED
        BY <4>1, <4>2
    <3> QED
      BY <2>6, <2>7, <3>1, <3>2
  <2>8. \A d \in fs'.datasets : matchesPattern(Conf[Gen], d[1]) =>
          \E i \in 1 .. written : d = Place(Conf[Gen], Fragments[i])
    BY <2>4, <2>5 DEF GenInv
  <2> QED
    BY <1>1, <1>3, <1>4, <2>2, <2>3, <2>4, <2>7, <2>8 DEF GenInv
<1>6. CASE CheckGroup(Gen) \/ CreateGroup(Gen) \/ CreateDataSet(Gen) \/ WriteRaw(Gen) \/ Flush(Gen)
  <2>1. pc[Gen] \notin Unopened /\ pc'[Gen] \notin Unopened
    BY <1>6 DEF CheckGroup, CreateGroup, CreateDataSet, WriteRaw, Flush, Finish, Goto, Unopened
  <2>2. FilesOpened = written + 1 /\ FilesOpened' = written + 1
    BY <1>1, <2>1 DEF FilesOpened
  <2>3. filePtr' = filePtr /\ fs'.files = fs.files
    BY <1>6 DEF CheckGroup, CreateGroup, CreateDataSet, WriteRaw, Flush, storeVars, fileVars,
       Entries
  <2>4. ASSUME NEW d \in fs'.datasets, matchesPattern(Conf[Gen], d[1])
        PROVE  \E i \in 1 .. DatasetsMade' : d = Place(Conf[Gen], Fragments[i])
    <3>1. CASE CreateDataSet(Gen)
      <4>1. /\ pc[Gen] = "dataset" /\ pc'[Gen] = "raw"
            /\ fs'.datasets = fs.datasets \cup {Dataset(Gen)}
        BY <3>1 DEF CreateDataSet, Goto, Entries
      <4>2. DatasetsMade = written /\ DatasetsMade' = written + 1
        BY <1>1, <4>1 DEF DatasetsMade, Unmade, Unopened
      <4>3. Dataset(Gen) = Place(Conf[Gen], Fragments[written + 1])
        BY <1>3, <4>1, DatasetIsPlace DEF InFile
      <4>4. CASE d \in fs.datasets
        <5>1. PICK i \in 1 .. written : d = Place(Conf[Gen], Fragments[i])
          BY <2>4, <4>2, <4>4 DEF GenInv
        <5>2. i \in 1 .. written + 1
          BY <1>1
        <5> QED
          BY <4>2, <5>1, <5>2
      <4>5. CASE d = Dataset(Gen)
        <5>1. written + 1 \in 1 .. written + 1
          BY <1>1
        <5> QED
          BY <4>2, <4>3, <4>5, <5>1
      <4> QED
        BY <2>4, <4>1, <4>4, <4>5
    <3>2. CASE ~CreateDataSet(Gen)
      <4>1. fs'.datasets = fs.datasets
        BY <1>6, <3>2 DEF CheckGroup, CreateGroup, WriteRaw, Flush, fileVars, Entries
      <4>2. pc'[Gen] \in Unmade <=> pc[Gen] \in Unmade
        BY <1>6, <3>2 DEF CheckGroup, CreateGroup, WriteRaw, Flush, Finish, Goto, Unmade, Unopened
      <4>3. DatasetsMade' = DatasetsMade
        BY <1>1, <4>2 DEF DatasetsMade
      <4> QED
        BY <2>4, <4>1, <4>3 DEF GenInv
    <3> QED
      BY <3>1, <3>2
  <2>5. filePtr'[Gen] = FileOf(Gen, Fragments[written + 1])
    <3>1. written + 1 > 0
      BY <1>1
    <3> QED
      BY <2>2, <2>3, <3>1 DEF GenInv
  <2>6. \A f \in fs'.files : matchesPattern(Conf[Gen], f) =>
          \E i \in 1 .. written + 1 : f = FileOf(Gen, Fragments[i])
    BY <2>2, <2>3 DEF GenInv
  <2> QED
    BY <1>1, <1>3, <2>2, <2>4, <2>5, <2>6 DEF GenInv
<1> QED
  BY <1>2, <1>5, <1>6

LEMMA GenCallsOther ==
  ASSUME PlainPrefixes, DemoStores, PipelineInv, SourceInv, QuietInv,
         NEW s \in {In, Out}, Calls(s)
  PROVE  GenInv'
<1> USE ThreeStores DEF PipelineInv, QuietInv
<1>1. /\ Step(s) /\ Made /\ call' = call /\ written' = written
      /\ pc'[Gen] = pc[Gen] /\ filePtr'[Gen] = filePtr[Gen]
  BY StepFrame DEF Calls, modules
<1>2. FilesOpened' = FilesOpened /\ DatasetsMade' = DatasetsMade
  BY <1>1 DEF FilesOpened, DatasetsMade
<1>3. ASSUME NEW f \in fs'.files, matchesPattern(Conf[Gen], f) PROVE f \in fs.files
  <2>1. SUFFICES ASSUME f \notin fs.files PROVE FALSE
    OBVIOUS
  <2>2. call[s].op = "write" /\ matchesPattern(Conf[s], f) /\ f \in FileName
    BY <1>1, <2>1, NewFile
  <2> QED
    BY <1>1, <1>3, <2>2, NotTheirs DEF SourceInv
<1>4. ASSUME NEW d \in fs'.datasets, matchesPattern(Conf[Gen], d[1]) PROVE d \in fs.datasets
  <2>1. SUFFICES ASSUME d \notin fs.datasets PROVE FALSE
    OBVIOUS
  <2>2. call[s].op = "write" /\ matchesPattern(Conf[s], d[1]) /\ d[1] \in FileName
    BY <1>1, <2>1, NewDataset
  <2> QED
    BY <1>1, <1>4, <2>2, NotTheirs DEF SourceInv
<1> QED
  BY <1>1, <1>2, <1>3, <1>4 DEF GenInv

LEMMA OutCalls ==
  ASSUME ~Faults, PlainPrefixes, DemoStores, PipelineInv, SourceInv, QuietInv,
         NEW s \in Stores, Calls(s)
  PROVE  OutInv'
<1> USE ThreeStores DEF PipelineInv, StoresInv, DurableInv, QuietInv
<1>1. /\ Step(s) /\ Made /\ call' = call /\ UNCHANGED << xfer, todo, inHand >>
      /\ pc[s] \notin {"none", "idle", "return", "throw"}
      /\ \A t \in Stores : t # s => pc'[t] = pc[t]
  BY StepFrame DEF Calls, modules
<1>2. pc'[Out] \notin {"none", "idle"} => xfer = "write"
  BY <1>1 DEF OutInv
<1>3. ASSUME xfer \in {"list", "listing"}, NEW f \in fs'.files, matchesPattern(Conf[Out], f)
      PROVE  FALSE
  <2>1. f \notin fs.files
    BY <1>3 DEF OutInv
  <2>2. call[s].op = "write" /\ matchesPattern(Conf[s], f) /\ f \in FileName
    BY <1>1, <2>1, NewFile
  <2>3. s = Out
    BY <1>1, <1>3, <2>2, NotTheirs DEF SourceInv
  <2> QED
    BY <1>1, <1>3, <2>3 DEF OutInv
<1>4. ASSUME NEW k \in Keys, Place(Conf[Out], k) \in fs'.datasets,
             Place(Conf[Out], k) \notin fs.datasets
      PROVE  /\ s = Out /\ xfer = "write" /\ SameIds(k, inHand[1])
             /\ pc'[Out] = "raw"
  <2>1. /\ CreateDataSet(s) /\ Place(Conf[Out], k) = Place(Conf[s], call[s].key)
        /\ call[s].key \in Keys /\ call[s].op = "write"
        /\ matchesPattern(Conf[s], Place(Conf[Out], k)[1])
    BY <1>1, <1>4, NewDataset
  <2>2. matchesPattern(Conf[Out], Place(Conf[Out], k)[1]) /\ Place(Conf[Out], k)[1] \in FileName
    BY OwnPlace
  <2>3. s = Out
    BY <1>1, <2>1, <2>2, NotTheirs DEF SourceInv
  <2>4. xfer = "write" /\ call[Out].key = inHand[1]
    BY <1>1, <2>3 DEF OutInv, CallsInv
  <2>5. SameIds(k, call[s].key)
    BY <2>1, PlaceIds
  <2>6. pc'[Out] = "raw"
    BY <2>1, <2>3 DEF CreateDataSet, Goto, TypeInv, TypeOK
  <2> QED
    BY <2>3, <2>4, <2>5, <2>6
<1>5. ASSUME NEW k \in Keys, Place(Conf[In], k) \in todo
      PROVE  Place(Conf[Out], k) \notin fs'.datasets
  <2>1. SUFFICES ASSUME Place(Conf[Out], k) \in fs'.datasets PROVE FALSE
    OBVIOUS
  <2>2. Place(Conf[Out], k) \notin fs.datasets
    BY <1>5 DEF OutInv
  <2>3. xfer = "write" /\ SameIds(k, inHand[1])
    BY <1>4, <2>1, <2>2
  <2>4. Place(Conf[In], k) = Place(Conf[In], inHand[1])
    BY <2>3, SamePlace
  <2>5. Place(Conf[In], inHand[1]) \notin todo
    BY <2>3 DEF OutInv, InHands
  <2> QED
    BY <1>5, <2>4, <2>5
<1>6. InHands' = InHands
  BY <1>1 DEF InHands
<1>7. ASSUME NEW k \in InHands, xfer # "write" \/ pc'[Out] \in Unmade
      PROVE  Place(Conf[Out], k) \notin fs'.datasets
  <2>1. k \in Keys
    BY <1>7 DEF InHands, CallsInv
  <2>2. xfer # "write" \/ pc[Out] \in Unmade
    <3>1. CASE s # Out
      BY <1>1, <1>7, <3>1
    <3>2. CASE s = Out /\ pc[Out] \notin Unmade
      <4>1. call[Out].op = "write"
        BY <1>1, <3>2 DEF Writers
      <4>2. \/ OpenSkip(Out) \/ OpenFile(Out) \/ OpenThrows(Out)
            \/ CheckGroup(Out) \/ CreateGroup(Out) \/ CreateDataSet(Out) \/ CreateThrows(Out)
            \/ WriteRaw(Out) \/ Flush(Out)
        BY <1>1, <3>2, <4>1, WriterSteps
      <4>3. pc'[Out] \notin Unmade
        BY <3>2, <4>2 DEF Unmade, Unopened, OpenSkip, OpenFile, OpenThrows, RecordNameAndFlags,
           CheckGroup, CreateGroup, CreateDataSet, CreateThrows, WriteRaw, Flush, Throw, Finish,
           Goto, TypeInv, TypeOK
      <4> QED
        BY <1>7, <4>3
    <3> QED
      BY <3>1, <3>2
  <2>3. Place(Conf[Out], k) \notin fs.datasets
    BY <2>2 DEF OutInv
  <2>4. SUFFICES ASSUME Place(Conf[Out], k) \in fs'.datasets PROVE FALSE
    OBVIOUS
  <2>5. xfer = "write" /\ pc'[Out] = "raw"
    BY <1>4, <2>1, <2>3, <2>4
  <2> QED
    BY <1>7, <2>5 DEF Unmade, Unopened
<1>8. \A k \in InHands : Place(Conf[In], k) \notin todo
  BY DEF OutInv
<1> QED
  BY <1>1, <1>2, <1>3, <1>5, <1>6, <1>7, <1>8 DEF OutInv

----------------------------------------------------------------------------
(* Between the calls *)

LEMMA FilesBetween ==
  ASSUME PipelineInv, QuietInv, PipelineNext, ~Ends, \A s \in Stores : ~Calls(s)
  PROVE  Calm' /\ OwnFiles' /\ fileList'[In] \subseteq fs'.files
<1> USE DEF PipelineInv, QuietInv
<1>1. torn' = torn /\ filePtr' = filePtr
  BY NoCallNoChange
<1>2. OwnFiles'
  BY <1>1 DEF OwnFiles
<1>3. ASSUME NEW s \in Stores,
             \/ Construct(s) \/ BeginList(s) \/ Return(s)
             \/ \E k : BeginRead(s, k) \/ \E b : BeginWrite(s, k, b)
      PROVE  Calm' /\ fileList'[In] \subseteq fs'.files
  <2>1. pc'[s] # "throw" /\ \A t \in Stores : t # s => pc'[t] = pc[t]
    BY <1>3, CallerFrame
  <2>2. Calm'
    BY <1>1, <2>1 DEF Calm
  <2> QED
    BY <1>3, <2>2, ListedFilesStay
<1>4. CASE UNCHANGED vars
  BY <1>2, <1>4 DEF vars, Calm
<1> QED
  BY <1>2, <1>3, <1>4, BetweenCalls

\* The generator's store and the output's are only asked to write.
LEMMA WritersBetween ==
  ASSUME PipelineInv, QuietInv, PipelineNext, ~Ends, \A s \in Stores : ~Calls(s)
  PROVE  Writers'
<1> USE ThreeStores DEF PipelineInv, StoresInv, DurableInv, TypeInv, TypeOK, QuietInv
<1>1. UNCHANGED << fs, readWrite, filePtr, openFlagsOfOpenFile, localFilePtr >>
  BY NoCallNoChange
<1>2. ASSUME NEW t \in {Gen, Out}
      PROVE  \/ pc'[t] = pc[t] /\ call'[t] = call[t]
             \/ pc'[t] = "idle" /\ (call'[t] = call[t] \/ call'[t].op = "none")
             \/ pc'[t] = "open" /\ call'[t].op = "write"
  <2>1. ASSUME NEW s \in Stores, Configure(s)
        PROVE  call'[t] = call[t] /\ (pc'[t] = pc[t] \/ pc'[t] = "idle")
    BY <2>1 DEF Configure, Construct, Goto
  <2>2. CASE GeneratorWrites \/ TransferWrites
    BY <2>2 DEF GeneratorWrites, TransferWrites, BeginWrite, Goto
  <2>3. CASE GeneratorGoesOn \/ TransferGoesOn \/ TransferHasList \/ TransferHasBlock
    BY <2>3 DEF GeneratorGoesOn, TransferGoesOn, TransferHasList, TransferHasBlock, Return,
       Finish, NoCall
  <2>4. CASE TransferLists \/ TransferReads
    BY <2>4 DEF TransferLists, TransferReads, BeginList, BeginRead, Goto
  <2>5. CASE TransferWaits
    BY <2>5 DEF TransferWaits, vars
  <2> QED
    BY <2>1, <2>2, <2>3, <2>4, <2>5 DEF PipelineNext, Generator, Transfer
<1>3. ASSUME NEW t \in {Gen, Out}, pc'[t] = "createGroup"
      PROVE  pc[t] = "createGroup" /\ Group(t)' = Group(t)
  BY <1>1, <1>2, <1>3 DEF Group
<1> QED
  BY <1>1, <1>2, <1>3 DEF Writers

LEMMA GenBetween ==
  ASSUME ~Reuse, PipelineInv, QuietInv, PipelineNext, ~Ends, \A s \in Stores : ~Calls(s)
  PROVE  GenInv'
<1> USE ThreeStores DEF PipelineInv, StoresInv, DurableInv, TypeInv, TypeOK, QuietInv
<1>1. fs' = fs /\ filePtr' = filePtr /\ written \in Nat
  BY NoCallNoChange DEF CallsInv
<1>2. CASE pc'[Gen] = pc[Gen] /\ call'[Gen] = call[Gen] /\ written' = written
  <2>1. FilesOpened' = FilesOpened /\ DatasetsMade' = DatasetsMade
    BY <1>2 DEF FilesOpened, DatasetsMade
  <2> QED
    BY <1>1, <1>2, <2>1 DEF GenInv
<1>3. CASE Configure(Gen)
  <2>1. pc[Gen] = "none" /\ pc'[Gen] = "idle" /\ written' = written
    BY <1>3 DEF Configure, Construct, Goto, modules
  <2>2. FilesOpened' = FilesOpened /\ DatasetsMade' = DatasetsMade
    BY <2>1 DEF FilesOpened, DatasetsMade, Unmade, Unopened
  <2> QED
    BY <1>1, <2>1, <2>2 DEF GenInv
<1>4. CASE GeneratorWrites
  <2>1. /\ pc[Gen] = "idle" /\ pc'[Gen] = "open" /\ written' = written
        /\ written < Len(Fragments) /\ call'[Gen].key = Fragments[written + 1]
    BY <1>4 DEF GeneratorWrites, BeginWrite, Goto, modules
  <2>2. FilesOpened' = FilesOpened /\ DatasetsMade' = DatasetsMade
    BY <2>1 DEF FilesOpened, DatasetsMade, Unmade, Unopened
  <2> QED
    BY <1>1, <2>1, <2>2 DEF GenInv
<1>5. CASE GeneratorGoesOn
  <2>1. pc[Gen] = "return" /\ pc'[Gen] = "idle" /\ written' = written + 1
    BY <1>5 DEF GeneratorGoesOn, Return, Finish
  <2>2. /\ pc[Gen] \notin Unmade /\ pc[Gen] \notin Unopened
        /\ pc'[Gen] \in Unmade /\ pc'[Gen] \in Unopened
    BY <2>1 DEF Unmade, Unopened
  <2>3. FilesOpened' = FilesOpened /\ DatasetsMade' = DatasetsMade
    BY <2>1, <2>2 DEF FilesOpened, DatasetsMade
  <2> QED
    BY <1>1, <2>1, <2>3 DEF GenInv
<1>6. ASSUME NEW s \in Stores, s # Gen, Configure(s)
      PROVE  pc'[Gen] = pc[Gen] /\ call'[Gen] = call[Gen] /\ written' = written
  BY <1>6 DEF Configure, Construct, Goto, modules
<1>7. CASE TransferLists \/ TransferReads \/ TransferWrites
  BY <1>2, <1>7 DEF TransferLists, TransferReads, TransferWrites, BeginList, BeginRead, BeginWrite,
     Goto
<1>8. CASE TransferHasList \/ TransferHasBlock \/ TransferGoesOn
  BY <1>2, <1>8 DEF TransferHasList, TransferHasBlock, TransferGoesOn, Return, Finish
<1>9. CASE TransferWaits
  BY <1>2, <1>9 DEF TransferWaits, vars
<1> QED
  BY <1>2, <1>3, <1>4, <1>5, <1>6, <1>7, <1>8, <1>9 DEF PipelineNext, Generator, Transfer

LEMMA OutBetween ==
  ASSUME ~Reuse, PlainPrefixes, PipelineInv, SourceInv, QuietInv, PipelineNext, ~Ends,
         \A s \in Stores : ~Calls(s)
  PROVE  OutInv'
<1> USE ThreeStores DEF PipelineInv, StoresInv, DurableInv, TypeInv, TypeOK, QuietInv
<1>1. fs' = fs
  BY NoCallNoChange
<1>2. CASE /\ pc'[Out] = pc[Out] \/ (pc[Out] = "none" /\ pc'[Out] = "idle")
           /\ call'[In] = call[In] /\ UNCHANGED << xfer, todo, inHand >>
  <2>1. InHands' = InHands
    BY <1>2 DEF InHands
  <2>2. pc[Out] = "none" => pc[Out] \in Unmade
    BY DEF Unmade, Unopened
  <2> QED
    BY <1>1, <1>2, <2>1, <2>2 DEF OutInv
<1>3. ASSUME NEW s \in Stores, Configure(s) PROVE OutInv'
  BY <1>2, <1>3 DEF Configure, Construct, Goto, modules
<1>4. CASE GeneratorWrites \/ GeneratorGoesOn
  BY <1>2, <1>4 DEF GeneratorWrites, GeneratorGoesOn, BeginWrite, Return, Finish, Goto, modules
<1>5. CASE TransferLists
  <2>1. xfer = "list" /\ xfer' = "listing" /\ pc'[Out] = pc[Out] /\ todo' = todo
    BY <1>5 DEF TransferLists, BeginList, Goto
  <2> QED
    BY <1>1, <2>1 DEF OutInv, InHands
<1>6. CASE TransferHasList
  <2>1. /\ xfer = "listing" /\ xfer' = "copy" /\ pc'[Out] = pc[Out] /\ todo' = keyList[In]
    BY <1>6 DEF TransferHasList, Return, Finish
  <2>2. ASSUME NEW k \in Keys PROVE Place(Conf[Out], k) \notin fs.datasets
    <3> DEFINE d == Place(Conf[Out], k)
    <3>1. matchesPattern(Conf[Out], d[1])
      BY OwnPlace
    <3>2. d[1] \notin fs.files
      BY <2>1, <3>1 DEF OutInv
    <3>3. << d[1], d[2] >> \notin fs.groups
      BY <3>2 DEF ContentInv, WellFormed
    <3> QED
      BY <3>3 DEF ContentInv, WellFormed
  <2> QED
    BY <1>1, <2>1, <2>2 DEF OutInv, InHands
<1>7. CASE TransferReads
  <2>1. PICK d \in todo : BeginRead(In, ListedKey(<< d[2], d[3] >>)) /\ todo' = todo \ {d}
    BY <1>7 DEF TransferReads
  <2> DEFINE k == ListedKey(<< d[2], d[3] >>)
  <2>2. /\ pc[In] = "idle" /\ pc'[Out] = pc[Out] /\ call'[In].key = k
        /\ xfer = "copy" /\ xfer' = "read"
    BY <1>7, <2>1 DEF TransferReads, BeginRead, Goto
  <2>3. k \in Keys /\ Place(Conf[In], k) = d
    BY <2>2, ListedPlace
  <2>4. InHands' = {k}
    BY <2>2 DEF InHands
  <2>5. Place(Conf[Out], k) \notin fs.datasets
    BY <2>3 DEF OutInv
  <2> HIDE DEF k
  <2> QED
    BY <1>1, <2>1, <2>2, <2>3, <2>4, <2>5 DEF OutInv
<1>8. CASE TransferHasBlock
  <2>1. /\ xfer = "read" /\ xfer' = "got" /\ pc'[Out] = pc[Out] /\ todo' = todo
        /\ inHand'[1] = call[In].key
    BY <1>8 DEF TransferHasBlock, Return, Finish
  <2>2. InHands' = InHands
    BY <2>1 DEF InHands
  <2> QED
    BY <1>1, <2>1, <2>2 DEF OutInv
<1>9. CASE TransferWrites
  <2>1. xfer = "got" /\ xfer' = "write" /\ UNCHANGED << todo, inHand >>
    BY <1>9 DEF TransferWrites
  <2>2. InHands' = InHands
    BY <2>1 DEF InHands
  <2> QED
    BY <1>1, <2>1, <2>2 DEF OutInv
<1>10. CASE TransferGoesOn
  <2>1. xfer' = "copy" /\ pc'[Out] = "idle" /\ todo' = todo
    BY <1>10 DEF TransferGoesOn, Return, Finish
  <2> QED
    BY <1>1, <2>1 DEF OutInv, InHands
<1>11. CASE TransferWaits
  <2>1. xfer = "copy" /\ xfer' = "wait" /\ pc' = pc /\ todo' = todo
    BY <1>11 DEF TransferWaits, vars
  <2> QED
    BY <1>1, <2>1 DEF OutInv, InHands
<1> QED
  BY <1>3, <1>4, <1>5, <1>6, <1>7, <1>8, <1>9, <1>10, <1>11 DEF PipelineNext, Generator, Transfer

----------------------------------------------------------------------------
LEMMA QuietCalls ==
  ASSUME ~Faults, PlainPrefixes, DemoStores, PipelineInv, SourceInv, QuietInv,
         NEW s \in Stores, Calls(s)
  PROVE  QuietInv'
<1>1. Calm'
  BY CalmCalls
<1>2. Writers' /\ OutInv'
  BY WritersCalls, OutCalls
<1>3. OwnFiles'
  <2>1. SelfMatching
    BY DEF SelfMatching, PlainPrefixes
  <2>2. [Next]_vars
    BY DEF Calls, Next
  <2> QED
    BY <2>1, <2>2, OwnFilesNext DEF PipelineInv, StoresInv, DurableInv, QuietInv
<1>4. fileList'[In] \subseteq fs'.files
  BY ListedFilesStay DEF Calls, PipelineInv, QuietInv
<1>5. GenInv'
  BY <1>1, ThreeStores, GenCallsOwn, GenCallsOther DEF Calm
<1> QED
  BY <1>1, <1>2, <1>3, <1>4, <1>5 DEF QuietInv

\* If the library does not fail, the generator and the transfer's input use one
\* configuration and its output another, and prefixes are plain, then in the first
\* life of the process no store throws, whatever the calls' steps interleave with:
\* no file is refused, no group or dataset exists already, and what is listed can
\* be read (HDF5DataStore.hpp:107, 176, 199, 254-264, 277).
THEOREM NoStoreThrowsCorrect ==
  ASSUME ~Reuse, ~Faults, PlainPrefixes, DemoStores
  PROVE  PipelineSpec => []NoStoreThrows
<1> DEFINE I == lives = 0 => SourceInv /\ QuietInv
<1>1. SelfMatching
  BY DEF SelfMatching, PlainPrefixes
<1>2. PipelineInit => I
  <2> SUFFICES ASSUME PipelineInit PROVE SourceInv /\ QuietInv
    OBVIOUS
  <2> USE ThreeStores DEF PipelineInit, Init, NoCall, NoFiles
  <2>1. SourceInv
    BY DEF SourceInv
  <2>2. Calm /\ Writers /\ OwnFiles
    BY DEF Calm, Writers, OwnFiles
  <2>3. FilesOpened = 0
    BY DEF FilesOpened, Unopened
  <2>4. GenInv
    BY <2>3 DEF GenInv
  <2>5. OutInv
    BY DEF OutInv, InHands
  <2> QED
    BY <2>1, <2>2, <2>4, <2>5 DEF QuietInv
<1>3. PipelineInv /\ I /\ [PipelineNext]_pipelineVars => I'
  <2> SUFFICES ASSUME PipelineInv, I, [PipelineNext]_pipelineVars, lives' = 0
               PROVE  SourceInv' /\ QuietInv'
    BY DEF SourceInv, QuietInv
  <2>1. SourceInv /\ QuietInv /\ (UNCHANGED pipelineVars \/ (PipelineNext /\ ~Ends))
    BY FirstLife DEF PipelineInv
  <2>2. ASSUME NEW s \in Stores, Calls(s) PROVE SourceInv' /\ QuietInv'
    BY <2>1, <2>2, SourceCalls, QuietCalls
  <2>3. ASSUME PipelineNext, ~Ends, \A s \in Stores : ~Calls(s) PROVE SourceInv' /\ QuietInv'
    BY <2>1, <2>3, SourceCallers, FilesBetween, WritersBetween, GenBetween, OutBetween DEF QuietInv
  <2>4. CASE UNCHANGED pipelineVars
    <3>1. SourceInv' /\ Calm' /\ Writers' /\ OwnFiles'
      BY <2>1, <2>4 DEF pipelineVars, modules, vars, SourceInv, Sourced, QuietInv, Calm, Writers,
         Group, OwnFiles
    <3>2. FilesOpened' = FilesOpened /\ DatasetsMade' = DatasetsMade /\ InHands' = InHands
      BY <2>4 DEF pipelineVars, modules, vars, FilesOpened, DatasetsMade, InHands
    <3>3. GenInv' /\ OutInv'
      BY <2>1, <2>4, <3>2 DEF pipelineVars, modules, vars, QuietInv, GenInv, OutInv
    <3>4. fileList'[In] \subseteq fs'.files
      BY <2>1, <2>4 DEF pipelineVars, vars, QuietInv
    <3> QED
      BY <3>1, <3>3, <3>4 DEF QuietInv
  <2> QED
    BY <2>1, <2>2, <2>3, <2>4
<1>4. I => NoStoreThrows
  BY DEF QuietInv, Calm, NoStoreThrows, Alive
<1> HIDE DEF I
<1> QED
  BY <1>1, <1>2, <1>3, <1>4, PipelineInvariant, PTL DEF PipelineSpec

----------------------------------------------------------------------------
(* The abstract store *)

\* The stores of the two modules together are one write-once store, through every
\* exception, death and restart of the process: a place gets at most one block, a
\* block never changes, and a block whose write returned is there for good
\* (DataStore.hpp:70-109, as DataGenerator.cpp:126 and DataTransferModule.cpp:106-110
\* use it).
THEOREM PipelineImplementsDataStore ==
  ASSUME ~Reuse, SelfMatching
  PROVE  PipelineSpec => ImplementsDataStore
<1>1. PipelineInit => Abstract!Init
  BY DEF PipelineInit, Init, NoFiles, Abstract!Init
<1>2. ASSUME PipelineInv, [PipelineNext]_pipelineVars
      PROVE  [Abstract!Next]_Abstract!vars
  <2>1. DurableInv
    BY <1>2 DEF PipelineInv, StoresInv
  <2>2. CASE Ends
    BY <2>1, <2>2, DeathDies DEF Ends
  <2>3. CASE ~Ends
    <3>1. [Next]_vars
      BY <1>2, <2>3, StoreSteps DEF PipelineInv, pipelineVars
    <3> QED
      BY <2>1, <3>1, WriteRawStores, FlushAcks, DeathDies, OtherStepsSync
  <2> QED
    BY <2>2, <2>3
<1> QED
  BY <1>1, <1>2, PipelineInvariant, PTL DEF PipelineSpec, ImplementsDataStore, Abstract!Spec

\* What a caller of the stores relies on holds under the two modules as well, where
\* a store that throws ends the process: every call works in the file of its key,
\* what was acknowledged is on disk, a read finds it, and a listing is complete
\* (HDF5DataStore.hpp:91-215, as DataGenerator.cpp:126 and
\* DataTransferModule.cpp:106-110 use it).
THEOREM PipelineStoresHold ==
  ASSUME ~Reuse, SelfMatching
  PROVE  PipelineSpec => [](HandleAgrees /\ AckedDurable /\ ReadFindsAcked /\ ListComplete)
<1>1. ASSUME PipelineInv
      PROVE  HandleAgrees /\ AckedDurable /\ ReadFindsAcked /\ ListComplete
  <2>1. DurableInv /\ ReadInv /\ ListInv
    BY <1>1 DEF PipelineInv, StoresInv
  <2>2. HandleAgrees /\ AckedDurable
    BY <2>1 DEF DurableInv, HandleInv, HandleAgrees, InFile
  <2>3. ReadFindsAcked
    BY <2>1, ReadableIsThere DEF ReadFindsAcked, ReadInv, Readable
  <2>4. ListComplete
    BY <2>1 DEF ListInv, Matches, Finds, Found, ListComplete
  <2> QED
    BY <2>2, <2>3, <2>4
<1> QED
  BY <1>1, PipelineInvariant, PTL

----------------------------------------------------------------------------
(* A copy comes to its end *)

AtRest == {"none", "idle"}

\* A store of the transfer is in a call only where do_work has made one, ...
PhaseInv ==
  /\ xfer \notin {"listing", "read"} => pc[In] \in AtRest
  /\ xfer # "write" => pc[Out] \in AtRest
  /\ xfer = "read" => pc[In] \in {"open", "read", "overrun", "return", "throw"}
  /\ xfer = "write" => pc[Out] \in WriteLabels \cup {"open", "return", "throw"}

\* ... and the files hold finitely many datasets, so that a listing has an end.
FiniteInv ==
  IsFiniteSet(fs.datasets) /\ IsFiniteSet(keyList[In]) /\ IsFiniteSet(todo)

\* A read() and a write() never go back.
LEMMA ReadAdvances ==
  ASSUME StoresInv, NEW s \in Stores, Step(s), call[s].op = "read"
  PROVE  \/ pc[s] = "open" /\ pc'[s] \in {"read", "throw"}
         \/ pc[s] = "read" /\ pc'[s] \in {"overrun", "return", "throw"}
         \/ pc[s] = "overrun" /\ pc'[s] = "return"
<1> USE DEF StoresInv, DurableInv, TypeInv, TypeOK
<1>1. pc[s] \notin WriteLabels \cup {"list", "paths"}
  BY DEF CallOK, ReadInv
<1>2. CASE OpenFileIfNeeded(s)
  BY <1>2 DEF OpenFileIfNeeded, OpenSkip, OpenFile, OpenThrows, RecordNameAndFlags, Opened, Throw,
     Finish, Goto
<1>3. CASE Read(s)
  BY <1>3 DEF Read, ReadThrows, ReadFails, ReadBlock, SizeBuffer, Overrun, Throw, Finish, Goto
<1> QED
  BY <1>1, <1>2, <1>3 DEF Step, Write, CheckGroup, CreateGroup, CreateDataSet, CreateThrows,
     WriteRaw, Flush, WriteFails, WriteLabels, List, ListOpen, ListThrows, ListPaths, PathsThrow,
     ListDone

LEMMA WriteAdvances ==
  ASSUME StoresInv, NEW s \in Stores, Step(s), call[s].op = "write"
  PROVE  \/ pc[s] = "open" /\ pc'[s] \in {"group", "throw"}
         \/ pc[s] = "group" /\ pc'[s] \in {"createGroup", "dataset", "throw"}
         \/ pc[s] = "createGroup" /\ pc'[s] \in {"dataset", "throw"}
         \/ pc[s] = "dataset" /\ pc'[s] \in {"raw", "throw"}
         \/ pc[s] = "raw" /\ pc'[s] \in {"flush", "throw"}
         \/ pc[s] = "flush" /\ pc'[s] \in {"return", "throw"}
<1> USE DEF StoresInv, DurableInv, TypeInv, TypeOK
<1>1. pc[s] \notin {"read", "overrun", "list", "paths"}
  BY DEF CallOK, ReadInv
<1>2. CASE OpenFileIfNeeded(s)
  BY <1>2 DEF OpenFileIfNeeded, OpenSkip, OpenFile, OpenThrows, RecordNameAndFlags, Opened, Throw,
     Finish, Goto
<1>3. CASE Write(s)
  BY <1>3 DEF Write, CheckGroup, CreateGroup, CreateDataSet, CreateThrows, WriteRaw, Flush,
     WriteFails, Throw, Finish, Goto
<1> QED
  BY <1>1, <1>2, <1>3 DEF Step, Read, ReadThrows, ReadFails, ReadBlock, SizeBuffer, Overrun, List,
     ListOpen, ListThrows, ListPaths, PathsThrow, ListDone

LEMMA PhaseCalls ==
  ASSUME PipelineInv, PhaseInv, NEW s \in Stores, Calls(s)
  PROVE  PhaseInv'
<1> USE ThreeStores DEF PipelineInv, StoresInv, DurableInv, TypeInv, TypeOK
<1>1. /\ Step(s) /\ xfer' = xfer /\ pc[s] \notin AtRest
      /\ \A t \in Stores : t # s => pc'[t] = pc[t]
  BY StepFrame DEF Calls, modules, AtRest
<1>2. CASE s = Gen
  BY <1>1, <1>2 DEF PhaseInv
<1>3. CASE s = In
  <2>1. CASE xfer = "read"
    <3>1. pc'[In] \in {"read", "overrun", "return", "throw"}
      BY <1>1, <1>3, <2>1, ReadAdvances DEF CallsInv
    <3> QED
      BY <1>1, <1>3, <2>1, <3>1 DEF PhaseInv
  <2>2. CASE xfer = "listing"
    BY <1>1, <1>3, <2>2 DEF PhaseInv
  <2> QED
    BY <1>1, <1>3, <2>1, <2>2 DEF PhaseInv
<1>4. CASE s = Out
  <2>1. xfer = "write"
    BY <1>1, <1>4 DEF PhaseInv
  <2>2. pc'[Out] \in WriteLabels \cup {"return", "throw"}
    BY <1>1, <1>4, <2>1, WriteAdvances DEF CallsInv, WriteLabels
  <2> QED
    BY <1>1, <1>4, <2>1, <2>2 DEF PhaseInv
<1> QED
  BY <1>2, <1>3, <1>4

LEMMA PhaseNext ==
  ASSUME PipelineInv, PhaseInv, [PipelineNext]_pipelineVars
  PROVE  PhaseInv'
<1> USE ThreeStores DEF PipelineInv, StoresInv, DurableInv, TypeInv, TypeOK
<1>1. CASE UNCHANGED pipelineVars
  BY <1>1 DEF pipelineVars, modules, vars, PhaseInv
<1>2. CASE Ends
  BY <1>2 DEF Ends, ProcessDies, PhaseInv, AtRest
<1>3. ASSUME NEW s \in Stores, Configure(s) PROVE PhaseInv'
  BY <1>3 DEF Configure, Construct, Goto, modules, PhaseInv, AtRest, WriteLabels
<1>4. CASE GeneratorWrites \/ GeneratorGoesOn
  <2>1. xfer' = xfer /\ pc'[In] = pc[In] /\ pc'[Out] = pc[Out]
    BY <1>4 DEF GeneratorWrites, GeneratorGoesOn, BeginWrite, Return, Finish, Goto, modules
  <2> QED
    BY <2>1 DEF PhaseInv
<1>5. CASE TransferLists \/ TransferHasList
  BY <1>5 DEF TransferLists, TransferHasList, BeginList, Return, Finish, Goto, PhaseInv, AtRest
<1>6. CASE TransferReads
  BY <1>6 DEF TransferReads, BeginRead, Goto, PhaseInv
<1>7. CASE TransferHasBlock
  BY <1>7 DEF TransferHasBlock, Return, Finish, PhaseInv, AtRest
<1>8. CASE TransferWrites
  BY <1>8 DEF TransferWrites, BeginWrite, Goto, PhaseInv
<1>9. CASE TransferGoesOn
  BY <1>9 DEF TransferGoesOn, Return, Finish, PhaseInv, AtRest
<1>10. CASE TransferWaits
  BY <1>10 DEF TransferWaits, vars, PhaseInv
<1> QED
  BY <1>1, <1>2, <1>3, <1>4, <1>5, <1>6, <1>7, <1>8, <1>9, <1>10, PhaseCalls
     DEF PipelineNext, Generator, Transfer

\* A step of a store makes at most one dataset, and lists those there are.
LEMMA FiniteCalls ==
  ASSUME StoresInv, NEW s \in Stores, Step(s), FiniteInv
  PROVE  IsFiniteSet(fs'.datasets) /\ IsFiniteSet(keyList'[In])
<1> USE DEF StoresInv, DurableInv, TypeInv, TypeOK
<1>1. IsFiniteSet(fs'.datasets)
  <2>1. CASE CreateDataSet(s)
    <3>1. fs'.datasets = fs.datasets \cup {Dataset(s)}
      BY <2>1 DEF CreateDataSet, Entries
    <3>2. IsFiniteSet(fs.datasets \cup {Dataset(s)})
      BY FS_AddElement DEF FiniteInv
    <3> QED
      BY <3>1, <3>2
  <2>2. CASE fs'.datasets = fs.datasets
    BY <2>2 DEF FiniteInv
  <2> QED
    BY <2>1, <2>2, StepGrows
<1>2. IsFiniteSet(keyList'[In])
  <2> DEFINE listed == {d \in fs.datasets : d[1] = localFilePtr[s]}
  <2>1. CASE ListPaths(s)
    <3>1. listed \subseteq fs.datasets
      OBVIOUS
    <3>2. IsFiniteSet(keyList[In] \cup listed)
      <4> HIDE DEF listed
      <4> QED
        BY <3>1, FS_Subset, FS_Union DEF FiniteInv
    <3>3. keyList' = [keyList EXCEPT ![s] = keyList[s] \cup listed]
      BY <2>1 DEF ListPaths
    <3>4. keyList'[In] \in {keyList[In], keyList[In] \cup listed}
      <4> HIDE DEF listed
      <4> QED
        BY <3>3, ThreeStores
    <3> QED
      BY <3>2, <3>4 DEF FiniteInv
  <2>2. CASE keyList' = keyList
    BY <2>2 DEF FiniteInv
  <2> QED
    BY <2>1, <2>2 DEF Step, OpenFileIfNeeded, OpenSkip, OpenFile, OpenThrows,
       RecordNameAndFlags, Write, CheckGroup, CreateGroup, CreateDataSet, CreateThrows, WriteRaw,
       Flush, WriteFails, Read, ReadThrows, ReadFails, ReadBlock, SizeBuffer, Overrun, List,
       ListOpen, ListThrows, PathsThrow, ListDone, listVars
<1> QED
  BY <1>1, <1>2

LEMMA KeyListCallers ==
  ASSUME StoresInv, NEW s \in Stores,
         \/ Construct(s) \/ BeginList(s) \/ Return(s)
         \/ \E k : BeginRead(s, k) \/ \E b : BeginWrite(s, k, b)
  PROVE  keyList'[In] \in {keyList[In], {}}
BY ThreeStores DEF StoresInv, DurableInv, TypeInv, TypeOK, Construct, BeginList, Return, BeginRead,
   BeginWrite, listVars

LEMMA FiniteNext ==
  ASSUME PipelineInv, FiniteInv, [PipelineNext]_pipelineVars
  PROVE  FiniteInv'
<1> USE ThreeStores
<1>1. CASE UNCHANGED pipelineVars
  BY <1>1 DEF pipelineVars, modules, vars, FiniteInv
<1>2. CASE Ends
  <2>1. PICK a \in Survivors : fs' = a
    BY <1>2 DEF Ends, ProcessDies
  <2>2. fs'.datasets \subseteq fs.datasets
    BY <2>1, SurvivorsBounds DEF PipelineInv, StoresInv, DurableInv, ContentInv, DiskWithinFs
  <2>3. IsFiniteSet(fs'.datasets)
    BY <2>2, FS_Subset DEF FiniteInv
  <2>4. keyList'[In] = {} /\ todo' = {}
    BY <1>2 DEF Ends, ProcessDies
  <2> QED
    BY <2>3, <2>4, FS_EmptySet DEF FiniteInv
<1>3. CASE PipelineNext /\ ~Ends
  <2>1. IsFiniteSet(fs'.datasets) /\ IsFiniteSet(keyList'[In])
    <3>1. CASE \E s \in Stores : Calls(s)
      BY <3>1, FiniteCalls DEF PipelineInv, Calls
    <3>2. CASE \A s \in Stores : ~Calls(s)
      <4>1. fs' = fs
        BY <1>3, <3>2, NoCallNoChange
      <4>2. keyList'[In] \in {keyList[In], {}}
        <5>1. CASE UNCHANGED vars
          BY <5>1 DEF vars
        <5>2. ASSUME NEW s \in Stores,
                     \/ Construct(s) \/ BeginList(s) \/ Return(s)
                     \/ \E k : BeginRead(s, k) \/ \E b : BeginWrite(s, k, b)
              PROVE  keyList'[In] \in {keyList[In], {}}
          BY <5>2, KeyListCallers DEF PipelineInv
        <5> QED
          BY <1>3, <3>2, <5>1, <5>2, BetweenCalls
      <4> QED
        BY <4>1, <4>2, FS_EmptySet DEF FiniteInv
    <3> QED
      BY <3>1, <3>2
  <2>2. todo' \subseteq todo \/ todo' = keyList[In]
    BY <1>3 DEF PipelineNext, Generator, Transfer, Calls, Configure, GeneratorWrites,
       GeneratorGoesOn, TransferLists, TransferHasList, TransferReads, TransferHasBlock,
       TransferWrites, TransferGoesOn, TransferWaits, modules
  <2>3. IsFiniteSet(todo')
    BY <2>2, FS_Subset DEF FiniteInv
  <2> QED
    BY <2>1, <2>3 DEF FiniteInv
<1> QED
  BY <1>1, <1>2, <1>3

LEMMA CopyingInvariant ==
  ASSUME ~Reuse, SelfMatching
  PROVE  PipelineSpec => [](PhaseInv /\ FiniteInv)
<1>1. PipelineInit => PhaseInv /\ FiniteInv
  <2> SUFFICES ASSUME PipelineInit PROVE PhaseInv /\ FiniteInv
    OBVIOUS
  <2>1. PhaseInv
    BY ThreeStores DEF PipelineInit, Init, PhaseInv, AtRest
  <2>2. FiniteInv
    BY ThreeStores, FS_EmptySet DEF PipelineInit, Init, NoFiles, FiniteInv
  <2> QED
    BY <2>1, <2>2
<1>2. PipelineInv /\ PhaseInv /\ FiniteInv /\ [PipelineNext]_pipelineVars => (PhaseInv /\ FiniteInv)'
  BY PhaseNext, FiniteNext
<1> QED
  BY <1>1, <1>2, PipelineInvariant, PTL DEF PipelineSpec

\* A step of the transfer.
LEMMA TransferAdvances ==
  ASSUME ~Reuse, PipelineInv, PhaseInv, FiniteInv, Transfer, Copying
  PROVE  (Copying' \/ xfer' = "wait") /\ CopyLeft' < CopyLeft
<1> USE ThreeStores DEF PipelineInv, StoresInv, DurableInv, TypeInv, TypeOK
<1> DEFINE n == Cardinality(todo)
<1>0. n \in Nat
  BY FS_CardinalityType DEF FiniteInv
<1>1. CASE Calls(In)
  <2>1. /\ Step(In) /\ xfer' = xfer /\ todo' = todo /\ pc[In] \notin AtRest
    BY <1>1, StepFrame DEF Calls, modules, AtRest
  <2>2. xfer = "read"
    BY <2>1 DEF PhaseInv, Copying
  <2>3. ReadLeft[pc'[In]] \in Nat /\ ReadLeft[pc[In]] \in Nat /\ ReadLeft[pc'[In]] < ReadLeft[pc[In]]
    BY <2>1, <2>2, ReadAdvances DEF CallsInv, ReadLeft
  <2>4. CopyLeft = 16 * n + 11 + ReadLeft[pc[In]] /\ CopyLeft' = 16 * n + 11 + ReadLeft[pc'[In]]
    BY <1>0, <2>1, <2>2, <2>3 DEF CopyLeft
  <2>5. CopyLeft' < CopyLeft
    BY <1>0, <2>3, <2>4
  <2> QED
    BY <2>1, <2>2, <2>5 DEF Copying
<1>2. CASE Calls(Out)
  <2>1. /\ Step(Out) /\ xfer' = xfer /\ todo' = todo /\ pc[Out] \notin AtRest
    BY <1>2, StepFrame DEF Calls, modules, AtRest
  <2>2. xfer = "write"
    BY <2>1 DEF PhaseInv, Copying
  <2>3. /\ WriteLeft[pc'[Out]] \in Nat /\ WriteLeft[pc[Out]] \in Nat
        /\ WriteLeft[pc'[Out]] < WriteLeft[pc[Out]]
    BY <2>1, <2>2, WriteAdvances DEF CallsInv, WriteLeft
  <2>4. CopyLeft = 16 * n + 2 + WriteLeft[pc[Out]] /\ CopyLeft' = 16 * n + 2 + WriteLeft[pc'[Out]]
    BY <1>0, <2>1, <2>2, <2>3 DEF CopyLeft
  <2>5. CopyLeft' < CopyLeft
    BY <1>0, <2>3, <2>4
  <2> QED
    BY <2>1, <2>2, <2>5 DEF Copying
<1>3. CASE TransferReads
  <2>1. PICK d \in todo : todo' = todo \ {d}
    BY <1>3 DEF TransferReads
  <2>2. Cardinality(todo') = n - 1
    BY <2>1, FS_RemoveElement DEF FiniteInv
  <2>3. xfer = "copy" /\ xfer' = "read" /\ pc'[In] = "open"
    BY <1>3 DEF TransferReads, BeginRead, Goto
  <2>4. CopyLeft = 16 * n + 1
    BY <1>0, <2>3 DEF CopyLeft
  <2>5. CopyLeft' = 16 * (n - 1) + 15
    BY <1>0, <2>2, <2>3 DEF CopyLeft, ReadLeft
  <2>6. CopyLeft' < CopyLeft
    BY <1>0, <2>4, <2>5
  <2> QED
    BY <2>3, <2>6 DEF Copying
<1>4. CASE TransferHasBlock
  <2>1. xfer = "read" /\ xfer' = "got" /\ pc[In] = "return" /\ todo' = todo
    BY <1>4 DEF TransferHasBlock, Return
  <2>2. CopyLeft = 16 * n + 12 /\ CopyLeft' = 16 * n + 11
    BY <1>0, <2>1 DEF CopyLeft, ReadLeft
  <2>3. CopyLeft' < CopyLeft
    BY <1>0, <2>2
  <2> QED
    BY <2>1, <2>3 DEF Copying
<1>5. CASE TransferWrites
  <2>1. xfer = "got" /\ xfer' = "write" /\ pc'[Out] = "open" /\ todo' = todo
    BY <1>5 DEF TransferWrites, BeginWrite, Goto
  <2>2. CopyLeft = 16 * n + 11 /\ CopyLeft' = 16 * n + 9
    BY <1>0, <2>1 DEF CopyLeft, WriteLeft
  <2>3. CopyLeft' < CopyLeft
    BY <1>0, <2>2
  <2> QED
    BY <2>1, <2>3 DEF Copying
<1>6. CASE TransferGoesOn
  <2>1. xfer = "write" /\ xfer' = "copy" /\ pc[Out] = "return" /\ todo' = todo
    BY <1>6 DEF TransferGoesOn, Return
  <2>2. CopyLeft = 16 * n + 3 /\ CopyLeft' = 16 * n + 1
    BY <1>0, <2>1 DEF CopyLeft, WriteLeft
  <2>3. CopyLeft' < CopyLeft
    BY <1>0, <2>2
  <2> QED
    BY <2>1, <2>3 DEF Copying
<1>7. CASE TransferWaits
  <2>1. xfer = "copy" /\ xfer' = "wait" /\ todo' = todo
    BY <1>7 DEF TransferWaits
  <2>2. CopyLeft = 16 * n + 1 /\ CopyLeft' = 16 * n
    BY <1>0, <2>1 DEF CopyLeft
  <2>3. CopyLeft' < CopyLeft
    BY <1>0, <2>2
  <2> QED
    BY <2>1, <2>3
<1>8. ~TransferLists /\ ~TransferHasList
  BY DEF TransferLists, TransferHasList, Copying
<1> QED
  BY <1>1, <1>2, <1>3, <1>4, <1>5, <1>6, <1>7, <1>8 DEF Transfer

\* A step of the generator or of its store, and a constructor.
LEMMA OthersKeepCopy ==
  ASSUME PipelineInv, PhaseInv, PipelineNext, ~Ends, ~Transfer, Copying
  PROVE  Copying' /\ CopyLeft' = CopyLeft
<1> USE ThreeStores DEF PipelineInv, StoresInv, DurableInv, TypeInv, TypeOK
<1>1. xfer' = xfer /\ todo' = todo
  BY DEF PipelineNext, Generator, Calls, Configure, GeneratorWrites, GeneratorGoesOn, modules
<1>2. (xfer = "read" => pc'[In] = pc[In]) /\ (xfer = "write" => pc'[Out] = pc[Out])
  <2>1. CASE Calls(Gen)
    BY <2>1, StepFrame DEF Calls
  <2>2. CASE GeneratorWrites \/ GeneratorGoesOn
    BY <2>2 DEF GeneratorWrites, GeneratorGoesOn, BeginWrite, Return, Finish, Goto
  <2>3. ASSUME NEW s \in Stores, Configure(s)
        PROVE  (xfer = "read" => pc'[In] = pc[In]) /\ (xfer = "write" => pc'[Out] = pc[Out])
    BY <2>3 DEF Configure, Construct, Goto, PhaseInv, WriteLabels
  <2> QED
    BY <2>1, <2>2, <2>3 DEF PipelineNext, Generator
<1> QED
  BY <1>1, <1>2 DEF Copying, CopyLeft

\* If the prefixes match themselves, a copy that the process survives comes nearer
\* to its end with every step the transfer takes, for any number of datasets, and
\* with library faults: what the generator writes meanwhile, even into the files
\* that are being read, adds nothing to it (DataTransferModule.cpp:106-116 over
\* HDF5DataStore.hpp:91-185).
THEOREM CopyAdvancesCorrect ==
  ASSUME ~Reuse, SelfMatching
  PROVE  PipelineSpec => CopyAdvances
<1>1. ASSUME PipelineInv, PhaseInv, FiniteInv, PipelineNext, Copying, lives' = lives
      PROVE  /\ Copying' \/ xfer' = "wait"
             /\ IF Transfer THEN CopyLeft' < CopyLeft ELSE CopyLeft' = CopyLeft
  <2>1. ~Ends
    BY <1>1 DEF Ends, PipelineInv, CallsInv
  <2> QED
    BY <1>1, <2>1, TransferAdvances, OthersKeepCopy
<1>2. PipelineInv /\ PhaseInv /\ FiniteInv /\ [PipelineNext]_pipelineVars =>
        [Copying /\ lives' = lives =>
           /\ Copying' \/ xfer' = "wait"
           /\ IF Transfer THEN CopyLeft' < CopyLeft ELSE CopyLeft' = CopyLeft]_pipelineVars
  BY <1>1
<1> QED
  BY <1>2, PipelineInvariant, CopyingInvariant, PTL DEF PipelineSpec, CopyAdvances
=============================================================================
