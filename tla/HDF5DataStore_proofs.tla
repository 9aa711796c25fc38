----------------------- MODULE HDF5DataStore_proofs -----------------------
(***************************************************************************)
(* Invariants of HDF5DataStore for every set of stores, configurations,    *)
(* keys and blocks, with and without faults, crashes and reuse of stores   *)
(* that threw.                                                             *)
(***************************************************************************)
EXTENDS HDF5DataStore, StorageKeys_proofs

HandleType == FileName \cup {NoFile}

\* What the label of a call says of its arguments.
WriteLabels == {"group", "createGroup", "dataset", "raw", "flush"}

CallOK ==
  \A s \in Stores :
    /\ pc[s] # "none" => Conf[s] \in Configurations
    /\ pc[s] \in WriteLabels \cup {"open", "read", "overrun"} => call[s].key \in Keys
    /\ pc[s] \in WriteLabels => call[s].op = "write"
    /\ pc[s] \in {"read", "overrun"} => call[s].op = "read"
    /\ pc[s] = "open" => call[s].op \in {"write", "read"}
    /\ call[s].op = "write" => call[s].block \in Blocks
    /\ pc[s] \in WriteLabels \ {"group"} => filePtr[s] # NoFile
    /\ pc[s] = "paths" => localFilePtr[s] # NoFile

TypeInv == TypeOK /\ CallOK

----------------------------------------------------------------------------
(* The operators the actions are built from *)

LEMMA KeyIds ==
  ASSUME NEW k \in Keys \cup {InvalidKey}
  PROVE  Key(k) /\ k.event \in CInt /\ k.geo \in CInt
<1>1. IntMax \in CInt
  BY WidthAssumption DEF CInt, IntMin
<1>2. InvalidKey.event \in CInt /\ InvalidKey.geo \in CInt
  BY <1>1 DEF InvalidKey, StorageKey, INVALID_EVENTID, INVALID_GEOLOCATION
<1> QED
  BY <1>2, KeysAssumption DEF Key

LEMMA FileTyped ==
  ASSUME NEW s \in Stores, NEW k \in Keys \cup {InvalidKey}
  PROVE  FileOf(s, k) \in FileName
BY DEF FileName

\* A name has its ending at least.
LEMMA NoFileIsNoFileName == NoFile \notin FileName
<1> SUFFICES ASSUME NEW s \in Stores, NEW k \in Keys \cup {InvalidKey}
             PROVE  FileOf(s, k) # NoFile
  BY DEF FileName
<1> DEFINE p == Conf[s].prefix
           ending == Ending(Conf[s].mode, k)
<1>1. p \in Prefixes
  BY ConfAssumption
<1>2. Len(p) \in Nat
  BY <1>1, PrefixTyped
<1>3. Len(FileOf(s, k)) = Len(p) + Len(ending)
  BY <1>1, KeyIds, NameParts DEF FileOf
<1>4. Len(ending) \in Nat /\ Len(ending) > 0
  BY DEF Ending
<1> HIDE DEF p, ending
<1> QED
  BY <1>2, <1>3, <1>4 DEF NoFile

LEMMA PathTyped ==
  ASSUME NEW k \in Keys \cup {InvalidKey}
  PROVE  WritePath(k)[1] \in Text /\ WritePath(k)[2] \in Text
<1>1. ToSizeT(k.event) \in 0 .. SizeMod - 1 /\ ToSizeT(k.geo) \in 0 .. SizeMod - 1
  BY KeyIds, SizeTOfInt
<1> QED
  BY <1>1 DEF WritePath, ToString, Number, Text

LEMMA FlushTyped ==
  ASSUME NEW a \in Entries, NEW b \in Entries, NEW f
  PROVE  FlushFile(a, b, f) \in Entries
BY DEF FlushFile, Entries

LEMMA HandlesTyped ==
  ASSUME fs \in Entries, disk \in Entries, readWrite \subseteq FileName,
         NEW ptr \in [Stores -> HandleType], NEW local \in [Stores -> HandleType],
         NEW opened \in SUBSET FileName,
         Handles(ptr, local, opened)
  PROVE  /\ filePtr' = ptr
         /\ localFilePtr' = local
         /\ disk' \in Entries
         /\ readWrite' \subseteq FileName
BY DEF Handles, Entries

\* What survives the process holds what was flushed and adds nothing.
LEMMA SurvivorsBounds ==
  ASSUME NEW a \in Survivors
  PROVE  /\ a = [files |-> a.files, groups |-> a.groups,
                 datasets |-> a.datasets, contents |-> a.contents]
         /\ disk.files \subseteq a.files /\ a.files \subseteq disk.files \cup fs.files
         /\ disk.groups \subseteq a.groups /\ a.groups \subseteq disk.groups \cup fs.groups
         /\ disk.datasets \subseteq a.datasets /\ a.datasets \subseteq disk.datasets \cup fs.datasets
         /\ disk.contents \subseteq a.contents /\ a.contents \subseteq disk.contents \cup fs.contents
         /\ WellFormed(a)
<1>1. /\ a \in [files    : Between(disk.files, fs.files),
                groups   : Between(disk.groups, fs.groups),
                datasets : Between(disk.datasets, fs.datasets),
                contents : Between(disk.contents, fs.contents)]
      /\ WellFormed(a)
  BY DEF Survivors
<1>2. \A lo, hi : \A x \in Between(lo, hi) : lo \subseteq x /\ x \subseteq lo \cup hi
  BY DEF Between
<1>3. /\ a.files \in Between(disk.files, fs.files)
      /\ a.groups \in Between(disk.groups, fs.groups)
      /\ a.datasets \in Between(disk.datasets, fs.datasets)
      /\ a.contents \in Between(disk.contents, fs.contents)
      /\ a = [files |-> a.files, groups |-> a.groups,
              datasets |-> a.datasets, contents |-> a.contents]
  BY <1>1
<1> QED
  BY <1>1, <1>2, <1>3

LEMMA SurvivorsTyped ==
  ASSUME fs \in Entries, disk \in Entries, NEW a \in Survivors
  PROVE  a \in Entries
<1>1. /\ a.files \subseteq FileName
      /\ a.groups \subseteq FileName \X Text
      /\ a.datasets \subseteq FileName \X Text \X Text
      /\ a.contents \subseteq (FileName \X Text \X Text) \X Blocks
  BY SurvivorsBounds DEF Entries
<1>2. a = [files |-> a.files, groups |-> a.groups,
           datasets |-> a.datasets, contents |-> a.contents]
  BY SurvivorsBounds
<1> QED
  BY <1>1, <1>2 DEF Entries

----------------------------------------------------------------------------
LEMMA InitTypeInv == Init => TypeInv
<1> SUFFICES ASSUME Init PROVE TypeInv
  OBVIOUS
<1>1. NoFiles \in Entries
  BY DEF NoFiles, Entries
<1>2. NoCall \in CallType
  BY DEF NoCall, CallType
<1>3. TypeOK
  BY <1>1, <1>2 DEF Init, TypeOK, Labels, Signals
<1>4. CallOK
  BY DEF Init, CallOK, NoCall, WriteLabels
<1> QED
  BY <1>3, <1>4 DEF TypeInv

\* The calls, the constructor and the return.
LEMMA CallerTypeInv ==
  ASSUME TypeInv, NEW s \in Stores, Caller(s)
  PROVE  TypeInv'
<1> USE DEF TypeInv
<1>1. CASE Construct(s)
  <2>1. Conf[s] \in Configurations
    BY <1>1, ConfAssumption DEF Construct, Configurations
  <2> QED
    BY <1>1, <2>1 DEF Construct, TypeOK, CallOK, Goto, Labels, WriteLabels,
       storeVars, listVars, fileVars
<1>2. CASE BeginList(s)
  <2>1. call'[s] \in CallType /\ \A t \in Stores : t # s => call'[t] = call[t]
    BY <1>2 DEF BeginList, TypeOK, CallType
  <2>2. TypeOK'
    BY <1>2 DEF BeginList, getFilesMatchingPattern, TypeOK, Goto, Labels, CallType, Entries,
       storeVars, fileVars
  <2>3. CallOK'
    BY <1>2 DEF BeginList, TypeOK, CallOK, Goto, WriteLabels, storeVars, fileVars
  <2> QED
    BY <2>2, <2>3
<1>3. CASE Return(s)
  <2>1. NoCall \in CallType
    BY DEF NoCall, CallType
  <2>2. TypeOK'
    BY <1>3, <2>1 DEF Return, TypeOK, Finish, Labels, Signals, storeVars, fileVars
  <2>3. CallOK'
    BY <1>3 DEF Return, TypeOK, CallOK, Finish, WriteLabels, NoCall, storeVars, fileVars
  <2> QED
    BY <2>2, <2>3
<1>4. CASE Destroy(s)
  <2>1. NoCall \in CallType
    BY DEF NoCall, CallType
  <2>2. /\ filePtr' = [filePtr EXCEPT ![s] = NoFile] /\ localFilePtr' = localFilePtr
        /\ disk' \in Entries /\ readWrite' \subseteq FileName
    <3>1. [filePtr EXCEPT ![s] = NoFile] \in [Stores -> HandleType]
          /\ localFilePtr \in [Stores -> HandleType]
      BY DEF TypeOK, HandleType
    <3>2. Handles([filePtr EXCEPT ![s] = NoFile], localFilePtr, {}) /\ {} \in SUBSET FileName
      BY <1>4 DEF Destroy
    <3> QED
      BY <3>1, <3>2, HandlesTyped DEF TypeOK
  <2>3. TypeOK'
    BY <1>4, <2>1, <2>2 DEF Destroy, TypeOK, Finish, Labels, Signals
  <2>4. CallOK'
    BY <1>4, <2>2 DEF Destroy, TypeOK, CallOK, Finish, WriteLabels, NoCall
  <2> QED
    BY <2>3, <2>4
<1>5. ASSUME NEW k \in Keys, BeginRead(s, k)
      PROVE  TypeInv'
  <2>1. TypeOK'
    BY <1>5 DEF BeginRead, TypeOK, Goto, Labels, CallType, storeVars, listVars, fileVars
  <2>2. CallOK'
    BY <1>5 DEF BeginRead, TypeOK, CallOK, Goto, WriteLabels, storeVars, listVars, fileVars
  <2> QED
    BY <2>1, <2>2
<1>6. ASSUME NEW k \in Keys, NEW b \in Blocks, BeginWrite(s, k, b)
      PROVE  TypeInv'
  <2>1. TypeOK'
    BY <1>6 DEF BeginWrite, TypeOK, Goto, Labels, CallType, storeVars, listVars, fileVars
  <2>2. CallOK'
    BY <1>6 DEF BeginWrite, TypeOK, CallOK, Goto, WriteLabels, storeVars, listVars, fileVars
  <2> QED
    BY <2>1, <2>2
<1> QED
  BY <1>1, <1>2, <1>3, <1>4, <1>5, <1>6 DEF Caller

\* openFileIfNeeded
LEMMA OpenTypeInv ==
  ASSUME TypeInv, NEW s \in Stores, OpenFileIfNeeded(s)
  PROVE  TypeInv'
<1> USE DEF TypeInv
<1>0. pc[s] = "open" /\ File(s) \in FileName /\ Flags(s) \in {ReadOnly, OpenOrCreate}
      /\ Opened(s) \in {"group", "read"}
  <2>1. call[s].key \in Keys \cup {InvalidKey}
    BY DEF TypeOK, CallType
  <2> QED
    BY <2>1, FileTyped DEF File, Flags, Opened, OpenFileIfNeeded, OpenSkip, OpenFile,
       OpenThrows, RecordNameAndFlags
<1>1. CASE OpenSkip(s)
  <2>1. TypeOK'
    BY <1>0, <1>1 DEF OpenSkip, TypeOK, Goto, Labels, InFile, storeVars, listVars, fileVars
  <2>2. CallOK'
    BY <1>0, <1>1 DEF OpenSkip, TypeOK, CallOK, Goto, Opened, WriteLabels, storeVars, listVars,
       fileVars
  <2> QED
    BY <2>1, <2>2
<1>2. CASE OpenFile(s)
  <2> DEFINE opened == IF Flags(s) = OpenOrCreate THEN {File(s)} ELSE {}
  <2>1. [filePtr EXCEPT ![s] = File(s)] \in [Stores -> HandleType]
        /\ localFilePtr \in [Stores -> HandleType] /\ opened \in SUBSET FileName
    BY <1>0 DEF TypeOK, HandleType
  <2>2. Handles([filePtr EXCEPT ![s] = File(s)], localFilePtr, opened)
    BY <1>2 DEF OpenFile
  <2>3. /\ filePtr' = [filePtr EXCEPT ![s] = File(s)] /\ localFilePtr' = localFilePtr
        /\ disk' \in Entries /\ readWrite' \subseteq FileName
    <3> HIDE DEF opened
    <3> QED
      BY <2>1, <2>2, HandlesTyped DEF TypeOK
  <2>4. fs' \in Entries
    BY <1>0, <1>2 DEF OpenFile, TypeOK, Entries
  <2>5. TypeOK'
    BY <1>0, <1>2, <2>3, <2>4 DEF OpenFile, RecordNameAndFlags, TypeOK, Goto, Labels, InFile
  <2>6. CallOK'
    BY <1>0, <1>2, <2>3, NoFileIsNoFileName
    DEF OpenFile, RecordNameAndFlags, TypeOK, CallOK, Goto, Opened, WriteLabels
  <2> QED
    BY <2>5, <2>6
<1>3. CASE OpenThrows(s)
  <2>1. TypeOK'
    BY <1>0, <1>3 DEF OpenThrows, RecordNameAndFlags, TypeOK, Throw, Finish, Labels, Signals,
       listVars, fileVars
  <2>2. CallOK'
    BY <1>0, <1>3 DEF OpenThrows, RecordNameAndFlags, TypeOK, CallOK, Throw, Finish, WriteLabels,
       listVars, fileVars
  <2> QED
    BY <2>1, <2>2
<1> QED
  BY <1>1, <1>2, <1>3 DEF OpenFileIfNeeded

\* write
LEMMA WriteTypeInv ==
  ASSUME TypeInv, NEW s \in Stores, Write(s)
  PROVE  TypeInv'
<1> USE DEF TypeInv
<1> DEFINE path == WritePath(call[s].key)
<1>0. ASSUME pc[s] \in WriteLabels \ {"group"}
      PROVE  /\ filePtr[s] \in FileName /\ call[s].key \in Keys /\ call[s].block \in Blocks
             /\ Conf[s] \in Configurations
             /\ Group(s) \in FileName \X Text
             /\ Dataset(s) \in FileName \X Text \X Text
  <2>1. filePtr[s] \in FileName /\ call[s].key \in Keys /\ call[s].block \in Blocks
        /\ Conf[s] \in Configurations
    BY <1>0 DEF TypeOK, CallOK, WriteLabels
  <2>2. path[1] \in Text /\ path[2] \in Text
    BY <2>1, PathTyped
  <2> QED
    BY <2>1, <2>2 DEF Group, Dataset
<1> HIDE DEF path
<1>1. CASE CheckGroup(s)
  <2>1. TypeOK'
    BY <1>1 DEF CheckGroup, TypeOK, Goto, Labels, InFile, storeVars, listVars, fileVars
  <2>2. CallOK'
    BY <1>1 DEF CheckGroup, TypeOK, CallOK, Goto, WriteLabels, storeVars, listVars, fileVars
  <2> QED
    BY <2>1, <2>2
<1>2. CASE CreateGroup(s)
  <2>1. fs' \in Entries
    BY <1>0, <1>2 DEF CreateGroup, TypeOK, Entries, WriteLabels
  <2>2. TypeOK'
    BY <1>2, <2>1 DEF CreateGroup, TypeOK, Goto, Labels, InFile, storeVars, listVars
  <2>3. CallOK'
    BY <1>2 DEF CreateGroup, TypeOK, CallOK, Goto, WriteLabels, storeVars, listVars
  <2> QED
    BY <2>2, <2>3
<1>3. CASE CreateDataSet(s)
  <2>1. fs' \in Entries
    BY <1>0, <1>3 DEF CreateDataSet, TypeOK, Entries, WriteLabels
  <2>2. TypeOK'
    BY <1>3, <2>1 DEF CreateDataSet, TypeOK, Goto, Labels, InFile, storeVars, listVars
  <2>3. CallOK'
    BY <1>3 DEF CreateDataSet, TypeOK, CallOK, Goto, WriteLabels, storeVars, listVars
  <2> QED
    BY <2>2, <2>3
<1>4. CASE CreateThrows(s) \/ WriteFails(s)
  <2>1. Throw(s) /\ UNCHANGED << storeVars, call, listVars, fileVars, acked >>
    BY <1>4 DEF CreateThrows, WriteFails
  <2>2. TypeOK'
    BY <2>1 DEF TypeOK, Throw, Finish, Labels, Signals, storeVars, listVars, fileVars
  <2>3. CallOK'
    BY <1>4, <2>1 DEF CreateThrows, WriteFails, TypeOK, CallOK, Throw, Finish, WriteLabels,
       storeVars, listVars, fileVars
  <2> QED
    BY <2>2, <2>3
<1>5. CASE WriteRaw(s)
  <2>1. fs' \in Entries
    BY <1>0, <1>5 DEF WriteRaw, TypeOK, Entries, WriteLabels
  <2>2. TypeOK'
    BY <1>5, <2>1 DEF WriteRaw, TypeOK, Goto, Labels, InFile, storeVars, listVars
  <2>3. CallOK'
    BY <1>5 DEF WriteRaw, TypeOK, CallOK, Goto, WriteLabels, storeVars, listVars
  <2> QED
    BY <2>2, <2>3
<1>6. CASE Flush(s)
  <2>1. disk' \in Entries
    BY <1>6, FlushTyped DEF Flush, TypeOK
  <2>2. << Conf[s], call[s].key, call[s].block >> \in Acks
    BY <1>0, <1>6 DEF Flush, Acks, WriteLabels
  <2>3. TypeOK'
    BY <1>6, <2>1, <2>2 DEF Flush, TypeOK, Finish, Labels, Signals, storeVars, listVars
  <2>4. CallOK'
    BY <1>6 DEF Flush, TypeOK, CallOK, Finish, WriteLabels, storeVars, listVars
  <2> QED
    BY <2>3, <2>4
<1> QED
  BY <1>1, <1>2, <1>3, <1>4, <1>5, <1>6 DEF Write

\* read and getAllExistingKeys
LEMMA ReadListTypeInv ==
  ASSUME TypeInv, NEW s \in Stores, Read(s) \/ List(s)
  PROVE  TypeInv'
<1> USE DEF TypeInv
<1>1. ASSUME NEW value \in Blocks \cup Signals, NEW label \in {"return", "throw"},
             pc[s] \in {"read", "overrun", "list"},
             Finish(s, label, value), UNCHANGED << storeVars, call, listVars, fileVars, acked >>
      PROVE  TypeInv'
  <2>1. TypeOK'
    BY <1>1 DEF TypeOK, Finish, Labels, storeVars, listVars, fileVars
  <2>2. CallOK'
    BY <1>1 DEF TypeOK, CallOK, Finish, WriteLabels, storeVars, listVars, fileVars
  <2> QED
    BY <2>1, <2>2
<1>2. CASE ReadThrows(s) \/ ReadFails(s) \/ ReadBlock(s) \/ Overrun(s)
  BY <1>1, <1>2 DEF ReadThrows, ReadFails, ReadBlock, Overrun, Throw, Signals
<1>3. CASE ListDone(s)
  BY <1>1, <1>3 DEF ListDone, Signals
<1>4. CASE ListThrows(s)
  BY <1>1, <1>4 DEF ListThrows, Throw, Signals
<1>5. ASSUME NEW f \in fileList[s], ListOpen(s, f) PROVE TypeInv'
  <2>1. f \in FileName /\ f # NoFile
    BY NoFileIsNoFileName DEF TypeOK
  <2>2. TypeOK'
    BY <1>5, <2>1 DEF ListOpen, TypeOK, Goto, Labels, storeVars, fileVars
  <2>3. CallOK'
    BY <1>5, <2>1 DEF ListOpen, TypeOK, CallOK, Goto, WriteLabels, storeVars, fileVars
  <2> QED
    BY <2>2, <2>3
<1>6. CASE ListPaths(s) \/ PathsThrow(s)
  <2>1. [localFilePtr EXCEPT ![s] = NoFile] \in [Stores -> HandleType]
        /\ filePtr \in [Stores -> HandleType]
    BY DEF TypeOK, HandleType
  <2>2. /\ filePtr' = filePtr /\ localFilePtr' = [localFilePtr EXCEPT ![s] = NoFile]
        /\ disk' \in Entries /\ readWrite' \subseteq FileName
    <3>1. Handles(filePtr, [localFilePtr EXCEPT ![s] = NoFile], {}) /\ {} \in SUBSET FileName
      BY <1>6 DEF ListPaths, PathsThrow
    <3> QED
      BY <2>1, <3>1, HandlesTyped DEF TypeOK
  <2>3. {d \in fs.datasets : d[1] = localFilePtr[s]} \subseteq FileName \X Text \X Text
    BY DEF TypeOK, Entries
  <2>4. TypeOK'
    BY <1>6, <2>2, <2>3 DEF ListPaths, PathsThrow, TypeOK, Goto, Throw, Finish, Labels, Signals
  <2>5. CallOK'
    BY <1>6, <2>2 DEF ListPaths, PathsThrow, TypeOK, CallOK, Goto, Throw, Finish, WriteLabels
  <2> QED
    BY <2>4, <2>5
<1>7. CASE SizeBuffer(s)
  <2>1. TypeOK'
    BY <1>7 DEF SizeBuffer, TypeOK, Goto, Labels, InFile, storeVars, listVars, fileVars
  <2>2. CallOK'
    BY <1>7 DEF SizeBuffer, TypeOK, CallOK, Goto, WriteLabels, storeVars, listVars, fileVars
  <2> QED
    BY <2>1, <2>2
<1> QED
  BY <1>2, <1>3, <1>4, <1>5, <1>6, <1>7 DEF Read, List

LEMMA DiesTypeInv ==
  ASSUME TypeInv, ProcessDies
  PROVE  TypeInv'
<1>1. NoCall \in CallType
  BY DEF NoCall, CallType
<1>2. PICK a \in Survivors :
        /\ fs' = a /\ disk' = a
        /\ \E t \in SUBSET {f \in a.files \ disk.files : \A g \in a.groups : g[1] # f} :
             torn' = torn \cup t
  BY DEF ProcessDies
<1>3. a \in Entries
  BY SurvivorsTyped DEF TypeInv, TypeOK
<1>4. torn' \subseteq FileName
  BY <1>2, <1>3 DEF TypeInv, TypeOK, Entries
<1>5. TypeOK'
  BY <1>1, <1>2, <1>3, <1>4 DEF ProcessDies, TypeInv, TypeOK, Labels, Signals
<1>6. CallOK'
  BY DEF ProcessDies, CallOK, WriteLabels, NoCall
<1> QED
  BY <1>5, <1>6 DEF TypeInv

----------------------------------------------------------------------------
LEMMA TypeNext ==
  ASSUME TypeInv, [Next]_vars
  PROVE  TypeInv'
<1>1. ASSUME NEW s \in Stores, Step(s) PROVE TypeInv'
  BY <1>1, OpenTypeInv, WriteTypeInv, ReadListTypeInv DEF Step
<1>2. ASSUME NEW s \in Stores, Caller(s) PROVE TypeInv'
  BY <1>2, CallerTypeInv
<1>3. CASE UndefinedEnds \/ Crash
  BY <1>3, DiesTypeInv DEF UndefinedEnds, Crash
<1>4. CASE UNCHANGED vars
  BY <1>4 DEF vars, TypeInv, TypeOK, CallOK
<1> QED
  BY <1>1, <1>2, <1>3, <1>4 DEF Next

\* Every variable keeps its type, and the label of a call agrees with what it
\* was called with.
THEOREM TypeInvariant == Spec => []TypeInv
<1>1. TypeInv /\ [Next]_vars => TypeInv'
  BY TypeNext
<1> QED
  BY <1>1, InitTypeInv, PTL DEF Spec

\* The type invariant of the stores (HDF5DataStore.hpp:223-229) and of a call.
THEOREM TypeCorrect == Spec => []TypeOK
BY TypeInvariant, PTL DEF TypeInv
----------------------------------------------------------------------------
(* The files, the groups, the datasets and their contents *)

DiskWithinFs ==
  /\ disk.files \subseteq fs.files
  /\ disk.groups \subseteq fs.groups
  /\ disk.datasets \subseteq fs.datasets
  /\ disk.contents \subseteq fs.contents

OneBlock == \A c, d \in fs.contents : c[1] = d[1] => c = d

\* What a write in progress has put into its file so far.
Progress ==
  \A s \in Stores :
    /\ filePtr[s] # NoFile => filePtr[s] \in fs.files
    /\ pc[s] = "dataset" => Group(s) \in fs.groups
    /\ pc[s] = "raw" => Dataset(s) \in fs.datasets /\ \A c \in fs.contents : c[1] # Dataset(s)
    /\ pc[s] = "flush" => << Dataset(s), call[s].block >> \in fs.contents

\* No two writes are about to fill the same dataset.
OwnDataset ==
  \A s, t \in Stores : pc[s] = "raw" /\ pc[t] = "raw" /\ s # t => Dataset(s) # Dataset(t)

ContentInv ==
  /\ DiskWithinFs
  /\ WellFormed(fs)
  /\ WellFormed(disk)
  /\ OneBlock
  /\ Progress
  /\ OwnDataset

----------------------------------------------------------------------------
\* Flushing a set of files keeps the disk a well-formed part of what is seen.
Flushed(F) ==
  [files    |-> disk.files \cup (F \cap fs.files),
   groups   |-> disk.groups \cup {g \in fs.groups : g[1] \in F},
   datasets |-> disk.datasets \cup {d \in fs.datasets : d[1] \in F},
   contents |-> disk.contents \cup {c \in fs.contents : c[1][1] \in F}]

LEMMA FlushedWellFormed ==
  ASSUME TypeInv, DiskWithinFs, WellFormed(fs), WellFormed(disk), NEW F
  PROVE  /\ WellFormed(Flushed(F))
         /\ Flushed(F).files \subseteq fs.files
         /\ Flushed(F).groups \subseteq fs.groups
         /\ Flushed(F).datasets \subseteq fs.datasets
         /\ Flushed(F).contents \subseteq fs.contents
         /\ disk.contents \subseteq Flushed(F).contents
<1> DEFINE D == Flushed(F)
<1>1. /\ D.files = disk.files \cup (F \cap fs.files)
      /\ D.groups = disk.groups \cup {g \in fs.groups : g[1] \in F}
      /\ D.datasets = disk.datasets \cup {d \in fs.datasets : d[1] \in F}
      /\ D.contents = disk.contents \cup {c \in fs.contents : c[1][1] \in F}
  BY DEF Flushed
<1> HIDE DEF D
<1>2. \A g \in D.groups : g[1] \in D.files
  BY <1>1 DEF WellFormed
<1>3. \A d \in D.datasets : << d[1], d[2] >> \in D.groups
  BY <1>1 DEF WellFormed
<1>4. \A c \in D.contents : c[1] \in D.datasets
  BY <1>1 DEF WellFormed
<1> QED
  BY <1>1, <1>2, <1>3, <1>4 DEF WellFormed, DiskWithinFs, D

LEMMA FlushFileIsFlushed ==
  ASSUME NEW f
  PROVE  FlushFile(disk, fs, f) = Flushed({f})
BY DEF FlushFile, Flushed

\* Handles flushes the files nobody has open any more, and nothing else.
LEMMA HandlesFlush ==
  ASSUME NEW ptr, NEW local, NEW opened, Handles(ptr, local, opened)
  PROVE  (\E F : disk' = Flushed(F)) /\ filePtr' = ptr
BY DEF Handles, Flushed

\* A step of s that leaves the contents alone, or flushes, and after which s
\* uses no handle to write.
LEMMA ContentFrame ==
  ASSUME TypeInv, ContentInv, NEW s \in Stores,
         fs' = fs,
         disk' = disk \/ \E F : disk' = Flushed(F),
         \A t \in Stores : t # s =>
           pc'[t] = pc[t] /\ call'[t] = call[t] /\ filePtr'[t] = filePtr[t],
         pc'[s] \notin {"dataset", "raw", "flush"},
         filePtr'[s] \in {filePtr[s], NoFile}
  PROVE  ContentInv'
<1>1. DiskWithinFs' /\ WellFormed(disk)'
  BY FlushedWellFormed DEF ContentInv, DiskWithinFs, WellFormed
<1>2. WellFormed(fs)' /\ OneBlock'
  BY DEF ContentInv, WellFormed, OneBlock
<1>3. \A t \in Stores : t # s => Group(t)' = Group(t) /\ Dataset(t)' = Dataset(t)
  BY DEF Group, Dataset
<1>4. Progress'
  BY <1>3 DEF ContentInv, Progress
<1>5. OwnDataset'
  BY <1>3 DEF ContentInv, OwnDataset
<1> QED
  BY <1>1, <1>2, <1>4, <1>5 DEF ContentInv

LEMMA ContentInit == Init => ContentInv
<1> SUFFICES ASSUME Init PROVE ContentInv
  OBVIOUS
<1> QED
  BY DEF Init, ContentInv, DiskWithinFs, WellFormed, OneBlock, Progress, OwnDataset, NoFiles

LEMMA ContentCaller ==
  ASSUME TypeInv, ContentInv, NEW s \in Stores, Caller(s)
  PROVE  ContentInv'
<1> USE DEF TypeInv, TypeOK
<1>1. CASE Construct(s)
  BY <1>1, ContentFrame DEF Construct, Goto, fileVars, storeVars
<1>2. CASE BeginList(s)
  BY <1>2, ContentFrame DEF BeginList, Goto, fileVars, storeVars
<1>3. CASE Return(s)
  BY <1>3, ContentFrame DEF Return, Finish, fileVars, storeVars
<1>4. CASE Destroy(s)
  <2>1. (\E F : disk' = Flushed(F)) /\ filePtr' = [filePtr EXCEPT ![s] = NoFile]
    <3>1. Handles([filePtr EXCEPT ![s] = NoFile], localFilePtr, {})
      BY <1>4 DEF Destroy
    <3> QED
      BY <3>1, HandlesFlush
  <2> QED
    BY <1>4, <2>1, ContentFrame DEF Destroy, Finish
<1>5. ASSUME NEW k \in Keys, BeginRead(s, k) PROVE ContentInv'
  BY <1>5, ContentFrame DEF BeginRead, Goto, fileVars, storeVars
<1>6. ASSUME NEW k \in Keys, NEW b \in Blocks, BeginWrite(s, k, b) PROVE ContentInv'
  BY <1>6, ContentFrame DEF BeginWrite, Goto, fileVars, storeVars
<1> QED
  BY <1>1, <1>2, <1>3, <1>4, <1>5, <1>6 DEF Caller

LEMMA ContentOpen ==
  ASSUME TypeInv, ContentInv, NEW s \in Stores, OpenFileIfNeeded(s)
  PROVE  ContentInv'
<1> USE DEF TypeInv, TypeOK
<1>1. CASE OpenSkip(s)
  BY <1>1, ContentFrame DEF OpenSkip, Opened, Goto, fileVars, storeVars
<1>2. CASE OpenThrows(s)
  BY <1>2, ContentFrame DEF OpenThrows, Throw, Finish, fileVars
<1>3. CASE OpenFile(s)
  <2>1. PICK F : disk' = Flushed(F) /\ filePtr' = [filePtr EXCEPT ![s] = File(s)]
    <3> DEFINE opened == IF Flags(s) = OpenOrCreate THEN {File(s)} ELSE {}
    <3>1. Handles([filePtr EXCEPT ![s] = File(s)], localFilePtr, opened)
      BY <1>3 DEF OpenFile
    <3> HIDE DEF opened
    <3> QED
      BY <3>1, HandlesFlush
  <2>2. /\ fs'.files = fs.files \cup {File(s)} /\ fs'.groups = fs.groups
        /\ fs'.datasets = fs.datasets /\ fs'.contents = fs.contents
    BY <1>3 DEF OpenFile, Entries
  <2>3. pc' = [pc EXCEPT ![s] = Opened(s)] /\ Opened(s) \in {"group", "read"} /\ call' = call
    BY <1>3 DEF OpenFile, Goto, Opened
  <2>4. DiskWithinFs' /\ WellFormed(disk)'
    BY <2>1, <2>2, FlushedWellFormed DEF ContentInv, DiskWithinFs, WellFormed
  <2>5. WellFormed(fs)' /\ OneBlock'
    BY <2>2 DEF ContentInv, WellFormed, OneBlock
  <2>6. \A t \in Stores : t # s => Group(t)' = Group(t) /\ Dataset(t)' = Dataset(t)
    BY <2>1, <2>3 DEF Group, Dataset
  <2>7. Progress' /\ OwnDataset'
    BY <2>1, <2>2, <2>3, <2>6 DEF ContentInv, Progress, OwnDataset
  <2> QED
    BY <2>4, <2>5, <2>7 DEF ContentInv
<1> QED
  BY <1>1, <1>2, <1>3 DEF OpenFileIfNeeded

LEMMA ContentReadList ==
  ASSUME TypeInv, ContentInv, NEW s \in Stores, Read(s) \/ List(s)
  PROVE  ContentInv'
<1> USE DEF TypeInv, TypeOK
<1>1. CASE Read(s)
  BY <1>1, ContentFrame DEF Read, ReadThrows, ReadFails, ReadBlock, SizeBuffer, Overrun, Throw, Finish,
     Goto, fileVars, storeVars
<1>2. CASE ListDone(s)
  BY <1>2, ContentFrame DEF ListDone, Finish, fileVars, storeVars
<1>3. ASSUME NEW f, ListOpen(s, f) \/ ListThrows(s) PROVE ContentInv'
  BY <1>3, ContentFrame DEF ListOpen, ListThrows, Throw, Finish, Goto, fileVars, storeVars
<1>4. CASE ListPaths(s) \/ PathsThrow(s)
  <2>1. (\E F : disk' = Flushed(F)) /\ filePtr' = filePtr
    <3>1. Handles(filePtr, [localFilePtr EXCEPT ![s] = NoFile], {})
      BY <1>4 DEF ListPaths, PathsThrow
    <3> QED
      BY <3>1, HandlesFlush
  <2> QED
    BY <1>4, <2>1, ContentFrame DEF ListPaths, PathsThrow, Goto, Throw, Finish
<1> QED
  BY <1>1, <1>2, <1>3, <1>4 DEF List

LEMMA ContentWrite ==
  ASSUME TypeInv, ContentInv, NEW s \in Stores, Write(s)
  PROVE  ContentInv'
<1> USE DEF TypeInv, TypeOK
<1>0. ASSUME UNCHANGED << filePtr, call >>
      PROVE  \A t \in Stores : Group(t)' = Group(t) /\ Dataset(t)' = Dataset(t)
  BY <1>0 DEF Group, Dataset
<1>1. CASE CheckGroup(s)
  <2>1. UNCHANGED << filePtr, call, fs, disk >>
        /\ pc' = [pc EXCEPT ![s] = IF Group(s) \in fs.groups THEN "dataset" ELSE "createGroup"]
    BY <1>1 DEF CheckGroup, Goto, storeVars, fileVars
  <2>2. Progress' /\ OwnDataset'
    BY <1>0, <2>1 DEF ContentInv, Progress, OwnDataset
  <2> QED
    BY <2>1, <2>2 DEF ContentInv, DiskWithinFs, WellFormed, OneBlock
<1>2. CASE CreateGroup(s)
  <2>1. UNCHANGED << filePtr, call, disk >> /\ pc' = [pc EXCEPT ![s] = "dataset"]
        /\ fs'.files = fs.files /\ fs'.groups = fs.groups \cup {Group(s)}
        /\ fs'.datasets = fs.datasets /\ fs'.contents = fs.contents
    BY <1>2 DEF CreateGroup, Goto, storeVars, Entries
  <2>2. filePtr[s] \in fs.files /\ Group(s)[1] = filePtr[s]
    BY <1>2 DEF CreateGroup, CallOK, WriteLabels, ContentInv, Progress, Group
  <2>3. WellFormed(fs)' /\ WellFormed(disk)' /\ DiskWithinFs' /\ OneBlock'
    BY <2>1, <2>2 DEF ContentInv, DiskWithinFs, WellFormed, OneBlock
  <2>4. Progress' /\ OwnDataset'
    BY <1>0, <2>1 DEF ContentInv, Progress, OwnDataset
  <2> QED
    BY <2>3, <2>4 DEF ContentInv
<1>3. CASE CreateDataSet(s)
  <2>1. UNCHANGED << filePtr, call, disk >> /\ pc' = [pc EXCEPT ![s] = "raw"]
        /\ fs'.files = fs.files /\ fs'.groups = fs.groups
        /\ fs'.datasets = fs.datasets \cup {Dataset(s)} /\ fs'.contents = fs.contents
    BY <1>3 DEF CreateDataSet, Goto, storeVars, Entries
  <2>2. pc[s] = "dataset" /\ Dataset(s) \notin fs.datasets
        /\ << Dataset(s)[1], Dataset(s)[2] >> = Group(s) /\ Group(s) \in fs.groups
    BY <1>3 DEF CreateDataSet, ContentInv, Progress, Group, Dataset
  <2>3. \A c \in fs.contents : c[1] # Dataset(s)
    BY <2>2 DEF ContentInv, WellFormed
  <2>4. WellFormed(fs)' /\ WellFormed(disk)' /\ DiskWithinFs' /\ OneBlock'
    BY <2>1, <2>2 DEF ContentInv, DiskWithinFs, WellFormed, OneBlock
  <2>5. Progress'
    BY <1>0, <2>1, <2>2, <2>3 DEF ContentInv, Progress
  <2>6. OwnDataset'
    BY <1>0, <2>1, <2>2 DEF ContentInv, OwnDataset, Progress
  <2> QED
    BY <2>4, <2>5, <2>6 DEF ContentInv
<1>4. CASE CreateThrows(s) \/ WriteFails(s)
  BY <1>4, ContentFrame DEF CreateThrows, WriteFails, Throw, Finish, storeVars, fileVars
<1>5. CASE WriteRaw(s)
  <2> DEFINE c == << Dataset(s), call[s].block >>
  <2>1. UNCHANGED << filePtr, call, disk >> /\ pc' = [pc EXCEPT ![s] = "flush"]
        /\ fs'.files = fs.files /\ fs'.groups = fs.groups
        /\ fs'.datasets = fs.datasets /\ fs'.contents = fs.contents \cup {c}
    BY <1>5 DEF WriteRaw, Goto, storeVars, Entries
  <2>2. pc[s] = "raw" /\ Dataset(s) \in fs.datasets /\ \A d \in fs.contents : d[1] # c[1]
    BY <1>5 DEF WriteRaw, ContentInv, Progress
  <2>3. c[1] = Dataset(s)
    OBVIOUS
  <2>4. \A t \in Stores : pc[t] = "raw" /\ t # s => Dataset(t) # c[1]
    BY <2>2 DEF ContentInv, OwnDataset
  <2>5. c = << Dataset(s), call[s].block >>
    OBVIOUS
  <2> HIDE DEF c
  <2>6. WellFormed(fs)' /\ WellFormed(disk)' /\ DiskWithinFs' /\ OneBlock'
    BY <2>1, <2>2, <2>3 DEF ContentInv, DiskWithinFs, WellFormed, OneBlock
  <2>7. Progress'
    BY <1>0, <2>1, <2>2, <2>3, <2>4, <2>5 DEF ContentInv, Progress
  <2>8. OwnDataset'
    BY <1>0, <2>1, <2>2 DEF ContentInv, OwnDataset
  <2> QED
    BY <2>6, <2>7, <2>8 DEF ContentInv
<1>6. CASE Flush(s)
  <2>1. disk' = Flushed({filePtr[s]})
    BY <1>6, FlushFileIsFlushed DEF Flush
  <2> QED
    BY <1>6, <2>1, ContentFrame DEF Flush, Finish, storeVars
<1> QED
  BY <1>1, <1>2, <1>3, <1>4, <1>5, <1>6 DEF Write

LEMMA ContentDies ==
  ASSUME TypeInv, ContentInv, ProcessDies
  PROVE  ContentInv'
<1>1. PICK a \in Survivors : fs' = a /\ disk' = a
  BY DEF ProcessDies
<1>2. WellFormed(a) /\ a.contents \subseteq fs.contents
  BY SurvivorsBounds DEF ContentInv, DiskWithinFs
<1>3. Progress' /\ OwnDataset'
  BY DEF ProcessDies, Progress, OwnDataset
<1> QED
  BY <1>1, <1>2, <1>3 DEF ContentInv, DiskWithinFs, WellFormed, OneBlock

LEMMA ContentNext ==
  ASSUME TypeInv, ContentInv, [Next]_vars
  PROVE  ContentInv'
<1>1. ASSUME NEW s \in Stores, Step(s) PROVE ContentInv'
  BY <1>1, ContentOpen, ContentWrite, ContentReadList DEF Step
<1>2. ASSUME NEW s \in Stores, Caller(s) PROVE ContentInv'
  BY <1>2, ContentCaller
<1>3. CASE UndefinedEnds \/ Crash
  BY <1>3, ContentDies DEF UndefinedEnds, Crash
<1>4. CASE UNCHANGED vars
  BY <1>4 DEF vars, ContentInv, DiskWithinFs, WellFormed, OneBlock, Progress, OwnDataset,
     Group, Dataset
<1> QED
  BY <1>1, <1>2, <1>3, <1>4 DEF Next

\* Every file holds well-formed content that the disk is part of, and a write in
\* progress finds the group and the dataset it made (HDF5DataStore.hpp:163-178).
THEOREM ContentInvariant == Spec => []ContentInv
<1>1. TypeInv /\ ContentInv /\ [Next]_vars => ContentInv'
  BY ContentNext
<1> QED
  BY <1>1, ContentInit, TypeInvariant, PTL DEF Spec

\* A place never holds two blocks, and the disk is a well-formed part of what
\* the library shows, whatever fails, dies or is used again
\* (HDF5DataStore.hpp:163-184).
THEOREM OneBlockPerPlaceCorrect == Spec => []OneBlockPerPlace
<1>1. ContentInv => OneBlockPerPlace
  BY DEF ContentInv, OneBlockPerPlace, OneBlock, DiskWithinFs
<1> QED
  BY <1>1, ContentInvariant, PTL

----------------------------------------------------------------------------
(* What a step may change *)

\* What is flushed stays, and is what the disk holds after a crash.
LEMMA DiskKeeps ==
  ASSUME TypeInv, ContentInv, [Next]_vars
  PROVE  disk.contents \subseteq disk'.contents
<1>1. ASSUME NEW F, disk' = Flushed(F) PROVE disk.contents \subseteq disk'.contents
  BY <1>1 DEF Flushed
<1>2. ASSUME NEW s \in Stores, OpenFile(s) PROVE disk.contents \subseteq disk'.contents
  <2> DEFINE opened == IF Flags(s) = OpenOrCreate THEN {File(s)} ELSE {}
  <2>1. Handles([filePtr EXCEPT ![s] = File(s)], localFilePtr, opened)
    BY <1>2 DEF OpenFile
  <2> HIDE DEF opened
  <2> QED
    BY <1>1, <2>1, HandlesFlush
<1>3. ASSUME NEW s \in Stores, ListPaths(s) \/ PathsThrow(s) \/ Destroy(s)
      PROVE  disk.contents \subseteq disk'.contents
  <2>1. \E ptr, local : Handles(ptr, local, {})
    BY <1>3 DEF ListPaths, PathsThrow, Destroy
  <2> QED
    BY <1>1, <2>1, HandlesFlush
<1>4. ASSUME NEW s \in Stores, Flush(s) PROVE disk.contents \subseteq disk'.contents
  BY <1>1, <1>4, FlushFileIsFlushed DEF Flush
<1>5. ASSUME ProcessDies PROVE disk.contents \subseteq disk'.contents
  BY <1>5, SurvivorsBounds DEF ProcessDies
<1>6. ASSUME NEW s \in Stores, Step(s) PROVE disk.contents \subseteq disk'.contents
  BY <1>2, <1>3, <1>4, <1>5, <1>6 DEF Step, OpenFileIfNeeded, OpenSkip, OpenThrows, Write,
     CheckGroup, CreateGroup, CreateDataSet, CreateThrows, WriteRaw, WriteFails, Read,
     ReadThrows, ReadFails, ReadBlock, SizeBuffer, Overrun, List, ListOpen, ListThrows, ListDone,
     fileVars
<1>7. ASSUME NEW s \in Stores, Caller(s) PROVE disk.contents \subseteq disk'.contents
  BY <1>3, <1>7 DEF Caller, Construct, BeginList, Return, BeginRead, BeginWrite, fileVars
<1> QED
  BY <1>5, <1>6, <1>7 DEF Next, UndefinedEnds, Crash, vars

\* Only a flush acknowledges a write, and only createDataSet adds a dataset.
LEMMA WhatChanges ==
  ASSUME TypeInv, ContentInv, [Next]_vars
  PROVE  /\ acked' = acked \/ \E s \in Stores : Flush(s)
         /\ fs'.datasets \subseteq fs.datasets \/ \E s \in Stores : CreateDataSet(s)
<1> USE DEF TypeInv, TypeOK
<1>1. ASSUME ProcessDies PROVE acked' = acked /\ fs'.datasets \subseteq fs.datasets
  BY <1>1, SurvivorsBounds DEF ProcessDies, ContentInv, DiskWithinFs
<1>2. ASSUME NEW s \in Stores, OpenFile(s) \/ CreateGroup(s) \/ WriteRaw(s) \/ Flush(s)
      PROVE  fs'.datasets = fs.datasets
  BY <1>2 DEF OpenFile, CreateGroup, WriteRaw, Flush, Entries
<1>3. ASSUME NEW s \in Stores, Step(s)
      PROVE  /\ acked' = acked \/ Flush(s)
             /\ fs'.datasets \subseteq fs.datasets \/ CreateDataSet(s)
  BY <1>1, <1>2, <1>3 DEF Step, OpenFileIfNeeded, OpenSkip, OpenFile, OpenThrows, Write,
     CheckGroup, CreateGroup, CreateDataSet, CreateThrows, WriteRaw, WriteFails, Read,
     ReadThrows, ReadFails, ReadBlock, SizeBuffer, Overrun, List, ListOpen, ListThrows, ListPaths,
     PathsThrow,
     ListDone, fileVars
<1>4. ASSUME NEW s \in Stores, Caller(s) PROVE acked' = acked /\ fs' = fs
  BY <1>4 DEF Caller, Construct, BeginList, Return, Destroy, BeginRead, BeginWrite, fileVars
<1> QED
  BY <1>1, <1>3, <1>4 DEF Next, UndefinedEnds, Crash, vars


\* Only write_raw adds content, and only the death of the process loses any.
LEMMA WhatFills ==
  ASSUME TypeInv, NEW s \in Stores, Step(s) \/ Caller(s), ~WriteRaw(s)
  PROVE  fs'.contents = fs.contents
<1> USE DEF TypeInv, TypeOK
<1>1. CASE OpenFile(s) \/ CreateGroup(s) \/ CreateDataSet(s)
  BY <1>1 DEF OpenFile, CreateGroup, CreateDataSet, Entries
<1>2. CASE Step(s)
  BY <1>1, <1>2 DEF Step, OpenFileIfNeeded, OpenSkip, OpenThrows, Write, CheckGroup,
     CreateThrows, Flush, WriteFails, Read, ReadThrows, ReadFails, ReadBlock, SizeBuffer, Overrun,
     List, ListOpen,
     ListThrows, ListPaths, PathsThrow, ListDone, fileVars
<1>3. CASE Caller(s)
  BY <1>3 DEF Caller, Construct, BeginList, Return, Destroy, BeginRead, BeginWrite, fileVars
<1> QED
  BY <1>2, <1>3

----------------------------------------------------------------------------
(* Datasets without content *)

\* A write that has made its dataset is disturbed by no other step: it goes on to
\* fill it, or fails.
LEMMA RawStays ==
  ASSUME TypeInv, NEW s \in Stores, Step(s) \/ Caller(s), ~WriteRaw(s), ~WriteFails(s),
         NEW t \in Stores, pc[t] = "raw"
  PROVE  pc'[t] = "raw" /\ Dataset(t)' = Dataset(t)
<1> USE DEF TypeInv, TypeOK
<1>1. s # t
  BY DEF Step, OpenFileIfNeeded, OpenSkip, OpenFile, OpenThrows, RecordNameAndFlags, Write,
     CheckGroup, CreateGroup, CreateDataSet, CreateThrows, Flush, Read, ReadThrows, ReadFails,
     ReadBlock, SizeBuffer, Overrun, List, ListOpen, ListThrows, ListPaths, PathsThrow, ListDone,
     Caller, Construct, BeginList, Return, Destroy, BeginRead, BeginWrite
<1>2. pc'[t] = pc[t] /\ call'[t] = call[t] /\ filePtr'[t] = filePtr[t]
  <2>1. CASE OpenFileIfNeeded(s) \/ Write(s) \/ Read(s)
    BY <1>1, <2>1 DEF OpenFileIfNeeded, OpenSkip, OpenFile, OpenThrows, RecordNameAndFlags,
       Write, CheckGroup, CreateGroup, CreateDataSet, CreateThrows, WriteRaw, Flush, WriteFails,
       Read, ReadThrows, ReadFails, ReadBlock, SizeBuffer, Overrun, Handles, Throw, Finish, Goto,
       storeVars
  <2>2. CASE List(s) \/ Caller(s)
    BY <1>1, <2>2 DEF List, ListOpen, ListThrows, ListPaths, PathsThrow, ListDone, Caller,
       Construct, BeginList, Return, Destroy, BeginRead, BeginWrite, Handles, Throw, Finish,
       Goto, storeVars
  <2> QED
    BY <2>1, <2>2 DEF Step
<1> QED
  BY <1>2 DEF Dataset

LEMMA AbandonedStep ==
  ASSUME TypeInv, ContentInv, NEW s \in Stores, Step(s) \/ Caller(s), ~WriteFails(s),
         NEW d \in fs'.datasets, Abandoned(d)'
  PROVE  Abandoned(d)
<1> USE DEF TypeInv, TypeOK
<1>1. \A b \in Blocks : << d, b >> \notin fs'.contents
  BY DEF Abandoned, Written
<1>2. \A t \in Stores : pc'[t] = "raw" => d # Dataset(t)'
  BY DEF Abandoned
<1>3. CASE WriteRaw(s)
  <2>1. /\ pc[s] = "raw" /\ fs'.datasets = fs.datasets
        /\ fs'.contents = fs.contents \cup {<< Dataset(s), call[s].block >>}
        /\ call[s].block \in Blocks
        /\ \A t \in Stores : t # s => pc'[t] = pc[t] /\ Dataset(t)' = Dataset(t)
    BY <1>3 DEF WriteRaw, Goto, Entries, CallOK, WriteLabels, storeVars, Dataset
  <2>2. d # Dataset(s) /\ ~Written(d)
    BY <1>1, <2>1 DEF Written
  <2> QED
    BY <1>2, <2>1, <2>2 DEF Abandoned
<1>4. CASE ~WriteRaw(s)
  <2>1. fs'.contents = fs.contents
    BY <1>4, WhatFills
  <2>2. \A t \in Stores : pc[t] = "raw" => d # Dataset(t)
    BY <1>2, <1>4, RawStays
  <2>3. ASSUME NEW u \in Stores, CreateDataSet(u)
        PROVE  /\ fs'.datasets = fs.datasets \cup {Dataset(u)}
               /\ pc'[u] = "raw" /\ Dataset(u)' = Dataset(u)
    BY <2>3 DEF CreateDataSet, Goto, Entries, storeVars, Dataset
  <2>4. fs'.datasets \subseteq fs.datasets \/ \E u \in Stores : CreateDataSet(u)
    BY WhatChanges DEF Next
  <2>5. d \in fs.datasets
    BY <1>2, <2>3, <2>4
  <2> QED
    BY <1>1, <2>1, <2>2, <2>5 DEF Abandoned, Written
<1> QED
  BY <1>3, <1>4

\* Whatever stores do at the same time and however they are used, a dataset is left
\* without its content by nothing but a write that fails in the library or the death
\* of the process (HDF5DataStore.hpp:176-178).
THEOREM AbandonedOnlyByFailureCorrect == Spec => AbandonedOnlyByFailure
<1>1. ASSUME TypeInv, ContentInv, [Next]_vars, NEW d \in fs'.datasets, Abandoned(d)'
      PROVE  Abandoned(d) \/ ProcessDies \/ \E s \in Stores : WriteFails(s)
  <2>1. CASE UNCHANGED vars
    BY <1>1, <2>1 DEF vars, Abandoned, Written, Dataset
  <2>2. CASE UndefinedEnds \/ Crash
    BY <2>2 DEF UndefinedEnds, Crash
  <2> QED
    BY <1>1, <2>1, <2>2, AbandonedStep DEF Next
<1>2. TypeInv /\ ContentInv /\ [Next]_vars =>
        [\A d \in fs'.datasets :
           Abandoned(d)' => Abandoned(d) \/ ProcessDies \/ \E s \in Stores : WriteFails(s)]_vars
  BY <1>1
<1> QED
  BY <1>2, TypeInvariant, ContentInvariant, PTL DEF Spec, AbandonedOnlyByFailure

----------------------------------------------------------------------------
(* Callers that may use a store again after it threw *)

\* The handle of a store is one of a file that it lists, ...
OwnFiles == \A s \in Stores : filePtr[s] # NoFile => matchesPattern(Conf[s], filePtr[s])

\* ... since it opens none but those its keys belong in.
LEMMA WhatOpens ==
  ASSUME TypeInv, [Next]_vars, NEW s \in Stores
  PROVE  filePtr'[s] \in {filePtr[s], NoFile, File(s)}
<1> USE DEF TypeInv, TypeOK
<1>1. ASSUME NEW t \in Stores, OpenFile(t) PROVE filePtr' = [filePtr EXCEPT ![t] = File(t)]
  BY <1>1 DEF OpenFile, Handles
<1>2. ASSUME NEW t \in Stores, ListPaths(t) \/ PathsThrow(t) PROVE filePtr' = filePtr
  BY <1>2 DEF ListPaths, PathsThrow, Handles
<1>3. ASSUME NEW t \in Stores, Destroy(t) PROVE filePtr' = [filePtr EXCEPT ![t] = NoFile]
  BY <1>3 DEF Destroy, Handles
<1>4. ASSUME NEW t \in Stores, Step(t) PROVE filePtr'[s] \in {filePtr[s], NoFile, File(s)}
  BY <1>1, <1>2, <1>4 DEF Step, OpenFileIfNeeded, OpenSkip, OpenThrows, Write, CheckGroup,
     CreateGroup, CreateDataSet, CreateThrows, WriteRaw, Flush, WriteFails, Read, ReadThrows,
     ReadFails, ReadBlock, SizeBuffer, Overrun, List, ListOpen, ListThrows, ListDone, storeVars
<1>5. ASSUME NEW t \in Stores, Caller(t) PROVE filePtr'[s] \in {filePtr[s], NoFile, File(s)}
  BY <1>3, <1>5 DEF Caller, Construct, BeginList, Return, BeginRead, BeginWrite, storeVars
<1> QED
  BY <1>4, <1>5 DEF Next, UndefinedEnds, Crash, ProcessDies, vars

LEMMA OwnFilesNext ==
  ASSUME SelfMatching, TypeInv, OwnFiles, [Next]_vars
  PROVE  OwnFiles'
<1>1. \A s \in Stores : matchesPattern(Conf[s], File(s))
  BY OwnFileMatches, ConfAssumption, KeyIds DEF File, FileOf, TypeInv, TypeOK, CallType
<1> QED
  BY <1>1, WhatOpens DEF OwnFiles

\* What a promise to a caller comes to when stores are used again after a throw.
Kept(a, contents) ==
  \E c \in contents :
    /\ c = << << c[1][1], WritePath(a[2])[1], WritePath(a[2])[2] >>, a[3] >>
    /\ matchesPattern(a[1], c[1][1])

LEMMA KeptNext ==
  ASSUME TypeInv, ContentInv, OwnFiles, \A a \in acked : Kept(a, disk.contents), [Next]_vars
  PROVE  \A a \in acked' : Kept(a, disk'.contents)
<1>1. \A a \in acked : Kept(a, disk'.contents)
  BY DiskKeeps DEF Kept
<1>2. ASSUME NEW s \in Stores, Flush(s)
      PROVE  \A a \in acked' : Kept(a, disk'.contents)
  <2> DEFINE new == << Conf[s], call[s].key, call[s].block >>
             c == << Dataset(s), call[s].block >>
  <2>1. pc[s] = "flush" /\ disk' = Flushed({filePtr[s]}) /\ acked' = acked \cup {new}
    BY <1>2, FlushFileIsFlushed DEF Flush
  <2>2. c \in disk'.contents
    BY <2>1 DEF ContentInv, Progress, Flushed, Dataset
  <2>3. matchesPattern(Conf[s], filePtr[s])
    BY <2>1 DEF OwnFiles, TypeInv, CallOK, WriteLabels
  <2>4. c[1][1] = filePtr[s]
    BY DEF Dataset
  <2>5. c = << << c[1][1], WritePath(new[2])[1], WritePath(new[2])[2] >>, new[3] >>
    BY DEF Dataset
  <2>6. Kept(new, disk'.contents)
    <3>1. matchesPattern(new[1], c[1][1])
      BY <2>3, <2>4
    <3> HIDE DEF c, new
    <3> QED
      BY <2>2, <2>5, <3>1 DEF Kept
  <2> QED
    BY <1>1, <2>1, <2>6
<1> QED
  BY <1>1, <1>2, WhatChanges

\* Whatever callers do with a store that threw, a block whose write returned is
\* on disk for good under the group and dataset of its key, in a file that its
\* store lists, if the prefix matches itself (HDF5DataStore.hpp:160-184, 199).
THEOREM AckedKeptSomewhereCorrect ==
  ASSUME SelfMatching
  PROVE  Spec => []AckedKeptSomewhere
<1> DEFINE Inv == OwnFiles /\ \A a \in acked : Kept(a, disk.contents)
<1>1. Init => Inv
  BY DEF Init, OwnFiles
<1>2. TypeInv /\ ContentInv /\ Inv /\ [Next]_vars => Inv'
  BY OwnFilesNext, KeptNext
<1>3. Inv => AckedKeptSomewhere
  BY DEF AckedKeptSomewhere, Kept
<1> HIDE DEF Inv
<1> QED
  BY <1>1, <1>2, <1>3, TypeInvariant, ContentInvariant, PTL DEF Spec
=============================================================================
