------------------------ MODULE HDF5Callers_proofs ------------------------
(***************************************************************************)
(* What HDF5DataStore is to callers that drop a store that threw, for     *)
(* every instance: a call uses the handle of its own file, a block is at   *)
(* the place of its key and on disk once its write returned, read() and a  *)
(* listing find it, and the stores together implement the write-once,      *)
(* durable DataStore.  All rests on HandleInv, that the recorded name is   *)
(* the name of the open handle: openFileIfNeeded() records the name of a   *)
(* file before it has opened it, so that a store used again after it threw *)
(* may take one file for another.                                          *)
(***************************************************************************)
EXTENDS HDF5DataStore_proofs

\* The recorded name is the name of the handle, and of the file of the call.
HandleInv ==
  \A s \in Stores :
    /\ pc[s] # "throw" => fullNameOfOpenFile[s] = filePtr[s]
    /\ pc[s] \in InFile => fullNameOfOpenFile[s] = File(s)

LEMMA HandleInit == Init => HandleInv
BY DEF Init, HandleInv, InFile

LEMMA HandleStep ==
  ASSUME TypeInv, HandleInv, NEW s \in Stores, Step(s)
  PROVE  HandleInv'
<1> USE DEF TypeInv, TypeOK
<1>0. ASSUME NEW t \in Stores, call'[t] = call[t] PROVE File(t)' = File(t)
  BY <1>0 DEF File, FileOf
<1>1. CASE OpenSkip(s)
  BY <1>0, <1>1 DEF OpenSkip, NeedsOpen, Opened, Goto, HandleInv, storeVars, InFile
<1>2. CASE OpenFile(s)
  <2>1. /\ filePtr' = [filePtr EXCEPT ![s] = File(s)] /\ call' = call
        /\ fullNameOfOpenFile' = [fullNameOfOpenFile EXCEPT ![s] = File(s)]
        /\ pc' = [pc EXCEPT ![s] = Opened(s)]
    BY <1>2 DEF OpenFile, RecordNameAndFlags, Handles, Goto
  <2> QED
    BY <1>0, <2>1 DEF HandleInv
<1>3. CASE OpenThrows(s)
  BY <1>0, <1>3 DEF OpenThrows, RecordNameAndFlags, Throw, Finish, HandleInv, InFile
<1>4. CASE Write(s) \/ Read(s)
  <2>1. /\ pc[s] \in InFile
        /\ UNCHANGED << filePtr, fullNameOfOpenFile, call >>
        /\ \A t \in Stores : t # s => pc'[t] = pc[t]
    BY <1>4 DEF Write, CheckGroup, CreateGroup, CreateDataSet, CreateThrows, WriteRaw, Flush,
       WriteFails, Read, ReadThrows, ReadFails, ReadBlock, SizeBuffer, Overrun, Throw, Finish,
       Goto, storeVars, InFile
  <2> QED
    BY <1>0, <2>1 DEF HandleInv, InFile
<1>5. CASE List(s)
  <2>1. /\ UNCHANGED << filePtr, fullNameOfOpenFile, call >>
        /\ pc[s] \in {"list", "paths"} /\ pc'[s] \notin InFile
        /\ \A t \in Stores : t # s => pc'[t] = pc[t]
    BY <1>5 DEF List, ListOpen, ListThrows, ListPaths, PathsThrow, ListDone, Handles, Throw,
       Finish, Goto, storeVars, InFile
  <2> QED
    BY <1>0, <2>1 DEF HandleInv
<1> QED
  BY <1>1, <1>2, <1>3, <1>4, <1>5 DEF Step, OpenFileIfNeeded

LEMMA HandleCaller ==
  ASSUME ~Reuse, TypeInv, HandleInv, NEW s \in Stores, Caller(s)
  PROVE  HandleInv'
<1> USE DEF TypeInv, TypeOK
<1>0. ASSUME NEW t \in Stores, call'[t] = call[t] PROVE File(t)' = File(t)
  BY <1>0 DEF File, FileOf
<1>1. CASE Destroy(s)
  <2>1. filePtr' = [filePtr EXCEPT ![s] = NoFile]
    BY <1>1 DEF Destroy, Handles
  <2> QED
    BY <1>0, <1>1, <2>1 DEF Destroy, Finish, HandleInv, InFile
<1>2. CASE Construct(s) \/ BeginList(s) \/ Return(s)
           \/ (\E k \in Keys : BeginRead(s, k) \/ \E b \in Blocks : BeginWrite(s, k, b))
  <2>1. /\ UNCHANGED << filePtr, fullNameOfOpenFile >>
        /\ \A t \in Stores : t # s => call'[t] = call[t] /\ pc'[t] = pc[t]
        /\ pc[s] # "throw" /\ pc'[s] \notin InFile
    BY <1>2 DEF Construct, BeginList, Return, BeginRead, BeginWrite, Finish, Goto, storeVars, InFile
  <2> QED
    BY <1>0, <2>1 DEF HandleInv
<1> QED
  BY <1>1, <1>2 DEF Caller

LEMMA HandleNext ==
  ASSUME ~Reuse, TypeInv, HandleInv, [Next]_vars
  PROVE  HandleInv'
<1>1. CASE UndefinedEnds \/ Crash
  BY <1>1 DEF UndefinedEnds, Crash, ProcessDies, HandleInv, InFile
<1>2. CASE UNCHANGED vars
  BY <1>2 DEF vars, HandleInv, File, FileOf
<1> QED
  BY <1>1, <1>2, HandleStep, HandleCaller DEF Next

\* If no store is used again after it threw, then whenever a call uses filePtr it
\* is the handle of the file of its key: the comment at HDF5DataStore.hpp:100
\* and 154, which a run refutes for callers that do use it again.
THEOREM HandleAgreesCorrect ==
  ASSUME ~Reuse
  PROVE  Spec => []HandleAgrees
<1>1. TypeInv /\ HandleInv /\ [Next]_vars => HandleInv'
  BY HandleNext
<1>2. HandleInv => HandleAgrees
  BY DEF HandleInv, HandleAgrees, InFile
<1> QED
  BY <1>1, <1>2, HandleInit, TypeInvariant, PTL DEF Spec

----------------------------------------------------------------------------
(* Placement and durability *)

\* The place a write uses is the place of its key.
LEMMA DatasetIsPlace ==
  ASSUME HandleInv, NEW s \in Stores, pc[s] \in InFile
  PROVE  Dataset(s) = Place(Conf[s], call[s].key)
<1>1. filePtr[s] = File(s)
  BY DEF HandleInv, InFile
<1> QED
  BY <1>1 DEF Dataset, Place, File, FileOf

\* Without reuse, a block is only ever in the file, group and dataset of its own
\* key (HDF5DataStore.hpp:153-178).
THEOREM PlacementCorrect ==
  ASSUME ~Reuse
  PROVE  Spec => []Placement
<1>1. TypeInv /\ ContentInv /\ HandleInv /\ Placement /\ [Next]_vars => Placement'
  <2> SUFFICES ASSUME TypeInv, ContentInv, HandleInv, Placement, [Next]_vars
               PROVE  Placement'
    OBVIOUS
  <2>1. CASE fs'.datasets \subseteq fs.datasets
    BY <2>1 DEF Placement
  <2>2. ASSUME NEW s \in Stores, CreateDataSet(s) PROVE Placement'
    <3>1. pc[s] = "dataset" /\ fs'.datasets = fs.datasets \cup {Dataset(s)}
      BY <2>2 DEF CreateDataSet, TypeInv, TypeOK, Entries
    <3>2. Dataset(s) = Place(Conf[s], call[s].key) /\ call[s].key \in Keys
      BY <3>1, DatasetIsPlace DEF InFile, TypeInv, CallOK, WriteLabels
    <3> QED
      BY <3>1, <3>2 DEF Placement
  <2> QED
    BY <2>1, <2>2, WhatChanges
<1>2. TypeInv /\ HandleInv /\ [Next]_vars => HandleInv'
  BY HandleNext
<1>3. Init => Placement
  BY DEF Init, NoFiles, Placement
<1> QED
  BY <1>1, <1>2, <1>3, HandleInit, TypeInvariant, ContentInvariant, PTL DEF Spec

LEMMA AckedDurableNext ==
  ASSUME TypeInv, ContentInv, HandleInv, AckedDurable, [Next]_vars
  PROVE  AckedDurable'
<1>1. CASE acked' = acked
  BY <1>1, DiskKeeps DEF AckedDurable
<1>2. ASSUME NEW s \in Stores, Flush(s) PROVE AckedDurable'
  <2>1. /\ pc[s] = "flush" /\ disk' = Flushed({filePtr[s]})
        /\ acked' = acked \cup {<< Conf[s], call[s].key, call[s].block >>}
    BY <1>2, FlushFileIsFlushed DEF Flush
  <2>2. Dataset(s) = Place(Conf[s], call[s].key)
    BY <2>1, DatasetIsPlace DEF InFile
  <2>3. << Dataset(s), call[s].block >> \in fs.contents /\ Dataset(s)[1] = filePtr[s]
    BY <2>1 DEF ContentInv, Progress, Dataset
  <2>4. << Dataset(s), call[s].block >> \in disk'.contents
    BY <2>1, <2>3 DEF Flushed
  <2>5. SUFFICES ASSUME NEW a \in acked' PROVE << Place(a[1], a[2]), a[3] >> \in disk'.contents
    BY DEF AckedDurable
  <2>6. CASE a \in acked
    BY <2>6, DiskKeeps DEF AckedDurable
  <2>7. CASE a = << Conf[s], call[s].key, call[s].block >>
    BY <2>2, <2>4, <2>7
  <2> QED
    BY <2>1, <2>6, <2>7
<1> QED
  BY <1>1, <1>2, WhatChanges

\* Without reuse, a write that returned is on disk at the place of its key for
\* good, whatever fails and however often the process dies
\* (the flush of HDF5DataStore.hpp:184).
THEOREM AckedDurableCorrect ==
  ASSUME ~Reuse
  PROVE  Spec => []AckedDurable
<1>1. TypeInv /\ ContentInv /\ HandleInv /\ AckedDurable /\ [Next]_vars => AckedDurable'
  BY AckedDurableNext
<1>2. TypeInv /\ HandleInv /\ [Next]_vars => HandleInv'
  BY HandleNext
<1>3. Init => AckedDurable
  BY DEF Init, AckedDurable
<1> QED
  BY <1>1, <1>2, <1>3, HandleInit, TypeInvariant, ContentInvariant, PTL DEF Spec

DurableInv == TypeInv /\ ContentInv /\ HandleInv /\ AckedDurable

LEMMA DurableInvariant ==
  ASSUME ~Reuse
  PROVE  Spec => []DurableInv
<1>1. TypeInv /\ HandleInv /\ [Next]_vars => HandleInv'
  BY HandleNext
<1> QED
  BY <1>1, HandleInit, TypeInvariant, ContentInvariant, AckedDurableCorrect, PTL
     DEF Spec, DurableInv

----------------------------------------------------------------------------
(* read() *)

Readable(a) == a[2].event >= 0 /\ a[2].geo >= 0

\* What a read was called for, and what it has found when it returns.
ReadInv ==
  \A s \in Stores :
    /\ pc[s] \in {"list", "paths"} => call[s].op = "list"
    /\ call[s].op = "read" => \A a \in call[s].before :
         /\ a \in acked /\ a[1] = Conf[s] /\ a[2] = call[s].key
         /\ Readable(a) => pc[s] # "overrun"
         /\ pc[s] = "return" /\ Readable(a) =>
              result[s] = a[3] \/ (Faults /\ result[s] = "uninitialised")

\* When read() uses the handle, the acknowledged block of its key is there.
LEMMA ReadableIsThere ==
  ASSUME DurableInv, ReadInv, NEW s \in Stores, pc[s] = "read",
         NEW a \in call[s].before, Readable(a)
  PROVE  << DatasetToRead(s), a[3] >> \in fs.contents
<1>1. a \in acked /\ a[1] = Conf[s] /\ a[2] = call[s].key /\ call[s].key \in Keys
  BY DEF DurableInv, TypeInv, CallOK, ReadInv
<1>2. << Place(a[1], a[2]), a[3] >> \in fs.contents
  BY <1>1 DEF DurableInv, AckedDurable, ContentInv, DiskWithinFs
<1>3. filePtr[s] = File(s)
  BY DEF DurableInv, HandleInv, InFile
<1>4. ReadPath(call[s].key) = WritePath(call[s].key)
  BY <1>1, KeyIds, ReadPathIsWritePath DEF Readable, NonNegativeIds
<1>5. DatasetToRead(s) = Place(a[1], a[2])
  BY <1>1, <1>3, <1>4 DEF DatasetToRead, Place, File, FileOf
<1> QED
  BY <1>2, <1>5

\* A store other than s keeps its call; what was acknowledged stays so.
LEMMA ReadFrame ==
  ASSUME TypeInv, ReadInv, NEW s \in Stores, acked \subseteq acked',
         \A t \in Stores : t # s =>
           call'[t] = call[t] /\ pc'[t] = pc[t] /\ result'[t] = result[t],
         call'[s] = call[s], pc'[s] \notin {"return", "overrun"} \/ call[s].op # "read",
         pc'[s] \in {"list", "paths"} => pc[s] \in {"list", "paths"}
  PROVE  ReadInv'
BY DEF ReadInv, Readable

LEMMA ReadStep ==
  ASSUME DurableInv, ReadInv, NEW s \in Stores, Step(s)
  PROVE  ReadInv'
<1> USE DEF DurableInv, TypeInv, TypeOK
<1>1. CASE OpenFileIfNeeded(s)
  BY <1>1, ReadFrame DEF OpenFileIfNeeded, OpenSkip, OpenFile, OpenThrows, RecordNameAndFlags,
     Opened, Throw, Finish, Goto
<1>2. CASE Write(s)
  BY <1>2, ReadFrame DEF Write, CheckGroup, CreateGroup, CreateDataSet, CreateThrows, WriteRaw,
     Flush, WriteFails, Throw, Finish, Goto, CallOK, WriteLabels
<1>3. CASE ReadThrows(s)
  BY <1>3, ReadFrame DEF ReadThrows, Throw, Finish
<1>4. CASE ReadBlock(s)
  <2>1. /\ pc[s] = "read" /\ call' = call /\ acked' = acked
        /\ \A t \in Stores : t # s => pc'[t] = pc[t] /\ result'[t] = result[t]
        /\ pc'[s] = "return"
    BY <1>4 DEF ReadBlock, Finish
  <2>2. ASSUME NEW a \in call[s].before, Readable(a) PROVE result'[s] = a[3]
    <3>1. << DatasetToRead(s), a[3] >> \in fs.contents
      BY <2>1, <2>2, ReadableIsThere
    <3>2. DatasetToRead(s) \in fs.datasets
      BY <3>1 DEF ContentInv, WellFormed
    <3>3. a[3] \in Blocks
      BY <2>1, <2>2 DEF ReadInv, Acks, CallOK
    <3>4. PICK b \in Blocks : << DatasetToRead(s), b >> \in fs.contents /\ result'[s] = b
      BY <1>4, <3>1, <3>2, <3>3 DEF ReadBlock, Finish
    <3> QED
      BY <3>1, <3>4 DEF ContentInv, OneBlock
  <2> QED
    BY <2>1, <2>2 DEF ReadInv, Readable
<1>5. CASE ReadFails(s)
  BY <1>5 DEF ReadFails, Finish, ReadInv, Readable
<1>6. CASE List(s)
  BY <1>6, ReadFrame DEF List, ListOpen, ListThrows, ListPaths, PathsThrow, ListDone, Throw,
     Finish, Goto, ReadInv
<1>7. CASE SizeBuffer(s)
  <2>1. /\ pc[s] = "read" /\ call' = call /\ acked' = acked /\ result' = result
        /\ \A t \in Stores : t # s => pc'[t] = pc[t]
        /\ pc'[s] = "overrun" /\ ~Written(DatasetToRead(s))
    BY <1>7 DEF SizeBuffer, Goto
  <2>2. ASSUME NEW a \in call[s].before, call[s].op = "read", Readable(a) PROVE FALSE
    <3>1. << DatasetToRead(s), a[3] >> \in fs.contents
      BY <2>1, <2>2, ReadableIsThere
    <3>2. a[3] \in Blocks
      BY <2>2 DEF ReadInv, Acks
    <3> QED
      BY <2>1, <3>1, <3>2 DEF Written
  <2> QED
    BY <2>1, <2>2 DEF ReadInv, Readable
<1>8. CASE Overrun(s)
  <2>1. /\ pc[s] = "overrun" /\ call' = call /\ acked' = acked /\ pc'[s] = "return"
        /\ \A t \in Stores : t # s => pc'[t] = pc[t] /\ result'[t] = result[t]
    BY <1>8 DEF Overrun, Finish
  <2> QED
    BY <2>1 DEF ReadInv, Readable, CallOK
<1> QED
  BY <1>1, <1>2, <1>3, <1>4, <1>5, <1>6, <1>7, <1>8 DEF Step, Read

LEMMA ReadCaller ==
  ASSUME TypeInv, ReadInv, NEW s \in Stores, Caller(s)
  PROVE  ReadInv'
<1> USE DEF TypeInv, TypeOK
<1>1. CASE Construct(s)
  BY <1>1, ReadFrame DEF Construct, Goto
<1>2. ASSUME NEW k \in Keys, BeginRead(s, k) PROVE ReadInv'
  BY <1>2 DEF BeginRead, Goto, ReadInv, Readable
<1>3. CASE BeginList(s) \/ Return(s) \/ Destroy(s)
           \/ (\E k \in Keys, b \in Blocks : BeginWrite(s, k, b))
  <2>1. /\ acked' = acked
        /\ \A t \in Stores : t # s =>
             call'[t] = call[t] /\ pc'[t] = pc[t] /\ result'[t] = result[t]
        /\ call'[s].op # "read"
        /\ pc'[s] \in {"list", "paths"} => call'[s].op = "list"
    BY <1>3 DEF BeginList, Return, Destroy, BeginWrite, Finish, Goto, NoCall
  <2> QED
    BY <2>1 DEF ReadInv, Readable
<1> QED
  BY <1>1, <1>2, <1>3 DEF Caller

LEMMA ReadNext ==
  ASSUME DurableInv, ReadInv, [Next]_vars
  PROVE  ReadInv'
<1>1. CASE UndefinedEnds \/ Crash
  BY <1>1 DEF UndefinedEnds, Crash, ProcessDies, ReadInv, NoCall
<1>2. CASE UNCHANGED vars
  BY <1>2 DEF vars, ReadInv, Readable
<1> QED
  BY <1>1, <1>2, ReadStep, ReadCaller DEF Next, DurableInv

LEMMA ReadInvariant ==
  ASSUME ~Reuse
  PROVE  Spec => []ReadInv
<1>1. DurableInv /\ ReadInv /\ [Next]_vars => ReadInv'
  BY ReadNext
<1>2. Init => ReadInv
  BY DEF Init, ReadInv, NoCall
<1> QED
  BY <1>1, <1>2, DurableInvariant, PTL DEF Spec

\* Without reuse, a read of a key whose write had returned before it was called
\* finds the group and the dataset and returns the block that was written or, if
\* the HDF5 library fails while it reads, a block without data,
\* whatever other stores write, fail or close meanwhile and however often the
\* process died in between (HDF5DataStore.hpp:107-132).
THEOREM ReadFindsAckedCorrect ==
  ASSUME ~Reuse
  PROVE  Spec => []ReadFindsAcked
<1>1. DurableInv /\ ReadInv => ReadFindsAcked
  BY ReadableIsThere DEF ReadFindsAcked, ReadInv, Readable
<1> QED
  BY <1>1, DurableInvariant, ReadInvariant, PTL

----------------------------------------------------------------------------
(* getAllExistingKeys() *)

\* Whatever a listing has gathered is of its own prefix and mode, ...
Matches(s) ==
  /\ \A f \in fileList[s] : matchesPattern(Conf[s], f)
  /\ \A d \in keyList[s] : matchesPattern(Conf[s], d[1])
  /\ localFilePtr[s] # NoFile => matchesPattern(Conf[s], localFilePtr[s])

\* ... and every block it has to find is in its list, or in a file it has still to
\* go through.
ToOpen(s) == fileList[s] \cup (IF pc[s] = "paths" THEN {localFilePtr[s]} ELSE {})

Found(s, place) ==
  pc[s] \in {"list", "paths", "return"} =>
    place \in keyList[s] \/ (pc[s] # "return" /\ place[1] \in ToOpen(s))

Finds(s) ==
  call[s].op = "list" =>
    \A a \in call[s].before : a \in acked /\ a[1] = Conf[s] /\ Found(s, Place(a[1], a[2]))

ListInv == \A s \in Stores : Matches(s) /\ Finds(s)

\* A block whose write returned has its dataset, and so its file.
LEMMA AckedIsThere ==
  ASSUME DurableInv, NEW a \in acked
  PROVE  /\ Place(a[1], a[2]) \in fs.datasets
         /\ Place(a[1], a[2])[1] \in fs.files
         /\ Place(a[1], a[2])[1] = getFileNameFromKey(a[1], a[2])
<1> DEFINE p == Place(a[1], a[2])
<1>1. << p, a[3] >> \in fs.contents
  BY DEF DurableInv, AckedDurable, ContentInv, DiskWithinFs
<1>2. p \in fs.datasets
  BY <1>1 DEF DurableInv, ContentInv, WellFormed
<1>3. << p[1], p[2] >> \in fs.groups
  BY <1>2 DEF DurableInv, ContentInv, WellFormed
<1>4. p[1] \in fs.files
  BY <1>3 DEF DurableInv, ContentInv, WellFormed
<1> QED
  BY <1>2, <1>4 DEF Place

LEMMA AckedStays ==
  ASSUME TypeInv, ContentInv, [Next]_vars
  PROVE  acked \subseteq acked'
BY WhatChanges DEF Flush

\* A step of s leaves the listings of the others as they are.
LEMMA ListFrame ==
  ASSUME ListInv, NEW s \in Stores, acked \subseteq acked',
         \A t \in Stores : t # s =>
           /\ pc'[t] = pc[t] /\ call'[t] = call[t]
           /\ fileList'[t] = fileList[t] /\ keyList'[t] = keyList[t]
           /\ localFilePtr'[t] = localFilePtr[t],
         Matches(s)', Finds(s)'
  PROVE  ListInv'
<1>1. ASSUME NEW t \in Stores, t # s PROVE Matches(t)' /\ Finds(t)'
  BY <1>1 DEF ListInv, Matches, Finds, Found, ToOpen
<1> QED
  BY <1>1 DEF ListInv

\* A call that is no listing leaves its lists as they are.
LEMMA NoListing ==
  ASSUME ListInv, NEW s \in Stores, acked \subseteq acked',
         \A t \in Stores : t # s => pc'[t] = pc[t] /\ call'[t] = call[t],
         UNCHANGED << fileList, localFilePtr, keyList >>,
         call'[s].op # "list" \/ (call'[s] = call[s] /\ pc'[s] \in {"idle", "throw"})
  PROVE  ListInv'
<1>1. Matches(s)'
  BY DEF ListInv, Matches
<1>2. Finds(s)'
  BY DEF ListInv, Finds, Found
<1> QED
  BY <1>1, <1>2, ListFrame

LEMMA ListSteps ==
  ASSUME DurableInv, ReadInv, ListInv, NEW s \in Stores, List(s), acked \subseteq acked'
  PROVE  ListInv'
<1> USE DEF DurableInv, TypeInv, TypeOK
<1>0. call' = call /\ call[s].op = "list" /\ Matches(s) /\ Finds(s)
  BY DEF List, ListOpen, ListThrows, ListPaths, PathsThrow, ListDone, ReadInv, ListInv
<1>1. CASE ListThrows(s)
  BY <1>1, NoListing DEF ListThrows, Throw, Finish, listVars
<1>2. ASSUME NEW f \in fileList[s], ListOpen(s, f) PROVE ListInv'
  <2>1. /\ pc[s] = "list" /\ pc' = [pc EXCEPT ![s] = "paths"] /\ keyList' = keyList
        /\ localFilePtr' = [localFilePtr EXCEPT ![s] = f]
        /\ fileList' = [fileList EXCEPT ![s] = fileList[s] \ {f}]
    BY <1>2 DEF ListOpen, Goto
  <2>2. ToOpen(s)' = ToOpen(s)
    BY <2>1 DEF ToOpen
  <2>3. Matches(s)'
    BY <1>0, <2>1 DEF Matches
  <2>4. Finds(s)'
    BY <1>0, <2>1, <2>2 DEF Finds, Found
  <2> QED
    BY <1>0, <2>1, <2>3, <2>4, ListFrame
<1>3. CASE ListPaths(s)
  <2> DEFINE new == {d \in fs.datasets : d[1] = localFilePtr[s]}
  <2>1. /\ pc[s] = "paths" /\ pc' = [pc EXCEPT ![s] = "list"]
        /\ keyList' = [keyList EXCEPT ![s] = keyList[s] \cup new]
        /\ fileList' = fileList
        /\ localFilePtr' = [localFilePtr EXCEPT ![s] = NoFile]
    BY <1>3 DEF ListPaths, Handles, Goto
  <2>2. Matches(s)'
    <3>1. matchesPattern(Conf[s], localFilePtr[s])
      BY <1>0, <2>1 DEF Matches, CallOK
    <3> QED
      BY <1>0, <2>1, <3>1 DEF Matches
  <2>3. ASSUME NEW a \in call[s].before
        PROVE  a \in acked' /\ a[1] = Conf[s] /\ Found(s, Place(a[1], a[2]))'
    <3> DEFINE p == Place(a[1], a[2])
    <3>1. a \in acked /\ a[1] = Conf[s]
          /\ (p \in keyList[s] \/ p[1] \in fileList[s] \cup {localFilePtr[s]})
      BY <1>0, <2>1 DEF Finds, Found, ToOpen
    <3>2. p \in fs.datasets
      BY <3>1, AckedIsThere
    <3>3. pc'[s] = "list" /\ (p \in keyList'[s] \/ p[1] \in fileList'[s])
      BY <2>1, <3>1, <3>2
    <3> QED
      BY <3>1, <3>3 DEF Found, ToOpen
  <2>4. Finds(s)'
    BY <1>0, <2>3 DEF Finds
  <2> QED
    BY <1>0, <2>1, <2>2, <2>4, ListFrame
<1>4. CASE PathsThrow(s)
  <2>1. /\ pc' = [pc EXCEPT ![s] = "throw"] /\ keyList' = keyList /\ fileList' = fileList
        /\ localFilePtr' = [localFilePtr EXCEPT ![s] = NoFile]
    BY <1>4 DEF PathsThrow, Handles, Throw, Finish
  <2>2. Matches(s)' /\ Finds(s)'
    BY <1>0, <2>1 DEF Matches, Finds, Found
  <2> QED
    BY <1>0, <2>1, <2>2, ListFrame
<1>5. CASE ListDone(s)
  <2>1. /\ pc[s] = "list" /\ fileList[s] = {} /\ pc' = [pc EXCEPT ![s] = "return"]
        /\ UNCHANGED << fileList, localFilePtr, keyList >>
    BY <1>5 DEF ListDone, Finish, listVars
  <2>2. Matches(s)' /\ Finds(s)'
    BY <1>0, <2>1 DEF Matches, Finds, Found, ToOpen
  <2> QED
    BY <1>0, <2>1, <2>2, ListFrame
<1> QED
  BY <1>1, <1>2, <1>3, <1>4, <1>5 DEF List

LEMMA ListCaller ==
  ASSUME SelfMatching, DurableInv, ListInv, NEW s \in Stores, Caller(s)
  PROVE  ListInv'
<1> USE DEF DurableInv, TypeInv, TypeOK
<1>0. acked' = acked /\ Matches(s) /\ Finds(s)
  BY DEF Caller, Construct, BeginList, Return, Destroy, BeginRead, BeginWrite, ListInv
<1>1. CASE Construct(s)
  BY <1>0, <1>1, NoListing DEF Construct, Goto, listVars
<1>2. ASSUME NEW k \in Keys, BeginRead(s, k) \/ \E b \in Blocks : BeginWrite(s, k, b)
      PROVE  ListInv'
  BY <1>0, <1>2, NoListing DEF BeginRead, BeginWrite, Goto, listVars
<1>3. CASE Return(s) \/ Destroy(s)
  <2>1. /\ call'[s].op = "none" /\ fileList'[s] = {} /\ keyList'[s] = {}
        /\ localFilePtr' = localFilePtr
        /\ \A t \in Stores : t # s =>
             /\ pc'[t] = pc[t] /\ call'[t] = call[t]
             /\ fileList'[t] = fileList[t] /\ keyList'[t] = keyList[t]
    BY <1>3 DEF Return, Destroy, Finish, Handles, NoCall
  <2>2. Matches(s)' /\ Finds(s)'
    BY <1>0, <2>1 DEF Matches, Finds
  <2> QED
    BY <1>0, <2>1, <2>2, ListFrame
<1>4. CASE BeginList(s)
  <2>1. /\ call'[s].op = "list" /\ call'[s].before = {a \in acked : a[1] = Conf[s]}
        /\ fileList'[s] = {f \in fs.files : matchesPattern(Conf[s], f)}
        /\ pc'[s] = "list" /\ UNCHANGED << localFilePtr, keyList >>
        /\ \A t \in Stores : t # s =>
             pc'[t] = pc[t] /\ call'[t] = call[t] /\ fileList'[t] = fileList[t]
    BY <1>4 DEF BeginList, getFilesMatchingPattern, Goto
  <2>2. Matches(s)'
    BY <1>0, <2>1 DEF Matches
  <2>3. ASSUME NEW a \in acked, a[1] = Conf[s] PROVE Place(a[1], a[2])[1] \in fileList'[s]
    <3>1. matchesPattern(Conf[s], getFileNameFromKey(a[1], a[2]))
      <4>1. Key(a[2])
        BY KeyIds DEF Acks
      <4> QED
        BY <2>3, <4>1, OwnFileMatches, ConfAssumption
    <3> QED
      BY <2>1, <2>3, <3>1, AckedIsThere
  <2>4. Finds(s)'
    BY <1>0, <2>1, <2>3 DEF Finds, Found, ToOpen
  <2> QED
    BY <1>0, <2>1, <2>2, <2>4, ListFrame
<1> QED
  BY <1>1, <1>2, <1>3, <1>4 DEF Caller

LEMMA ListNext ==
  ASSUME SelfMatching, DurableInv, ReadInv, ListInv, [Next]_vars
  PROVE  ListInv'
<1> USE DEF DurableInv, TypeInv, TypeOK
<1>1. acked \subseteq acked'
  BY AckedStays
<1>2. ASSUME NEW s \in Stores, OpenFileIfNeeded(s) \/ Write(s) \/ Read(s) PROVE ListInv'
  <2>1. call' = call /\ call[s].op # "list"
    BY <1>2 DEF CallOK, WriteLabels, OpenFileIfNeeded, OpenSkip, OpenFile, OpenThrows,
       RecordNameAndFlags, Write, CheckGroup, CreateGroup, CreateDataSet, CreateThrows, WriteRaw,
       Flush, WriteFails, Read, ReadThrows, ReadFails, ReadBlock, SizeBuffer, Overrun
  <2>2. /\ UNCHANGED << fileList, localFilePtr, keyList >>
        /\ \A t \in Stores : t # s => pc'[t] = pc[t]
    BY <1>2 DEF OpenFileIfNeeded, OpenSkip, OpenFile, OpenThrows, RecordNameAndFlags, Write,
       CheckGroup, CreateGroup, CreateDataSet, CreateThrows, WriteRaw, Flush, WriteFails, Read,
       ReadThrows, ReadFails, ReadBlock, SizeBuffer, Overrun, Handles, Throw, Finish, Goto, listVars
  <2> QED
    BY <1>1, <2>1, <2>2, NoListing
<1>3. CASE ProcessDies
  BY <1>3 DEF ProcessDies, ListInv, Matches, Finds, NoCall
<1>4. CASE UNCHANGED vars
  BY <1>4 DEF vars, ListInv, Matches, Finds, Found, ToOpen
<1> QED
  BY <1>1, <1>2, <1>3, <1>4, ListSteps, ListCaller DEF Next, Step, UndefinedEnds, Crash

LEMMA ListInvariant ==
  ASSUME ~Reuse, SelfMatching
  PROVE  Spec => []ListInv
<1>1. Init => ListInv
  BY DEF Init, ListInv, Matches, Finds, NoCall
<1>2. DurableInv /\ ReadInv /\ ListInv /\ [Next]_vars => ListInv'
  BY ListNext
<1> QED
  BY <1>1, <1>2, DurableInvariant, ReadInvariant, PTL DEF Spec

\* Without reuse, a listing that returns has found every block whose write had
\* returned when it was called and nothing of another prefix or mode, whatever
\* other stores write, open, close or fail to do meanwhile, if its prefix matches
\* itself (HDF5DataStore.hpp:193-215).
THEOREM ListCompleteCorrect ==
  ASSUME ~Reuse, SelfMatching
  PROVE  Spec => []ListComplete
<1>1. ListInv => ListComplete
  BY DEF ListInv, Matches, Finds, Found, ListComplete
<1> QED
  BY <1>1, ListInvariant, PTL

\* What a listing gathers are places of keys, ...
KeyPlaces == {Place(c, k) : c \in Configurations, k \in Keys}

PlacesInv ==
  /\ fs.datasets \subseteq KeyPlaces
  /\ \A s \in Stores : keyList[s] \subseteq KeyPlaces /\ (pc[s] = "none" => keyList[s] = {})

LEMMA PlacesNext ==
  ASSUME DurableInv, PlacesInv, [Next]_vars
  PROVE  PlacesInv'
<1> USE DEF DurableInv, TypeInv, TypeOK
<1>1. fs'.datasets \subseteq KeyPlaces
  <2>1. ASSUME NEW s \in Stores, CreateDataSet(s)
        PROVE  fs'.datasets = fs.datasets \cup {Dataset(s)} /\ Dataset(s) \in KeyPlaces
    <3>1. pc[s] = "dataset" /\ fs'.datasets = fs.datasets \cup {Dataset(s)}
      BY <2>1 DEF CreateDataSet, Entries
    <3>2. Conf[s] \in Configurations /\ call[s].key \in Keys
      BY <3>1 DEF CallOK, WriteLabels
    <3>3. Dataset(s) = Place(Conf[s], call[s].key)
      BY <3>1, DatasetIsPlace DEF InFile
    <3> QED
      BY <3>1, <3>2, <3>3 DEF KeyPlaces
  <2> QED
    BY <2>1, WhatChanges DEF PlacesInv
<1>2. ASSUME NEW s \in Stores
      PROVE  keyList'[s] \subseteq KeyPlaces /\ (pc'[s] = "none" => keyList'[s] = {})
  <2>1. \A t \in Stores : ListPaths(t) =>
          /\ keyList' = [keyList EXCEPT ![t] =
               keyList[t] \cup {d \in fs.datasets : d[1] = localFilePtr[t]}]
          /\ pc' = [pc EXCEPT ![t] = "list"]
    BY DEF ListPaths, Goto
  <2>2. ASSUME NEW t \in Stores, ListPaths(t)
        PROVE  keyList'[s] \subseteq KeyPlaces /\ (pc'[s] = "none" => keyList'[s] = {})
    BY <2>1, <2>2 DEF PlacesInv
  <2>3. ASSUME NEW t \in Stores, Return(t) \/ Destroy(t)
        PROVE  keyList'[s] \subseteq KeyPlaces /\ (pc'[s] = "none" => keyList'[s] = {})
    BY <2>3 DEF Return, Destroy, Finish, PlacesInv
  <2>4. CASE ProcessDies \/ UNCHANGED vars
    BY <2>4 DEF ProcessDies, vars, PlacesInv
  <2>5. ASSUME NEW t \in Stores,
               OpenFileIfNeeded(t) \/ Write(t) \/ Read(t) \/ (List(t) /\ ~ListPaths(t))
        PROVE  keyList' = keyList /\ (pc'[s] = "none" => pc[s] = "none")
    BY <2>5 DEF OpenFileIfNeeded, OpenSkip, OpenFile, OpenThrows, RecordNameAndFlags, Opened,
       Write, CheckGroup, CreateGroup, CreateDataSet, CreateThrows, WriteRaw, Flush, WriteFails,
       Read, ReadThrows, ReadFails, ReadBlock, SizeBuffer, Overrun, List, ListOpen, ListThrows,
       PathsThrow, ListDone, Throw, Finish, Goto, listVars
  <2>6. ASSUME NEW t \in Stores, Caller(t), ~Return(t), ~Destroy(t)
        PROVE  keyList' = keyList /\ (pc'[s] = "none" => pc[s] = "none")
    BY <2>6 DEF Caller, Construct, BeginList, BeginRead, BeginWrite, Goto, listVars
  <2> QED
    BY <2>2, <2>3, <2>4, <2>5, <2>6 DEF PlacesInv, Next, Step, UndefinedEnds, Crash
<1> QED
  BY <1>1, <1>2 DEF PlacesInv

\* ... in files of one prefix and mode, and there the ids determine the place.
LEMMA OneDatasetPerKey ==
  ASSUME PlainPrefixes, NEW conf \in Configurations,
         NEW d \in KeyPlaces, matchesPattern(conf, d[1]),
         NEW e \in KeyPlaces, matchesPattern(conf, e[1]),
         ListedKey(<< d[2], d[3] >>) = ListedKey(<< e[2], e[3] >>),
         ListedKey(<< d[2], d[3] >>).event # INVALID_EVENTID,
         ListedKey(<< d[2], d[3] >>).geo # INVALID_GEOLOCATION
  PROVE  d = e
<1>1. PICK b \in Configurations, k \in Keys : d = Place(b, k)
  BY DEF KeyPlaces
<1>2. PICK c \in Configurations, l \in Keys : e = Place(c, l)
  BY DEF KeyPlaces
<1>3. b = conf /\ c = conf
  BY <1>1, <1>2, KeyIds, PatternMatchesOwnFiles DEF Place
<1>4. /\ << d[2], d[3] >> = WritePath(k) /\ << e[2], e[3] >> = WritePath(l)
      /\ d[1] = getFileNameFromKey(conf, k) /\ e[1] = getFileNameFromKey(conf, l)
  BY <1>1, <1>2, <1>3 DEF Place, WritePath
<1>5. Key(k) /\ Key(l)
  BY KeyIds
<1>6. k.event = l.event /\ k.geo = l.geo
  BY <1>4, <1>5, ListedKeyOfWritePath DEF StorageKey
<1> QED
  BY <1>1, <1>2, <1>3, <1>6 DEF Place, getFileNameFromKey, Ending, WritePath

\* Without reuse, a listing reports no key twice, in whatever files of whatever
\* modes, if no prefix holds regular expression syntax: two datasets parse to the
\* same key only if one of its ids is invalid (HDF5DataStore.hpp:198-212).
THEOREM NoKeyTwiceCorrect ==
  ASSUME ~Reuse, PlainPrefixes
  PROVE  Spec => []NoKeyTwice
<1>1. SelfMatching
  BY DEF SelfMatching, PlainPrefixes
<1>2. Spec => []ListInv
  BY <1>1, ListInvariant
<1>3. Init => PlacesInv
  BY DEF Init, NoFiles, PlacesInv
<1>4. DurableInv /\ PlacesInv /\ [Next]_vars => PlacesInv'
  BY PlacesNext
<1>5. DurableInv /\ ListInv /\ PlacesInv => NoKeyTwice
  <2> SUFFICES ASSUME DurableInv, ListInv, PlacesInv, NEW s \in Stores,
                      NEW d \in keyList[s], NEW e \in keyList[s],
                      ListedKey(<< d[2], d[3] >>) = ListedKey(<< e[2], e[3] >>),
                      ListedKey(<< d[2], d[3] >>).event # INVALID_EVENTID,
                      ListedKey(<< d[2], d[3] >>).geo # INVALID_GEOLOCATION
               PROVE  d = e
    BY DEF NoKeyTwice
  <2>1. Conf[s] \in Configurations
    BY DEF DurableInv, TypeInv, CallOK, PlacesInv
  <2>2. d \in KeyPlaces /\ matchesPattern(Conf[s], d[1])
        /\ e \in KeyPlaces /\ matchesPattern(Conf[s], e[1])
    BY DEF PlacesInv, ListInv, Matches
  <2> QED
    BY <2>1, <2>2, OneDatasetPerKey
<1> QED
  BY <1>2, <1>3, <1>4, <1>5, DurableInvariant, PTL DEF Spec

----------------------------------------------------------------------------
(* The abstract store *)

AbstractAcked == {<< Place(a[1], a[2]), a[3] >> : a \in acked}

\* A write that fills its dataset stores a block at a place that has none.
LEMMA WriteRawStores ==
  ASSUME DurableInv, NEW s \in Stores, WriteRaw(s)
  PROVE  Abstract!Next
<1>1. pc[s] = "raw" /\ UNCHANGED << disk, acked >>
      /\ fs'.contents = fs.contents \cup {<< Dataset(s), call[s].block >>}
  BY DEF WriteRaw, DurableInv, TypeInv, TypeOK, Entries
<1>2. Conf[s] \in Configurations /\ call[s].key \in Keys /\ call[s].block \in Blocks
  BY <1>1 DEF DurableInv, TypeInv, CallOK, WriteLabels
<1>3. PICK p \in KeyPlaces, b \in Blocks :
        p = Place(Conf[s], call[s].key) /\ b = call[s].block
  BY <1>2 DEF KeyPlaces
<1>4. Dataset(s) = p
  BY <1>1, <1>3, DatasetIsPlace DEF DurableInv, InFile
<1>5. \A c \in fs.contents : c[1] # p
  BY <1>1, <1>4 DEF DurableInv, ContentInv, Progress
<1>6. Abstract!Store(p, b)
  BY <1>1, <1>3, <1>4, <1>5 DEF Abstract!Store
<1> QED
  BY <1>6 DEF Abstract!Next, KeyPlaces

\* A flush that returns acknowledges the block it made durable.
LEMMA FlushAcks ==
  ASSUME DurableInv, NEW s \in Stores, Flush(s)
  PROVE  Abstract!Next
<1> DEFINE e == << Conf[s], call[s].key, call[s].block >>
<1>1. /\ pc[s] = "flush" /\ fs' = fs /\ disk' = Flushed({filePtr[s]})
      /\ acked' = acked \cup {e}
  BY FlushFileIsFlushed DEF Flush
<1>2. Conf[s] \in Configurations /\ call[s].key \in Keys /\ call[s].block \in Blocks
  BY <1>1 DEF DurableInv, TypeInv, CallOK, WriteLabels
<1>3. PICK p \in KeyPlaces, b \in Blocks :
        p = Place(Conf[s], call[s].key) /\ b = call[s].block
  BY <1>2 DEF KeyPlaces
<1>4. Dataset(s) = p /\ Dataset(s)[1] = filePtr[s]
  BY <1>1, <1>3, DatasetIsPlace DEF DurableInv, InFile, Dataset
<1>5. << p, b >> \in fs.contents /\ p[1] = filePtr[s]
  BY <1>1, <1>3, <1>4 DEF DurableInv, ContentInv, Progress
<1>6. disk.contents \cup {<< p, b >>} \subseteq disk'.contents /\ disk'.contents \subseteq fs.contents
  BY <1>1, <1>5 DEF Flushed, DurableInv, ContentInv, DiskWithinFs
<1>7. << Place(e[1], e[2]), e[3] >> = << p, b >>
  BY <1>3
<1>8. AbstractAcked' = {<< Place(a[1], a[2]), a[3] >> : a \in acked'}
  BY DEF AbstractAcked
<1> HIDE DEF e
<1>9. AbstractAcked' = AbstractAcked \cup {<< p, b >>}
  BY <1>1, <1>7, <1>8 DEF AbstractAcked
<1>10. Abstract!Ack(p, b)
  BY <1>1, <1>5, <1>6, <1>9 DEF Abstract!Ack, AbstractAcked
<1> QED
  BY <1>10 DEF Abstract!Next, KeyPlaces

\* The death of the process keeps what was durable.
LEMMA DeathDies ==
  ASSUME DurableInv, ProcessDies
  PROVE  Abstract!Next
<1>1. PICK a \in Survivors : fs' = a /\ disk' = a /\ acked' = acked
  BY DEF ProcessDies
<1>2. disk.contents \subseteq a.contents /\ a.contents \subseteq fs.contents
  BY SurvivorsBounds DEF DurableInv, ContentInv, DiskWithinFs
<1>3. Abstract!Die
  BY <1>1, <1>2 DEF Abstract!Die
<1> QED
  BY <1>3 DEF Abstract!Next

\* Every other step changes no content and acknowledges nothing; it may flush.
LEMMA OtherStepsSync ==
  ASSUME DurableInv, [Next]_vars,
         \A s \in Stores : ~WriteRaw(s) /\ ~Flush(s), ~ProcessDies
  PROVE  Abstract!Next
<1>1. fs'.contents = fs.contents
  BY WhatFills DEF DurableInv, Next, UndefinedEnds, Crash, vars
<1>2. acked' = acked
  BY WhatChanges DEF DurableInv
<1>3. disk.contents \subseteq disk'.contents
  BY DiskKeeps DEF DurableInv
<1>4. ContentInv'
  BY ContentNext DEF DurableInv
<1>5. disk'.contents \subseteq fs'.contents
  BY <1>4 DEF ContentInv, DiskWithinFs
<1>6. Abstract!Sync
  BY <1>1, <1>2, <1>3, <1>5 DEF Abstract!Sync
<1> QED
  BY <1>6 DEF Abstract!Next

\* Without reuse, the stores of a process are one write-once store: a place gets
\* at most one block, a block never changes, and a block whose write returned
\* outlives the process (DataStore.hpp:70-109 as HDF5DataStore implements it).
THEOREM ImplementsDataStoreCorrect ==
  ASSUME ~Reuse
  PROVE  Spec => ImplementsDataStore
<1>1. Init => Abstract!Init
  BY DEF Init, NoFiles, Abstract!Init
<1>2. DurableInv /\ [Next]_vars => Abstract!Next
  BY WriteRawStores, FlushAcks, DeathDies, OtherStepsSync
<1> QED
  BY <1>1, <1>2, DurableInvariant, PTL DEF Spec, ImplementsDataStore, Abstract!Spec
=============================================================================
