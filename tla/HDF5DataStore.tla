--------------------------- MODULE HDF5DataStore ---------------------------
(***************************************************************************)
(* The HDF5DataStore objects of one process (plugins/HDF5DataStore.hpp).   *)
(* Each is used by one thread at a time: by the working thread of the      *)
(* module that owns it.  A call is split where what it does to the files,  *)
(* or what other stores do to them meanwhile, can be told apart, so that   *)
(* the calls of several stores interleave, and so that an exception or the *)
(* death of the process can fall between any two of their steps.           *)
(***************************************************************************)
EXTENDS StorageKeys, HDF5Files

CONSTANTS
  Conf,     \* Conf[s]: the prefix and the mode s is configured with
  Keys,     \* the storage keys in use
  Blocks,   \* the payloads of data blocks, of a byte or more where one is read
  Reuse,    \* TRUE: a caller may use a store again after it has thrown
  Faults,   \* TRUE: opening, creating, writing, flushing and reading may fail
  Crashes   \* TRUE: the process may die at any moment and be started again

Signals == {"none", "done", "exception", "unwritten", "uninitialised"}

ASSUME ConfAssumption == Conf \in [Stores -> [prefix : Prefixes, mode : STRING]]

ASSUME KeysAssumption == \A k \in Keys : k.event \in CInt /\ k.geo \in CInt

ASSUME BlocksAssumption == Blocks \cap Signals = {}

ASSUME FlagsAssumption == {Reuse, Faults, Crashes} \subseteq BOOLEAN

NoCall == [op |-> "none", key |-> InvalidKey, block |-> "none", before |-> {}]

VARIABLES
  fullNameOfOpenFile,    \* the name ...
  openFlagsOfOpenFile,   \* ... and the flags last asked for
  pc,                    \* where the call in progress is
  call,                  \* the call: its arguments and what was acked before it
  result,                \* what it returns
  fileList,              \* the files a listing has still to open
  keyList,               \* the datasets a listing has found
  acked                  \* history: <<conf, key, block>> of the writes that returned

storeVars == << filePtr, fullNameOfOpenFile, openFlagsOfOpenFile >>
listVars == << fileList, localFilePtr, keyList >>
fileVars == << fs, disk, readWrite, torn >>
vars == << filePtr, fullNameOfOpenFile, openFlagsOfOpenFile, pc, call, result,
           fileList, localFilePtr, keyList, fs, disk, readWrite, torn, acked >>

----------------------------------------------------------------------------
(* Names and moves *)

FileOf(s, k) == getFileNameFromKey(Conf[s], k)

File(s) == FileOf(s, call[s].key)
Group(s) == << filePtr[s], WritePath(call[s].key)[1] >>
Dataset(s) == << filePtr[s], WritePath(call[s].key)[1], WritePath(call[s].key)[2] >>

Goto(s, label) == pc' = [pc EXCEPT ![s] = label]

Finish(s, label, value) ==
  /\ pc' = [pc EXCEPT ![s] = label]
  /\ result' = [result EXCEPT ![s] = value]

Throw(s) == Finish(s, "throw", "exception")

\* Where write() and read() use the handle openFileIfNeeded() left behind.
InFile == {"group", "createGroup", "dataset", "raw", "flush", "read", "overrun"}

----------------------------------------------------------------------------
Init ==
  /\ filePtr = [s \in Stores |-> NoFile]
  /\ fullNameOfOpenFile = [s \in Stores |-> NoFile]
  /\ openFlagsOfOpenFile = [s \in Stores |-> ReadOnly]
  /\ pc = [s \in Stores |-> "none"]
  /\ call = [s \in Stores |-> NoCall]
  /\ result = [s \in Stores |-> "none"]
  /\ fileList = [s \in Stores |-> {}]
  /\ localFilePtr = [s \in Stores |-> NoFile]
  /\ keyList = [s \in Stores |-> {}]
  /\ fs = NoFiles
  /\ disk = NoFiles
  /\ readWrite = {}
  /\ torn = {}
  /\ acked = {}

\* The constructor; it throws InvalidOperationMode for any other mode.
Construct(s) ==
  /\ pc[s] = "none"
  /\ Conf[s].mode \in Modes
  /\ Goto(s, "idle")
  /\ UNCHANGED << storeVars, call, result, listVars, fileVars, acked >>

----------------------------------------------------------------------------
(* The calls of the DataStore interface *)

BeginWrite(s, k, b) ==
  /\ pc[s] = "idle"
  /\ call' = [call EXCEPT ![s] = [op |-> "write", key |-> k, block |-> b, before |-> {}]]
  /\ Goto(s, "open")
  /\ UNCHANGED << storeVars, result, listVars, fileVars, acked >>

BeginRead(s, k) ==
  /\ pc[s] = "idle"
  /\ call' = [call EXCEPT ![s] =
       [op |-> "read", key |-> k, block |-> "none",
        before |-> {a \in acked : a[1] = Conf[s] /\ a[2] = k}]]
  /\ Goto(s, "open")
  /\ UNCHANGED << storeVars, result, listVars, fileVars, acked >>

\* getAllFiles_: the names in the directory that match the pattern
BeginList(s) ==
  /\ pc[s] = "idle"
  /\ call' = [call EXCEPT ![s] =
       [op |-> "list", key |-> InvalidKey, block |-> "none",
        before |-> {a \in acked : a[1] = Conf[s]}]]
  /\ fileList' = [fileList EXCEPT ![s] = getFilesMatchingPattern(fs.files, Conf[s])]
  /\ Goto(s, "list")
  /\ UNCHANGED << storeVars, result, localFilePtr, keyList, fileVars, acked >>

----------------------------------------------------------------------------
(* openFileIfNeeded *)

Flags(s) == IF call[s].op = "write" THEN OpenOrCreate ELSE ReadOnly

Opened(s) == IF call[s].op = "write" THEN "group" ELSE "read"

\* Mutants: the file name is not compared; an open file is kept whatever it is.
NeedsOpen_SameFlags(s) == openFlagsOfOpenFile[s] # Flags(s)
NeedsOpen_Once(s) == filePtr[s] = NoFile

NeedsOpen(s) ==
  \/ fullNameOfOpenFile[s] # File(s)
  \/ openFlagsOfOpenFile[s] # Flags(s)

OpenSkip(s) ==
  /\ pc[s] = "open"
  /\ ~NeedsOpen(s)
  /\ Goto(s, Opened(s))
  /\ UNCHANGED << storeVars, call, result, listVars, fileVars, acked >>

\* Lines 275 and 276: the name and the flags are recorded first.
RecordNameAndFlags(s) ==
  /\ pc[s] = "open"
  /\ NeedsOpen(s)
  /\ fullNameOfOpenFile' = [fullNameOfOpenFile EXCEPT ![s] = File(s)]
  /\ openFlagsOfOpenFile' = [openFlagsOfOpenFile EXCEPT ![s] = Flags(s)]

\* Mutant: the file is truncated where it should be opened or created.
OpenFile_Truncate(s) ==
  /\ RecordNameAndFlags(s)
  /\ fs' = [files    |-> fs.files \cup {File(s)},
            groups   |-> {g \in fs.groups : g[1] # File(s)},
            datasets |-> {d \in fs.datasets : d[1] # File(s)},
            contents |-> {c \in fs.contents : c[1][1] # File(s)}]
  /\ Handles([filePtr EXCEPT ![s] = File(s)], localFilePtr,
             IF Flags(s) = OpenOrCreate THEN {File(s)} ELSE {})
  /\ Goto(s, Opened(s))
  /\ UNCHANGED << call, result, fileList, keyList, torn, acked >>

\* The new file is opened, and created if need be, before the old one is closed.
OpenFile(s) ==
  /\ RecordNameAndFlags(s)
  /\ CanOpen(File(s), Flags(s))
  /\ fs' = [fs EXCEPT !.files = @ \cup {File(s)}]
  /\ Handles([filePtr EXCEPT ![s] = File(s)], localFilePtr,
             IF Flags(s) = OpenOrCreate THEN {File(s)} ELSE {})
  /\ Goto(s, Opened(s))
  /\ UNCHANGED << call, result, fileList, keyList, torn, acked >>

\* The File constructor throws: filePtr keeps the handle it had, if any.
OpenThrows(s) ==
  /\ RecordNameAndFlags(s)
  /\ Faults \/ ~CanOpen(File(s), Flags(s))
  /\ Throw(s)
  /\ UNCHANGED << filePtr, call, listVars, fileVars, acked >>

----------------------------------------------------------------------------
(* write *)

CheckGroup(s) ==
  /\ pc[s] = "group"
  /\ filePtr[s] # NoFile
  /\ Goto(s, IF Group(s) \in fs.groups THEN "dataset" ELSE "createGroup")
  /\ UNCHANGED << storeVars, call, result, listVars, fileVars, acked >>

CreateGroup(s) ==
  /\ pc[s] = "createGroup"
  /\ Group(s) \notin fs.groups
  /\ filePtr[s] \in readWrite
  /\ fs' = [fs EXCEPT !.groups = @ \cup {Group(s)}]
  /\ Goto(s, "dataset")
  /\ UNCHANGED << storeVars, call, result, listVars, disk, readWrite, torn, acked >>

\* Mutants: an existing dataset is taken for a new one; write_raw is skipped.
CreateDataSet_Overwrite(s) ==
  /\ pc[s] = "dataset"
  /\ fs' = [fs EXCEPT !.datasets = @ \cup {Dataset(s)}]
  /\ Goto(s, "raw")
  /\ UNCHANGED << storeVars, call, result, listVars, disk, readWrite, torn, acked >>

CreateDataSet_NoRaw(s) ==
  /\ pc[s] = "dataset"
  /\ Dataset(s) \notin fs.datasets
  /\ fs' = [fs EXCEPT !.datasets = @ \cup {Dataset(s)}]
  /\ Goto(s, "flush")
  /\ UNCHANGED << storeVars, call, result, listVars, disk, readWrite, torn, acked >>

CreateDataSet(s) ==
  /\ pc[s] = "dataset"
  /\ Dataset(s) \notin fs.datasets
  /\ filePtr[s] \in readWrite
  /\ fs' = [fs EXCEPT !.datasets = @ \cup {Dataset(s)}]
  /\ Goto(s, "raw")
  /\ UNCHANGED << storeVars, call, result, listVars, disk, readWrite, torn, acked >>

\* What exists already, or what is open for reading only, cannot be created.
CreateThrows(s) ==
  /\ \/ pc[s] = "createGroup" /\ Group(s) \in fs.groups
     \/ pc[s] = "dataset" /\ Dataset(s) \in fs.datasets
     \/ pc[s] \in {"createGroup", "dataset"} /\ filePtr[s] \notin readWrite
  /\ Throw(s)
  /\ UNCHANGED << storeVars, call, listVars, fileVars, acked >>

WriteRaw(s) ==
  /\ pc[s] = "raw"
  /\ fs' = [fs EXCEPT !.contents = @ \cup {<< Dataset(s), call[s].block >>}]
  /\ Goto(s, "flush")
  /\ UNCHANGED << storeVars, call, result, listVars, disk, readWrite, torn, acked >>

\* Mutant: flush() is not called.
Flush_Omitted(s) ==
  /\ pc[s] = "flush"
  /\ acked' = acked \cup {<< Conf[s], call[s].key, call[s].block >>}
  /\ Finish(s, "return", "done")
  /\ UNCHANGED << storeVars, call, listVars, fileVars >>

\* The write has been promised to the caller once flush() returns.
Flush(s) ==
  /\ pc[s] = "flush"
  /\ disk' = FlushFile(disk, fs, filePtr[s])
  /\ acked' = acked \cup {<< Conf[s], call[s].key, call[s].block >>}
  /\ Finish(s, "return", "done")
  /\ UNCHANGED << storeVars, call, listVars, fs, readWrite, torn >>

\* The library fails (a full disk, say) in the middle of a write.
WriteFails(s) ==
  /\ Faults
  /\ \/ pc[s] = "group" /\ filePtr[s] # NoFile
     \/ pc[s] \in {"createGroup", "dataset", "raw", "flush"}
  /\ Throw(s)
  /\ UNCHANGED << storeVars, call, listVars, fileVars, acked >>

----------------------------------------------------------------------------
(* read *)

GroupToRead(s) == << filePtr[s], ReadPath(call[s].key)[1] >>
DatasetToRead(s) == << filePtr[s], ReadPath(call[s].key)[1], ReadPath(call[s].key)[2] >>

ReadThrows(s) ==
  /\ pc[s] = "read"
  /\ filePtr[s] # NoFile
  /\ Faults \/ GroupToRead(s) \notin fs.groups
  /\ Throw(s)
  /\ UNCHANGED << storeVars, call, listVars, fileVars, acked >>

\* An error of the library while it reads the dataset is caught as if the dataset
\* were missing: the block is returned without its data.
ReadFails(s) ==
  /\ Faults
  /\ \/ pc[s] = "read" /\ filePtr[s] # NoFile /\ GroupToRead(s) \in fs.groups
     \/ pc[s] = "overrun"
  /\ Finish(s, "return", "uninitialised")
  /\ UNCHANGED << storeVars, call, listVars, fileVars, acked >>

\* The storage of a dataset is allocated when its block is written.
Written(d) == \E b \in Blocks : << d, b >> \in fs.contents

\* exist(), getGroup(), getDataSet(), getStorageSize() and read() are one step: what
\* each of them finds stays as it is while the process lives, so what they find one
\* after the other is what one of these moments shows.  A missing dataset is caught,
\* and the block returned as its constructor left it.
ReadBlock(s) ==
  /\ pc[s] = "read"
  /\ filePtr[s] # NoFile
  /\ GroupToRead(s) \in fs.groups
  /\ \/ /\ DatasetToRead(s) \notin fs.datasets
        /\ Finish(s, "return", "uninitialised")
     \/ \E b \in Blocks :
          /\ << DatasetToRead(s), b >> \in fs.contents
          /\ Finish(s, "return", b)
  /\ UNCHANGED << storeVars, call, listVars, fileVars, acked >>

\* A dataset that was created but has no storage yet makes a buffer of no bytes.
SizeBuffer(s) ==
  /\ pc[s] = "read"
  /\ filePtr[s] # NoFile
  /\ GroupToRead(s) \in fs.groups
  /\ DatasetToRead(s) \in fs.datasets
  /\ ~Written(DatasetToRead(s))
  /\ Goto(s, "overrun")
  /\ UNCHANGED << storeVars, call, result, listVars, fileVars, acked >>

\* read() then copies the whole dataset past the buffer, whether it was written
\* meanwhile or not.  If the process survives, the block has a size of zero.
Overrun(s) ==
  /\ pc[s] = "overrun"
  /\ Finish(s, "return", "unwritten")
  /\ UNCHANGED << storeVars, call, listVars, fileVars, acked >>

----------------------------------------------------------------------------
(* getAllExistingKeys *)

ListOpen(s, f) ==
  /\ pc[s] = "list"
  /\ f \in fileList[s]
  /\ CanOpen(f, ReadOnly)
  /\ localFilePtr' = [localFilePtr EXCEPT ![s] = f]
  /\ fileList' = [fileList EXCEPT ![s] = @ \ {f}]
  /\ Goto(s, "paths")
  /\ UNCHANGED << storeVars, call, result, keyList, fileVars, acked >>

\* Nothing catches the exception: a directory or one file that cannot be read ends
\* the listing.
ListThrows(s) ==
  /\ pc[s] = "list"
  /\ Faults \/ \E f \in fileList[s] : ~CanOpen(f, ReadOnly)
  /\ Throw(s)
  /\ UNCHANGED << storeVars, call, listVars, fileVars, acked >>

\* The paths of all datasets of the file, which is then closed.
ListPaths(s) ==
  /\ pc[s] = "paths"
  /\ keyList' = [keyList EXCEPT ![s] =
       @ \cup {d \in fs.datasets : d[1] = localFilePtr[s]}]
  /\ Handles(filePtr, [localFilePtr EXCEPT ![s] = NoFile], {})
  /\ Goto(s, "list")
  /\ UNCHANGED << fullNameOfOpenFile, openFlagsOfOpenFile, call, result, fileList, fs, torn, acked >>

\* The file is closed on the way out.
PathsThrow(s) ==
  /\ Faults
  /\ pc[s] = "paths"
  /\ Throw(s)
  /\ Handles(filePtr, [localFilePtr EXCEPT ![s] = NoFile], {})
  /\ UNCHANGED << fullNameOfOpenFile, openFlagsOfOpenFile, call, fileList, keyList, fs, torn, acked >>

\* Mutant: the loop ends with the first file that has a dataset.
ListDone_FirstFile(s) ==
  /\ pc[s] = "list"
  /\ fileList[s] = {} \/ keyList[s] # {}
  /\ Finish(s, "return", "done")
  /\ UNCHANGED << storeVars, call, listVars, fileVars, acked >>

ListDone(s) ==
  /\ pc[s] = "list"
  /\ fileList[s] = {}
  /\ Finish(s, "return", "done")
  /\ UNCHANGED << storeVars, call, listVars, fileVars, acked >>

----------------------------------------------------------------------------
(* The caller *)

\* The caller has taken the result; after an exception, if it catches it.
Return(s) ==
  /\ pc[s] = "return" \/ (pc[s] = "throw" /\ Reuse)
  /\ Finish(s, "idle", "none")
  /\ call' = [call EXCEPT ![s] = NoCall]
  /\ fileList' = [fileList EXCEPT ![s] = {}]
  /\ keyList' = [keyList EXCEPT ![s] = {}]
  /\ UNCHANGED << storeVars, localFilePtr, fileVars, acked >>

\* The destructor closes the file; the store may be made again.
Destroy(s) ==
  /\ pc[s] \in {"idle", "throw"}
  /\ Finish(s, "none", "none")
  /\ call' = [call EXCEPT ![s] = NoCall]
  /\ fullNameOfOpenFile' = [fullNameOfOpenFile EXCEPT ![s] = NoFile]
  /\ openFlagsOfOpenFile' = [openFlagsOfOpenFile EXCEPT ![s] = ReadOnly]
  /\ fileList' = [fileList EXCEPT ![s] = {}]
  /\ keyList' = [keyList EXCEPT ![s] = {}]
  /\ Handles([filePtr EXCEPT ![s] = NoFile], localFilePtr, {})
  /\ UNCHANGED << fs, torn, acked >>

----------------------------------------------------------------------------
(* The death of the process *)

ProcessDies ==
  /\ \E a \in Survivors :
       /\ fs' = a
       /\ disk' = a
       /\ \E t \in SUBSET {f \in a.files \ disk.files : \A g \in a.groups : g[1] # f} :
            torn' = torn \cup t
  /\ filePtr' = [s \in Stores |-> NoFile]
  /\ fullNameOfOpenFile' = [s \in Stores |-> NoFile]
  /\ openFlagsOfOpenFile' = [s \in Stores |-> ReadOnly]
  /\ pc' = [s \in Stores |-> "none"]
  /\ call' = [s \in Stores |-> NoCall]
  /\ result' = [s \in Stores |-> "none"]
  /\ fileList' = [s \in Stores |-> {}]
  /\ localFilePtr' = [s \in Stores |-> NoFile]
  /\ keyList' = [s \in Stores |-> {}]
  /\ readWrite' = {}
  /\ UNCHANGED acked

Crash == Crashes /\ ProcessDies

\* filePtr is dereferenced although no file was ever opened, or a buffer overrun.
Undefined(s) ==
  \/ pc[s] \in {"group", "read"} /\ filePtr[s] = NoFile
  \/ pc[s] = "overrun"

UndefinedEnds == (\E s \in Stores : Undefined(s)) /\ ProcessDies

----------------------------------------------------------------------------
OpenFileIfNeeded(s) == OpenSkip(s) \/ OpenFile(s) \/ OpenThrows(s)

Write(s) ==
  \/ CheckGroup(s) \/ CreateGroup(s) \/ CreateDataSet(s) \/ CreateThrows(s)
  \/ WriteRaw(s) \/ Flush(s) \/ WriteFails(s)

Read(s) == ReadThrows(s) \/ ReadFails(s) \/ ReadBlock(s) \/ SizeBuffer(s) \/ Overrun(s)

List(s) ==
  \/ \E f \in fileList[s] : ListOpen(s, f)
  \/ ListThrows(s) \/ ListPaths(s) \/ PathsThrow(s) \/ ListDone(s)

Step(s) == OpenFileIfNeeded(s) \/ Write(s) \/ Read(s) \/ List(s)

Caller(s) ==
  \/ Construct(s) \/ BeginList(s) \/ Return(s) \/ Destroy(s)
  \/ \E k \in Keys : BeginRead(s, k) \/ \E b \in Blocks : BeginWrite(s, k, b)

Next == (\E s \in Stores : Step(s) \/ Caller(s)) \/ UndefinedEnds \/ Crash

Spec == Init /\ [][Next]_vars

----------------------------------------------------------------------------
(* Properties *)

FileName == {FileOf(s, k) : s \in Stores, k \in Keys \cup {InvalidKey}}

Text == [kind : {"number"}, pad : {0}, value : 0 .. SizeMod - 1]

Entries ==
  [files    : SUBSET FileName,
   groups   : SUBSET (FileName \X Text),
   datasets : SUBSET (FileName \X Text \X Text),
   contents : SUBSET ((FileName \X Text \X Text) \X Blocks)]

Labels == InFile \cup {"none", "idle", "open", "list", "paths", "return", "throw"}

Acks == Configurations \X Keys \X Blocks

CallType ==
  [op : {"none", "write", "read", "list"}, key : Keys \cup {InvalidKey},
   block : Blocks \cup {"none"}, before : SUBSET Acks]

\* Every variable has its type.
TypeOK ==
  /\ filePtr \in [Stores -> FileName \cup {NoFile}]
  /\ fullNameOfOpenFile \in [Stores -> FileName \cup {NoFile}]
  /\ openFlagsOfOpenFile \in [Stores -> {ReadOnly, OpenOrCreate}]
  /\ pc \in [Stores -> Labels]
  /\ call \in [Stores -> CallType]
  /\ result \in [Stores -> Blocks \cup Signals]
  /\ fileList \in [Stores -> SUBSET FileName]
  /\ localFilePtr \in [Stores -> FileName \cup {NoFile}]
  /\ keyList \in [Stores -> SUBSET (FileName \X Text \X Text)]
  /\ fs \in Entries
  /\ disk \in Entries
  /\ readWrite \subseteq FileName
  /\ torn \subseteq FileName
  /\ acked \subseteq Acks

\* "filePtr will be the handle to the Opened-File after a call to
\* openFileIfNeeded()" (HDF5DataStore.hpp:100 and 154): while a call uses the
\* handle, it is the handle of the file its key belongs in.
HandleAgrees ==
  \A s \in Stores : pc[s] \in InFile => filePtr[s] = File(s)

Place(conf, k) ==
  << getFileNameFromKey(conf, k), WritePath(k)[1], WritePath(k)[2] >>

\* A block is only ever in the file, group and dataset of its own key, in the
\* configuration of some store (HDF5DataStore.hpp:153-178): no call leaves its
\* dataset in the file of another event.
Placement ==
  \A d \in fs.datasets : \E s \in Stores, k \in Keys : d = Place(Conf[s], k)

\* A write that returned is durable: its block is on disk at the place of its
\* key (the flush of HDF5DataStore.hpp:184), whatever died since.
AckedDurable ==
  \A a \in acked : << Place(a[1], a[2]), a[3] >> \in disk.contents

\* Even when callers go on using a store that threw, no block whose write
\* returned is lost: it is on disk under the group and dataset of its key, in
\* some file that a listing of its store opens (HDF5DataStore.hpp:160-184, 199),
\* if not in the file where read() looks for it.
AckedKeptSomewhere ==
  \A a \in acked : \E c \in disk.contents :
    /\ c = << << c[1][1], WritePath(a[2])[1], WritePath(a[2])[2] >>, a[3] >>
    /\ matchesPattern(a[1], c[1][1])

\* A block read back is the block written: if the write of a key had returned
\* when read() was called, then once the file is open the group and the dataset
\* are there, so that read() returns that block and neither throws for a missing
\* group, nor overruns its buffer, nor returns an uninitialised block
\* (HDF5DataStore.hpp:107-132), unless the library fails while it reads the data:
\* that error is swallowed (129-132).
\* Negative ids are excepted: write() prints them as size_t, read() as int.
ReadFindsAcked ==
  \A s \in Stores : \A a \in call[s].before :
    call[s].op = "read" /\ a[2].event >= 0 /\ a[2].geo >= 0 =>
      /\ pc[s] = "read" => << DatasetToRead(s), a[3] >> \in fs.contents
      /\ pc[s] # "overrun"
      /\ pc[s] = "return" => result[s] = a[3] \/ (Faults /\ result[s] = "uninitialised")

\* A listing that returns has found every block whose write had returned when it
\* was called, in whatever files other stores opened, closed or created
\* meanwhile, and nothing of another prefix or mode (HDF5DataStore.hpp:193-215).
ListComplete ==
  \A s \in Stores : call[s].op = "list" /\ pc[s] = "return" =>
    /\ \A a \in call[s].before : Place(a[1], a[2]) \in keyList[s]
    /\ \A d \in keyList[s] : matchesPattern(Conf[s], d[1])

\* A listing reports no key twice (HDF5DataStore.hpp:198-212): two datasets of
\* its files never parse to the same key, unless to one with an invalid id, as
\* the names of all negative ids do.
NoKeyTwice ==
  \A s \in Stores : \A d, e \in keyList[s] :
    LET key == ListedKey(<< d[2], d[3] >>)
    IN  /\ key = ListedKey(<< e[2], e[3] >>)
        /\ key.event # INVALID_EVENTID /\ key.geo # INVALID_GEOLOCATION
        => d = e

\* A dataset without its content that no write is about to fill.
Abandoned(d) ==
  /\ d \in fs.datasets
  /\ ~Written(d)
  /\ \A s \in Stores : pc[s] = "raw" => d # Dataset(s)

\* A dataset is without its content only while the write that created it is between
\* createDataSet and write_raw (HDF5DataStore.hpp:176-178): no step of any store
\* leaves one behind for a later read() to overrun its buffer with, unless the
\* library fails in the write, or the process dies.
AbandonedOnlyByFailure ==
  [][\A d \in fs'.datasets :
       Abandoned(d)' => Abandoned(d) \/ ProcessDies \/ \E s \in Stores : WriteFails(s)]_vars

\* HDF5DataStore.hpp:120: read() tries "to determine if the dataset exists in the
\* group and copy it to membuffer", so a dataset that exists fits the buffer.
CopyFitsBuffer == \A s \in Stores : pc[s] # "overrun"

\* A place never holds two blocks, and what is on disk is part of what the
\* library shows, with the groups and files that hold it.
OneBlockPerPlace ==
  /\ \A c, d \in fs.contents : c[1] = d[1] => c = d
  /\ disk.contents \subseteq fs.contents
  /\ WellFormed(fs) /\ WellFormed(disk)

\* The stores together are the write-once, durable store of DataStore.
Abstract == INSTANCE DataStore WITH
  Places <- {Place(c, k) : c \in Configurations, k \in Keys},
  stored <- fs.contents,
  durable <- disk.contents,
  acked <- {<< Place(a[1], a[2]), a[3] >> : a \in acked}

ImplementsDataStore == Abstract!Spec
=============================================================================
