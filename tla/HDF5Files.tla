----------------------------- MODULE HDF5Files -----------------------------
(***************************************************************************)
(* The HDF5 library, HighFive and the file system, as HDF5DataStore.hpp    *)
(* uses them: which files, groups, datasets and contents exist, which of   *)
(* them have been flushed, which files are open and whether for writing,   *)
(* and which were left unreadable by a crash.  All of it is external.      *)
(***************************************************************************)

CONSTANT Stores   \* the data store objects, each with up to two open files

NoFile == << >>

ReadOnly == 0
OpenOrCreate == 1

VARIABLES
  filePtr,        \* the file the open handle of a store refers to, or NoFile
  localFilePtr,   \* the file a listing of a store has open
  fs,             \* what the library and its users see
  disk,           \* what would survive the death of the process
  readWrite,      \* the files open with the intent to write
  torn            \* files a crash left unreadable

----------------------------------------------------------------------------
(* Opening, closing, flushing *)

NoFiles == [files |-> {}, groups |-> {}, datasets |-> {}, contents |-> {}]

\* a with every entry of file f as it is in b
FlushFile(a, b, f) ==
  [files    |-> a.files \cup ({f} \cap b.files),
   groups   |-> a.groups \cup {g \in b.groups : g[1] = f},
   datasets |-> a.datasets \cup {d \in b.datasets : d[1] = f},
   contents |-> a.contents \cup {c \in b.contents : c[1][1] = f}]

\* Every entry lies in one that exists.
WellFormed(a) ==
  /\ \A g \in a.groups : g[1] \in a.files
  /\ \A d \in a.datasets : << d[1], d[2] >> \in a.groups
  /\ \A c \in a.contents : c[1] \in a.datasets

CanOpen(f, flags) ==
  \/ flags = ReadOnly /\ f \in fs.files \ torn
  \/ flags = OpenOrCreate /\ f \notin fs.files
  \/ /\ flags = OpenOrCreate /\ f \in fs.files \ torn
     /\ \/ f \in readWrite
        \/ \A t \in Stores : filePtr[t] # f /\ localFilePtr[t] # f

\* The handles become ptr and local.  A file nobody has open any more is
\* flushed; opened is {} or the file just opened with the intent to write.
Handles(ptr, local, opened) ==
  LET open == {ptr[t] : t \in Stores} \cup {local[t] : t \in Stores}
      closed == readWrite \ open
  IN  /\ filePtr' = ptr
      /\ localFilePtr' = local
      /\ readWrite' = (readWrite \cap open) \cup opened
      /\ disk' = [files    |-> disk.files \cup (closed \cap fs.files),
                  groups   |-> disk.groups \cup {g \in fs.groups : g[1] \in closed},
                  datasets |-> disk.datasets \cup {d \in fs.datasets : d[1] \in closed},
                  contents |-> disk.contents \cup {c \in fs.contents : c[1][1] \in closed}]

----------------------------------------------------------------------------
(* A crash *)

Between(lo, hi) == {lo \cup more : more \in SUBSET (hi \ lo)}

\* Of what was not flushed, any part may survive that leaves no entry without
\* the one that holds it.
Survivors ==
  {a \in [files    : Between(disk.files, fs.files),
          groups   : Between(disk.groups, fs.groups),
          datasets : Between(disk.datasets, fs.datasets),
          contents : Between(disk.contents, fs.contents)] : WellFormed(a)}
=============================================================================
