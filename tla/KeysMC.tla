------------------------------- MODULE KeysMC -------------------------------
(***************************************************************************)
(* KeyPairs and, beside the pairs, the listing of HDF5FileUtils over every *)
(* small file.  The values are an 8-bit int and a 16-bit size_t, with ids  *)
(* at the boundaries of the int and of the zero padding.                   *)
(***************************************************************************)
EXTENDS KeyPairs, HDF5FileUtils

CONSTANTS
  Names,   \* names of groups and datasets
  Depth    \* how deep a file may nest them

VARIABLE file   \* a file to be listed

\* The objects with at most depth levels of groups.
RECURSIVE Objects(_)
Objects(depth) ==
  {Dataset, Other} \cup
    IF depth = 0 THEN {}
    ELSE {Group(c) : c \in UNION {[ns -> Objects(depth - 1)] : ns \in SUBSET Names}}

Files == Objects(Depth) \ {Dataset, Other}

NoFile == Group(<< >>)

MCInit == Init /\ file = NoFile

CompareKeys == Compare /\ file' = NoFile

\* One key is enough company for the files.
OpenFile ==
  /\ one = (CHOOSE k \in Keys : TRUE) /\ two = InvalidKey /\ file = NoFile
  /\ file' \in Files
  /\ UNCHANGED vars

MCNext == CompareKeys \/ OpenFile

MCSpec == MCInit /\ [][MCNext]_<< vars, file >>

MCIds == {-128, -5, -1, 0, 1, 9, 10, 100, 126, 127}
FewIds == {0, 1, 12}

\* Two prefixes that look like the beginning of file names of the first.
Plain == << Literal("fake") >>
Event == Plain \o << Literal("_event_"), ToString(1) >>
MCPrefixes == {Plain, Event, Event \o << Literal("_geoID_"), ToString(0) >>}
MCRegex == [p \in MCPrefixes |-> {p}]

----------------------------------------------------------------------------
\* A listing reports the path of every dataset of a file once and nothing else,
\* however its groups are nested and whatever else is in them
\* (HDF5FileUtils.hpp:37-74).
EveryDataSetOnce ==
  LET paths == getAllDataSetPaths(file)
  IN  /\ \A i, j \in DOMAIN paths : paths[i] = paths[j] => i = j
      /\ {paths[i] : i \in DOMAIN paths} = DataSetPaths(file, Names, Depth)
=============================================================================
