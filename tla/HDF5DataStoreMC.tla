-------------------------- MODULE HDF5DataStoreMC --------------------------
(***************************************************************************)
(* Values for model checking HDF5DataStore: keys of two events with one or *)
(* two fragments each, in stores of each operation mode.                   *)
(***************************************************************************)
EXTENDS HDF5DataStore

Fragment(e, g) == StorageKey(e, "FELIX", g)

TwoKeys == {Fragment(1, 0), Fragment(2, 0)}
OneNegative == {Fragment(1, 0), Fragment(1, 1), Fragment(-1, 0)}
OneEvent == {Fragment(1, 0), Fragment(1, 1)}
ThreeKeys == OneEvent \cup TwoKeys

Fake == << Literal("fake") >>
MCPrefixes == {Fake}
PlainRegex == [p \in Prefixes |-> {p}]

EventFiles == [s \in Stores |-> [prefix |-> Fake, mode |-> "one-event-per-file"]]
FragmentFiles == [s \in Stores |-> [prefix |-> Fake, mode |-> "one-fragment-per-file"]]
OneFile == [s \in Stores |-> [prefix |-> Fake, mode |-> "all-per-file"]]
=============================================================================
