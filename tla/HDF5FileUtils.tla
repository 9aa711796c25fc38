--------------------------- MODULE HDF5FileUtils ---------------------------
(***************************************************************************)
(* getAllDataSetPaths (plugins/HDF5FileUtils.hpp): the descent through the *)
(* groups of a file that collects the paths of its datasets.  A file, or a *)
(* group, is an object with named children; a path is the sequence of the  *)
(* names on the way, which the code joins with '/'.                        *)
(***************************************************************************)
EXTENDS Sequences, FiniteSets

LOCAL INSTANCE SequencesExt

Dataset == [type |-> "Dataset", child |-> << >>]
Other == [type |-> "Other", child |-> << >>]    \* a named data type, say
Group(children) == [type |-> "Group", child |-> children]

ObjectNames(group) == SetToSeq(DOMAIN group.child)

\* Mutant: the descent starts each path anew.
ChildPath_NoParent(parentPath, name) == << name >>

ChildPath(parentPath, name) == Append(parentPath, name)

Descends(child) == child.type = "Group"

RECURSIVE addDataSetsToPath(_, _, _)

\* pathList with the paths of all datasets under parentGroup added.
addDataSetsToPath(parentGroup, parentPath, pathList) ==
  FoldLeft(LAMBDA list, name :
             LET child == parentGroup.child[name]
                 fullPath == ChildPath(parentPath, name)
             IN  IF child.type = "Dataset" THEN Append(list, fullPath)
                 ELSE IF Descends(child) THEN addDataSetsToPath(child, fullPath, list)
                 ELSE list,
           pathList, ObjectNames(parentGroup))

\* The top level of a file is walked as the groups below it, with no parent path.
getAllDataSetPaths(hdfFile) == addDataSetsToPath(hdfFile, << >>, << >>)

----------------------------------------------------------------------------
(* The reference: a path leads to an object if its names can be followed *)

RECURSIVE ObjectAt(_, _)

ObjectAt(object, path) ==
  IF path = << >> THEN object
  ELSE IF Head(path) \in DOMAIN object.child THEN ObjectAt(object.child[Head(path)], Tail(path))
  ELSE Other

DataSetPaths(file, names, depth) ==
  {path \in UNION {[1 .. n -> names] : n \in 1 .. depth} : ObjectAt(file, path) = Dataset}
=============================================================================
