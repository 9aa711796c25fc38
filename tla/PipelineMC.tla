----------------------------- MODULE PipelineMC -----------------------------
(***************************************************************************)
(* Values for model checking Pipeline: the fragments of two events, in the *)
(* modes of test/data-combiner-demo.json.                                  *)
(***************************************************************************)
EXTENDS Pipeline

Fragment(e, g) == StorageKey(e, "FELIX", g)

MCFragments == << Fragment(1, 0), Fragment(1, 1), Fragment(2, 0) >>

\* A listing reports keys without their detector.
MCKeys == {Fragment(e, g) : e \in {1, 2}, g \in {0, 1}}
            \cup {StorageKey(e, INVALID_DETECTORID, g) : e \in {1, 2}, g \in {0, 1}}

Demo == << Literal("demo") >>
MCPrefixes == {Demo}

MCConf ==
  [s \in Stores |-> [prefix |-> Demo,
                     mode |-> IF s = Out THEN "one-event-per-file" ELSE "one-fragment-per-file"]]

MCRegex == [p \in Prefixes |-> {p}]
=============================================================================
