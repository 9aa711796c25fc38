----------------------------- MODULE DataStore -----------------------------
(***************************************************************************)
(* What a DataStore (include/ddpdemo/DataStore.hpp:70-109) promises to its *)
(* callers: a place receives at most one block, a block is never changed,  *)
(* and a block whose write() has returned is there for good, whatever      *)
(* happens to the process.                                                 *)
(***************************************************************************)

CONSTANTS Places, Blocks

VARIABLES
  stored,    \* <<place, block>>: what a reader finds
  durable,   \* the part of stored that survives the process
  acked      \* the part whose write has returned

vars == << stored, durable, acked >>

Init == stored = {} /\ durable = {} /\ acked = {}

\* A block arrives at a place that has none.
Store(p, b) ==
  /\ \A c \in Blocks : << p, c >> \notin stored
  /\ stored' = stored \cup {<< p, b >>}
  /\ UNCHANGED << durable, acked >>

\* More of what is stored becomes durable.
Sync ==
  /\ durable \subseteq durable'
  /\ durable' \subseteq stored
  /\ UNCHANGED << stored, acked >>

\* A write returns: its block is durable from here on.
Ack(p, b) ==
  /\ << p, b >> \in stored
  /\ durable \cup {<< p, b >>} \subseteq durable'
  /\ durable' \subseteq stored
  /\ acked' = acked \cup {<< p, b >>}
  /\ UNCHANGED stored

\* The process dies: what is not durable may be lost.
Die ==
  /\ durable \subseteq stored'
  /\ stored' \subseteq stored
  /\ durable' = stored'
  /\ UNCHANGED acked

Next ==
  \/ \E p \in Places, b \in Blocks : Store(p, b) \/ Ack(p, b)
  \/ Sync
  \/ Die

Spec == Init /\ [][Next]_vars
=============================================================================
