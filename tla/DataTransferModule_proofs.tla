--------------------- MODULE DataTransferModule_proofs ---------------------
(***************************************************************************)
(* Invariants of DataTransferModule for every set of targets and keys,     *)
(* with and without faults and blocks that arrive during the copy, and for *)
(* any number of copies, restarts and commands in any order.               *)
(***************************************************************************)
EXTENDS DataTransferModule, FiniteSetTheorems, TLAPS

Copying == {"list", "copy", "write"}

\* The types, and what holds whether or not commands keep the order.
TypeInv ==
  /\ TypeOK
  /\ worker \in Copying => inputDataStore_ # NoStore /\ outputDataStore_ # NoStore
  /\ worker = "write" => block \in Keys \X BlockContents

----------------------------------------------------------------------------
(* Types *)

LEMMA NoPayloadTyped == NoPayload \in Payloads
BY DEF NoPayload, Payloads

LEMMA PayloadTyped ==
  ASSUME NEW p \in Payloads
  PROVE  p.input \in Targets \cup {NoStore} /\ p.output \in Targets \cup {NoStore}
BY DEF Payloads

LEMMA InitType == Init => TypeInv
BY NoPayloadTyped DEF Init, ModuleInit, TypeInv, TypeOK, ModuleTypeOK, Copying

\* The end of the process, for whatever reason.
LEMMA EndsType ==
  ASSUME TypeInv, NEW cause \in {"missing field", "no data store", "duplicate", "store failed",
                                 "undefined behaviour", "killed"},
         Ends(cause), copied' \subseteq stored', stored' \subseteq Targets \X Keys \X Contents
  PROVE  TypeInv'
BY NoPayloadTyped DEF Ends, Dies, Fresh, TypeInv, TypeOK, ModuleTypeOK, Copying

LEMMA PutType ==
  ASSUME TypeInv, worker = "write", NEW content \in Contents, Put(content)
  PROVE  copied' \subseteq stored' /\ stored' \subseteq Targets \X Keys \X Contents
<1>1. outputDataStore_ \in Targets /\ block[1] \in Keys
  BY DEF TypeInv, TypeOK, Copying
<1>2. << outputDataStore_, block[1], content >> \in Targets \X Keys \X Contents
  BY <1>1
<1> QED
  BY <1>2 DEF TypeInv, TypeOK, Put

LEMMA CopiedTyped ==
  ASSUME TypeInv, worker = "write"
  PROVE  Copied \in Contents
<1>1. block[2] \in BlockContents
  BY DEF TypeInv
<1> QED
  BY <1>1 DEF Copied, Contents, BlockContents

\* The actions that end the process.
Ending == ConfAborts \/ NoDataStore \/ StoreThrows \/ Undefined \/ Killed

LEMMA EndingType ==
  ASSUME TypeInv, Ending
  PROVE  TypeInv'
<1>1. copied \subseteq stored /\ stored \subseteq Targets \X Keys \X Contents
  BY DEF TypeInv, TypeOK
<1>2. CASE ConfAborts \/ NoDataStore \/ Undefined \/ Killed
  BY <1>1, <1>2, EndsType DEF ConfAborts, NoDataStore, Undefined, Killed
<1>3. CASE StoreThrows
  <2>1. "unwritten" \in Contents /\ (worker = "write" => Copied \in Contents)
    BY CopiedTyped DEF Contents
  <2> QED
    BY <1>1, <1>3, <2>1, EndsType, PutType DEF StoreThrows
<1> QED
  BY <1>2, <1>3 DEF Ending

LEMMA CommandType ==
  ASSUME TypeInv, Command, ~ConfAborts
  PROVE  TypeInv'
<1> USE DEF TypeInv, TypeOK, ModuleTypeOK, Copying, conf, copy
<1>1. CASE do_conf
  BY <1>1 DEF do_conf, Begins, Accepts
<1>2. CASE ConfInput
  BY <1>2, PayloadTyped DEF ConfInput, CommandMoves
<1>3. CASE ConfOutput
  BY <1>3, PayloadTyped DEF ConfOutput, Succeeds
<1>4. CASE ConfFails
  BY <1>4 DEF ConfFails, CommandMoves
<1>5. CASE do_start
  BY <1>5 DEF do_start, StartThread, Accepts
<1>6. CASE do_stop
  BY <1>6 DEF do_stop, StopThread, ClearFlag, Accepts
<1>7. CASE do_stop_returns
  BY <1>7 DEF do_stop_returns, StopReturns, Succeeds
<1>8. CASE do_unconfigure
  BY <1>8 DEF do_unconfigure, AtOnce, Accepts
<1> QED
  BY <1>1, <1>2, <1>3, <1>4, <1>5, <1>6, <1>7, <1>8 DEF Command

LEMMA WorkType ==
  ASSUME TypeInv, Work, ~Ending
  PROVE  TypeInv'
<1> USE DEF TypeInv, TypeOK, ModuleTypeOK, Copying, WorkerMoves, conf, copy
<1>1. CASE CheckStores
  BY <1>1 DEF CheckStores
<1>2. CASE getAllExistingKeys
  BY <1>2 DEF getAllExistingKeys, Listed
<1>3. CASE Read
  <2>1. PICK k \in keyList :
          /\ keyList' = keyList \ {k}
          /\ block' = << k, Content(k) >> \/ block' = << k, "unset" >>
    BY <1>3 DEF Read
  <2>2. << k, Content(k) >> \in Keys \X BlockContents /\ << k, "unset" >> \in Keys \X BlockContents
    <3>1. k \in Keys /\ Content(k) \in BlockContents /\ "unset" \in BlockContents
      BY DEF BlockContents, Content
    <3> QED
      BY <3>1
  <2>3. block' \in Keys \X BlockContents
    BY <2>1, <2>2
  <2>4. keyList' \subseteq Keys
    BY <2>1
  <2> QED
    BY <1>3, <2>3, <2>4 DEF Read
<1>4. CASE Write
  <2>1. worker = "write" /\ Copied \in Contents
    BY <1>4, CopiedTyped DEF Write
  <2>2. copied' \subseteq stored' /\ stored' \subseteq Targets \X Keys \X Contents
    BY <1>4, <2>1, PutType DEF Write
  <2> QED
    BY <1>4, <2>2 DEF Write
<1>5. CASE Wait \/ Exit
  BY <1>5 DEF Wait, Exit
<1> QED
  BY <1>1, <1>2, <1>3, <1>4, <1>5 DEF Work, Ending

\* The steps that touch nothing but the files.
LEMMA SameType ==
  ASSUME TypeInv, UNCHANGED << moduleVars, conf, copy >>,
         copied' \subseteq stored', stored' \subseteq Targets \X Keys \X Contents
  PROVE  TypeInv'
<1>1. /\ UNCHANGED << rc, cmd, running, worker, died, inOrder >>
      /\ UNCHANGED << payload, inputDataStore_, outputDataStore_, dangling >>
      /\ UNCHANGED << keyList, block, promised >>
  BY DEF moduleVars, conf, copy
<1>2. ModuleTypeOK' /\ dangling' \in BOOLEAN
  BY <1>1 DEF TypeInv, TypeOK, ModuleTypeOK
<1>3. block' \in (Keys \X BlockContents) \cup {NoBlock}
  BY <1>1 DEF TypeInv, TypeOK
<1>4. TypeOK'
  BY <1>1, <1>2, <1>3 DEF TypeInv, TypeOK
<1> QED
  BY <1>1, <1>4 DEF TypeInv, Copying

LEMMA TypeNext ==
  ASSUME TypeInv, [Next]_vars
  PROVE  TypeInv'
<1>1. CASE Boot
  BY <1>1 DEF Boot, ModuleBoot, Fresh, TypeInv, TypeOK, ModuleTypeOK, Copying, conf, copy
<1>2. ASSUME NEW t \in Fed, NEW k \in Keys, Arrive(t, k)
      PROVE  TypeInv'
  <2>1. t \in Targets /\ {"unwritten", "whole"} \subseteq Contents
    BY TransferAssumption DEF Contents
  <2>2. << t, k, "unwritten" >> \in Targets \X Keys \X Contents
    BY <2>1
  <2>3. << t, k, "whole" >> \in Targets \X Keys \X Contents
    BY <2>1
  <2>4. stored' \subseteq Targets \X Keys \X Contents
    BY <1>2, <2>2, <2>3 DEF Arrive, TypeInv, TypeOK
  <2>5. copied' \subseteq stored'
    BY <1>2 DEF Arrive, TypeInv, TypeOK
  <2>6. UNCHANGED << moduleVars, conf, copy >>
    BY <1>2 DEF Arrive
  <2> QED
    BY <2>4, <2>5, <2>6, SameType
<1>3. CASE UNCHANGED vars
  <2>1. UNCHANGED << moduleVars, conf, copy, stored, copied >>
    BY <1>3 DEF vars, moduleVars, conf, copy
  <2>2. copied' \subseteq stored' /\ stored' \subseteq Targets \X Keys \X Contents
    BY <2>1 DEF TypeInv, TypeOK
  <2> QED
    BY <2>1, <2>2, SameType
<1> QED
  BY <1>1, <1>2, <1>3, EndingType, CommandType, WorkType DEF Next, Ending

LEMMA TypeInvariant == Spec => []TypeInv
<1>1. TypeInv /\ [Next]_vars => TypeInv'
  BY TypeNext
<1> QED
  BY <1>1, InitType, PTL DEF Spec

\* Every variable keeps its type, whatever the order of the commands
\* (DataTransferModule.hpp:54-68).
THEOREM TypeCorrect == Spec => []TypeOK
<1>1. TypeInv => TypeOK
  BY DEF TypeInv
<1> QED
  BY <1>1, TypeInvariant, PTL

----------------------------------------------------------------------------
(* Commands in order *)

\* A command and the working thread never meet, and the stores conf has made so
\* far are those of its payload, both of them once it has succeeded.
Ordered ==
  /\ Active => rc = "running"
  /\ cmd \in {"input", "output"} => rc = "initial"
  /\ cmd = "stop" => rc = "running"
  /\ cmd = "output" \/ rc # "initial" => inputDataStore_ = payload.input
  /\ rc # "initial" => outputDataStore_ = payload.output
  /\ dangling = FALSE

OrderInv == inOrder => Ordered

\* The states in which a run control that keeps the order sends a command.
LEMMA InOrderCommand ==
  ASSUME inOrder'
  PROVE  /\ do_conf => rc = "initial"
         /\ do_start \/ do_unconfigure => rc = "configured"
         /\ do_stop => rc = "running"
BY DEF do_conf, Begins, do_start, StartThread, do_stop, StopThread, do_unconfigure, AtOnce, Accepts

LEMMA InOrderBefore ==
  ASSUME Next, inOrder'
  PROVE  inOrder
<1>1. CASE Command
  BY <1>1 DEF Command, do_conf, Begins, ConfInput, CommandMoves, ConfOutput, Succeeds, ConfFails,
     ConfAborts, Ends, Dies, Fresh, do_start, StartThread, do_stop, StopThread, do_stop_returns,
     StopReturns, do_unconfigure, AtOnce, Accepts
<1>2. CASE Work
  BY <1>2 DEF Work, CheckStores, getAllExistingKeys, Read, Write, Wait, Exit, WorkerMoves,
     NoDataStore, StoreThrows, Undefined, Ends, Dies, Fresh
<1>3. CASE Killed \/ Boot
  BY <1>3 DEF Killed, Ends, Dies, Boot, ModuleBoot, Fresh
<1>4. CASE \E t \in Fed, k \in Keys : Arrive(t, k)
  BY <1>4 DEF Arrive, moduleVars
<1> QED
  BY <1>1, <1>2, <1>3, <1>4 DEF Next

LEMMA FreshOrder ==
  ASSUME NEW why, Fresh(why), dangling' = FALSE
  PROVE  Ordered'
BY DEF Fresh, Ordered, Active

LEMMA OrderNext ==
  ASSUME OrderInv, [Next]_vars
  PROVE  OrderInv'
<1> SUFFICES ASSUME inOrder' PROVE Ordered'
  BY DEF OrderInv
<1>1. CASE UNCHANGED vars
  BY <1>1 DEF vars, OrderInv, Ordered, Active
<1>2. CASE Next
  <2>1. Ordered
    BY <1>2, InOrderBefore DEF OrderInv
  <2>2. CASE Ending \/ Boot
    BY <2>1, <2>2, FreshOrder DEF Ending, ConfAborts, NoDataStore, StoreThrows, Undefined, Killed,
       Ends, Dies, Boot, ModuleBoot, conf, Ordered
  <2>3. CASE do_conf
    BY <2>1, <2>3, InOrderCommand DEF do_conf, Begins, Accepts, Ordered, Active
  <2>4. CASE ConfInput \/ ConfOutput \/ ConfFails
    BY <2>1, <2>4 DEF ConfInput, ConfOutput, ConfFails, CommandMoves, Succeeds, conf, Ordered, Active
  <2>5. CASE do_start
    BY <2>1, <2>5, InOrderCommand DEF do_start, StartThread, Accepts, conf, Ordered, Active
  <2>6. CASE do_stop
    BY <2>1, <2>6, InOrderCommand DEF do_stop, StopThread, Accepts, conf, Ordered, Active
  <2>7. CASE do_stop_returns
    BY <2>1, <2>7 DEF do_stop_returns, StopReturns, Joined, Succeeds, conf, Ordered, Active
  <2>8. CASE do_unconfigure
    BY <2>1, <2>8, InOrderCommand DEF do_unconfigure, AtOnce, Accepts, conf, Ordered, Active
  <2>9. CASE CheckStores \/ getAllExistingKeys \/ Read \/ Write \/ Wait \/ Exit
    BY <2>1, <2>9 DEF CheckStores, getAllExistingKeys, Read, Write, Wait, Exit, WorkerMoves, conf,
       Ordered, Active
  <2>10. CASE \E t \in Fed, k \in Keys : Arrive(t, k)
    BY <2>1, <2>10 DEF Arrive, moduleVars, conf, Ordered, Active
  <2> QED
    BY <1>2, <2>2, <2>3, <2>4, <2>5, <2>6, <2>7, <2>8, <2>9, <2>10 DEF Next, Command, Work, Ending
<1> QED
  BY <1>1, <1>2

LEMMA InitOrder == Init => OrderInv
BY DEF Init, ModuleInit, OrderInv, Ordered, Active

LEMMA OrderInvariant == Spec => []OrderInv
<1>1. OrderInv /\ [Next]_vars => OrderInv'
  BY OrderNext
<1> QED
  BY <1>1, InitOrder, PTL DEF Spec

\* As long as commands keep the order, a working thread copies between the two
\* stores of one payload, the last, and neither is destroyed under it
\* (DataTransferModule.cpp:58-62, 106-109).
THEOREM ConfigurationIsWholeHolds == Spec => []ConfigurationIsWhole
<1>1. OrderInv => ConfigurationIsWhole
  BY DEF OrderInv, Ordered, ConfigurationIsWhole
<1> QED
  BY <1>1, OrderInvariant, PTL

----------------------------------------------------------------------------
(* The copy *)

Good(c) == c = "whole" \/ (c = "garbled" /\ Faults)

Arrived(k) == \E c \in Contents : << outputDataStore_, k, c >> \in stored /\ Good(c)

\* A promised block is still to copy, in the hands of the thread, or in the output.
Kept(k) ==
  \/ k \in keyList
  \/ worker = "write" /\ block[1] = k /\ (block[2] = "whole" \/ (block[2] = "unset" /\ Faults))
  \/ Arrived(k)

Progress ==
  /\ worker \in {"copy", "write"} =>
       \A k \in promised : << inputDataStore_, k, "whole" >> \in stored
  /\ rc = "running" /\ worker \in {"copy", "write", "wait", "done"} => \A k \in promised : Kept(k)
  /\ rc = "running" /\ worker \in {"wait", "done"} => keyList = {}

CopyInv == inOrder => Progress

\* What has its data stays, whoever writes.
LEMMA StoredStays ==
  ASSUME Next, NEW x \in stored, x[3] # "unwritten"
  PROVE  x \in stored'
<1>1. CASE Command
  BY <1>1 DEF Command, do_conf, ConfInput, ConfOutput, ConfFails, ConfAborts, do_start, do_stop,
     do_stop_returns, do_unconfigure
<1>2. CASE Work \/ Killed \/ Boot
  BY <1>2 DEF Work, CheckStores, NoDataStore, getAllExistingKeys, Read, Write, StoreThrows, Put,
     Undefined, Wait, Exit, Killed, Boot
<1>3. CASE \E t \in Fed, k \in Keys : Arrive(t, k)
  BY <1>3 DEF Arrive
<1> QED
  BY <1>1, <1>2, <1>3 DEF Next

LEMMA ArrivedStays ==
  ASSUME Next, outputDataStore_' = outputDataStore_, NEW k \in promised, Arrived(k)
  PROVE  Arrived(k)'
<1>1. PICK c \in Contents : << outputDataStore_, k, c >> \in stored /\ Good(c)
  BY DEF Arrived
<1>2. << outputDataStore_, k, c >> \in stored'
  BY <1>1, StoredStays DEF Good
<1> QED
  BY <1>1, <1>2 DEF Arrived, Good

LEMMA WholeStays ==
  ASSUME Next, inputDataStore_' = inputDataStore_, NEW k, << inputDataStore_, k, "whole" >> \in stored
  PROVE  << inputDataStore_, k, "whole" >>' \in stored'
BY StoredStays

\* The steps that leave the copy alone.
LEMMA Elsewhere ==
  ASSUME Next, Progress, UNCHANGED << conf, copy >>, worker' = worker, rc' = rc
  PROVE  Progress'
<1>1. outputDataStore_' = outputDataStore_ /\ inputDataStore_' = inputDataStore_
      /\ keyList' = keyList /\ block' = block /\ promised' = promised
  BY DEF conf, copy
<1>2. \A k \in promised : Kept(k) => Kept(k)'
  BY <1>1, ArrivedStays DEF Kept, Good
<1>3. \A k \in promised : << inputDataStore_, k, "whole" >> \in stored =>
                          << inputDataStore_, k, "whole" >>' \in stored'
  BY <1>1, WholeStays
<1> QED
  BY <1>1, <1>2, <1>3 DEF Progress

LEMMA ListCopy ==
  ASSUME TypeInv, getAllExistingKeys
  PROVE  Progress'
<1>1. /\ worker' = "copy" /\ keyList' = Listed /\ stored' = stored
      /\ inputDataStore_' = inputDataStore_
      /\ promised' = {k \in Keys : << inputDataStore_, k, "whole" >> \in stored}
  BY DEF getAllExistingKeys, WorkerMoves, conf
<1>2. \A k \in promised' : k \in keyList'
  BY <1>1 DEF Listed, Holds, Contents
<1> QED
  BY <1>1, <1>2 DEF Progress, Kept

LEMMA ReadCopy ==
  ASSUME TypeInv, Ordered, Progress, Read
  PROVE  Progress'
<1>1. PICK r \in keyList :
        /\ keyList' = keyList \ {r}
        /\ block' = << r, Content(r) >> \/ (Faults /\ block' = << r, "unset" >>)
  BY DEF Read
<1>2. /\ worker = "copy" /\ rc = "running" /\ worker' = "write" /\ promised' = promised
      /\ stored' = stored /\ inputDataStore_' = inputDataStore_
      /\ outputDataStore_' = outputDataStore_
  BY DEF Read, WorkerMoves, conf, Ordered, Active
<1>3. ASSUME NEW k \in promised PROVE Kept(k)'
  <2>1. Kept(k) /\ << inputDataStore_, k, "whole" >> \in stored
    BY <1>2 DEF Progress
  <2>2. CASE k = r
    BY <1>1, <1>2, <2>1, <2>2 DEF Kept, Good, Content
  <2>3. CASE k # r
    BY <1>1, <1>2, <2>1, <2>3 DEF Kept, Arrived, Good
  <2> QED
    BY <2>2, <2>3
<1> QED
  BY <1>2, <1>3 DEF Progress

LEMMA WriteCopy ==
  ASSUME TypeInv, Ordered, Progress, Write
  PROVE  Progress'
<1>1. /\ worker = "write" /\ rc = "running" /\ worker' = "copy" /\ promised' = promised
      /\ keyList' = keyList /\ inputDataStore_' = inputDataStore_
      /\ outputDataStore_' = outputDataStore_
      /\ stored' = stored \cup {<< outputDataStore_, block[1], Copied >>}
  BY DEF Write, Put, WorkerMoves, conf, Ordered, Active
<1>2. "whole" \in Contents /\ "garbled" \in Contents
  BY DEF Contents
<1>3. ASSUME NEW k \in promised PROVE Kept(k)'
  <2>1. Kept(k)
    BY <1>1 DEF Progress
  <2> QED
    BY <1>1, <1>2, <2>1 DEF Copied, Kept, Arrived, Good
<1> QED
  BY <1>1, <1>3 DEF Progress

LEMMA CopyNext ==
  ASSUME TypeInv, OrderInv, CopyInv, [Next]_vars
  PROVE  CopyInv'
<1> SUFFICES ASSUME inOrder' PROVE Progress'
  BY DEF CopyInv
<1>1. CASE UNCHANGED vars
  BY <1>1 DEF vars, CopyInv, Progress, Kept, Arrived, Good
<1>2. CASE Next
  <2>1. Ordered /\ Progress
    BY <1>2, InOrderBefore DEF OrderInv, CopyInv
  <2>2. CASE Ending \/ Boot
    BY <2>2 DEF Ending, ConfAborts, NoDataStore, StoreThrows, Undefined, Killed, Ends, Dies, Boot,
       ModuleBoot, Fresh, Progress
  <2>3. CASE do_conf \/ do_unconfigure
    BY <2>1, <2>3, InOrderCommand DEF do_conf, Begins, do_unconfigure, AtOnce, Accepts, Ordered,
       Active, Progress
  <2>4. CASE ConfInput \/ ConfOutput \/ ConfFails
    BY <2>1, <2>4 DEF ConfInput, ConfOutput, ConfFails, CommandMoves, Succeeds, Ordered, Active,
       Progress
  <2>5. CASE do_start
    BY <2>5 DEF do_start, StartThread, Progress
  <2>6. CASE do_stop
    BY <1>2, <2>1, <2>6, Elsewhere DEF do_stop, StopThread
  <2>7. CASE do_stop_returns
    BY <2>1, <2>7 DEF do_stop_returns, StopReturns, Joined, Succeeds, Progress
  <2>8. CASE CheckStores
    BY <2>8 DEF CheckStores, WorkerMoves, Progress
  <2>9. CASE Wait
    BY <2>1, <2>9 DEF Wait, CopyDone, WorkerMoves, conf, copy, Ordered, Active, Progress, Kept,
       Arrived, Good
  <2>10. CASE Exit
    BY <2>1, <2>10 DEF Exit, WorkerMoves, conf, copy, Ordered, Active, Progress, Kept, Arrived, Good
  <2>11. CASE \E t \in Fed, k \in Keys : Arrive(t, k)
    BY <1>2, <2>1, <2>11, Elsewhere DEF Arrive, moduleVars
  <2> QED
    BY <1>2, <2>1, <2>2, <2>3, <2>4, <2>5, <2>6, <2>7, <2>8, <2>9, <2>10, <2>11, ListCopy, ReadCopy,
       WriteCopy DEF Next, Command, Work, Ending
<1> QED
  BY <1>1, <1>2

LEMMA InitCopy == Init => CopyInv
BY DEF Init, ModuleInit, CopyInv, Progress

LEMMA CopyInvariant == Spec => []CopyInv
<1>1. TypeInv /\ OrderInv /\ CopyInv /\ [Next]_vars => CopyInv'
  BY CopyNext
<1> QED
  BY <1>1, InitCopy, TypeInvariant, OrderInvariant, PTL DEF Spec

\* As long as commands keep the order, a stop finds every block that was whole when
\* the input was listed in the output, with its data unless a read failed unnoticed
\* (DataTransferModule.cpp:106-116).
THEOREM CopyCompleteHolds == Spec => []CopyComplete
<1>1. ASSUME OrderInv, CopyInv, inOrder, worker = "wait" \/ (worker = "done" /\ cmd = "stop"),
             NEW k \in promised
      PROVE  \E c \in Contents :
               /\ << outputDataStore_, k, c >> \in stored
               /\ c = "whole" \/ (c = "garbled" /\ Faults)
  <2>1. rc = "running" /\ Progress
    BY <1>1 DEF OrderInv, CopyInv, Ordered, Active
  <2> QED
    BY <1>1, <2>1 DEF Progress, Kept, Arrived, Good
<1>2. OrderInv /\ CopyInv => CopyComplete
  BY <1>1 DEF CopyComplete
<1> QED
  BY <1>2, OrderInvariant, CopyInvariant, PTL

----------------------------------------------------------------------------
(* Stopping *)

\* While a stop waits the flag is cleared, and the files hold finitely many
\* blocks, so a listing is finite: what a copy has to do has a measure.
StopSeen == cmd = "stop" => ~running

Finite == IsFiniteSet(stored) /\ IsFiniteSet(keyList)

StopInv == StopSeen /\ Finite

LEMMA StopSeenNext ==
  ASSUME StopSeen, [Next]_vars
  PROVE  StopSeen'
<1> USE DEF StopSeen
<1>1. CASE UNCHANGED vars
  BY <1>1 DEF vars
<1>2. CASE Command
  BY <1>2 DEF Command, do_conf, Begins, ConfInput, CommandMoves, ConfOutput, Succeeds, ConfFails,
     ConfAborts, Ends, Dies, Fresh, do_start, StartThread, do_stop, StopThread, ClearFlag,
     do_stop_returns, StopReturns, do_unconfigure, AtOnce, Accepts
<1>3. CASE Work
  BY <1>3 DEF Work, CheckStores, getAllExistingKeys, Read, Write, Wait, Exit, WorkerMoves,
     NoDataStore, StoreThrows, Undefined, Ends, Dies, Fresh
<1>4. CASE Killed \/ Boot
  BY <1>4 DEF Killed, Ends, Dies, Boot, ModuleBoot, Fresh
<1>5. CASE \E t \in Fed, k \in Keys : Arrive(t, k)
  BY <1>5 DEF Arrive, moduleVars
<1> QED
  BY <1>1, <1>2, <1>3, <1>4, <1>5 DEF Next

LEMMA ListedFinite ==
  ASSUME IsFiniteSet(stored)
  PROVE  IsFiniteSet(Listed)
<1> DEFINE keyOf == [s \in stored |-> s[2]]
<1> DEFINE names == {s[2] : s \in stored}
<1>1. keyOf \in Surjection(stored, names)
  BY DEF Surjection
<1>2. ASSUME NEW k \in Listed
      PROVE  k \in names
  <2>1. PICK c \in Contents : << inputDataStore_, k, c >> \in stored
    BY DEF Listed, Holds
  <2>2. << inputDataStore_, k, c >>[2] = k
    OBVIOUS
  <2> QED
    BY <2>1, <2>2
<1> HIDE DEF keyOf, names
<1>3. IsFiniteSet(names)
  BY <1>1, FS_Surjection
<1> QED
  BY <1>2, <1>3, FS_Subset

\* A step adds at most one block to the files.
LEMMA StoredGrows ==
  ASSUME Next
  PROVE  \E b : stored' \subseteq stored \cup {b}
<1>1. CASE Command
  BY <1>1 DEF Command, do_conf, ConfInput, ConfOutput, ConfFails, ConfAborts, do_start, do_stop,
     do_stop_returns, do_unconfigure
<1>2. CASE Work
  BY <1>2 DEF Work, CheckStores, getAllExistingKeys, Read, Write, Wait, Exit, NoDataStore,
     StoreThrows, Undefined, Put
<1>3. CASE Killed \/ Boot
  BY <1>3 DEF Killed, Boot
<1>4. ASSUME NEW t \in Fed, NEW k \in Keys, Arrive(t, k)
      PROVE  \E b : stored' \subseteq stored \cup {b}
  BY <1>4 DEF Arrive
<1> QED
  BY <1>1, <1>2, <1>3, <1>4 DEF Next

LEMMA KeyListShrinks ==
  ASSUME Next
  PROVE  keyList' \subseteq keyList \/ keyList' = Listed
<1>1. CASE Command
  BY <1>1 DEF Command, do_conf, ConfInput, ConfOutput, ConfFails, ConfAborts, Ends, do_start,
     do_stop, do_stop_returns, do_unconfigure, copy
<1>2. CASE Work
  BY <1>2 DEF Work, CheckStores, getAllExistingKeys, Read, Write, Wait, Exit, NoDataStore,
     StoreThrows, Undefined, Ends, copy
<1>3. CASE Killed \/ Boot
  BY <1>3 DEF Killed, Ends, Boot, copy
<1>4. CASE \E t \in Fed, k \in Keys : Arrive(t, k)
  BY <1>4 DEF Arrive, copy
<1> QED
  BY <1>1, <1>2, <1>3, <1>4 DEF Next

LEMMA FiniteNext ==
  ASSUME Finite, [Next]_vars
  PROVE  Finite'
<1>1. CASE UNCHANGED vars
  BY <1>1 DEF vars, Finite
<1>2. CASE Next
  <2>1. PICK b : stored' \subseteq stored \cup {b}
    BY <1>2, StoredGrows
  <2>2. IsFiniteSet(stored \cup {b})
    BY FS_AddElement DEF Finite
  <2>3. IsFiniteSet(stored')
    BY <2>1, <2>2, FS_Subset
  <2>4. IsFiniteSet(keyList')
    BY <1>2, KeyListShrinks, ListedFinite, FS_Subset DEF Finite
  <2> QED
    BY <2>3, <2>4 DEF Finite
<1> QED
  BY <1>1, <1>2

LEMMA StopInvariant == Spec => []StopInv
<1>1. Init => StopInv
  BY FS_EmptySet DEF Init, ModuleInit, StopInv, StopSeen, Finite
<1>2. StopInv /\ [Next]_vars => StopInv'
  BY StopSeenNext, FiniteNext DEF StopInv
<1> QED
  BY <1>1, <1>2, PTL DEF Spec

\* The only steps under a stop that waits are those of the working thread, and
\* blocks that arrive.
LEMMA StopLeavesWork ==
  ASSUME Next, cmd = "stop", cmd' = "stop"
  PROVE  ~Ending /\ (Work \/ UNCHANGED << worker, keyList >>)
<1>1. ~Command
  BY DEF Command, do_conf, Begins, ConfInput, CommandMoves, ConfOutput, Succeeds, ConfFails,
     ConfAborts, Ends, Dies, Fresh, do_start, StartThread, do_stop, StopThread,
     do_stop_returns, StopReturns, do_unconfigure, AtOnce, Accepts
<1>2. ~Boot /\ ~Ending
  BY DEF Boot, ModuleBoot, Ending, ConfAborts, NoDataStore, StoreThrows, Undefined, Killed, Ends,
     Dies, Fresh
<1>3. CASE \E t \in Fed, k \in Keys : Arrive(t, k)
  BY <1>2, <1>3 DEF Arrive, moduleVars, copy
<1> QED
  BY <1>1, <1>2, <1>3 DEF Next, Ending

LEMMA StopStepAdvances ==
  ASSUME Finite, Work, ~Ending
  PROVE  Phase' < Phase \/ (Phase' = Phase /\ CopyLeft' < CopyLeft)
<1> USE DEF WorkerMoves, Phase
<1>1. CASE CheckStores \/ getAllExistingKeys \/ Wait \/ Exit
  BY <1>1 DEF CheckStores, getAllExistingKeys, Wait, Exit
<1>2. Cardinality(keyList) \in Nat
  BY FS_CardinalityType DEF Finite
<1>3. CASE Read
  <2>1. PICK k \in keyList : keyList' = keyList \ {k}
    BY <1>3 DEF Read
  <2>2. Cardinality(keyList') = Cardinality(keyList) - 1
    BY <2>1, FS_RemoveElement DEF Finite
  <2>3. worker = "copy" /\ worker' = "write"
    BY <1>3 DEF Read
  <2>4. CopyLeft = 2 * Cardinality(keyList)
    BY <1>2, <2>3 DEF CopyLeft
  <2>5. CopyLeft' = 2 * (Cardinality(keyList) - 1) + 1
    BY <1>2, <2>2, <2>3 DEF CopyLeft
  <2>6. CopyLeft' < CopyLeft
    BY <1>2, <2>4, <2>5
  <2> QED
    BY <2>3, <2>6
<1>4. CASE Write
  <2>1. worker = "write" /\ worker' = "copy" /\ keyList' = keyList
    BY <1>4 DEF Write
  <2>2. CopyLeft = 2 * Cardinality(keyList) + 1
    BY <1>2, <2>1 DEF CopyLeft
  <2>3. CopyLeft' = 2 * Cardinality(keyList)
    BY <1>2, <2>1 DEF CopyLeft
  <2>4. CopyLeft' < CopyLeft
    BY <1>2, <2>2, <2>3
  <2> QED
    BY <2>1, <2>4
<1> QED
  BY <1>1, <1>3, <1>4 DEF Work, Ending

\* While a stop waits, the blocks that arrive change nothing of what the working
\* thread has to do, and every step of it leaves fewer phases of do_work, or the
\* same and less of the copy, for any number of keys
\* (DataTransferModule.cpp:76-83, 106-116).
THEOREM StopAdvancesHolds == Spec => StopAdvances
<1>1. StopInv /\ [Next]_vars =>
        [cmd = "stop" /\ cmd' = "stop" =>
           \/ ~Work /\ UNCHANGED << worker, keyList >>
           \/ Work /\ Phase' < Phase
           \/ Work /\ Phase' = Phase /\ CopyLeft' < CopyLeft]_vars
  BY StopLeavesWork, StopStepAdvances DEF StopInv
<1> QED
  BY <1>1, StopInvariant, PTL DEF Spec, StopAdvances
=============================================================================
