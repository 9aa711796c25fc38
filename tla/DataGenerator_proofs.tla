------------------------ MODULE DataGenerator_proofs ------------------------
(***************************************************************************)
(* Invariants of DataGenerator for every set of targets and sizes, for     *)
(* counts and events that fit an int, with and without faults, and for any *)
(* number of restarts and commands in any order.                           *)
(***************************************************************************)
EXTENDS DataGenerator, TLAPS

Writing == {"malloc", "while", "for", "write"}

\* The types, and what holds whether or not commands keep the order.
Numbers ==
  /\ nGeoLoc_ \in 0 .. IntMax + 1 /\ io_size_ \in Nat
  /\ eventID \in Nat /\ eventID # 0
  /\ geoID \in Nat /\ membuffer \in Nat /\ data_size \in Nat

Others ==
  /\ ModuleTypeOK
  /\ cmd \in {"idle", "conf", "makeDataStore", "stop"}
  /\ worker \in {"none", "entry", "malloc", "while", "for", "write", "done"}
  /\ died \in {"no", "missing field", "no data writer", "duplicate", "write failed",
              "undefined behaviour", "killed"}
  /\ payload \in Payloads
  /\ dataWriter_ \in Targets \cup {NoStore}
  /\ dangling \in BOOLEAN
  /\ stored \subseteq Targets \X Nat \X Nat
  /\ written \subseteq Nat \X Nat
  /\ worker \in Writing => dataWriter_ # NoStore

\* The location of a block fits an int.
Fits == worker = "write" => geoID <= IntMax

TypeInv == Numbers /\ Others /\ Fits

----------------------------------------------------------------------------
(* Types *)

LEMMA DefaultsTyped ==
  REASONABLE_DEFAULT_GEOLOC \in 0 .. IntMax + 1 /\ REASONABLE_IO_SIZE_BYTES \in Nat
BY GeneratorAssumption DEF REASONABLE_IO_SIZE_BYTES

LEMMA ValueTyped ==
  ASSUME NEW p \in Payloads
  PROVE  /\ Value(p.geo, REASONABLE_DEFAULT_GEOLOC) \in 0 .. IntMax + 1
         /\ Value(p.size, REASONABLE_IO_SIZE_BYTES) \in Nat
         /\ p.target \in Targets \cup {NoStore}
<1>1. /\ p.geo \in Counts \cup {Absent}
      /\ p.size \in Sizes \cup {Absent}
      /\ p.target \in Targets \cup {NoStore}
  BY DEF Payloads
<1>2. Counts \subseteq 0 .. IntMax + 1 /\ Sizes \subseteq Nat
  BY GeneratorAssumption
<1> QED
  BY <1>1, <1>2, DefaultsTyped DEF Value

LEMMA NoPayloadTyped == NoPayload \in Payloads
BY DEF NoPayload, Payloads

LEMMA InitType == Init => TypeInv
<1> SUFFICES ASSUME Init PROVE TypeInv
  OBVIOUS
<1>1. Numbers
  BY DefaultsTyped DEF Init, Numbers
<1>2. Others
  BY NoPayloadTyped DEF Init, ModuleInit, Others, ModuleTypeOK, Writing
<1>3. Fits
  BY DEF Init, ModuleInit, Fits
<1> QED
  BY <1>1, <1>2, <1>3 DEF TypeInv

LEMMA EndsNumbers ==
  ASSUME NEW cause, Ends(cause)
  PROVE  Numbers'
<1>1. /\ nGeoLoc_' = REASONABLE_DEFAULT_GEOLOC /\ io_size_' = REASONABLE_IO_SIZE_BYTES
      /\ eventID' = 1 /\ geoID' = 0 /\ membuffer' = 0 /\ data_size' = 0
  BY DEF Ends
<1> QED
  BY <1>1, DefaultsTyped DEF Numbers

\* The end of the process, for whatever reason.
LEMMA EndsType ==
  ASSUME TypeInv, NEW cause \in {"missing field", "no data writer", "duplicate", "write failed",
                                 "undefined behaviour", "killed"},
         Ends(cause), stored' \subseteq Targets \X Nat \X Nat
  PROVE  TypeInv'
<1>1. Numbers'
  BY EndsNumbers
<1>2. Others'
  BY NoPayloadTyped DEF Ends, Dies, Fresh, TypeInv, Others, ModuleTypeOK, Writing
<1>3. Fits'
  BY DEF Ends, Dies, Fresh, Fits
<1> QED
  BY <1>1, <1>2, <1>3 DEF TypeInv

\* The narrowing to int changes no location number within the bound.
LEMMA ToIntKeeps ==
  ASSUME NEW g \in 0 .. IntMax
  PROVE  ToInt(g) = g
<1> DEFINE w == IntMax + 1
<1>1. w \in Nat \ {0} /\ 2 * w \in Nat \ {0} /\ g + w \in 0 .. 2 * w - 1
  BY GeneratorAssumption
<1>2. \A m \in Nat \ {0}, n \in Nat : n < m => n % m = n
  OBVIOUS
<1>3. (g + w) % (2 * w) = g + w
  BY <1>1, <1>2
<1> HIDE DEF w
<1>4. (g + w) - w = g
  BY <1>1
<1> QED
  BY <1>3, <1>4, GeneratorAssumption DEF ToInt, w

LEMMA BlockNamed ==
  ASSUME TypeInv, worker = "write"
  PROVE  Block = << dataWriter_, eventID, geoID >>
<1>1. geoID \in 0 .. IntMax
  <2>1. geoID \in Nat /\ geoID <= IntMax
    BY DEF TypeInv, Numbers, Fits
  <2>2. IntMax \in Nat
    BY GeneratorAssumption
  <2> QED
    BY <2>1, <2>2
<1> QED
  BY <1>1, ToIntKeeps DEF Block

LEMMA BlockTyped ==
  ASSUME TypeInv, worker = "write"
  PROVE  Block \in Targets \X Nat \X Nat
<1>1. dataWriter_ \in Targets
  BY DEF TypeInv, Others, Writing
<1>2. eventID \in Nat /\ geoID \in Nat
  BY DEF TypeInv, Numbers
<1> QED
  BY <1>1, <1>2, BlockNamed

\* The actions that end the process.
Ending == ConfAborts \/ NoWriter \/ WriteThrows \/ Undefined \/ Killed

LEMMA EndingType ==
  ASSUME TypeInv, Ending
  PROVE  TypeInv'
<1>1. stored \subseteq Targets \X Nat \X Nat
  BY DEF TypeInv, Others
<1>2. worker = "write" => stored \cup {Block} \subseteq Targets \X Nat \X Nat
  BY <1>1, BlockTyped
<1> QED
  BY <1>1, <1>2, EndsType DEF Ending, ConfAborts, NoWriter, WriteThrows, Undefined, Killed

Steps == Command \/ Work \/ Boot

LEMMA NumbersNext ==
  ASSUME TypeInv, Steps, ~Ending
  PROVE  Numbers'
<1> USE DEF TypeInv, Numbers, conf, locals
<1>1. payload.target \in Targets \cup {NoStore} /\ payload \in Payloads
  BY ValueTyped DEF Others
<1>2. CASE do_conf
  <2>1. PICK p \in Payloads : nGeoLoc_' = Value(p.geo, REASONABLE_DEFAULT_GEOLOC)
    BY <1>2 DEF do_conf
  <2> QED
    BY <1>2, <2>1, ValueTyped DEF do_conf
<1>3. CASE ConfSize
  BY <1>1, <1>3, ValueTyped DEF ConfSize
<1>4. CASE ConfStore \/ ConfFails \/ do_start \/ do_stop \/ do_stop_returns
  BY <1>4 DEF ConfStore, ConfFails, do_start, do_stop, do_stop_returns
<1>5. CASE do_unconfigure
  BY <1>5, DefaultsTyped DEF do_unconfigure
<1>6. CASE CheckWriter \/ Exit \/ Boot
  BY <1>6 DEF CheckWriter, Exit, Boot
<1>7. CASE Allocate \/ NextEvent \/ MakeBlock \/ EventDone
  BY <1>7 DEF Allocate, NextEvent, MakeBlock, EventDone
<1>8. CASE WriteReturns
  BY <1>8 DEF WriteReturns
<1> QED
  BY <1>2, <1>3, <1>4, <1>5, <1>6, <1>7, <1>8 DEF Steps, Command, Work, Ending

LEMMA OthersNext ==
  ASSUME TypeInv, Steps, ~Ending
  PROVE  Others'
<1> USE DEF Others, ModuleTypeOK, Writing
<1>1. Others
  BY DEF TypeInv
<1>2. payload.target \in Targets \cup {NoStore}
  BY <1>1, ValueTyped
<1>3. CASE do_conf
  BY <1>1, <1>3 DEF do_conf, Begins, Accepts, data
<1>4. CASE ConfSize \/ ConfFails
  BY <1>1, <1>4 DEF ConfSize, ConfFails, CommandMoves, conf, data
<1>5. CASE ConfStore
  BY <1>1, <1>2, <1>5 DEF ConfStore, Succeeds
<1>6. CASE do_start
  BY <1>1, <1>6 DEF do_start, StartThread, Accepts, conf
<1>7. CASE do_stop
  BY <1>1, <1>7 DEF do_stop, StopThread, ClearFlag, Accepts, conf, data
<1>8. CASE do_stop_returns
  BY <1>1, <1>8 DEF do_stop_returns, StopReturns, Succeeds, conf, data
<1>9. CASE do_unconfigure
  BY <1>1, <1>9 DEF do_unconfigure, AtOnce, Accepts, data
<1>10. CASE CheckWriter \/ Exit
  BY <1>1, <1>10 DEF CheckWriter, Exit, WorkerMoves, conf, data
<1>11. CASE Allocate \/ NextEvent \/ MakeBlock \/ EventDone
  BY <1>1, <1>11 DEF Allocate, NextEvent, MakeBlock, EventDone, WorkerMoves, conf, data
<1>12. CASE WriteReturns
  <2>1. worker = "write" /\ Block \in Targets \X Nat \X Nat /\ << eventID, geoID >> \in Nat \X Nat
    BY <1>12, BlockTyped DEF WriteReturns, WorkerMoves, TypeInv, Numbers
  <2> QED
    BY <1>1, <1>12, <2>1 DEF WriteReturns, WorkerMoves, conf
<1>13. CASE Boot
  BY <1>1, <1>13 DEF Boot, ModuleBoot, Fresh, conf, data
<1> QED
  BY <1>3, <1>4, <1>5, <1>6, <1>7, <1>8, <1>9, <1>10, <1>11, <1>12, <1>13
     DEF Steps, Command, Work, Ending

LEMMA FitsNext ==
  ASSUME TypeInv, Steps, ~Ending
  PROVE  Fits'
<1> USE DEF Fits, locals
<1>1. Fits
  BY DEF TypeInv
<1>2. CASE Command
  BY <1>1, <1>2 DEF Command, do_conf, Begins, ConfSize, ConfFails, CommandMoves, ConfStore, Succeeds,
     Ending, do_start, StartThread, do_stop, StopThread, do_stop_returns, StopReturns,
     do_unconfigure, AtOnce
<1>3. CASE MakeBlock
  <2>1. geoID < nGeoLoc_ /\ geoID' = geoID
    BY <1>3 DEF MakeBlock, MoreGeo
  <2>2. geoID \in Nat /\ nGeoLoc_ \in 0 .. IntMax + 1 /\ IntMax \in Nat
    BY GeneratorAssumption DEF TypeInv, Numbers
  <2>3. geoID <= IntMax
    BY <2>1, <2>2
  <2> QED
    BY <2>1, <2>3
<1>4. CASE Work /\ ~MakeBlock
  BY <1>4 DEF Work, Ending, CheckWriter, Allocate, NextEvent, Exit, EventDone, WriteReturns,
     WorkerMoves
<1>5. CASE Boot
  BY <1>5 DEF Boot, ModuleBoot, Fresh
<1> QED
  BY <1>2, <1>3, <1>4, <1>5 DEF Steps

LEMMA TypeNext ==
  ASSUME TypeInv, [Next]_vars
  PROVE  TypeInv'
<1>1. CASE UNCHANGED vars
  <2>1. Numbers'
    BY <1>1 DEF vars, TypeInv, Numbers
  <2>2. Others'
    BY <1>1 DEF vars, TypeInv, Others, ModuleTypeOK, Writing
  <2>3. Fits'
    BY <1>1 DEF vars, TypeInv, Fits
  <2> QED
    BY <2>1, <2>2, <2>3 DEF TypeInv
<1>2. Next => Ending \/ (Steps /\ ~Ending)
  BY DEF Next, Steps, Ending
<1> QED
  BY <1>1, <1>2, EndingType, NumbersNext, OthersNext, FitsNext DEF TypeInv

LEMMA TypeInvariant == Spec => []TypeInv
<1>1. TypeInv /\ [Next]_vars => TypeInv'
  BY TypeNext
<1> QED
  BY <1>1, InitType, PTL DEF Spec

\* Every variable keeps its type, whatever the order of the commands
\* (DataGenerator.hpp:60-70).
THEOREM TypeCorrect == Spec => []TypeOK
<1>1. Numbers => /\ nGeoLoc_ \in Nat /\ io_size_ \in Nat
                  /\ eventID \in Nat /\ geoID \in Nat /\ membuffer \in Nat /\ data_size \in Nat
  BY GeneratorAssumption DEF Numbers
<1>2. TypeInv => TypeOK
  BY <1>1 DEF TypeInv, Numbers, Others, TypeOK
<1> QED
  BY <1>2, TypeInvariant, PTL

----------------------------------------------------------------------------
(* Commands in order *)

\* A command and the working thread never meet, ...
Ordered ==
  /\ Active => rc = "running"
  /\ cmd \in {"conf", "makeDataStore"} => rc = "initial"
  /\ cmd = "stop" => rc = "running"
  /\ ~dangling

\* ... the values conf has assigned so far are those of its payload, all of them
\* once it has succeeded, ...
Configured ==
  /\ cmd \in {"conf", "makeDataStore"} \/ rc # "initial" =>
       nGeoLoc_ = Value(payload.geo, REASONABLE_DEFAULT_GEOLOC)
  /\ cmd = "makeDataStore" \/ rc # "initial" =>
       io_size_ = Value(payload.size, REASONABLE_IO_SIZE_BYTES)
  /\ rc # "initial" => dataWriter_ = payload.target

\* ... and the buffer has the length of the blocks.
Buffered ==
  /\ worker \in {"while", "for", "write"} => membuffer = io_size_
  /\ worker = "write" => data_size = io_size_

OrderInv == inOrder => Ordered /\ Configured /\ Buffered

\* The states in which a run control that keeps the order sends a command.
LEMMA InOrderCommand ==
  ASSUME inOrder'
  PROVE  /\ do_conf => rc = "initial"
         /\ do_start \/ do_unconfigure => rc = "configured"
         /\ do_stop => rc = "running"
BY DEF do_conf, Begins, do_start, StartThread, do_stop, StopThread, do_unconfigure, AtOnce, Accepts

LEMMA InOrderBefore ==
  ASSUME Next, inOrder'
  PROVE  inOrder
<1>1. CASE Command
  BY <1>1 DEF Command, do_conf, Begins, ConfSize, CommandMoves, ConfStore, Succeeds, ConfFails,
     ConfAborts, Ends, Dies, Fresh, do_start, StartThread, do_stop, StopThread, do_stop_returns,
     StopReturns, do_unconfigure, AtOnce, Accepts
<1>2. CASE Work
  BY <1>2 DEF Work, CheckWriter, Allocate, NextEvent, Exit, MakeBlock, EventDone, WriteReturns,
     WorkerMoves, NoWriter, WriteThrows, Undefined, Ends, Dies, Fresh
<1>3. CASE Killed \/ Boot
  BY <1>3 DEF Killed, Ends, Dies, Boot, ModuleBoot, Fresh
<1> QED
  BY <1>1, <1>2, <1>3 DEF Next

\* A new process has nothing of the old one.
LEMMA FreshOrder ==
  ASSUME NEW why, Fresh(why), dangling' = FALSE
  PROVE  (Ordered /\ Configured /\ Buffered)'
BY DEF Fresh, Ordered, Active, Configured, Buffered

LEMMA EndingOrder ==
  ASSUME Ending
  PROVE  (Ordered /\ Configured /\ Buffered)'
BY FreshOrder DEF Ending, ConfAborts, NoWriter, WriteThrows, Undefined, Killed, Ends, Dies

LEMMA CommandOrder ==
  ASSUME TypeInv, Command, ~ConfAborts, inOrder', Ordered, Configured, Buffered
  PROVE  (Ordered /\ Configured /\ Buffered)'
<1> USE DEF Ordered, Active, Configured, Buffered, conf, locals, data
<1>1. CASE do_conf
  BY <1>1, InOrderCommand DEF do_conf, Begins, Accepts
<1>2. CASE ConfSize
  BY <1>2 DEF ConfSize, CommandMoves
<1>3. CASE ConfStore
  BY <1>3 DEF ConfStore, Succeeds
<1>4. CASE ConfFails
  BY <1>4 DEF ConfFails, CommandMoves
<1>5. CASE do_start
  BY <1>5, InOrderCommand DEF do_start, StartThread, Accepts
<1>6. CASE do_stop
  BY <1>6, InOrderCommand DEF do_stop, StopThread, ClearFlag, Accepts
<1>7. CASE do_stop_returns
  BY <1>7 DEF do_stop_returns, StopReturns, Joined, Succeeds
<1>8. CASE do_unconfigure
  BY <1>8, InOrderCommand DEF do_unconfigure, AtOnce, Accepts
<1> QED
  BY <1>1, <1>2, <1>3, <1>4, <1>5, <1>6, <1>7, <1>8 DEF Command

LEMMA WorkOrder ==
  ASSUME TypeInv, Work, ~Ending, Ordered, Configured, Buffered
  PROVE  (Ordered /\ Configured /\ Buffered)'
<1> USE DEF Ordered, Active, Configured, Buffered, WorkerMoves, conf, locals, data
<1>1. CASE CheckWriter \/ Exit
  BY <1>1 DEF CheckWriter, Exit
<1>2. CASE Allocate \/ NextEvent
  BY <1>2 DEF Allocate, NextEvent
<1>3. CASE MakeBlock \/ EventDone
  BY <1>3 DEF MakeBlock, EventDone
<1>4. CASE WriteReturns
  BY <1>4 DEF WriteReturns
<1> QED
  BY <1>1, <1>2, <1>3, <1>4 DEF Work, Ending

LEMMA OrderNext ==
  ASSUME TypeInv, OrderInv, [Next]_vars
  PROVE  OrderInv'
<1> SUFFICES ASSUME inOrder' PROVE (Ordered /\ Configured /\ Buffered)'
  BY DEF OrderInv
<1>1. CASE UNCHANGED vars
  BY <1>1 DEF vars, OrderInv, Ordered, Active, Configured, Buffered
<1>2. CASE Next
  <2>1. Ordered /\ Configured /\ Buffered
    BY <1>2, InOrderBefore DEF OrderInv
  <2>2. CASE Boot
    BY <2>1, <2>2 DEF Boot, ModuleBoot, Fresh, data, Ordered, Active, Configured, Buffered
  <2> QED
    BY <1>2, <2>1, <2>2, EndingOrder, CommandOrder, WorkOrder DEF Next, Ending
<1> QED
  BY <1>1, <1>2

LEMMA InitOrder == Init => OrderInv
BY DEF Init, ModuleInit, OrderInv, Ordered, Active, Configured, Buffered

LEMMA OrderInvariant == Spec => []OrderInv
<1>1. TypeInv /\ OrderInv /\ [Next]_vars => OrderInv'
  BY OrderNext
<1> QED
  BY <1>1, InitOrder, TypeInvariant, PTL DEF Spec

\* As long as commands keep the order, the working thread never writes to a store
\* that conf has replaced, nor a block longer than its buffer
\* (DataGenerator.cpp:59-65, 92-93, 110-126).
THEOREM NoUndefinedBehaviourHolds == Spec => []NoUndefinedBehaviour
<1>1. TypeInv /\ OrderInv => NoUndefinedBehaviour
  BY DEF TypeInv, Numbers, OrderInv, Ordered, Buffered, NoUndefinedBehaviour
<1> QED
  BY <1>1, TypeInvariant, OrderInvariant, PTL

\* As long as commands keep the order, a working thread has every value and the
\* store of one payload, the last (DataGenerator.cpp:59-65).
THEOREM ConfigurationIsWholeHolds == Spec => []ConfigurationIsWhole
<1>1. OrderInv => ConfigurationIsWhole
  BY DEF OrderInv, Ordered, Configured, ConfigurationIsWhole
<1> QED
  BY <1>1, OrderInvariant, PTL

----------------------------------------------------------------------------
(* What a run has written *)

\* The fragments of the events before event e, and the first g of event e.
Fragments(n, e, g) == ((1 .. e - 1) \X (0 .. n - 1)) \cup ({e} \X (0 .. g - 1))

LEMMA FragmentsNone ==
  ASSUME NEW n \in Nat
  PROVE  Fragments(n, 1, 0) = {}
BY DEF Fragments

LEMMA FragmentsWrite ==
  ASSUME NEW n \in Nat, NEW e \in Nat, NEW g \in Nat
  PROVE  /\ << e, g >> \notin Fragments(n, e, g)
         /\ Fragments(n, e, g + 1) = Fragments(n, e, g) \cup {<< e, g >>}
<1>1. << e, g >> \notin Fragments(n, e, g)
  BY DEF Fragments
<1>2. 0 .. (g + 1) - 1 = (0 .. g - 1) \cup {g}
  OBVIOUS
<1> QED
  BY <1>1, <1>2 DEF Fragments

LEMMA FragmentsDone ==
  ASSUME NEW n \in Nat, NEW e \in Nat, e # 0
  PROVE  Fragments(n, e + 1, 0) = Fragments(n, e, n)
<1>1. 1 .. (e + 1) - 1 = (1 .. e - 1) \cup {e}
  OBVIOUS
<1>2. 0 .. 0 - 1 = {}
  OBVIOUS
<1> QED
  BY <1>1, <1>2 DEF Fragments

LEMMA FragmentsFirst ==
  ASSUME NEW n \in Nat, NEW e \in Nat, NEW g \in Nat, n # 0, e # 0, g <= n
  PROVE  \/ e = 1 /\ g = 0
         \/ << 1, 0 >> \in Fragments(n, e, g)
BY DEF Fragments

\* The events so far are complete, and the current one is written up to geoID, ...
Progress ==
  /\ rc = "running" /\ worker \in {"entry", "malloc"} => written = {}
  /\ rc = "running" /\ worker \in {"while", "done"} => written = Fragments(nGeoLoc_, eventID, 0)
  /\ worker \in {"for", "write"} =>
       written = Fragments(nGeoLoc_, eventID, geoID) /\ geoID <= nGeoLoc_
  /\ worker = "write" => geoID < nGeoLoc_

\* ... all of it is in the file, and nothing else is, once the first block is.
OwnFile ==
  /\ rc = "running" =>
       /\ \A w \in written : << dataWriter_, w[1], w[2] >> \in stored
       /\ written # {} => \A s \in stored : s[1] = dataWriter_ => << s[2], s[3] >> \in written
  /\ \A s \in stored : << s[1], 1, 0 >> \in stored

RunInv == inOrder => Progress /\ OwnFile

LEMMA CommandRun ==
  ASSUME TypeInv, Command, ~ConfAborts, inOrder', Ordered, Progress, OwnFile
  PROVE  (Progress /\ OwnFile)'
<1> USE DEF Ordered, Active, Progress, OwnFile, conf, locals, data
<1>1. CASE do_conf
  BY <1>1, InOrderCommand DEF do_conf, Begins, Accepts
<1>2. CASE ConfSize \/ ConfFails
  BY <1>2 DEF ConfSize, ConfFails, CommandMoves
<1>3. CASE ConfStore
  BY <1>3 DEF ConfStore, Succeeds
<1>4. CASE do_start
  BY <1>4, InOrderCommand DEF do_start, StartThread, Accepts
<1>5. CASE do_stop
  BY <1>5 DEF do_stop, StopThread, ClearFlag, Accepts
<1>6. CASE do_stop_returns
  BY <1>6 DEF do_stop_returns, StopReturns, Joined, Succeeds
<1>7. CASE do_unconfigure
  BY <1>7, InOrderCommand DEF do_unconfigure, AtOnce, Accepts
<1> QED
  BY <1>1, <1>2, <1>3, <1>4, <1>5, <1>6, <1>7 DEF Command

\* The block being written is the first of the run, or follows the first.
LEMMA BlockFirst ==
  ASSUME TypeInv, Ordered, Progress, OwnFile, worker = "write"
  PROVE  /\ rc = "running" /\ written = Fragments(nGeoLoc_, eventID, geoID)
         /\ \/ written = {} /\ eventID = 1 /\ geoID = 0
            \/ << 1, 0 >> \in written /\ << dataWriter_, 1, 0 >> \in stored
<1>1. rc = "running" /\ written = Fragments(nGeoLoc_, eventID, geoID) /\ geoID <= nGeoLoc_
  BY DEF Ordered, Active, Progress
<1>2. CASE eventID = 1 /\ geoID = 0
  BY <1>1, <1>2, FragmentsNone DEF TypeInv, Numbers
<1>3. CASE << 1, 0 >> \in Fragments(nGeoLoc_, eventID, geoID)
  BY <1>1, <1>3 DEF OwnFile
<1>4. /\ nGeoLoc_ \in Nat /\ eventID \in Nat /\ geoID \in Nat /\ eventID # 0
      /\ geoID < nGeoLoc_ /\ nGeoLoc_ # 0
  BY GeneratorAssumption DEF TypeInv, Numbers, Progress
<1> QED
  BY <1>1, <1>2, <1>3, <1>4, FragmentsFirst

LEMMA FirstKept ==
  ASSUME TypeInv, Ordered, Progress, OwnFile, worker = "write", NEW s \in stored \cup {Block}
  PROVE  << s[1], 1, 0 >> \in stored \cup {Block}
<1>1. CASE s \in stored
  BY <1>1 DEF OwnFile
<1>2. CASE s = Block
  <2>1. s[1] = dataWriter_
    BY <1>2 DEF Block
  <2>2. CASE eventID = 1 /\ geoID = 0
    BY <2>1, <2>2, BlockNamed
  <2>3. CASE << dataWriter_, 1, 0 >> \in stored
    BY <2>1, <2>3
  <2> QED
    BY <2>2, <2>3, BlockFirst
<1> QED
  BY <1>1, <1>2

LEMMA WriteRun ==
  ASSUME TypeInv, WriteReturns, Ordered, Progress, OwnFile
  PROVE  (Progress /\ OwnFile)'
<1> DEFINE here == << eventID, geoID >>
<1>1. /\ worker = "write" /\ worker' = "for" /\ rc' = rc
      /\ stored' = stored \cup {Block} /\ written' = written \cup {here} /\ Block \notin stored
      /\ geoID' = geoID + 1 /\ eventID' = eventID
      /\ nGeoLoc_' = nGeoLoc_ /\ dataWriter_' = dataWriter_
  BY DEF WriteReturns, WorkerMoves, conf
<1>2. geoID < nGeoLoc_ /\ geoID \in Nat /\ nGeoLoc_ \in Nat /\ eventID \in Nat
  BY <1>1 DEF Progress, TypeInv, Numbers
<1>3. Progress'
  <2>1. written' = Fragments(nGeoLoc_', eventID', geoID')
    BY <1>1, <1>2, BlockFirst, FragmentsWrite
  <2>2. geoID' <= nGeoLoc_'
    BY <1>1, <1>2
  <2> QED
    BY <1>1, <2>1, <2>2 DEF Progress
<1>4. \A w \in written' : << dataWriter_, w[1], w[2] >> \in stored'
  BY <1>1, BlockFirst, BlockNamed DEF OwnFile
<1>5. \A s \in stored' : << s[1], 1, 0 >> \in stored'
  BY <1>1, FirstKept
<1>6. \A s \in stored' : s[1] = dataWriter_ => << s[2], s[3] >> \in written'
  <2>1. CASE written = {}
    <3>1. /\ Block = << dataWriter_, 1, 0 >> /\ here = << 1, 0 >>
          /\ \A s \in stored : s[1] # dataWriter_
      BY <1>1, <2>1, BlockFirst, BlockNamed DEF OwnFile
    <3> QED
      BY <1>1, <3>1
  <2>2. CASE written # {}
    BY <1>1, <2>2, BlockFirst, BlockNamed DEF OwnFile
  <2> QED
    BY <2>1, <2>2
<1> QED
  BY <1>1, <1>3, <1>4, <1>5, <1>6 DEF OwnFile

LEMMA WorkRun ==
  ASSUME TypeInv, Work, ~Ending, Ordered, Progress, OwnFile
  PROVE  (Progress /\ OwnFile)'
<1> USE DEF Ordered, Active, WorkerMoves, conf, locals, data
<1>1. CASE CheckWriter \/ Exit
  BY <1>1 DEF CheckWriter, Exit, Progress, OwnFile
<1>2. CASE Allocate
  <2>1. Fragments(nGeoLoc_, 1, 0) = {}
    BY FragmentsNone DEF TypeInv, Numbers
  <2> QED
    BY <1>2, <2>1 DEF Allocate, Progress, OwnFile
<1>3. CASE NextEvent
  BY <1>3 DEF NextEvent, Progress, OwnFile, TypeInv, Numbers
<1>4. CASE MakeBlock
  BY <1>4 DEF MakeBlock, MoreGeo, Progress, OwnFile
<1>5. CASE EventDone
  <2>1. geoID = nGeoLoc_
    BY <1>5 DEF EventDone, MoreGeo, Progress, TypeInv, Numbers
  <2>2. Fragments(nGeoLoc_, eventID + 1, 0) = Fragments(nGeoLoc_, eventID, nGeoLoc_)
    BY FragmentsDone DEF TypeInv, Numbers
  <2> QED
    BY <1>5, <2>1, <2>2 DEF EventDone, Progress, OwnFile
<1>6. CASE WriteReturns
  BY <1>6, WriteRun
<1> QED
  BY <1>1, <1>2, <1>3, <1>4, <1>5, <1>6 DEF Work, Ending

LEMMA EndingRun ==
  ASSUME TypeInv, Ending, Ordered, Progress, OwnFile
  PROVE  (Progress /\ OwnFile)'
<1>1. rc' = "initial" /\ worker' = "none"
  BY DEF Ending, ConfAborts, NoWriter, WriteThrows, Undefined, Killed, Ends, Dies, Fresh
<1>2. stored' = stored \/ (worker = "write" /\ stored' = stored \cup {Block})
  BY DEF Ending, ConfAborts, NoWriter, WriteThrows, Undefined, Killed
<1>3. \A s \in stored' : << s[1], 1, 0 >> \in stored'
  BY <1>2, FirstKept DEF OwnFile
<1> QED
  BY <1>1, <1>3 DEF Progress, OwnFile

LEMMA RunNext ==
  ASSUME TypeInv, OrderInv, RunInv, [Next]_vars
  PROVE  RunInv'
<1> SUFFICES ASSUME inOrder' PROVE (Progress /\ OwnFile)'
  BY DEF RunInv
<1>1. CASE UNCHANGED vars
  BY <1>1 DEF vars, RunInv, Progress, OwnFile
<1>2. CASE Next
  <2>1. Ordered /\ Progress /\ OwnFile
    BY <1>2, InOrderBefore DEF OrderInv, RunInv
  <2>2. CASE Boot
    BY <2>1, <2>2 DEF Boot, ModuleBoot, Fresh, data, Progress, OwnFile
  <2> QED
    BY <1>2, <2>1, <2>2, EndingRun, CommandRun, WorkRun DEF Next, Ending
<1> QED
  BY <1>1, <1>2

LEMMA InitRun == Init => RunInv
BY DEF Init, ModuleInit, RunInv, Progress, OwnFile

LEMMA RunInvariant == Spec => []RunInv
<1>1. TypeInv /\ OrderInv /\ RunInv /\ [Next]_vars => RunInv'
  BY RunNext
<1> QED
  BY <1>1, InitRun, TypeInvariant, OrderInvariant, PTL DEF Spec

\* A run that commands in order have stopped wrote every fragment of each of its
\* events and nothing else, and all of it is stored (DataGenerator.cpp:116-129).
THEOREM WholeEventsHolds == Spec => []WholeEvents
<1>1. ASSUME TypeInv, OrderInv, RunInv, inOrder, worker = "done", cmd = "stop"
      PROVE  /\ written = (1 .. eventID - 1) \X (0 .. nGeoLoc_ - 1)
             /\ \A w \in written : << dataWriter_, w[1], w[2] >> \in stored
  <2>1. Ordered /\ Progress /\ OwnFile
    BY <1>1 DEF OrderInv, RunInv
  <2>2. rc = "running" /\ written = Fragments(nGeoLoc_, eventID, 0)
    BY <1>1, <2>1 DEF Ordered, Progress
  <2>3. Fragments(nGeoLoc_, eventID, 0) = (1 .. eventID - 1) \X (0 .. nGeoLoc_ - 1)
    <3>1. 0 .. 0 - 1 = {}
      OBVIOUS
    <3> QED
      BY <3>1 DEF Fragments
  <2> QED
    BY <2>1, <2>2, <2>3 DEF OwnFile
<1>2. TypeInv /\ OrderInv /\ RunInv => WholeEvents
  BY <1>1 DEF WholeEvents
<1> QED
  BY <1>2, TypeInvariant, OrderInvariant, RunInvariant, PTL

\* Only the first write of a run can meet a key that is already there, whatever
\* earlier runs, and processes that failed or were killed, have left in the file
\* (DataGenerator.cpp:115-126).
THEOREM DuplicateOnlyFirstHolds == Spec => []DuplicateOnlyFirst
<1>1. ASSUME TypeInv, OrderInv, RunInv, inOrder, worker = "write", Block \in stored
      PROVE  written = {} /\ eventID = 1 /\ geoID = 0
  <2>1. Ordered /\ Progress /\ OwnFile
    BY <1>1 DEF OrderInv, RunInv
  <2>2. << eventID, geoID >> \notin written
    BY <1>1, <2>1, BlockFirst, FragmentsWrite DEF TypeInv, Numbers
  <2>3. rc = "running" /\ (written # {} => << eventID, geoID >> \in written)
    BY <1>1, <2>1, BlockFirst, BlockNamed DEF OwnFile
  <2> QED
    BY <1>1, <2>1, <2>2, <2>3, BlockFirst
<1>2. TypeInv /\ OrderInv /\ RunInv => DuplicateOnlyFirst
  BY <1>1 DEF DuplicateOnlyFirst
<1> QED
  BY <1>2, TypeInvariant, OrderInvariant, RunInvariant, PTL

----------------------------------------------------------------------------
(* Stopping *)

\* While a stop waits the flag is cleared, whatever the order of the commands:
\* only start sets it, and no command begins before the last has ended.
StopSeen == cmd = "stop" => ~running

LEMMA StopSeenNext ==
  ASSUME StopSeen, [Next]_vars
  PROVE  StopSeen'
<1> USE DEF StopSeen
<1>1. CASE UNCHANGED vars
  BY <1>1 DEF vars
<1>2. CASE Command
  BY <1>2 DEF Command, do_conf, Begins, ConfSize, CommandMoves, ConfStore, Succeeds, ConfFails,
     ConfAborts, Ends, Dies, Fresh, do_start, StartThread, do_stop, StopThread, ClearFlag,
     do_stop_returns, StopReturns, do_unconfigure, AtOnce, Accepts
<1>3. CASE Work
  BY <1>3 DEF Work, CheckWriter, Allocate, NextEvent, Exit, MakeBlock, EventDone, WriteReturns,
     WorkerMoves, NoWriter, WriteThrows, Undefined, Ends, Dies, Fresh
<1>4. CASE Killed \/ Boot
  BY <1>4 DEF Killed, Ends, Dies, Boot, ModuleBoot, Fresh
<1> QED
  BY <1>1, <1>2, <1>3, <1>4 DEF Next

LEMMA StopSeenInvariant == Spec => []StopSeen
<1>1. Init => StopSeen
  BY DEF Init, ModuleInit, StopSeen
<1> QED
  BY <1>1, StopSeenNext, PTL DEF Spec

\* The only steps under a stop that waits are those of the working thread, and
\* they begin no event.
LEMMA StopLeavesWork ==
  ASSUME StopSeen, Next, cmd = "stop", cmd' = "stop"
  PROVE  Work /\ ~NextEvent /\ ~Ending
<1>1. ~Command
  BY DEF Command, do_conf, Begins, ConfSize, CommandMoves, ConfStore, Succeeds, ConfFails,
     ConfAborts, Ends, Dies, Fresh, do_start, StartThread, do_stop, StopThread,
     do_stop_returns, StopReturns, do_unconfigure, AtOnce, Accepts
<1>2. ~Boot /\ ~Ending
  BY DEF Boot, ModuleBoot, Ending, ConfAborts, NoWriter, WriteThrows, Undefined, Killed, Ends,
     Dies, Fresh
<1>3. ~NextEvent
  BY DEF StopSeen, NextEvent
<1> QED
  BY <1>1, <1>2, <1>3 DEF Next, Ending

LEMMA StopStepAdvances ==
  ASSUME TypeInv, Work, ~NextEvent, ~Ending
  PROVE  Phase' < Phase \/ (Phase' = Phase /\ EventLeft' < EventLeft)
<1> USE DEF WorkerMoves, Phase
<1>1. CASE CheckWriter \/ Allocate \/ Exit \/ EventDone
  BY <1>1 DEF CheckWriter, Allocate, Exit, EventDone
<1>2. geoID \in Nat /\ nGeoLoc_ \in Nat
  BY DEF TypeInv, Numbers
<1>3. CASE MakeBlock
  <2>1. /\ worker = "for" /\ worker' = "write" /\ geoID < nGeoLoc_
        /\ geoID' = geoID /\ nGeoLoc_' = nGeoLoc_
    BY <1>3 DEF MakeBlock, MoreGeo, conf
  <2>2. EventLeft = 2 * (nGeoLoc_ - geoID)
    BY <1>2, <2>1 DEF EventLeft
  <2>3. EventLeft' = 2 * (IF geoID + 1 < nGeoLoc_ THEN nGeoLoc_ - (geoID + 1) ELSE 0) + 1
    BY <1>2, <2>1 DEF EventLeft
  <2>4. EventLeft' < EventLeft
    BY <1>2, <2>1, <2>2, <2>3
  <2> QED
    BY <2>1, <2>4
<1>4. CASE WriteReturns
  <2>1. /\ worker = "write" /\ worker' = "for"
        /\ geoID' = geoID + 1 /\ nGeoLoc_' = nGeoLoc_
    BY <1>4 DEF WriteReturns, conf
  <2>2. EventLeft' = 2 * (IF geoID + 1 < nGeoLoc_ THEN nGeoLoc_ - (geoID + 1) ELSE 0)
    BY <1>2, <2>1 DEF EventLeft
  <2>3. EventLeft = 2 * (IF geoID + 1 < nGeoLoc_ THEN nGeoLoc_ - (geoID + 1) ELSE 0) + 1
    BY <1>2, <2>1 DEF EventLeft
  <2>4. EventLeft' < EventLeft
    BY <1>2, <2>2, <2>3
  <2> QED
    BY <2>1, <2>4
<1> QED
  BY <1>1, <1>3, <1>4 DEF Work, Ending

\* While a stop waits the working thread begins no further event, and every step
\* of it leaves fewer phases of do_work, or the same and less of the event: the
\* stop waits for a number of steps that the state it met bounds
\* (DataGenerator.cpp:79-86, 116-129).
THEOREM StopAdvancesHolds == Spec => StopAdvances
<1>1. TypeInv /\ StopSeen /\ [Next]_vars =>
        [cmd = "stop" /\ cmd' = "stop" =>
           \/ ~Work /\ UNCHANGED << worker, geoID, nGeoLoc_ >>
           \/ Work /\ Phase' < Phase
           \/ Work /\ Phase' = Phase /\ EventLeft' < EventLeft]_vars
  BY StopLeavesWork, StopStepAdvances
<1> QED
  BY <1>1, TypeInvariant, StopSeenInvariant, PTL DEF Spec, StopAdvances
=============================================================================
