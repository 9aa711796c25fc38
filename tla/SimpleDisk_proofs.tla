------------------------- MODULE SimpleDisk_proofs -------------------------
(***************************************************************************)
(* Invariants of SimpleDisk for every set of targets, sizes and ids, every *)
(* width of int, with and without faults, and for any number of events,    *)
(* applications and commands in any order.                                 *)
(***************************************************************************)
EXTENDS SimpleDisk, TLAPS

----------------------------------------------------------------------------
(* Commands in order *)

\* A command and the working thread never meet, ...
Ordered ==
  /\ Active => rc = "running"
  /\ cmd \in {"detector", "store"} => rc = "initial"
  /\ cmd = "stop" => rc = "running"
  /\ ~dangling

\* ... the values configure has assigned so far are those of its payload, all of
\* them once it has succeeded, ...
Configured ==
  /\ plugin = Writer /\ (cmd \in {"detector", "store"} \/ rc # "initial") =>
       nIntsPerFakeEvent_ = Value(payload.ints, REASONABLE_DEFAULT_INTSPERFAKEEVENT)
  /\ plugin = Reader /\ (cmd \in {"detector", "store"} \/ rc # "initial") =>
       key_eventID_ = Value(payload.event, REASONABLE_DEFAULT_INTFRAGMENT)
  /\ plugin = Reader /\ (cmd = "store" \/ rc # "initial") =>
       key_geoLocationID_ = Value(payload.geo, REASONABLE_DEFAULT_INTFRAGMENT)
  /\ rc # "initial" => dataStore_ = payload.store

\* ... and the vector has the length of the event.
Filling ==
  /\ worker \in {"while", "fill", "write"} => plugin = Writer
  /\ worker \in {"fill", "write"} => dataBlock.size = SIZEOF_INT * nIntsPerFakeEvent_

OrderInv == inOrder => Ordered /\ Configured /\ Filling

\* The states in which a run control that keeps the order sends a command.
LEMMA InOrderCommand ==
  ASSUME inOrder'
  PROVE  /\ do_configure => rc = "initial"
         /\ do_start \/ do_unconfigure => rc = "configured"
         /\ do_stop => rc = "running"
BY DEF do_configure, Begins, do_start, StartThread, do_stop, StopThread, do_unconfigure, AtOnce,
   Accepts

\* The actions that end the process, and the steps of the working thread that do not.
Ending == ConfAborts \/ NoDataStore \/ WriteThrows \/ ReadThrows \/ ListThrows \/ Undefined
          \/ Killed \/ Quit

Working == WriterEnters \/ NextEvent \/ Filled \/ WriteReturns \/ ReaderEnters \/ ReadReturns
           \/ ListerEnters \/ ListReturns \/ Exit

LEMMA EndingFresh ==
  ASSUME Ending
  PROVE  rc' = "initial" /\ cmd' = "idle" /\ worker' = "none" /\ inOrder' = inOrder
         /\ dangling' = FALSE
BY DEF Ending, ConfAborts, NoDataStore, WriteThrows, ReadThrows, ListThrows, Undefined, Killed, Quit,
   Ends, Dies, Fresh

LEMMA WorkingMoves ==
  ASSUME Working
  PROVE  /\ rc' = rc /\ cmd' = cmd /\ inOrder' = inOrder /\ dangling' = dangling
         /\ Active
         /\ UNCHANGED << plugin, conf >>
BY DEF Working, WriterEnters, NextEvent, Filled, WriteReturns, ReaderEnters, ReadReturns, ListerEnters,
   ListReturns, Exit, Moves, WorkerMoves, Active

LEMMA InOrderBefore ==
  ASSUME Next, inOrder'
  PROVE  inOrder
<1>1. CASE Command /\ ~ConfAborts
  BY <1>1 DEF Command, do_configure, Begins, ConfGeoLocation, CommandMoves, ConfStore, Succeeds,
     ConfFails, do_start, StartThread, do_stop, StopThread, do_stop_returns, StopReturns,
     do_unconfigure, AtOnce, Accepts
<1>2. CASE Ending
  BY <1>2, EndingFresh
<1>3. CASE Working
  BY <1>3, WorkingMoves
<1>4. CASE Boot
  BY <1>4 DEF Boot, ModuleBoot, Fresh
<1> QED
  BY <1>1, <1>2, <1>3, <1>4 DEF Next, Work, Working, Ending

LEMMA CommandOrder ==
  ASSUME Command, ~ConfAborts, inOrder', Ordered, Configured, Filling
  PROVE  (Ordered /\ Configured /\ Filling)'
<1> USE DEF Ordered, Active, Configured, Filling, conf, locals
<1>1. CASE do_configure
  BY <1>1, InOrderCommand DEF do_configure, Begins, Accepts, Writer, Reader
<1>2. CASE ConfGeoLocation
  BY <1>2 DEF ConfGeoLocation, CommandMoves
<1>3. CASE ConfStore
  BY <1>3 DEF ConfStore, Succeeds
<1>4. CASE ConfFails
  BY <1>4 DEF ConfFails, Refused, CommandMoves
<1>5. CASE do_start
  BY <1>5, InOrderCommand DEF do_start, StartThread, Accepts
<1>6. CASE do_stop
  BY <1>6, InOrderCommand DEF do_stop, StopThread, Accepts
<1>7. CASE do_stop_returns
  BY <1>7 DEF do_stop_returns, StopReturns, Joined, Succeeds
<1>8. CASE do_unconfigure
  BY <1>8, InOrderCommand DEF do_unconfigure, AtOnce, Accepts
<1> QED
  BY <1>1, <1>2, <1>3, <1>4, <1>5, <1>6, <1>7, <1>8 DEF Command

LEMMA WorkingFilling ==
  ASSUME Working, Filling
  PROVE  Filling'
<1> USE DEF Filling, Moves, WorkerMoves, conf, locals
<1>1. CASE WriterEnters \/ ReaderEnters \/ ReadReturns \/ ListerEnters \/ ListReturns \/ Exit
  BY <1>1 DEF WriterEnters, ReaderEnters, ReadReturns, ListerEnters, ListReturns, Exit
<1>2. CASE NextEvent
  BY <1>2 DEF NextEvent, Block
<1>3. CASE Filled
  BY <1>3 DEF Filled, Block
<1>4. CASE WriteReturns
  BY <1>4 DEF WriteReturns
<1> QED
  BY <1>1, <1>2, <1>3, <1>4 DEF Working

LEMMA OrderNext ==
  ASSUME OrderInv, [Next]_vars
  PROVE  OrderInv'
<1> SUFFICES ASSUME inOrder' PROVE (Ordered /\ Configured /\ Filling)'
  BY DEF OrderInv
<1>1. CASE UNCHANGED vars
  BY <1>1 DEF vars, OrderInv, Ordered, Active, Configured, Filling
<1>2. CASE Next
  <2>1. Ordered /\ Configured /\ Filling
    BY <1>2, InOrderBefore DEF OrderInv
  <2>2. CASE Ending
    BY <2>2, EndingFresh DEF Ordered, Active, Configured, Filling
  <2>3. CASE Boot
    BY <2>1, <2>3 DEF Boot, ModuleBoot, Fresh, Ordered, Active, Configured, Filling
  <2>4. CASE Working
    <3>1. Ordered' /\ Configured'
      BY <2>1, <2>4, WorkingMoves DEF Ordered, Active, Configured, conf
    <3> QED
      BY <2>1, <2>4, <3>1, WorkingFilling
  <2> QED
    BY <1>2, <2>1, <2>2, <2>3, <2>4, CommandOrder DEF Next, Work, Working, Ending
<1> QED
  BY <1>1, <1>2

LEMMA InitOrder == Init => OrderInv
BY DEF Init, ModuleInit, OrderInv, Ordered, Active, Configured, Filling

LEMMA OrderInvariant == Spec => []OrderInv
<1>1. OrderInv /\ [Next]_vars => OrderInv'
  BY OrderNext
<1> QED
  BY <1>1, InitOrder, PTL DEF Spec

\* As long as commands keep the order, a working thread has every value and the
\* store of one payload, the last (SimpleDiskReader.cpp:53-64,
\* SimpleDiskWriter.cpp:53-60).
THEOREM ConfigurationIsWholeHolds == Spec => []ConfigurationIsWhole
<1>1. OrderInv => ConfigurationIsWhole
  BY DEF OrderInv, Ordered, Configured, ConfigurationIsWhole
<1> QED
  BY <1>1, OrderInvariant, PTL

----------------------------------------------------------------------------
(* The events of the writer *)

Numbers == nIntsPerFakeEvent_ \in Nat /\ generatedCount \in Nat

LEMMA IntsTyped ==
  ASSUME NEW p \in Payloads(Writer)
  PROVE  Value(p.ints, REASONABLE_DEFAULT_INTSPERFAKEEVENT) \in Nat
<1>1. p.ints \in Ints \cup {Absent}
  BY DEF Payloads, Only
<1>2. Ints \subseteq Nat
  BY DiskAssumption
<1>3. CASE p.ints = Absent
  BY <1>3 DEF Value, REASONABLE_DEFAULT_INTSPERFAKEEVENT
<1>4. CASE p.ints # Absent
  BY <1>1, <1>2, <1>4 DEF Value
<1> QED
  BY <1>3, <1>4

LEMMA NumbersNext ==
  ASSUME Numbers, [Next]_vars
  PROVE  Numbers'
<1> USE DEF Numbers
<1>1. ASSUME NEW cause, Ends(cause) PROVE Numbers'
  BY <1>1 DEF Ends, REASONABLE_DEFAULT_INTSPERFAKEEVENT
<1>2. CASE Ending
  BY <1>1, <1>2 DEF Ending, ConfAborts, NoDataStore, WriteThrows, ReadThrows, ListThrows, Undefined,
     Killed, Quit
<1>3. CASE do_configure
  <2>1. nIntsPerFakeEvent_' \in Nat
    BY <1>3, IntsTyped DEF do_configure
  <2> QED
    BY <1>3, <2>1 DEF do_configure, locals
<1>4. CASE ConfGeoLocation \/ ConfStore \/ ConfFails \/ do_start \/ do_stop \/ do_stop_returns
  BY <1>4 DEF ConfGeoLocation, ConfStore, ConfFails, do_start, do_stop, do_stop_returns, conf, locals
<1>5. CASE do_unconfigure
  BY <1>5 DEF do_unconfigure, locals, REASONABLE_DEFAULT_INTSPERFAKEEVENT
<1>6. CASE Working
  <2>1. generatedCount' \in Nat
    BY <1>6 DEF Working, WriterEnters, NextEvent, Filled, WriteReturns, ReaderEnters, ReadReturns,
       ListerEnters, ListReturns, Exit, locals
  <2> QED
    BY <1>6, <2>1, WorkingMoves DEF conf
<1>7. CASE Boot \/ UNCHANGED vars
  BY <1>7 DEF Boot, vars, conf, locals
<1> QED
  BY <1>2, <1>3, <1>4, <1>5, <1>6, <1>7 DEF Next, Command, Work, Working, Ending

LEMMA InitNumbers == Init => Numbers
BY DEF Init, Numbers, REASONABLE_DEFAULT_INTSPERFAKEEVENT

LEMMA NumbersInvariant == Spec => []Numbers
<1>1. Numbers /\ [Next]_vars => Numbers'
  BY NumbersNext
<1> QED
  BY <1>1, InitNumbers, PTL DEF Spec

----------------------------------------------------------------------------
(* Types *)

\* A size_t keeps its low bits as an int, and is itself if it fits.
LEMMA ToIntOfSizeT ==
  ASSUME NEW id \in Nat
  PROVE  /\ ToInt(id) \in CInt
         /\ id \in CInt => ToInt(id) = id
         /\ (ToInt(id) - id) % (2 * (IntMax + 1)) = 0
<1> DEFINE m == 2 * (IntMax + 1)
           x == id + IntMax + 1
<1>1. IntMax \in Nat /\ m \in Nat \ {0} /\ x \in Int /\ m = 2 * (IntMax + 1)
  BY DiskAssumption
<1>2. ToInt(id) = (x % m) - (IntMax + 1)
  BY DEF ToInt
<1>3. x = id + IntMax + 1
  OBVIOUS
<1> HIDE DEF m, x
<1>4. /\ x % m \in 0 .. m - 1
      /\ x \div m \in Int /\ x = m * (x \div m) + (x % m)
  <2>1. \A n \in Nat \ {0}, i \in Int :
          i % n \in 0 .. n - 1 /\ i \div n \in Int /\ i = n * (i \div n) + (i % n)
    OBVIOUS
  <2> QED
    BY <1>1, <2>1
<1>5. ToInt(id) \in CInt
  BY <1>1, <1>2, <1>4 DEF CInt
<1>6. ASSUME id \in CInt PROVE ToInt(id) = id
  <2>1. 0 <= x /\ x < m
    BY <1>1, <1>3, <1>6 DEF CInt
  <2>2. x % m = x
    BY <1>1, <2>1
  <2> QED
    BY <1>1, <1>2, <1>3, <2>2
<1>7. (ToInt(id) - id) % m = 0
  <2>1. ToInt(id) - id = m * (-(x \div m))
    BY <1>1, <1>2, <1>3, <1>4
  <2>2. \A q \in Int : (m * q) % m = 0
    BY <1>1
  <2> QED
    BY <1>4, <2>1, <2>2
<1> QED
  BY <1>1, <1>5, <1>6, <1>7

\* A write that ends the process half way.
BrokenOff == worker = "write" /\ ~Held /\ \E size \in LeftBehind : stored' = After(size)

\* What the end of a process leaves in its variables.
LEMMA EndingEnds ==
  ASSUME Ending
  PROVE  /\ plugin' = plugin /\ payload' = NoPayload /\ dataStore_' = NoStore
         /\ key_eventID_' = REASONABLE_DEFAULT_INTFRAGMENT
         /\ key_geoLocationID_' = REASONABLE_DEFAULT_INTFRAGMENT
         /\ generatedCount' = 0 /\ dataBlock' = NoBlock
         /\ running' = FALSE
         /\ stored' = stored \/ BrokenOff
BY DEF BrokenOff, Ending, ConfAborts, NoDataStore, WriteThrows, ReadThrows, ListThrows, Undefined,
   Killed, Quit, Ends, Dies, Fresh

Labels ==
  /\ ModuleTypeOK
  /\ plugin \in {Writer, Reader, Lister}
  /\ cmd \in {"idle", "detector", "store", "stop"}
  /\ worker \in {"none", "entry", "while", "fill", "write", "read", "list", "wait", "done"}
  /\ dangling \in BOOLEAN

\* An application starts without a payload; a writer has a store.
Holdings ==
  /\ payload \in Payloads(plugin) \cup {NoPayload}
  /\ ~Alive => payload = NoPayload
  /\ dataStore_ \in Targets \cup {TrashCan, NoStore}
  /\ worker \in {"while", "fill", "write"} => dataStore_ # NoStore

Ids == key_eventID_ \in Nat /\ key_geoLocationID_ \in Nat

Counted ==
  /\ generatedCount <= MaxEvents
  /\ worker = "fill" => generatedCount < MaxEvents

BlockType == [event : CInt, geo : CInt, size : Nat \cup {Uninitialised}]

Sizes == Nat \cup {Unwritten, GroupOnly}

StoredType == Targets \X CInt \X {GEO_LOCATION} \X Sizes

\* What is written is a block with bytes and the geo-location of all events.
Contents ==
  /\ dataBlock \in BlockType
  /\ worker \in {"fill", "write"} => dataBlock.size \in Nat
  /\ worker = "write" => dataBlock.geo = GEO_LOCATION
  /\ stored \subseteq StoredType

TypeInv == Labels /\ Holdings /\ Ids /\ Counted /\ Contents

LEMMA LabelsNext ==
  ASSUME Labels, [Next]_vars
  PROVE  Labels'
<1> USE DEF Labels, ModuleTypeOK
<1>1. CASE Ending
  <2>1. running' = FALSE /\ plugin' = plugin
    BY <1>1, EndingEnds
  <2> QED
    BY <1>1, <2>1, EndingFresh
<1>2. CASE Command /\ ~ConfAborts
  BY <1>2 DEF Command, do_configure, Begins, Accepts, ConfGeoLocation, CommandMoves, ConfStore,
     Succeeds, ConfFails, do_start, StartThread, do_stop, StopThread, ClearFlag, do_stop_returns,
     StopReturns, do_unconfigure, AtOnce
<1>3. CASE Working
  BY <1>3 DEF Working, WriterEnters, NextEvent, Filled, WriteReturns, ReaderEnters, ReadReturns,
     ListerEnters, ListReturns, Exit, Moves, WorkerMoves
<1>4. CASE Boot
  BY <1>4 DEF Boot, ModuleBoot, Fresh
<1>5. CASE UNCHANGED vars
  BY <1>5 DEF vars
<1> QED
  BY <1>1, <1>2, <1>3, <1>4, <1>5 DEF Next, Work, Working, Ending

LEMMA HoldingsNext ==
  ASSUME Holdings, [Next]_vars
  PROVE  Holdings'
<1> USE DEF Holdings, Alive
<1>1. CASE Ending
  BY <1>1, EndingEnds, EndingFresh
<1>2. CASE do_configure
  <2>1. payload' \in Payloads(plugin') /\ dataStore_' = dataStore_ /\ worker' = worker
        /\ died' = "no"
    BY <1>2 DEF do_configure, Begins, Accepts
  <2> QED
    BY <2>1
<1>3. CASE ConfStore
  <2>1. payload # NoPayload
    BY <1>3 DEF ConfStore, NoPayload
  <2>2. payload.store \in Targets \cup {TrashCan}
    BY <1>3, <2>1 DEF ConfStore, Payloads
  <2>3. dataStore_' = payload.store /\ payload' = payload /\ plugin' = plugin /\ died' = died
    BY <1>3 DEF ConfStore, Succeeds
  <2> QED
    BY <1>3, <2>2, <2>3, DiskAssumption DEF ConfStore
<1>4. CASE ConfGeoLocation \/ ConfFails \/ do_start \/ do_stop \/ do_stop_returns \/ do_unconfigure
  BY <1>4 DEF ConfGeoLocation, CommandMoves, ConfFails, do_start, StartThread, do_stop,
     StopThread, do_stop_returns, StopReturns, Succeeds, do_unconfigure, AtOnce, Accepts, conf
<1>5. CASE Working
  BY <1>5 DEF Working, WriterEnters, NextEvent, Filled, WriteReturns, ReaderEnters, ReadReturns,
     ListerEnters, ListReturns, Exit, Moves, WorkerMoves, conf
<1>6. CASE Boot
  <2>1. payload = NoPayload /\ payload' = payload /\ dataStore_' = dataStore_ /\ worker' = "none"
    BY <1>6 DEF Boot, ModuleBoot, Fresh, conf
  <2> QED
    BY <2>1
<1>7. CASE UNCHANGED vars
  BY <1>7 DEF vars
<1> QED
  BY <1>1, <1>2, <1>3, <1>4, <1>5, <1>6, <1>7 DEF Next, Command, Work, Working, Ending

LEMMA IdsTyped ==
  ASSUME NEW p \in Payloads(Reader)
  PROVE  /\ Value(p.event, REASONABLE_DEFAULT_INTFRAGMENT) \in Nat
         /\ Value(p.geo, REASONABLE_DEFAULT_INTFRAGMENT) \in Nat
<1>1. p.event \in EventIDs \cup {Absent} /\ p.geo \in GeoIDs \cup {Absent}
  BY DEF Payloads, Only
<1>2. EventIDs \subseteq Nat /\ GeoIDs \subseteq Nat
  BY DiskAssumption
<1>3. \A id \in Nat \cup {Absent} : Value(id, REASONABLE_DEFAULT_INTFRAGMENT) \in Nat
  BY DEF Value, REASONABLE_DEFAULT_INTFRAGMENT
<1> QED
  BY <1>1, <1>2, <1>3

LEMMA IdsNext ==
  ASSUME Holdings, Ids, [Next]_vars
  PROVE  Ids'
<1> USE DEF Ids
<1>1. CASE Ending
  BY <1>1, EndingEnds DEF REASONABLE_DEFAULT_INTFRAGMENT
<1>2. CASE do_configure
  <2>1. key_eventID_' \in Nat
    BY <1>2, IdsTyped DEF do_configure
  <2> QED
    BY <1>2, <2>1 DEF do_configure
<1>3. CASE ConfGeoLocation
  <2>1. payload.geo \in GeoIDs \cup {Absent}
    <3>1. CASE payload = NoPayload
      BY <3>1 DEF NoPayload
    <3>2. CASE payload # NoPayload
      <4>1. payload.geo \in Only(Reader, plugin, GeoIDs)
        BY <3>2 DEF Holdings, Payloads
      <4> QED
        BY <4>1 DEF Only
    <3> QED
      BY <3>1, <3>2
  <2>2. GeoIDs \subseteq Nat
    BY DiskAssumption
  <2>3. Value(payload.geo, REASONABLE_DEFAULT_INTFRAGMENT) \in Nat
    BY <2>1, <2>2 DEF Value, REASONABLE_DEFAULT_INTFRAGMENT
  <2> QED
    BY <1>3, <2>3 DEF ConfGeoLocation
<1>4. CASE Command /\ ~ConfAborts /\ ~do_configure /\ ~ConfGeoLocation
  BY <1>4 DEF Command, ConfStore, ConfFails, do_start, do_stop, do_stop_returns, do_unconfigure, conf
<1>5. CASE Working
  BY <1>5, WorkingMoves DEF conf
<1>6. CASE Boot \/ UNCHANGED vars
  BY <1>6 DEF Boot, vars, conf
<1> QED
  BY <1>1, <1>2, <1>3, <1>4, <1>5, <1>6 DEF Next, Command, Work, Working, Ending

LEMMA CountedNext ==
  ASSUME Numbers, Counted, [Next]_vars
  PROVE  Counted'
<1> USE DEF Counted
<1>0. MaxEvents \in Nat
  BY DiskAssumption
<1>1. CASE Ending
  <2>1. generatedCount' = 0 /\ worker' = "none"
    BY <1>1, EndingEnds, EndingFresh
  <2> QED
    BY <1>0, <2>1
<1>2. CASE Command /\ ~ConfAborts
  <2>1. generatedCount' = generatedCount
    BY <1>2 DEF Command, do_configure, ConfGeoLocation, ConfStore, ConfFails, do_start, do_stop,
       do_stop_returns, do_unconfigure, locals
  <2>2. worker' = "fill" => worker = "fill"
    BY <1>2 DEF Command, do_configure, Begins, Accepts, ConfGeoLocation, CommandMoves, ConfStore,
       Succeeds, ConfFails, do_start, StartThread, do_stop, StopThread, do_stop_returns,
       StopReturns, do_unconfigure, AtOnce
  <2> QED
    BY <2>1, <2>2
<1>3. CASE WriterEnters
  <2>1. generatedCount' = 0 /\ worker' = "while"
    BY <1>3 DEF WriterEnters, Moves, WorkerMoves
  <2> QED
    BY <1>0, <2>1
<1>4. CASE NextEvent
  <2>1. generatedCount < MaxEvents /\ generatedCount' = generatedCount
    BY <1>4 DEF NextEvent
  <2> QED
    BY <2>1
<1>5. CASE Filled
  <2>1. worker = "fill" /\ worker' = "write" /\ generatedCount' = generatedCount + 1
    BY <1>5 DEF Filled, Moves, WorkerMoves
  <2>2. generatedCount' <= MaxEvents
    BY <1>0, <2>1 DEF Numbers
  <2> QED
    BY <2>1, <2>2
<1>6. CASE Working /\ ~WriterEnters /\ ~NextEvent /\ ~Filled
  <2>1. generatedCount' = generatedCount /\ worker' # "fill"
    BY <1>6 DEF Working, WriteReturns, ReaderEnters, ReadReturns, ListerEnters, ListReturns, Exit,
       Moves, WorkerMoves, locals
  <2> QED
    BY <2>1
<1>7. CASE Boot
  <2>1. generatedCount' = generatedCount /\ worker' = "none"
    BY <1>7 DEF Boot, ModuleBoot, Fresh, locals
  <2> QED
    BY <2>1
<1>8. CASE UNCHANGED vars
  BY <1>8 DEF vars
<1> QED
  BY <1>1, <1>2, <1>3, <1>4, <1>5, <1>6, <1>7, <1>8 DEF Next, Work, Working, Ending

\* What a write leaves, whole or broken off.
LEMMA AfterTyped ==
  ASSUME Holdings, Contents, worker = "write", NEW size \in Sizes
  PROVE  After(size) \subseteq StoredType
<1>1. CASE dataStore_ = TrashCan
  BY <1>1 DEF After, Contents
<1>2. CASE dataStore_ # TrashCan
  <2>1. dataStore_ \in Targets /\ dataBlock.event \in CInt /\ dataBlock.geo = GEO_LOCATION
    BY <1>2 DEF Holdings, Contents, BlockType
  <2>2. Dataset(size) \in StoredType
    BY <2>1 DEF StoredType, Dataset
  <2> QED
    BY <1>2, <2>2 DEF After, Contents
<1> QED
  BY <1>1, <1>2

LEMMA BlockTyped ==
  ASSUME NEW event \in CInt, NEW geo \in CInt, NEW size \in Nat \cup {Uninitialised}
  PROVE  /\ Block(event, geo, size) \in BlockType
         /\ Block(event, geo, size).geo = geo /\ Block(event, geo, size).size = size
BY DEF Block, BlockType

LEMMA ContentsNext ==
  ASSUME Numbers, Holdings, Ids, Counted, Contents, [Next]_vars
  PROVE  Contents'
<1>0. 0 \in CInt /\ GEO_LOCATION \in CInt /\ MaxEvents \in Nat /\ MaxEvents <= IntMax
      /\ IntMax \in Nat
  BY DiskAssumption DEF CInt
<1>1. CASE Ending
  <2>1. NoBlock \in BlockType
    BY <1>0, BlockTyped DEF NoBlock
  <2>2. worker = "write" => LeftBehind \subseteq Sizes
    BY DEF LeftBehind, Sizes, Contents
  <2>3. stored' \subseteq StoredType
    BY <1>1, <2>2, EndingEnds, AfterTyped DEF Contents, BrokenOff
  <2> QED
    BY <1>1, <2>1, <2>3, EndingEnds, EndingFresh DEF Contents
<1>2. CASE Command /\ ~ConfAborts
  <2>1. dataBlock' = dataBlock /\ stored' = stored
    BY <1>2 DEF Command, do_configure, ConfGeoLocation, ConfStore, ConfFails, do_start, do_stop,
       do_stop_returns, do_unconfigure, locals
  <2>2. worker' \in {"fill", "write"} => worker' = worker
    BY <1>2 DEF Command, do_configure, Begins, Accepts, ConfGeoLocation, CommandMoves, ConfStore,
       Succeeds, ConfFails, do_start, StartThread, do_stop, StopThread, do_stop_returns,
       StopReturns, do_unconfigure, AtOnce
  <2> QED
    BY <2>1, <2>2 DEF Contents
<1>3. CASE NextEvent
  <2>1. SIZEOF_INT * nIntsPerFakeEvent_ \in Nat
    BY DEF Numbers, SIZEOF_INT
  <2>2. dataBlock' = Block(0, 0, SIZEOF_INT * nIntsPerFakeEvent_)
        /\ worker' = "fill" /\ stored' = stored
    BY <1>3 DEF NextEvent, Moves, WorkerMoves
  <2> QED
    BY <1>0, <2>1, <2>2, BlockTyped DEF Contents
<1>4. CASE Filled
  <2>1. worker = "fill" /\ stored' = stored
        /\ dataBlock' = Block(generatedCount + 1, GEO_LOCATION, dataBlock.size)
    BY <1>4 DEF Filled, Moves, WorkerMoves
  <2>2. generatedCount + 1 \in CInt
    BY <1>0, <2>1 DEF Numbers, Counted, CInt
  <2>3. dataBlock.size \in Nat
    BY <2>1 DEF Contents
  <2> QED
    BY <1>0, <2>1, <2>2, <2>3, BlockTyped DEF Contents
<1>5. CASE WriteReturns
  <2>1. worker = "write" /\ worker' = "while" /\ stored' = After(dataBlock.size)
        /\ dataBlock' = dataBlock
    BY <1>5 DEF WriteReturns, WorkerMoves, locals
  <2>2. stored' \subseteq StoredType
    BY <2>1, AfterTyped DEF Contents, Sizes
  <2> QED
    BY <2>1, <2>2 DEF Contents
<1>6. CASE ReaderEnters
  <2>1. dataBlock' = Block(ToInt(key_eventID_), ToInt(key_geoLocationID_), Uninitialised)
        /\ worker' = "read" /\ stored' = stored
    BY <1>6 DEF ReaderEnters, DataKey, Moves, WorkerMoves
  <2>2. ToInt(key_eventID_) \in CInt /\ ToInt(key_geoLocationID_) \in CInt
    BY ToIntOfSizeT DEF Ids
  <2>3. dataBlock' \in BlockType
    BY <2>1, <2>2, BlockTyped
  <2> QED
    BY <2>1, <2>3 DEF Contents
<1>7. CASE ReadReturns
  <2>1. worker' = "wait" /\ stored' = stored
    BY <1>7 DEF ReadReturns, Moves, WorkerMoves
  <2>2. ASSUME NEW b \in stored, b[4] # GroupOnly,
               dataBlock' = [dataBlock EXCEPT !.size = IF b[4] = Unwritten THEN 0 ELSE b[4]]
        PROVE  dataBlock' \in BlockType
    <3>1. (IF b[4] = Unwritten THEN 0 ELSE b[4]) \in Nat
      BY <2>2 DEF Contents, StoredType, Sizes
    <3> QED
      BY <2>2, <3>1 DEF Contents, BlockType
  <2>3. dataBlock' \in BlockType
    BY <1>7, <2>2 DEF ReadReturns, Contents
  <2> QED
    BY <2>1, <2>3 DEF Contents
<1>8. CASE WriterEnters \/ ListerEnters \/ ListReturns \/ Exit
  BY <1>8 DEF WriterEnters, ListerEnters, ListReturns, Exit, Moves, WorkerMoves, locals, Contents
<1>9. CASE Boot
  BY <1>9 DEF Boot, ModuleBoot, Fresh, locals, Contents
<1>10. CASE UNCHANGED vars
  BY <1>10 DEF vars, Contents
<1> QED
  BY <1>1, <1>2, <1>3, <1>4, <1>5, <1>6, <1>7, <1>8, <1>9, <1>10 DEF Next, Work, Working, Ending

LEMMA InitTypeInv == Init => TypeInv
<1> SUFFICES ASSUME Init PROVE TypeInv
  OBVIOUS
<1>1. 0 \in CInt /\ MaxEvents \in Nat
  BY DiskAssumption DEF CInt
<1>2. Labels
  BY DEF Init, ModuleInit, Labels, ModuleTypeOK
<1>3. Holdings
  BY DEF Init, ModuleInit, Holdings, Alive
<1>4. Ids
  BY DEF Init, Ids, REASONABLE_DEFAULT_INTFRAGMENT
<1>5. Counted
  <2>1. generatedCount = 0 /\ worker = "none"
    BY DEF Init, ModuleInit
  <2> QED
    BY <1>1, <2>1 DEF Counted
<1>6. Contents
  <2>1. NoBlock \in BlockType
    BY <1>1, BlockTyped DEF NoBlock
  <2> QED
    BY <2>1 DEF Init, ModuleInit, Contents
<1> QED
  BY <1>2, <1>3, <1>4, <1>5, <1>6 DEF TypeInv

LEMMA TypeInvariant == Spec => []TypeInv
<1>1. Numbers /\ TypeInv /\ [Next]_vars => TypeInv'
  BY LabelsNext, HoldingsNext, IdsNext, CountedNext, ContentsNext DEF TypeInv
<1> QED
  BY <1>1, InitTypeInv, NumbersInvariant, PTL DEF Spec

\* Every variable keeps its type, whatever the order of the commands and whatever
\* fails: no id leaves the range of an int (SimpleDiskReader.cpp:128,
\* SimpleDiskWriter.cpp:134-141).
THEOREM TypeCorrect == Spec => []TypeOK
<1>1. Numbers /\ TypeInv => TypeOK
  BY DEF Numbers, TypeInv, Labels, Holdings, Ids, Contents, BlockType, StoredType, Sizes, TypeOK
<1> QED
  BY <1>1, TypeInvariant, NumbersInvariant, PTL

----------------------------------------------------------------------------
(* The events in the files of a store *)

\* The events before n are in the file, with their data.
Before(target, n) == \A m \in 1 .. n - 1 : Complete(target, m)

Contiguous == \A b \in stored : b[2] >= 1 /\ Before(b[1], b[2])

\* The writer has completed the events it counted, but for the one it is in.
Counting ==
  /\ worker \in {"while", "fill"} /\ dataStore_ # TrashCan =>
       Before(dataStore_, generatedCount + 1)
  /\ worker = "write" =>
       /\ dataBlock.event = generatedCount /\ generatedCount # 0
       /\ dataStore_ # TrashCan => Before(dataStore_, generatedCount)

EventInv == inOrder => Contiguous /\ Counting

LEMMA AfterContiguous ==
  ASSUME Numbers, Contiguous, Counting, worker = "write", NEW size, stored' = After(size)
  PROVE  Contiguous'
<1>1. CASE dataStore_ = TrashCan
  BY <1>1 DEF After, Contiguous, Before, Complete
<1>2. CASE dataStore_ # TrashCan
  <2>1. stored' = stored \cup {<< dataStore_, generatedCount, dataBlock.geo, size >>}
    BY <1>2 DEF After, Dataset, Counting
  <2>2. generatedCount >= 1 /\ Before(dataStore_, generatedCount)
    BY <1>2 DEF Numbers, Counting
  <2>3. \A b \in stored' : b[2] >= 1 /\ \A m \in 1 .. b[2] - 1 : Complete(b[1], m)
    BY <2>1, <2>2 DEF Contiguous, Before
  <2>4. \A t, m : Complete(t, m) =>
          \E c \in stored' : c[1] = t /\ c[2] = m /\ c[4] \notin {Unwritten, GroupOnly}
    BY <2>1 DEF Complete
  <2>5. \A b \in stored' : b[2] >= 1 /\ \A m \in 1 .. b[2] - 1 :
          \E c \in stored' : c[1] = b[1] /\ c[2] = m /\ c[4] \notin {Unwritten, GroupOnly}
    BY <2>3, <2>4
  <2> QED
    BY <2>5 DEF Contiguous, Before, Complete
<1> QED
  BY <1>1, <1>2

LEMMA EndingEvents ==
  ASSUME Numbers, Ending, Contiguous, Counting
  PROVE  (Contiguous /\ Counting)'
<1>1. worker' = "none"
  BY EndingFresh
<1>2. stored' = stored \/ (worker = "write" /\ \E size : stored' = After(size))
  BY EndingEnds DEF BrokenOff
<1>3. Contiguous'
  <2>1. CASE stored' = stored
    BY <2>1 DEF Contiguous, Before, Complete
  <2> QED
    BY <1>2, <2>1, AfterContiguous
<1> QED
  BY <1>1, <1>3 DEF Counting

LEMMA WriteEvents ==
  ASSUME Numbers, WriteReturns, Filling, Contiguous, Counting
  PROVE  (Contiguous /\ Counting)'
<1>1. /\ worker = "write" /\ worker' = "while" /\ stored' = After(dataBlock.size)
      /\ generatedCount' = generatedCount /\ dataStore_' = dataStore_
  BY DEF WriteReturns, WorkerMoves, conf, locals
<1>2. Contiguous'
  BY <1>1, AfterContiguous
<1>3. dataBlock.size \notin {Unwritten, GroupOnly}
  BY <1>1 DEF Numbers, Filling, SIZEOF_INT, Unwritten, GroupOnly
<1>4. ASSUME dataStore_ # TrashCan PROVE Before(dataStore_, generatedCount + 1)'
  <2>1. stored' = stored \cup {<< dataStore_, generatedCount, dataBlock.geo, dataBlock.size >>}
    BY <1>1, <1>4 DEF After, Dataset, Counting
  <2>2. \A m \in 1 .. generatedCount - 1 : Complete(dataStore_, m)
    BY <1>1, <1>4 DEF Counting, Before
  <2>3. \A m \in 1 .. generatedCount :
          \E c \in stored' : c[1] = dataStore_ /\ c[2] = m /\ c[4] \notin {Unwritten, GroupOnly}
    <3>1. \A m \in 1 .. generatedCount : m \in 1 .. generatedCount - 1 \/ m = generatedCount
      BY DEF Numbers
    <3>2. \A m \in 1 .. generatedCount - 1 :
            \E c \in stored' : c[1] = dataStore_ /\ c[2] = m /\ c[4] \notin {Unwritten, GroupOnly}
      BY <2>1, <2>2 DEF Complete
    <3> DEFINE d == << dataStore_, generatedCount, dataBlock.geo, dataBlock.size >>
    <3>3. /\ d \in stored' /\ d[1] = dataStore_ /\ d[2] = generatedCount
          /\ d[4] \notin {Unwritten, GroupOnly}
      BY <1>3, <2>1
    <3> HIDE DEF d
    <3> QED
      BY <3>1, <3>2, <3>3
  <2>4. (generatedCount + 1) - 1 = generatedCount
    BY DEF Numbers
  <2> QED
    BY <1>1, <2>3, <2>4 DEF Before, Complete
<1> QED
  BY <1>1, <1>2, <1>4 DEF Counting

LEMMA WorkingEvents ==
  ASSUME Numbers, Working, Filling, Contiguous, Counting
  PROVE  (Contiguous /\ Counting)'
<1> USE DEF Contiguous, Before, Complete, Moves, WorkerMoves, conf, locals
<1>1. CASE WriterEnters
  BY <1>1 DEF WriterEnters, Counting
<1>2. CASE NextEvent
  BY <1>2 DEF NextEvent, Counting
<1>3. CASE Filled
  <2>1. /\ worker = "fill" /\ worker' = "write" /\ generatedCount' = generatedCount + 1
        /\ dataBlock'.event = generatedCount + 1
        /\ stored' = stored /\ dataStore_' = dataStore_
    BY <1>3 DEF Filled, Block
  <2>2. generatedCount' # 0 /\ generatedCount' = generatedCount + 1
    BY <2>1 DEF Numbers
  <2>3. dataStore_ # TrashCan => Before(dataStore_, generatedCount + 1)
    BY <2>1 DEF Counting
  <2>4. dataStore_' # TrashCan => Before(dataStore_, generatedCount)'
    BY <2>1, <2>3
  <2>5. Contiguous'
    BY <2>1
  <2>6. dataBlock'.event = generatedCount'
    BY <2>1
  <2>7. Counting'
    BY <2>1, <2>2, <2>4, <2>6 DEF Counting
  <2> QED
    BY <2>5, <2>7
<1>4. CASE WriteReturns
  BY <1>4, WriteEvents
<1>5. CASE ReaderEnters \/ ReadReturns \/ ListerEnters \/ ListReturns \/ Exit
  BY <1>5 DEF ReaderEnters, ReadReturns, ListerEnters, ListReturns, Exit, Counting
<1> QED
  BY <1>1, <1>2, <1>3, <1>4, <1>5 DEF Working

LEMMA EventNext ==
  ASSUME Numbers, OrderInv, EventInv, [Next]_vars
  PROVE  EventInv'
<1> SUFFICES ASSUME inOrder' PROVE (Contiguous /\ Counting)'
  BY DEF EventInv
<1>1. CASE UNCHANGED vars
  BY <1>1 DEF vars, EventInv, Contiguous, Counting, Before, Complete
<1>2. CASE Next
  <2>1. Ordered /\ Filling /\ Contiguous /\ Counting
    BY <1>2, InOrderBefore DEF OrderInv, EventInv
  <2>2. CASE Command /\ ~ConfAborts
    <3>1. stored' = stored /\ generatedCount' = generatedCount /\ dataBlock' = dataBlock
      BY <2>2 DEF Command, do_configure, ConfGeoLocation, ConfStore, ConfFails, do_start, do_stop,
         do_stop_returns, do_unconfigure, locals
    <3>2. worker' \in {"while", "fill", "write"} => worker' = worker /\ dataStore_' = dataStore_
      BY <2>1, <2>2 DEF Command, do_configure, Begins, Accepts, ConfGeoLocation, CommandMoves,
         ConfStore, Succeeds, ConfFails, do_start, StartThread, do_stop, StopThread,
         do_stop_returns, StopReturns, do_unconfigure, AtOnce, conf, Ordered, Active
    <3> QED
      BY <2>1, <3>1, <3>2 DEF Contiguous, Counting, Before, Complete
  <2>3. CASE Boot
    BY <2>1, <2>3 DEF Boot, ModuleBoot, Fresh, Contiguous, Counting, Before, Complete
  <2> QED
    BY <1>2, <2>1, <2>2, <2>3, EndingEvents, WorkingEvents DEF Next, Work, Working, Ending
<1> QED
  BY <1>1, <1>2

LEMMA InitEvents == Init => EventInv
BY DEF Init, ModuleInit, EventInv, Contiguous, Counting

LEMMA EventInvariant == Spec => []EventInv
<1>1. Numbers /\ OrderInv /\ EventInv /\ [Next]_vars => EventInv'
  BY EventNext
<1> QED
  BY <1>1, InitEvents, NumbersInvariant, OrderInvariant, PTL DEF Spec

\* As long as commands keep the order, the events in the files of a store are 1 to
\* n and none but the last is there without its data, whatever applications were
\* killed, failed, ended or started again over the same files
\* (SimpleDiskWriter.cpp:115, 134-147, HDF5DataStore.hpp:163-184).
THEOREM EventsContiguousHolds == Spec => []EventsContiguous
<1>1. EventInv => EventsContiguous
  BY DEF EventInv, Contiguous, Before, EventsContiguous
<1> QED
  BY <1>1, EventInvariant, PTL

----------------------------------------------------------------------------
(* What the reader reports *)

\* A working thread is at labels of its own module, and at its end only after the
\* flag was cleared.
Where ==
  /\ worker = "list" => plugin = Lister
  /\ worker = "read" => plugin = Reader
  /\ worker \in {"while", "fill", "write"} => plugin = Writer
  /\ worker = "done" => ~running

Reading == plugin = Reader /\ (worker \in {"read", "wait"} \/ (worker = "done" /\ cmd = "stop"))

AtKey == dataBlock.event = ToInt(key_eventID_) /\ dataBlock.geo = ToInt(key_geoLocationID_)

\* The block is one of the store, or the store had none, or failed.
Report ==
  /\ worker = "read" => dataBlock.size = Uninitialised
  /\ worker # "read" /\ dataBlock.size = Uninitialised => Faults \/ dataStore_ = TrashCan \/ ~Held
  /\ worker # "read" /\ dataBlock.size # Uninitialised =>
       \E b \in stored :
         /\ << b[1], b[2], b[3] >> = << dataStore_, dataBlock.event, dataBlock.geo >>
         /\ b[4] = dataBlock.size \/ (b[4] = Unwritten /\ dataBlock.size = 0)

ReadInv == inOrder /\ Reading => AtKey /\ Report

LEMMA WhereNext ==
  ASSUME Where, [Next]_vars
  PROVE  Where'
<1> USE DEF Where, Writer, Reader, Lister
<1>1. CASE Ending
  BY <1>1, EndingFresh
<1>2. CASE Command /\ ~ConfAborts
  BY <1>2 DEF Command, do_configure, Begins, Accepts, ConfGeoLocation, CommandMoves, ConfStore,
     Succeeds, ConfFails, do_start, StartThread, do_stop, StopThread, ClearFlag, do_stop_returns,
     StopReturns, do_unconfigure, AtOnce, conf
<1>3. CASE Working
  BY <1>3 DEF Working, WriterEnters, NextEvent, Filled, WriteReturns, ReaderEnters, ReadReturns,
     ListerEnters, ListReturns, Exit, Moves, WorkerMoves
<1>4. CASE Boot
  BY <1>4 DEF Boot, ModuleBoot, Fresh
<1>5. CASE UNCHANGED vars
  BY <1>5 DEF vars
<1> QED
  BY <1>1, <1>2, <1>3, <1>4, <1>5 DEF Next, Work, Working, Ending

\* A block keeps what was read while commands in order come and the thread ends.
LEMMA ReportKept ==
  ASSUME AtKey, Report,
         UNCHANGED << conf, dataBlock, stored >>,
         worker' = worker \/ (worker = "wait" /\ worker' = "done")
  PROVE  (AtKey /\ Report)'
BY DEF AtKey, Report, Held, Dataset, conf

LEMMA ReadReports ==
  ASSUME Contents, AtKey, Report, ReadReturns
  PROVE  (AtKey /\ Report)'
<1>1. worker' = "wait" /\ stored' = stored /\ UNCHANGED conf /\ dataBlock.size = Uninitialised
  BY DEF ReadReturns, Moves, WorkerMoves, Report
<1>2. CASE dataBlock' = dataBlock /\ (dataStore_ = TrashCan \/ (Held /\ Faults) \/ ~Held)
  BY <1>1, <1>2 DEF AtKey, Report, Held, Dataset, conf
<1>3. ASSUME NEW b \in stored, b[4] # GroupOnly, b = Dataset(b[4]),
             dataBlock' = [dataBlock EXCEPT !.size = IF b[4] = Unwritten THEN 0 ELSE b[4]]
      PROVE  (AtKey /\ Report)'
  <2>1. b[4] \in Nat \cup {Unwritten}
    BY <1>3 DEF Contents, StoredType, Sizes
  <2>2. /\ dataBlock'.event = dataBlock.event /\ dataBlock'.geo = dataBlock.geo
        /\ dataBlock'.size = IF b[4] = Unwritten THEN 0 ELSE b[4]
    BY <1>3 DEF Contents, BlockType
  <2>3. dataBlock'.size # Uninitialised
    BY <2>1, <2>2 DEF Uninitialised
  <2>4. b[4] = dataBlock'.size \/ (b[4] = Unwritten /\ dataBlock'.size = 0)
    BY <2>2
  <2>7. << b[1], b[2], b[3] >> = << dataStore_, dataBlock.event, dataBlock.geo >>
    BY <1>3 DEF Dataset
  <2>5. AtKey'
    BY <1>1, <2>2 DEF AtKey, conf
  <2>6. Report'
    BY <1>1, <2>2, <2>3, <2>4, <2>7 DEF Report, conf
  <2> QED
    BY <2>5, <2>6
<1> QED
  BY <1>2, <1>3 DEF ReadReturns

LEMMA ReadNext ==
  ASSUME Where, Contents, OrderInv, ReadInv, [Next]_vars
  PROVE  ReadInv'
<1> SUFFICES ASSUME inOrder', Reading' PROVE (AtKey /\ Report)'
  BY DEF ReadInv
<1>1. CASE UNCHANGED vars
  BY <1>1 DEF vars, ReadInv, Reading, AtKey, Report, Held, Dataset
<1>2. CASE Next
  <2>1. inOrder /\ Ordered
    BY <1>2, InOrderBefore DEF OrderInv
  <2>2. CASE Ending \/ Boot
    BY <2>2, EndingFresh DEF Boot, ModuleBoot, Fresh, Reading
  <2>3. CASE do_stop
    <3>1. Reading /\ UNCHANGED << conf, dataBlock, stored, worker >>
      BY <2>3 DEF do_stop, StopThread, Accepts, Reading, Where, locals
    <3> QED
      BY <2>1, <3>1, ReportKept DEF ReadInv
  <2>4. CASE Command /\ ~ConfAborts /\ ~do_stop
    <3>1. CASE do_configure \/ do_unconfigure
      <4>1. ~Active /\ cmd' # "stop" /\ worker' = worker
        BY <2>1, <3>1, InOrderCommand DEF do_configure, Begins, do_unconfigure, AtOnce, Accepts,
           Ordered
      <4> QED
        BY <4>1 DEF Active, Reading
    <3>2. CASE ConfGeoLocation \/ ConfStore \/ ConfFails
      <4>1. cmd \in {"detector", "store"} /\ cmd' # "stop" /\ worker' = worker
        BY <3>2 DEF ConfGeoLocation, CommandMoves, ConfStore, Succeeds, ConfFails, Refused
      <4> QED
        BY <2>1, <4>1 DEF Ordered, Active, Reading
    <3>3. CASE do_start \/ do_stop_returns
      BY <3>3 DEF do_start, StartThread, Accepts, do_stop_returns, StopReturns, Joined, Succeeds,
         Reading
    <3> QED
      BY <2>4, <3>1, <3>2, <3>3 DEF Command
  <2>5. CASE ReaderEnters
    <3>1. /\ worker' = "read" /\ UNCHANGED conf
          /\ dataBlock' = Block(ToInt(key_eventID_), ToInt(key_geoLocationID_), Uninitialised)
      BY <2>5 DEF ReaderEnters, Moves, WorkerMoves, DataKey
    <3>2. AtKey'
      BY <3>1 DEF AtKey, Block, conf
    <3> QED
      BY <3>1, <3>2 DEF Report, Block
  <2>6. CASE ReadReturns
    <3>1. Reading
      BY <2>6 DEF ReadReturns, Moves, WorkerMoves, Reading, Where
    <3> QED
      BY <2>1, <2>6, <3>1, ReadReports DEF ReadInv
  <2>7. CASE Exit
    <3>1. Reading /\ worker = "wait" /\ worker' = "done" /\ UNCHANGED << conf, dataBlock, stored >>
      BY <2>7 DEF Exit, Moves, WorkerMoves, Reading, Where, Writer, Reader, locals
    <3> QED
      BY <2>1, <3>1, ReportKept DEF ReadInv
  <2>8. CASE WriterEnters \/ NextEvent \/ Filled \/ WriteReturns \/ ListerEnters \/ ListReturns
    BY <2>8 DEF WriterEnters, NextEvent, Filled, WriteReturns, ListerEnters, ListReturns, Moves,
       WorkerMoves, Reading, Where, Reader, Lister
  <2> QED
    BY <1>2, <2>2, <2>3, <2>4, <2>5, <2>6, <2>7, <2>8 DEF Next, Work, Working, Ending
<1> QED
  BY <1>1, <1>2

LEMMA ReadInvariant == Spec => [](Where /\ ReadInv)
<1>1. Init => Where /\ ReadInv
  BY DEF Init, ModuleInit, Where, ReadInv, Reading
<1>2. TypeInv /\ OrderInv /\ Where /\ ReadInv /\ [Next]_vars => (Where /\ ReadInv)'
  BY WhereNext, ReadNext DEF TypeInv
<1> QED
  BY <1>1, <1>2, TypeInvariant, OrderInvariant, PTL DEF Spec

\* As long as commands keep the order, the reader reports the block that was written
\* under the ids it was configured with, if they fit an int, and without faults
\* misses none (SimpleDiskReader.cpp:53-56, 128, 133, 141).
THEOREM ReadsTheBlockAskedForHolds == Spec => []ReadsTheBlockAskedFor
<1>1. ASSUME TypeInv, ReadInv, plugin = Reader, inOrder,
             worker = "wait" \/ (worker = "done" /\ cmd = "stop")
      PROVE  /\ key_eventID_ \in CInt => dataBlock.event = key_eventID_
             /\ key_geoLocationID_ \in CInt => dataBlock.geo = key_geoLocationID_
             /\ dataBlock.size # Uninitialised =>
                  \E b \in stored : b[1] = dataStore_
                    /\ \/ b[4] = dataBlock.size
                       \/ b[4] = Unwritten /\ dataBlock.size = 0
                    /\ (b[2] - key_eventID_) % (2 * (IntMax + 1)) = 0
                    /\ (b[3] - key_geoLocationID_) % (2 * (IntMax + 1)) = 0
             /\ dataBlock.size = Uninitialised /\ ~Faults /\ dataStore_ # TrashCan =>
                  \A b \in stored : b[4] # GroupOnly =>
                    << b[1], b[2], b[3] >> # << dataStore_, key_eventID_, key_geoLocationID_ >>
  <2>1. AtKey /\ Report /\ worker # "read"
    BY <1>1 DEF ReadInv, Reading
  <2>2. Ids /\ Contents
    BY <1>1 DEF TypeInv
  <2>3. /\ key_eventID_ \in CInt => dataBlock.event = key_eventID_
        /\ key_geoLocationID_ \in CInt => dataBlock.geo = key_geoLocationID_
        /\ (dataBlock.event - key_eventID_) % (2 * (IntMax + 1)) = 0
        /\ (dataBlock.geo - key_geoLocationID_) % (2 * (IntMax + 1)) = 0
    BY <2>1, <2>2, ToIntOfSizeT DEF AtKey, Ids
  <2>4. ASSUME dataBlock.size # Uninitialised
        PROVE  \E b \in stored : b[1] = dataStore_
                 /\ \/ b[4] = dataBlock.size
                    \/ b[4] = Unwritten /\ dataBlock.size = 0
                 /\ (b[2] - key_eventID_) % (2 * (IntMax + 1)) = 0
                 /\ (b[3] - key_geoLocationID_) % (2 * (IntMax + 1)) = 0
    <3>1. PICK b \in stored :
            /\ << b[1], b[2], b[3] >> = << dataStore_, dataBlock.event, dataBlock.geo >>
            /\ b[4] = dataBlock.size \/ (b[4] = Unwritten /\ dataBlock.size = 0)
      BY <2>1, <2>4 DEF Report
    <3>2. b[1] = dataStore_ /\ b[2] = dataBlock.event /\ b[3] = dataBlock.geo
      BY <3>1
    <3> QED
      BY <2>3, <3>1, <3>2
  <2>5. ASSUME dataBlock.size = Uninitialised, ~Faults, dataStore_ # TrashCan, NEW b \in stored,
               b[4] # GroupOnly,
               << b[1], b[2], b[3] >> = << dataStore_, key_eventID_, key_geoLocationID_ >>
        PROVE  FALSE
    <3>1. b[1] = dataStore_ /\ b[2] = key_eventID_ /\ b[3] = key_geoLocationID_
      BY <2>5
    <3>2. b[2] \in CInt /\ b[3] = GEO_LOCATION /\ GEO_LOCATION \in CInt
      <4>1. GEO_LOCATION \in CInt
        BY DiskAssumption DEF CInt
      <4> QED
        BY <2>2, <4>1 DEF Contents, StoredType
    <3>3. b = << b[1], b[2], b[3], b[4] >>
      BY <2>2 DEF Contents, StoredType
    <3>4. Held
      BY <2>3, <2>5, <3>1, <3>2, <3>3 DEF Held, Dataset
    <3> QED
      BY <2>1, <2>5, <3>4 DEF Report
  <2> QED
    BY <2>3, <2>4, <2>5
<1>2. TypeInv /\ ReadInv => ReadsTheBlockAskedFor
  BY <1>1 DEF ReadsTheBlockAskedFor
<1> QED
  BY <1>2, ReadInvariant, TypeInvariant, PTL

----------------------------------------------------------------------------
(* Undefined behaviour *)

\* No event and geo-location has two datasets in a store.
WrittenOnce ==
  \A b, c \in stored : b[1] = c[1] /\ b[2] = c[2] /\ b[3] = c[3] =>
    b[4] = c[4] \/ GroupOnly \in {b[4], c[4]}

LEMMA AfterOnce ==
  ASSUME Contents, WrittenOnce, ~Held, NEW size, stored' = After(size)
  PROVE  WrittenOnce'
<1>1. ASSUME NEW b \in stored, b[1] = dataStore_, b[2] = dataBlock.event, b[3] = dataBlock.geo
      PROVE  b[4] = GroupOnly
  <2>1. b = << b[1], b[2], b[3], b[4] >>
    BY DEF Contents, StoredType
  <2> QED
    BY <1>1, <2>1 DEF Held, Dataset
<1>2. CASE stored' = stored
  BY <1>2 DEF WrittenOnce
<1>3. CASE stored' = stored \cup {Dataset(size)}
  BY <1>1, <1>3 DEF WrittenOnce, Dataset
<1> QED
  BY <1>2, <1>3 DEF After

LEMMA WrittenOnceNext ==
  ASSUME Contents, WrittenOnce, [Next]_vars
  PROVE  WrittenOnce'
<1>1. CASE stored' = stored
  BY <1>1 DEF WrittenOnce
<1>2. CASE Ending
  BY <1>1, <1>2, EndingEnds, AfterOnce DEF BrokenOff
<1>3. CASE WriteReturns
  BY <1>3, AfterOnce DEF WriteReturns
<1>4. CASE Command /\ ~ConfAborts
  BY <1>1, <1>4 DEF Command, do_configure, ConfGeoLocation, ConfStore, ConfFails, do_start, do_stop,
     do_stop_returns, do_unconfigure
<1>5. CASE Working /\ ~WriteReturns
  BY <1>1, <1>5 DEF Working, WriterEnters, NextEvent, Filled, ReaderEnters, ReadReturns,
     ListerEnters, ListReturns, Exit, Moves
<1>6. CASE Boot \/ UNCHANGED vars
  BY <1>1, <1>6 DEF Boot, vars
<1> QED
  BY <1>2, <1>3, <1>4, <1>5, <1>6 DEF Next, Work, Working, Ending

LEMMA WrittenOnceInvariant == Spec => []WrittenOnce
<1>1. Init => WrittenOnce
  BY DEF Init, WrittenOnce
<1>2. TypeInv /\ WrittenOnce /\ [Next]_vars => WrittenOnce'
  BY WrittenOnceNext DEF TypeInv
<1> QED
  BY <1>1, <1>2, TypeInvariant, PTL DEF Spec

\* Behind a dataset without its data there is no event.
LEMMA UnwrittenIsLast ==
  ASSUME Contents, WrittenOnce, Contiguous, ReadOverruns, NEW b \in stored, b[1] = dataStore_
  PROVE  b[2] <= dataBlock.event
<1> DEFINE d == Dataset(Unwritten)
<1>1. d \in stored /\ d[1] = dataStore_ /\ d[2] = dataBlock.event /\ d[3] = dataBlock.geo
      /\ d[4] = Unwritten
  BY DEF ReadOverruns, Dataset
<1>2. d[3] = GEO_LOCATION /\ b[2] \in Int /\ d[2] \in Int /\ d[2] >= 1
  <2>1. CInt \subseteq Int
    BY DiskAssumption DEF CInt
  <2> QED
    BY <1>1, <2>1 DEF Contents, StoredType, Contiguous
<1> HIDE DEF d
<1>3. ASSUME b[2] > d[2] PROVE FALSE
  <2>1. Complete(dataStore_, d[2])
    <3>1. d[2] \in 1 .. b[2] - 1
      BY <1>2, <1>3
    <3> QED
      BY <3>1 DEF Contiguous, Before
  <2>2. PICK c \in stored : c[1] = dataStore_ /\ c[2] = d[2] /\ c[4] \notin {Unwritten, GroupOnly}
    BY <2>1 DEF Complete
  <2>3. c[3] = GEO_LOCATION
    BY <2>2 DEF Contents, StoredType
  <2> QED
    BY <1>1, <1>2, <2>2, <2>3 DEF WrittenOnce, Unwritten, GroupOnly
<1> QED
  BY <1>1, <1>2, <1>3

LEMMA EmptyIsConfigured ==
  ASSUME Numbers, Ordered, Configured, Filling, worker = "write", dataBlock.size = 0
  PROVE  payload.ints = 0
<1>1. nIntsPerFakeEvent_ = 0
  BY DEF Numbers, Filling, SIZEOF_INT
<1>2. nIntsPerFakeEvent_ = Value(payload.ints, REASONABLE_DEFAULT_INTSPERFAKEEVENT)
  BY DEF Ordered, Active, Configured, Filling
<1> QED
  BY <1>1, <1>2 DEF Value, REASONABLE_DEFAULT_INTSPERFAKEEVENT

\* As long as commands keep the order, no store is used after it was destroyed and
\* no fill loop passes the end of its vector; only events configured to be empty
\* have a block without bytes; a read overruns its buffer only at the last event of
\* its store; and a size nobody set is printed only of a dataset the store does not
\* have, keeps nothing of, or failed to read (SimpleDiskWriter.cpp:60, 127-131,
\* TrashCanDataStore.hpp:47-49, HDF5DataStore.hpp:123-132, SimpleDiskReader.cpp:141).
THEOREM UndefinedHasCauseHolds == Spec => []UndefinedHasCause
<1>1. ASSUME Numbers, TypeInv, OrderInv, EventInv, ReadInv, WrittenOnce, inOrder
      PROVE  /\ ~UsesDestroyedStore /\ ~FillOverruns
             /\ PrintsEmptyBlock => payload.ints = 0
             /\ ReadOverruns => \A b \in stored : b[1] = dataStore_ => b[2] <= dataBlock.event
             /\ PrintsUnset => dataStore_ = TrashCan \/ ~Held \/ Faults
  <2>1. Ordered /\ Configured /\ Filling /\ Contiguous /\ Contents
    BY <1>1 DEF OrderInv, EventInv, TypeInv
  <2>2. ~UsesDestroyedStore
    BY <2>1 DEF Ordered, UsesDestroyedStore
  <2>3. ~FillOverruns
    BY <1>1, <2>1 DEF Numbers, Filling, FillOverruns, SIZEOF_INT
  <2>4. PrintsEmptyBlock => payload.ints = 0
    BY <1>1, <2>1, EmptyIsConfigured DEF PrintsEmptyBlock
  <2>5. ReadOverruns => \A b \in stored : b[1] = dataStore_ => b[2] <= dataBlock.event
    BY <1>1, <2>1, UnwrittenIsLast
  <2>6. PrintsUnset => dataStore_ = TrashCan \/ ~Held \/ Faults
    BY <1>1 DEF PrintsUnset, ReadInv, Reading, Report
  <2> QED
    BY <2>2, <2>3, <2>4, <2>5, <2>6
<1>2. Numbers /\ TypeInv /\ OrderInv /\ EventInv /\ ReadInv /\ WrittenOnce => UndefinedHasCause
  BY <1>1 DEF UndefinedHasCause
<1> QED
  BY <1>2, NumbersInvariant, TypeInvariant, OrderInvariant, EventInvariant, ReadInvariant,
     WrittenOnceInvariant, PTL
=============================================================================
