---------------------------- MODULE StorageKeys ----------------------------
(***************************************************************************)
(* How ddpdemo names a block of data.  A StorageKey (StorageKey.hpp) is    *)
(* translated three times: into the elements of a path (HDF5KeyTranslator),*)
(* into the name of the HDF5 file that holds it, and into the names of the *)
(* group and of the dataset inside that file (HDF5DataStore); a listing    *)
(* translates the group and dataset names back into a key.                 *)
(*                                                                         *)
(* A text is abstracted to what these translations tell apart: a decimal   *)
(* number behind a run of fill zeros, a word that is not a number, or the  *)
(* empty text.  A file name is the sequence of the words and numbers it is *)
(* joined from, and so is a prefix, which may itself look like the         *)
(* beginning of a file name ("fake_event_1").  Two names are the same      *)
(* string exactly when they are the same sequence, since a word never      *)
(* begins or ends with a digit next to a number.  A prefix stands for      *)
(* directory_path and filename_prefix together.                            *)
(***************************************************************************)
EXTENDS Integers, Sequences, FiniteSets

CONSTANTS
  IntMax,       \* std::numeric_limits<int>::max()
  SizeMod,      \* 2^w, for a size_t of w bits
  Prefixes,     \* values of "filename_prefix", as sequences of words and numbers
  PrefixRegex   \* PrefixRegex[p]: the prefixes that p matches when it is read
                \* as a regular expression without alternatives (|); {p} for a
                \* name without . + * ( ...

ASSUME WidthAssumption ==
  /\ IntMax \in Nat
  /\ SizeMod \in Nat
  /\ SizeMod >= 2 * (IntMax + 1)

Texts == [kind : STRING, pad : Nat, value : Int]

ASSUME PrefixAssumption ==
  /\ Prefixes \subseteq Seq(Texts)
  /\ PrefixRegex \in [Prefixes -> SUBSET Prefixes]

----------------------------------------------------------------------------
(* StorageKey *)

IntMin == -IntMax - 1
CInt == IntMin .. IntMax

INVALID_EVENTID == IntMax
INVALID_DETECTORID == "Invalid"
INVALID_GEOLOCATION == IntMax

StorageKey(eventID, detectorID, geoLocation) ==
  [event |-> eventID, detector |-> detectorID, geo |-> geoLocation]

InvalidKey == StorageKey(INVALID_EVENTID, INVALID_DETECTORID, INVALID_GEOLOCATION)

----------------------------------------------------------------------------
(* Texts.  std::to_string never pads; an ostringstream with setw and       *)
(* setfill('0') puts the zeros before the number, before its sign too.     *)

Number(pad, value) == [kind |-> "number", pad |-> pad, value |-> value]
Literal(characters) == [kind |-> characters, pad |-> 0, value |-> 0]
Word == Literal("word")
Empty == [kind |-> "empty", pad |-> 0, value |-> 0]

ToString(n) == Number(0, n)

\* Mutant: the id stays an int.
ToSizeT_Int(i) == i

ToSizeT(i) == i % SizeMod

EVENT_ID_DIGITS == 4
GEO_LOCATION_DIGITS == 3

\* The zeros that setw(width) puts before i: one for each column i leaves free.
FillZeros(width, i) ==
  IF i >= 0 THEN Cardinality({c \in 1 .. width - 1 : i < 10 ^ c})
            ELSE Cardinality({c \in 1 .. width - 2 : -i < 10 ^ c})

Padded(width, i) == Number(FillZeros(width, i), i)

Clamp(n) == IF n > IntMax THEN IntMax ELSE IF n < IntMin THEN IntMin ELSE n

\* Mutant: a value out of range keeps its low bits where it should be clamped.
Extract_LowBits(text, unset) ==
  IF text.kind = "empty" THEN unset ELSE text.value % (IntMax + 1)

\* stringstream(text) >> i: an empty text leaves i as it was, a word sets it to
\* zero, as do zeros followed by a sign, and a value out of range is clamped.
Extract(text, unset) ==
  IF text.kind = "empty" THEN unset
  ELSE IF text.kind = "word" \/ (text.pad > 0 /\ text.value < 0) THEN 0
  ELSE Clamp(text.value)

----------------------------------------------------------------------------
(* HDF5KeyTranslator.  A path is the sequence of its elements: joining them *)
(* with PATH_SEPARATOR and splitting at it are inverses, no element has it. *)

CURRENT_VERSION == 1

getPathElements(key) ==
  << Padded(EVENT_ID_DIGITS, key.event), Padded(GEO_LOCATION_DIGITS, key.geo) >>

\* Mutant: the second element is not looked at.
getKeyFromList_EventTwice(elements, version) ==
  StorageKey(Extract(elements[1], INVALID_EVENTID), INVALID_DETECTORID,
             Extract(elements[1], INVALID_GEOLOCATION))

getKeyFromList(elements, version) ==
  IF version = 1
  THEN StorageKey(
         IF Len(elements) >= 1 THEN Extract(elements[1], INVALID_EVENTID)
                               ELSE INVALID_EVENTID,
         INVALID_DETECTORID,
         IF Len(elements) >= 2 THEN Extract(elements[2], INVALID_GEOLOCATION)
                               ELSE INVALID_GEOLOCATION)
  ELSE InvalidKey

----------------------------------------------------------------------------
(* HDF5DataStore: the file, the group and the dataset of a key.  write()   *)
(* takes the ids through a size_t, read() prints the ints themselves.      *)

Modes == {"one-event-per-file", "one-fragment-per-file", "all-per-file"}

Configurations == [prefix : Prefixes, mode : Modes]

\* What getFileNameFromKey appends to the prefix.
Ending(mode, key) ==
  LET idx == ToString(ToSizeT(key.event))
      geoID == ToString(ToSizeT(key.geo))
  IN  IF mode = "one-event-per-file"
      THEN << Literal("_event_"), idx, Literal("."), Literal("hdf5") >>
      ELSE IF mode = "one-fragment-per-file"
      THEN << Literal("_event_"), idx, Literal("_geoID_"), geoID, Literal("."), Literal("hdf5") >>
      ELSE << Literal("_all_events"), Literal("."), Literal("hdf5") >>

\* The name of the file of a key, for a mode the constructor accepts.
getFileNameFromKey(conf, key) == conf.prefix \o Ending(conf.mode, key)

\* The elements of a regular expression that are not characters: \d+ and the dot.
Digits == Literal("\\d+")
AnyCharacter == Literal("(any)")

\* Mutant: one expression for both kinds of files that are named after an event.
EndingRegex_GeoOptional(mode) ==
  IF mode = "all-per-file" THEN << Literal("_all_events"), AnyCharacter, Literal("hdf5") >>
  ELSE << Literal("_event_"), Digits, AnyCharacter, Literal("hdf5") >>

\* What getAllFiles_ appends to the prefix.
EndingRegex(mode) ==
  IF mode = "one-event-per-file"
  THEN << Literal("_event_"), Digits, AnyCharacter, Literal("hdf5") >>
  ELSE IF mode = "one-fragment-per-file"
  THEN << Literal("_event_"), Digits, Literal("_geoID_"), Digits, AnyCharacter, Literal("hdf5") >>
  ELSE << Literal("_all_events"), AnyCharacter, Literal("hdf5") >>

\* Of the words and numbers in names, a dot and a digit are single characters.
MatchesText(element, text) ==
  \/ element = text
  \/ element = Digits /\ text.kind = "number" /\ text.value >= 0
  \/ element = AnyCharacter /\ (text = Literal(".") \/ text \in {ToString(d) : d \in 0 .. 9})

\* regex_match: the whole name matches, a part of it the prefix and the rest the
\* ending, element by element.
matchesPattern(conf, name) ==
  LET ending == EndingRegex(conf.mode)
  IN  \E p \in PrefixRegex[conf.prefix] :
        /\ Len(name) = Len(p) + Len(ending)
        /\ SubSeq(name, 1, Len(p)) = p
        /\ \A i \in 1 .. Len(ending) : MatchesText(ending[i], name[Len(p) + i])

\* The names in a directory that a store lists.
getFilesMatchingPattern(names, conf) == {name \in names : matchesPattern(conf, name)}

\* Mutants: write() names the dataset after the event; read() pads its names.
WritePath_EventTwice(key) == << ToString(ToSizeT(key.event)), ToString(ToSizeT(key.event)) >>
ReadPath_Padded(key) == getPathElements(key)

\* <<group, dataset>> as write() and as read() name them.
WritePath(key) == << ToString(ToSizeT(key.event)), ToString(ToSizeT(key.geo)) >>
ReadPath(key) == << ToString(key.event), ToString(key.geo) >>

\* The key that a listing reports for a dataset.
ListedKey(path) == getKeyFromList(path, CURRENT_VERSION)
=============================================================================
