--------------------------- MODULE KeyPairs_proofs ---------------------------
(***************************************************************************)
(* The properties of KeyPairs for keys with any ids an int can hold, ints  *)
(* and size_ts of every width and any set of prefixes.                     *)
(***************************************************************************)
EXTENDS KeyPairs, StorageKeys_proofs

TypedKeys == Key(one) /\ Key(two)

LEMMA TypedKeysInvariant == Spec => []TypedKeys
<1>1. \A k \in Keys \cup {InvalidKey} : Key(k)
  <2>1. IntMax \in CInt
    BY WidthAssumption DEF CInt, IntMin
  <2>2. Key(InvalidKey)
    BY <2>1 DEF Key, InvalidKey, StorageKey, INVALID_EVENTID, INVALID_GEOLOCATION
  <2>3. ASSUME NEW k \in Keys PROVE Key(k)
    BY IdsAssumption DEF Keys, Key, StorageKey
  <2> QED
    BY <2>2, <2>3
<1>2. Init => TypedKeys
  BY <1>1 DEF Init, TypedKeys
<1>3. TypedKeys /\ [Compare]_vars => TypedKeys'
  BY <1>1 DEF Compare, vars, TypedKeys, Key
<1> QED
  BY <1>2, <1>3, PTL DEF Spec

\* The zeros that setw() puts before an id that is not negative change nothing.
LEMMA ExtractPadded ==
  ASSUME NEW i \in CInt, i >= 0, NEW width, NEW unset
  PROVE  Extract(Padded(width, i), unset) = i
<1> DEFINE text == Padded(width, i)
<1>1. text.kind = "number" /\ text.value = i
  BY DEF Padded, Number
<1>2. i \in Int /\ 0 <= i /\ i <= IntMax /\ IntMax \in Nat
  BY WidthAssumption DEF CInt, IntMin
<1>3. Clamp(text.value) = i
  BY <1>1, <1>2 DEF Clamp, IntMin
<1>4. ~(text.value < 0)
  BY <1>1, <1>2
<1> HIDE DEF text
<1>5. Extract(text, unset) = Clamp(text.value)
  BY <1>1, <1>4 DEF Extract
<1> QED
  BY <1>3, <1>5 DEF text

\* Every key of ids that are not negative is recovered from the names of its group
\* and dataset and from the path of the translator (HDF5DataStore.hpp:160, 171,
\* 207, HDF5KeyTranslator.hpp:60-75, 97-120).
THEOREM RoundTripCorrect == Spec => []RoundTrip
<1>1. ASSUME TypedKeys, NonNegative(one)
      PROVE  /\ SameIds(ListedKey(WritePath(one)), one)
             /\ SameIds(getKeyFromList(getPathElements(one), CURRENT_VERSION), one)
  <2>1. one.event \in CInt /\ one.event >= 0 /\ one.geo \in CInt /\ one.geo >= 0
    BY <1>1 DEF TypedKeys, Key, NonNegative
  <2>2. SameIds(ListedKey(WritePath(one)), one)
    BY <1>1, <2>1, ListedKeyOfWritePath DEF TypedKeys, SameIds, StorageKey
  <2> DEFINE path == getPathElements(one)
  <2>3. /\ Len(path) = 2
        /\ path[1] = Padded(EVENT_ID_DIGITS, one.event)
        /\ path[2] = Padded(GEO_LOCATION_DIGITS, one.geo)
    BY DEF getPathElements
  <2>4. /\ Extract(path[1], INVALID_EVENTID) = one.event
        /\ Extract(path[2], INVALID_GEOLOCATION) = one.geo
    BY <2>1, <2>3, ExtractPadded
  <2> HIDE DEF path
  <2>5. SameIds(getKeyFromList(path, CURRENT_VERSION), one)
    BY <2>3, <2>4 DEF getKeyFromList, CURRENT_VERSION, StorageKey, SameIds
  <2> QED
    BY <2>2, <2>5 DEF path
<1>2. TypedKeys => RoundTrip
  BY <1>1 DEF RoundTrip
<1> QED
  BY <1>2, TypedKeysInvariant, PTL

\* A listing reports of no block, its ids negative or not, an id other than the one
\* that was written or the invalid one (HDF5DataStore.hpp:149-150, 207).
THEOREM ListedIdIsWrittenOrInvalidCorrect == Spec => []ListedIdIsWrittenOrInvalid
<1>1. TypedKeys => ListedIdIsWrittenOrInvalid
  BY ListedKeyOfWritePath DEF TypedKeys, ListedIdIsWrittenOrInvalid, StorageKey
<1> QED
  BY <1>1, TypedKeysInvariant, PTL

\* read() and write() name the same group and dataset exactly for ids that are not
\* negative (HDF5DataStore.hpp:103-104, 160, 171).
THEOREM ReadLooksWhereWrittenCorrect == Spec => []ReadLooksWhereWritten
<1>1. ASSUME TypedKeys, ReadPath(one) = WritePath(one) PROVE NonNegative(one)
  <2>1. one.event \in CInt /\ one.geo \in CInt
    BY <1>1 DEF TypedKeys, Key
  <2>2. ToString(one.event) = ToString(ToSizeT(one.event))
        /\ ToString(one.geo) = ToString(ToSizeT(one.geo))
    BY <1>1 DEF ReadPath, WritePath
  <2>3. ToSizeT(one.event) = one.event /\ ToSizeT(one.geo) = one.geo
    BY <2>2 DEF ToString, Number
  <2>4. ToSizeT(one.event) \in 0 .. SizeMod - 1 /\ ToSizeT(one.geo) \in 0 .. SizeMod - 1
    BY <2>1, SizeTOfInt
  <2> QED
    BY <2>3, <2>4 DEF NonNegative
<1>2. ASSUME TypedKeys, NonNegative(one) PROVE ReadPath(one) = WritePath(one)
  BY <1>2, ReadPathIsWritePath DEF TypedKeys, NonNegative, NonNegativeIds
<1>3. TypedKeys => ReadLooksWhereWritten
  BY <1>1, <1>2 DEF ReadLooksWhereWritten
<1> QED
  BY <1>3, TypedKeysInvariant, PTL

\* Two blocks share file, group and dataset only if they have the same ids and went
\* to stores of one prefix and one mode, whatever their prefixes look like
\* (HDF5DataStore.hpp:231-251, 160, 171).
THEOREM OnePlacePerIdsCorrect == Spec => []OnePlacePerIds
<1>1. ASSUME TypedKeys, NEW a \in Configurations, NEW b \in Configurations,
             Place(a, one) = Place(b, two)
      PROVE  a = b /\ SameIds(one, two)
  <2>1. getFileNameFromKey(a, one) = getFileNameFromKey(b, two)
        /\ WritePath(one) = WritePath(two)
    BY <1>1 DEF Place
  <2> QED
    BY <1>1, <2>1, FileNameInjective, WritePathInjective DEF TypedKeys, SameIds
<1>2. TypedKeys => OnePlacePerIds
  BY <1>1 DEF OnePlacePerIds
<1> QED
  BY <1>2, TypedKeysInvariant, PTL

\* With prefixes free of regular expression syntax, the expression of a listing fits
\* the names that its store's mode gives to files and no others, for all prefixes,
\* also where one begins like the files of another (HDF5DataStore.hpp:231-265).
THEOREM NoCrossTalkCorrect == Spec => []NoCrossTalk
<1>1. TypedKeys => NoCrossTalk
  BY PatternMatchesOwnFiles DEF TypedKeys, NoCrossTalk, PlainPrefixes
<1> QED
  BY <1>1, TypedKeysInvariant, PTL
=============================================================================
