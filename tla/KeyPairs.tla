------------------------------ MODULE KeyPairs ------------------------------
(***************************************************************************)
(* The naming rules of StorageKeys, stated of two keys side by side whose  *)
(* ids are drawn from Ids.                                                 *)
(***************************************************************************)
EXTENDS StorageKeys

CONSTANTS Ids, Detectors

ASSUME IdsAssumption == Ids \subseteq CInt

VARIABLES one, two

vars == << one, two >>

Keys == {StorageKey(e, d, g) : e \in Ids, d \in Detectors, g \in Ids}

Init == one \in Keys /\ two = InvalidKey

Compare == two' \in Keys /\ UNCHANGED one

Spec == Init /\ [][Compare]_vars

----------------------------------------------------------------------------
SameIds(k, l) == k.event = l.event /\ k.geo = l.geo

NonNegative(k) == k.event >= 0 /\ k.geo >= 0

Place(conf, k) == << getFileNameFromKey(conf, k), WritePath(k) >>

\* A key whose ids are not negative is recovered, but for its detector, from
\* the names write() gives its group and dataset (HDF5DataStore.hpp:160,171
\* read back at 207) and from the padded path of the translator
\* (HDF5KeyTranslator.hpp:60-75 and 97-120).
RoundTrip ==
  NonNegative(one) =>
    /\ SameIds(ListedKey(WritePath(one)), one)
    /\ SameIds(getKeyFromList(getPathElements(one), CURRENT_VERSION), one)

\* What a listing reports never names another usable block: an id it reports
\* is the id that was written, or the invalid one (a negative id, printed as a
\* huge size_t at HDF5DataStore.hpp:149-150, is clamped when it is parsed).
ListedIdIsWrittenOrInvalid ==
  LET listed == ListedKey(WritePath(one))
  IN  /\ listed.event \in {one.event, INVALID_EVENTID}
      /\ listed.geo \in {one.geo, INVALID_GEOLOCATION}

\* read() looks where write() put the block exactly when neither id is
\* negative: HDF5DataStore.hpp:103-104 prints ints, 160 and 171 size_ts.
ReadLooksWhereWritten == (ReadPath(one) = WritePath(one)) <=> NonNegative(one)

\* No two blocks share a place, one file, group and dataset, if they differ in an
\* id or go to stores of different prefix or mode, although the names of their files
\* are joined without a separator and a prefix may look like the beginning of
\* another's names (HDF5DataStore.hpp:231-251, 160, 171).
OnePlacePerIds ==
  \A a, b \in Configurations : Place(a, one) = Place(b, two) => a = b /\ SameIds(one, two)

\* Stores of different prefixes or modes do not see each other's files, and a
\* store's own files never escape its listing: the expression a listing matches
\* (HDF5DataStore.hpp:253-265) fits exactly the names that another function joins
\* (231-251; the cross-talk test of HDF5GetAllKeys_test.cxx), for prefixes without
\* regular expression syntax, even where one prefix begins like another's files.
NoCrossTalk ==
  PrefixRegex = [p \in Prefixes |-> {p}] =>
    \A a, b \in Configurations :
       matchesPattern(a, getFileNameFromKey(b, one)) <=> a = b

\* StorageKey.hpp:19-20: the key groups "all of the parameters that identify a
\* given block of data", so keys that differ in any of them have two places.
KeyIdentifiesBlock ==
  \A conf \in Configurations : Place(conf, one) = Place(conf, two) => one = two
=============================================================================
