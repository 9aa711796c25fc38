------------------------ MODULE StorageKeys_proofs ------------------------
(***************************************************************************)
(* The naming rules of StorageKeys for every width of an int and of a      *)
(* size_t, every key and every set of prefixes.                            *)
(***************************************************************************)
EXTENDS StorageKeys, SequenceTheorems, TLAPS

Key(k) == k.event \in CInt /\ k.geo \in CInt

NonNegativeIds(k) == k.event >= 0 /\ k.geo >= 0

\* An id that is not negative is printed the same as a size_t and as an int;
\* a negative one becomes a size_t no int can hold (HDF5DataStore.hpp:149-150).
LEMMA SizeTOfInt ==
  ASSUME NEW i \in CInt
  PROVE  /\ i >= 0 => ToSizeT(i) = i
         /\ i < 0 => ToSizeT(i) = i + SizeMod /\ ToSizeT(i) > IntMax
         /\ ToSizeT(i) \in 0 .. SizeMod - 1
<1>1. i \in Int /\ -IntMax - 1 <= i /\ i <= IntMax
  BY WidthAssumption DEF CInt, IntMin
<1>2. SizeMod \in Nat /\ SizeMod > 0 /\ IntMax \in Nat /\ SizeMod >= 2 * (IntMax + 1)
  BY WidthAssumption
<1>3. CASE i >= 0
  <2>1. i < SizeMod
    BY <1>1, <1>2
  <2>2. i % SizeMod = i
    BY <1>1, <1>2, <1>3, <2>1
  <2> QED
    BY <1>1, <1>2, <1>3, <2>1, <2>2 DEF ToSizeT
<1>4. CASE i < 0
  <2>1. 0 <= i + SizeMod /\ i + SizeMod < SizeMod /\ i + SizeMod > IntMax
    BY <1>1, <1>2, <1>4
  <2>2. i % SizeMod = i + SizeMod
    BY <1>1, <1>2, <2>1
  <2> QED
    BY <1>1, <1>2, <1>4, <2>1, <2>2 DEF ToSizeT
<1> QED
  BY <1>1, <1>3, <1>4

\* Two ids with the same size_t are the same id.
LEMMA SizeTInjective ==
  ASSUME NEW i \in CInt, NEW j \in CInt, ToSizeT(i) = ToSizeT(j)
  PROVE  i = j
<1>1. i \in Int /\ j \in Int /\ i <= IntMax /\ j <= IntMax
      /\ SizeMod \in Nat /\ IntMax \in Nat
  BY WidthAssumption DEF CInt, IntMin
<1> QED
  BY <1>1, SizeTOfInt

\* What a listing extracts from a printed size_t is the id, or the invalid one.
LEMMA ExtractSizeT ==
  ASSUME NEW i \in CInt, NEW unset
  PROVE  Extract(ToString(ToSizeT(i)), unset) = IF i >= 0 THEN i ELSE IntMax
<1>1. i \in Int /\ -IntMax - 1 <= i /\ i <= IntMax /\ IntMax \in Nat
  BY WidthAssumption DEF CInt, IntMin
<1>2. ToString(ToSizeT(i)) = [kind |-> "number", pad |-> 0, value |-> ToSizeT(i)]
  BY DEF ToString, Number
<1>3. CASE i >= 0
  <2>1. ToSizeT(i) = i
    BY <1>3, SizeTOfInt
  <2> QED
    BY <1>1, <1>2, <1>3, <2>1 DEF Extract, Clamp, IntMin
<1>4. CASE i < 0
  <2>1. ToSizeT(i) > IntMax
    BY <1>4, SizeTOfInt
  <2> QED
    BY <1>1, <1>2, <1>4, <2>1 DEF Extract, Clamp, IntMin
<1> QED
  BY <1>1, <1>3, <1>4

----------------------------------------------------------------------------
(* Prefixes, read as regular expressions *)

\* A prefix without regular expression syntax matches itself and nothing else;
\* with dots alone it still matches itself, with a + or a * it may not.
PlainPrefixes == PrefixRegex = [p \in Prefixes |-> {p}]

SelfMatching == \A p \in Prefixes : p \in PrefixRegex[p]

----------------------------------------------------------------------------
(* File names: the prefix, then an ending in which the number of an event   *)
(* always stands before a dot or before the number of a location           *)

\* What names are joined from.
Elements == Texts \cup {ToString(n) : n \in Nat}
                  \cup {Literal("_event_"), Literal("_geoID_"), Literal("_all_events"),
                        Literal("."), Literal("hdf5")}

LEMMA PrefixTyped ==
  ASSUME NEW p \in Prefixes
  PROVE  p \in Seq(Elements) /\ Len(p) \in Nat
<1>1. p \in Seq(Texts)
  BY PrefixAssumption
<1>2. Texts \subseteq Elements
  BY DEF Elements
<1> HIDE DEF Texts, Elements
<1>3. Len(p) \in Nat /\ p \in [1 .. Len(p) -> Texts]
  BY <1>1, LenProperties
<1>4. p \in [1 .. Len(p) -> Elements]
  BY <1>2, <1>3
<1> QED
  BY <1>3, <1>4

LEMMA Decimals ==
  ASSUME NEW i \in CInt
  PROVE  /\ ToString(ToSizeT(i)) \in Elements
         /\ ToString(ToSizeT(i)).kind = "number"
         /\ ToString(ToSizeT(i)).value >= 0
<1>1. ToSizeT(i) \in Nat
  BY SizeTOfInt, WidthAssumption
<1>2. ToString(ToSizeT(i)) = [kind |-> "number", pad |-> 0, value |-> ToSizeT(i)]
  BY DEF ToString, Number
<1>3. ToString(ToSizeT(i)) \in Elements
  BY <1>1 DEF Elements
<1> QED
  BY <1>1, <1>2, <1>3

LEMMA EndingTyped ==
  ASSUME NEW mode, NEW k, Key(k)
  PROVE  Ending(mode, k) \in Seq(Elements)
<1>1. ToString(ToSizeT(k.event)) \in Elements /\ ToString(ToSizeT(k.geo)) \in Elements
  BY Decimals DEF Key
<1>2. /\ Literal("_event_") \in Elements /\ Literal("_geoID_") \in Elements
      /\ Literal("_all_events") \in Elements /\ Literal(".") \in Elements
      /\ Literal("hdf5") \in Elements
  BY DEF Elements
<1> QED
  BY <1>1, <1>2 DEF Ending

\* A name is its prefix and the ending behind it.
LEMMA NameParts ==
  ASSUME NEW conf, conf.prefix \in Prefixes, NEW k, Key(k)
  PROVE  LET name == getFileNameFromKey(conf, k)
             ending == Ending(conf.mode, k)
         IN  /\ name \in Seq(Elements)
             /\ Len(name) = Len(conf.prefix) + Len(ending)
             /\ SubSeq(name, 1, Len(conf.prefix)) = conf.prefix
             /\ \A i \in 1 .. Len(ending) : name[Len(conf.prefix) + i] = ending[i]
<1> DEFINE p == conf.prefix
           ending == Ending(conf.mode, k)
           name == p \o ending
<1>1. p \in Seq(Elements) /\ ending \in Seq(Elements)
  BY EndingTyped, PrefixTyped
<1> HIDE DEF p, ending
<1>2. /\ name \in Seq(Elements)
      /\ Len(name) = Len(p) + Len(ending)
      /\ \A i \in 1 .. Len(p) + Len(ending) :
           name[i] = IF i <= Len(p) THEN p[i] ELSE ending[i - Len(p)]
  BY <1>1, ConcatProperties
<1>3. Len(p) \in Nat /\ Len(ending) \in Nat
  BY <1>1, LenProperties
<1> HIDE DEF name
<1>4. SubSeq(name, 1, Len(p)) = p
  <2>1. /\ SubSeq(name, 1, Len(p)) \in Seq(Elements)
        /\ Len(SubSeq(name, 1, Len(p))) = Len(p)
        /\ \A i \in 1 .. Len(p) : SubSeq(name, 1, Len(p))[i] = name[i]
    <3>1. 1 \in 1 .. Len(name) + 1 /\ Len(p) \in 0 .. Len(name)
      BY <1>2, <1>3
    <3> QED
      BY <1>2, <1>3, <3>1, SubSeqProperties
  <2>2. \A i \in 1 .. Len(p) : SubSeq(name, 1, Len(p))[i] = p[i]
    BY <2>1, <1>2, <1>3
  <2> QED
    BY <1>1, <2>1, <2>2, SeqEqual
<1>5. \A i \in 1 .. Len(ending) : name[Len(p) + i] = ending[i]
  BY <1>2, <1>3
<1> QED
  BY <1>2, <1>4, <1>5 DEF getFileNameFromKey, p, ending, name

\* The expression of a mode fits the endings of that mode.
LEMMA RegexFitsEnding ==
  ASSUME NEW mode, NEW k, Key(k)
  PROVE  /\ Len(EndingRegex(mode)) = Len(Ending(mode, k))
         /\ Len(EndingRegex(mode)) \in Nat
         /\ \A i \in 1 .. Len(EndingRegex(mode)) :
               MatchesText(EndingRegex(mode)[i], Ending(mode, k)[i])
BY Decimals DEF Key, Ending, EndingRegex, MatchesText, Digits, AnyCharacter

\* A store whose prefix matches itself lists the files it writes.
LEMMA OwnFileMatches ==
  ASSUME SelfMatching, NEW conf, conf.prefix \in Prefixes, NEW k, Key(k)
  PROVE  matchesPattern(conf, getFileNameFromKey(conf, k))
<1> DEFINE ending == Ending(conf.mode, k)
           regex == EndingRegex(conf.mode)
<1>1. Len(regex) = Len(ending) /\ \A i \in 1 .. Len(regex) : MatchesText(regex[i], ending[i])
  BY RegexFitsEnding
<1> DEFINE name == getFileNameFromKey(conf, k)
           p == conf.prefix
<1>2. /\ Len(name) = Len(p) + Len(ending)
      /\ SubSeq(name, 1, Len(p)) = p
      /\ \A i \in 1 .. Len(ending) : name[Len(p) + i] = ending[i]
  BY NameParts
<1> HIDE DEF ending, regex, name
<1>3. p \in PrefixRegex[conf.prefix]
  BY DEF SelfMatching
<1>4. /\ Len(name) = Len(p) + Len(regex)
      /\ \A i \in 1 .. Len(regex) : MatchesText(regex[i], name[Len(p) + i])
  BY <1>1, <1>2
<1> QED
  BY <1>2, <1>3, <1>4 DEF matchesPattern, regex, name

----------------------------------------------------------------------------
\* A key read back from the group and dataset that write() named has the ids
\* that were written; a negative id comes back as the invalid one.
THEOREM ListedKeyOfWritePath ==
  ASSUME NEW k, Key(k)
  PROVE  ListedKey(WritePath(k)) =
           StorageKey(IF k.event >= 0 THEN k.event ELSE INVALID_EVENTID,
                      INVALID_DETECTORID,
                      IF k.geo >= 0 THEN k.geo ELSE INVALID_GEOLOCATION)
<1>1. k.event \in CInt /\ k.geo \in CInt
  BY DEF Key
<1> DEFINE path == WritePath(k)
<1>2. Len(path) = 2 /\ path[1] = ToString(ToSizeT(k.event))
      /\ path[2] = ToString(ToSizeT(k.geo))
  BY DEF WritePath
<1>3. Extract(path[1], INVALID_EVENTID) = IF k.event >= 0 THEN k.event ELSE INVALID_EVENTID
  BY <1>1, <1>2, ExtractSizeT DEF INVALID_EVENTID
<1>4. Extract(path[2], INVALID_GEOLOCATION) = IF k.geo >= 0 THEN k.geo ELSE INVALID_GEOLOCATION
  BY <1>1, <1>2, ExtractSizeT DEF INVALID_GEOLOCATION
<1> HIDE DEF path
<1> QED
  BY <1>2, <1>3, <1>4 DEF ListedKey, getKeyFromList, CURRENT_VERSION, path

\* Group and dataset of a key determine both its ids.
THEOREM WritePathInjective ==
  ASSUME NEW k, NEW l, Key(k), Key(l), WritePath(k) = WritePath(l)
  PROVE  k.event = l.event /\ k.geo = l.geo
<1>1. k.event \in CInt /\ k.geo \in CInt /\ l.event \in CInt /\ l.geo \in CInt
  BY DEF Key
<1>2. ToString(ToSizeT(k.event)) = ToString(ToSizeT(l.event))
      /\ ToString(ToSizeT(k.geo)) = ToString(ToSizeT(l.geo))
  BY DEF WritePath
<1>3. ToSizeT(k.event) = ToSizeT(l.event) /\ ToSizeT(k.geo) = ToSizeT(l.geo)
  BY <1>2 DEF ToString, Number
<1> QED
  BY <1>1, <1>3, SizeTInjective

\* read() and write() agree on the group and dataset of a key with no negative id.
THEOREM ReadPathIsWritePath ==
  ASSUME NEW k, Key(k), NonNegativeIds(k)
  PROVE  ReadPath(k) = WritePath(k)
<1>1. k.event \in CInt /\ k.geo \in CInt
  BY DEF Key
<1>2. ToSizeT(k.event) = k.event /\ ToSizeT(k.geo) = k.geo
  BY <1>1, SizeTOfInt DEF NonNegativeIds
<1> QED
  BY <1>2 DEF ReadPath, WritePath

----------------------------------------------------------------------------
\* Where the expression of a mode fits the end of a file name, the file is one of
\* that mode: behind whatever the two prefixes are, some element of the ending
\* meets another word, or a word meets a number.
LEMMA RegexTellsModes ==
  ASSUME NEW m \in Modes, NEW b, b.prefix \in Prefixes, b.mode \in Modes, NEW k, Key(k),
         NEW q \in Nat,
         Len(getFileNameFromKey(b, k)) = q + Len(EndingRegex(m)),
         \A i \in 1 .. Len(EndingRegex(m)) :
            MatchesText(EndingRegex(m)[i], getFileNameFromKey(b, k)[q + i])
  PROVE  m = b.mode
<1> DEFINE name == getFileNameFromKey(b, k)
           n == Len(b.prefix)
           idx == ToString(ToSizeT(k.event))
           geoID == ToString(ToSizeT(k.geo))
<1>1. n \in Nat
  BY PrefixTyped
<1>2. Len(name) = n + Len(Ending(b.mode, k))
      /\ \A i \in 1 .. Len(Ending(b.mode, k)) : name[n + i] = Ending(b.mode, k)[i]
  BY NameParts
<1>3. Len(name) = q + Len(EndingRegex(m))
      /\ \A i \in 1 .. Len(EndingRegex(m)) : MatchesText(EndingRegex(m)[i], name[q + i])
  OBVIOUS
<1> HIDE DEF name, n
<1>4. ~MatchesText(Literal("_event_"), Literal("_geoID_"))
      /\ ~MatchesText(Literal("_geoID_"), Literal("_event_"))
      /\ ~MatchesText(Digits, Literal("_all_events"))
      /\ ~MatchesText(Literal("_all_events"), idx)
      /\ ~MatchesText(Literal("_all_events"), geoID)
  BY DEF MatchesText, Literal, Digits, AnyCharacter, ToString, Number
<1> HIDE DEF idx, geoID
<1>5. m \in {"one-event-per-file", "one-fragment-per-file", "all-per-file"}
      /\ b.mode \in {"one-event-per-file", "one-fragment-per-file", "all-per-file"}
  BY DEF Modes
<1>6. b.mode = "one-event-per-file" =>
        /\ Len(name) = n + 4 /\ name[n + 1] = Literal("_event_") /\ name[n + 2] = idx
  BY <1>1, <1>2 DEF Ending, idx
<1>7. b.mode = "one-fragment-per-file" =>
        /\ Len(name) = n + 6 /\ name[n + 3] = Literal("_geoID_") /\ name[n + 4] = geoID
  BY <1>1, <1>2 DEF Ending, geoID
<1>8. b.mode = "all-per-file" => Len(name) = n + 3 /\ name[n + 1] = Literal("_all_events")
  BY <1>1, <1>2 DEF Ending
<1>9. m = "one-event-per-file" =>
        /\ Len(name) = q + 4
        /\ MatchesText(Literal("_event_"), name[q + 1]) /\ MatchesText(Digits, name[q + 2])
  BY <1>3 DEF EndingRegex
<1>10. m = "one-fragment-per-file" =>
        /\ Len(name) = q + 6
        /\ MatchesText(Literal("_geoID_"), name[q + 3]) /\ MatchesText(Digits, name[q + 4])
  BY <1>3 DEF EndingRegex
<1>11. m = "all-per-file" => Len(name) = q + 3 /\ MatchesText(Literal("_all_events"), name[q + 1])
  BY <1>3 DEF EndingRegex
<1>12. CASE m = "one-event-per-file" /\ b.mode = "one-fragment-per-file"
  <2>1. q + 1 = n + 3
    BY <1>1, <1>7, <1>9, <1>12
  <2> QED
    BY <1>4, <1>7, <1>9, <1>12, <2>1
<1>13. CASE m = "one-event-per-file" /\ b.mode = "all-per-file"
  <2>1. q + 2 = n + 1
    BY <1>1, <1>8, <1>9, <1>13
  <2> QED
    BY <1>4, <1>8, <1>9, <1>13, <2>1
<1>14. CASE m = "one-fragment-per-file" /\ b.mode = "one-event-per-file"
  <2>1. q + 3 = n + 1
    BY <1>1, <1>6, <1>10, <1>14
  <2> QED
    BY <1>4, <1>6, <1>10, <1>14, <2>1
<1>15. CASE m = "one-fragment-per-file" /\ b.mode = "all-per-file"
  <2>1. q + 4 = n + 1
    BY <1>1, <1>8, <1>10, <1>15
  <2> QED
    BY <1>4, <1>8, <1>10, <1>15, <2>1
<1>16. CASE m = "all-per-file" /\ b.mode = "one-event-per-file"
  <2>1. q + 1 = n + 2
    BY <1>1, <1>6, <1>11, <1>16
  <2> QED
    BY <1>4, <1>6, <1>11, <1>16, <2>1
<1>17. CASE m = "all-per-file" /\ b.mode = "one-fragment-per-file"
  <2>1. q + 1 = n + 4
    BY <1>1, <1>7, <1>11, <1>17
  <2> QED
    BY <1>4, <1>7, <1>11, <1>17, <2>1
<1> QED
  BY <1>5, <1>12, <1>13, <1>14, <1>15, <1>16, <1>17

\* The file of a key tells the prefix and the mode of the store that made it
\* (HDF5DataStore.hpp:231-251).
THEOREM FileNameInjective ==
  ASSUME NEW a \in Configurations, NEW b \in Configurations, NEW k, NEW l, Key(k), Key(l),
         getFileNameFromKey(a, k) = getFileNameFromKey(b, l)
  PROVE  a = b
<1>1. a.prefix \in Prefixes /\ b.prefix \in Prefixes /\ a.mode \in Modes /\ b.mode \in Modes
      /\ (a = b <=> a.prefix = b.prefix /\ a.mode = b.mode)
  BY DEF Configurations
<1> DEFINE name == getFileNameFromKey(a, k)
<1>2. /\ Len(a.prefix) \in Nat
      /\ Len(name) = Len(a.prefix) + Len(Ending(a.mode, k))
      /\ SubSeq(name, 1, Len(a.prefix)) = a.prefix
      /\ \A i \in 1 .. Len(Ending(a.mode, k)) : name[Len(a.prefix) + i] = Ending(a.mode, k)[i]
  BY <1>1, NameParts, PrefixTyped
<1>3. /\ Len(b.prefix) \in Nat
      /\ Len(name) = Len(b.prefix) + Len(Ending(b.mode, l))
      /\ SubSeq(name, 1, Len(b.prefix)) = b.prefix
  BY <1>1, NameParts, PrefixTyped
<1> HIDE DEF name
<1>4. /\ Len(name) = Len(a.prefix) + Len(EndingRegex(a.mode))
      /\ \A i \in 1 .. Len(EndingRegex(a.mode)) :
           MatchesText(EndingRegex(a.mode)[i], name[Len(a.prefix) + i])
  BY <1>2, RegexFitsEnding
<1>5. a.mode = b.mode
  <2>1. getFileNameFromKey(b, l) = name
    BY DEF name
  <2> QED
    BY <1>1, <1>2, <1>4, <2>1, RegexTellsModes
<1>6. Len(a.prefix) = Len(b.prefix)
  <2>1. Len(Ending(a.mode, k)) = Len(Ending(b.mode, l)) /\ Len(Ending(a.mode, k)) \in Nat
    BY <1>5, RegexFitsEnding
  <2>2. \A x, y, e \in Nat : x + e = y + e => x = y
    OBVIOUS
  <2>3. Len(a.prefix) + Len(Ending(a.mode, k)) = Len(b.prefix) + Len(Ending(a.mode, k))
    BY <1>2, <1>3, <2>1
  <2> QED
    BY <1>2, <1>3, <2>1, <2>2, <2>3
<1> QED
  BY <1>1, <1>2, <1>3, <1>5, <1>6

\* A listing sees exactly the files of its own prefix and operation mode, when
\* no prefix holds regular expression syntax (HDF5DataStore.hpp:253-265).
THEOREM PatternMatchesOwnFiles ==
  ASSUME NEW a \in Configurations, NEW b \in Configurations, NEW k, Key(k),
         PlainPrefixes
  PROVE  matchesPattern(a, getFileNameFromKey(b, k)) <=> a = b
<1>1. a.prefix \in Prefixes /\ b.prefix \in Prefixes /\ a.mode \in Modes /\ b.mode \in Modes
      /\ (a = b <=> a.prefix = b.prefix /\ a.mode = b.mode)
  BY DEF Configurations
<1>2. PrefixRegex[a.prefix] = {a.prefix}
  BY <1>1 DEF PlainPrefixes
<1> DEFINE name == getFileNameFromKey(b, k)
<1>3. ASSUME matchesPattern(a, name) PROVE a = b
  <2>1. /\ Len(a.prefix) \in Nat
        /\ Len(name) = Len(a.prefix) + Len(EndingRegex(a.mode))
        /\ SubSeq(name, 1, Len(a.prefix)) = a.prefix
        /\ \A i \in 1 .. Len(EndingRegex(a.mode)) :
             MatchesText(EndingRegex(a.mode)[i], name[Len(a.prefix) + i])
    BY <1>1, <1>2, <1>3, PrefixTyped DEF matchesPattern
  <2>2. /\ Len(b.prefix) \in Nat
        /\ Len(name) = Len(b.prefix) + Len(Ending(b.mode, k))
        /\ SubSeq(name, 1, Len(b.prefix)) = b.prefix
    BY <1>1, NameParts, PrefixTyped
  <2>3. a.mode = b.mode
    BY <1>1, <2>1, RegexTellsModes
  <2>4. Len(a.prefix) = Len(b.prefix)
    <3>1. Len(EndingRegex(a.mode)) = Len(Ending(b.mode, k)) /\ Len(Ending(b.mode, k)) \in Nat
      BY <2>3, RegexFitsEnding
    <3>2. \A x, y, e \in Nat : x + e = y + e => x = y
      OBVIOUS
    <3>3. Len(a.prefix) + Len(Ending(b.mode, k)) = Len(b.prefix) + Len(Ending(b.mode, k))
      BY <2>1, <2>2, <3>1
    <3> QED
      BY <2>1, <2>2, <3>1, <3>2, <3>3
  <2> QED
    BY <1>1, <2>1, <2>2, <2>3, <2>4
<1>4. SelfMatching
  BY DEF SelfMatching, PlainPrefixes
<1> QED
  BY <1>1, <1>3, <1>4, OwnFileMatches
=============================================================================
