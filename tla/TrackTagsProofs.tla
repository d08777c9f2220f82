--------------------------- MODULE TrackTagsProofs ---------------------------
(* Proofs about the tags of a file, for any songs and configurations.        *)
EXTENDS TrackTags, CivilDateProofs, ListProofs

\* What is known of the dates of metadata that were extracted.
DatesTyped(m) ==
    /\ m.released_at \in Int \cup {None}
    /\ IsDate(m.album_release_date_download)
    /\ IsDate(m.album_release_date_original)
    /\ IsDate(m.track_release_date_original)

\* What is known of the people in metadata that were extracted.
PeopleTyped(m) == IsList(m.performers) /\ m.album_artists \in Seq(ToSet(m.album_artists))

\* The file has the tags of the last embedding and no other.
TagsInv ==
    meta # None =>
        /\ tags.fields = Fields(meta, config, flac)
        /\ tags.cover = CoverArt(meta, config)
        /\ DatesTyped(meta)
        /\ PeopleTyped(meta)

\* Its fields are those, or the two it came with.
FreshInv ==
    \/ tags.fields = {Field("COMMENT", "CDN"), Field("TITLE", "CDN")}
    \/ tags.fields = Fields(meta, config, flac)

-----------------------------------------------------------------------------
(* The fields that are written *)

\* The fields of names and people, and those only one format has.
PeopleFields(m, cfg, isFlac) ==
    UNION {NameFields(m, cfg), AlbumArtistFields(m, cfg, isFlac),
           ArtistFields(m, cfg, isFlac), ComposerFields(m, cfg, isFlac), MediaFields(m, cfg)}
FormatFields(m, cfg, isFlac) ==
    UNION {ProducerFields(m, cfg, isFlac), UrlFields(m, cfg, isFlac),
           IF isFlac THEN FlacFields(m, cfg) ELSE {}}

\* A key belongs to an enabled MetadataField of the format.
Owned(f, cfg, isFlac) ==
    /\ f = Field(f.key, f.value)
    /\ f.key \in DOMAIN Owner(isFlac)
    /\ Owner(isFlac)[f.key] \in cfg

IsPushed(f, cfg, field, key) ==
    \E there, value : f \in PushedIf(there, cfg, field, key, value)

\* A field is pushed under its key only when its MetadataField is enabled.
LEMMA PushedField ==
    ASSUME NEW there, NEW cfg, NEW field, NEW key, NEW value,
           NEW f \in PushedIf(there, cfg, field, key, value)
    PROVE  f.key = key /\ f.value = value /\ field \in cfg /\ there /\ f = Field(key, value)
BY DEF PushedIf, Field

\* What is pushed by the field that owns its key is owned.
LEMMA PushedOwned ==
    ASSUME NEW f, NEW cfg, NEW field, NEW key, NEW isFlac, IsPushed(f, cfg, field, key),
           key \in DOMAIN Owner(isFlac), Owner(isFlac)[key] = field
    PROVE  f.key = key /\ Owned(f, cfg, isFlac)
BY PushedField DEF IsPushed, Owned

\* The keys both formats share have the same owner.
LEMMA SharedOwners ==
    ASSUME NEW isFlac \in BOOLEAN
    PROVE  /\ "TITLE" \in DOMAIN Owner(isFlac) /\ Owner(isFlac)["TITLE"] = "Title"
           /\ "ALBUM" \in DOMAIN Owner(isFlac) /\ Owner(isFlac)["ALBUM"] = "Album"
           /\ "ALBUMARTIST" \in DOMAIN Owner(isFlac) /\ Owner(isFlac)["ALBUMARTIST"] = "AlbumArtist"
           /\ "ARTIST" \in DOMAIN Owner(isFlac) /\ Owner(isFlac)["ARTIST"] = "Artist"
           /\ "COMPOSER" \in DOMAIN Owner(isFlac) /\ Owner(isFlac)["COMPOSER"] = "Composer"
           /\ "MEDIA" \in DOMAIN Owner(isFlac) /\ Owner(isFlac)["MEDIA"] = "MediaType"
<1>1. CASE isFlac
  BY <1>1, SMT DEF Owner, FlacOwner
<1>2. CASE ~isFlac
  BY <1>2, SMT DEF Owner, FlacOwner, Mp3Owner
<1> QED BY <1>1, <1>2

\* The plain fields' keys, likewise.
LEMMA PlainOwners ==
    ASSUME NEW isFlac \in BOOLEAN
    PROVE  /\ "LABEL" \in DOMAIN Owner(isFlac) /\ Owner(isFlac)["LABEL"] = "Label"
           /\ "GENRE" \in DOMAIN Owner(isFlac) /\ Owner(isFlac)["GENRE"] = "Genre"
           /\ "TRACKNUMBER" \in DOMAIN Owner(isFlac) /\ Owner(isFlac)["TRACKNUMBER"] = "TrackNumber"
           /\ "TRACKTOTAL" \in DOMAIN Owner(isFlac) /\ Owner(isFlac)["TRACKTOTAL"] = "TrackTotal"
           /\ "DISCNUMBER" \in DOMAIN Owner(isFlac) /\ Owner(isFlac)["DISCNUMBER"] = "DiscNumber"
           /\ "DISCTOTAL" \in DOMAIN Owner(isFlac) /\ Owner(isFlac)["DISCTOTAL"] = "DiscTotal"
           /\ "COPYRIGHT" \in DOMAIN Owner(isFlac) /\ Owner(isFlac)["COPYRIGHT"] = "Copyright"
           /\ "ISRC" \in DOMAIN Owner(isFlac) /\ Owner(isFlac)["ISRC"] = "Isrc"
<1>1. CASE isFlac
  BY <1>1, SMT DEF Owner, FlacOwner
<1>2. CASE ~isFlac
  BY <1>2, SMT DEF Owner, FlacOwner, Mp3Owner
<1> QED BY <1>1, <1>2

\* The keys of one format.
LEMMA FormatOwners ==
    /\ "PRODUCER" \in DOMAIN Owner(TRUE) /\ Owner(TRUE)["PRODUCER"] = "Producer"
    /\ "YEAR" \in DOMAIN Owner(TRUE) /\ Owner(TRUE)["YEAR"] = "ReleaseYear"
    /\ "DATE" \in DOMAIN Owner(TRUE) /\ Owner(TRUE)["DATE"] = "ReleaseDate"
    /\ "INVOLVEDPEOPLE" \in DOMAIN Owner(TRUE) /\ Owner(TRUE)["INVOLVEDPEOPLE"] = "InvolvedPeople"
    /\ "ITUNESADVISORY" \in DOMAIN Owner(TRUE) /\ Owner(TRUE)["ITUNESADVISORY"] = "Explicit"
    /\ "ORGANIZATION" \in DOMAIN Owner(TRUE) /\ Owner(TRUE)["ORGANIZATION"] = "Label"
    /\ "UPC" \in DOMAIN Owner(TRUE) /\ Owner(TRUE)["UPC"] = "Upc"
    /\ "URL" \in DOMAIN Owner(TRUE) /\ Owner(TRUE)["URL"] = "Url"
    /\ "DATE" \in DOMAIN Owner(FALSE) /\ Owner(FALSE)["DATE"] = "ReleaseYear"
    /\ "RELEASEDATE" \in DOMAIN Owner(FALSE) /\ Owner(FALSE)["RELEASEDATE"] = "ReleaseDate"
    /\ "COMMERCIALINFORMATIONURL" \in DOMAIN Owner(FALSE)
    /\ Owner(FALSE)["COMMERCIALINFORMATIONURL"] = "Url"
BY SMT DEF Owner, FlacOwner, Mp3Owner

\* Names, people and media type.
LEMMA PeopleOwned ==
    ASSUME NEW m, NEW cfg, NEW isFlac \in BOOLEAN,
           NEW f \in PeopleFields(m, cfg, isFlac)
    PROVE  /\ Owned(f, cfg, isFlac)
           /\ f.key \in {"TITLE", "ALBUM", "ALBUMARTIST", "ARTIST", "COMPOSER", "MEDIA"}
           /\ f.key = "COMPOSER" => f \in ComposerFields(m, cfg, isFlac)
<1>1. CASE f \in NameFields(m, cfg)
  <2>1. IsPushed(f, cfg, "Title", "TITLE") \/ IsPushed(f, cfg, "Album", "ALBUM")
    BY <1>1 DEF NameFields, IsPushed, Pushed
  <2> QED BY <2>1, PushedOwned, SharedOwners
<1>2. CASE f \in AlbumArtistFields(m, cfg, isFlac)
  <2>1. IsPushed(f, cfg, "AlbumArtist", "ALBUMARTIST")
    BY <1>2, Zenon DEF AlbumArtistFields, IsPushed, Pushed
  <2> QED BY <2>1, PushedOwned, SharedOwners
<1>3. CASE f \in ArtistFields(m, cfg, isFlac)
  <2>1. IsPushed(f, cfg, "Artist", "ARTIST")
    BY <1>3, Zenon DEF ArtistFields, IsPushed, Pushed
  <2> QED BY <2>1, PushedOwned, SharedOwners
<1>4. CASE f \in ComposerFields(m, cfg, isFlac)
  <2>1. IsPushed(f, cfg, "Composer", "COMPOSER")
    BY <1>4, Zenon DEF ComposerFields, IsPushed, Pushed
  <2> QED BY <1>4, <2>1, PushedOwned, SharedOwners
<1>5. CASE f \in MediaFields(m, cfg)
  <2>1. IsPushed(f, cfg, "MediaType", "MEDIA")
    BY <1>5, Zenon DEF MediaFields, IsPushed, Pushed
  <2> QED BY <2>1, PushedOwned, SharedOwners
<1> QED BY <1>1, <1>2, <1>3, <1>4, <1>5 DEF PeopleFields

\* The fields copied as they are.
LEMMA PlainOwned ==
    ASSUME NEW m, NEW cfg, NEW isFlac \in BOOLEAN, NEW f \in PlainFields(m, cfg)
    PROVE  /\ Owned(f, cfg, isFlac)
           /\ f.key \in {"LABEL", "GENRE", "TRACKNUMBER", "TRACKTOTAL", "DISCNUMBER",
                         "DISCTOTAL", "COPYRIGHT", "ISRC"}
<1>1. \/ IsPushed(f, cfg, "Label", "LABEL")
      \/ IsPushed(f, cfg, "Genre", "GENRE")
      \/ IsPushed(f, cfg, "TrackNumber", "TRACKNUMBER")
      \/ IsPushed(f, cfg, "TrackTotal", "TRACKTOTAL")
      \/ IsPushed(f, cfg, "DiscNumber", "DISCNUMBER")
      \/ IsPushed(f, cfg, "DiscTotal", "DISCTOTAL")
      \/ IsPushed(f, cfg, "Copyright", "COPYRIGHT")
      \/ IsPushed(f, cfg, "Isrc", "ISRC")
  BY DEF PlainFields, IsPushed, Pushed
<1> QED BY <1>1, PushedOwned, PlainOwners

\* Dates: the year and the full date, under keys of their own in each format.
LEMMA DateOwned ==
    ASSUME NEW m, NEW cfg, NEW isFlac \in BOOLEAN, NEW f \in DateFields(m, cfg, isFlac)
    PROVE  /\ Owned(f, cfg, isFlac)
           /\ \/ f.key = YearKey(isFlac) /\ f = Field(YearKey(isFlac), PrimaryDate(m).year)
                 /\ PrimaryDate(m).year # None
              \/ f.key = DateKey(isFlac) /\ f = Field(DateKey(isFlac), PrimaryDate(m).full)
                 /\ PrimaryDate(m).full # None
<1>1. CASE f \in Pushed(cfg, "ReleaseYear", YearKey(isFlac), PrimaryDate(m).year)
  <2>1. /\ f.key = YearKey(isFlac) /\ f = Field(YearKey(isFlac), PrimaryDate(m).year)
        /\ PrimaryDate(m).year # None
    BY <1>1 DEF Pushed, PushedIf, Field
  <2>2. YearKey(isFlac) \in DOMAIN Owner(isFlac) /\ Owner(isFlac)[YearKey(isFlac)] = "ReleaseYear"
    BY FormatOwners DEF YearKey
  <2>3. Owned(f, cfg, isFlac)
    BY <1>1, <2>2, PushedOwned DEF IsPushed, Pushed
  <2> QED BY <2>1, <2>3
<1>2. CASE f \in Pushed(cfg, "ReleaseDate", DateKey(isFlac), PrimaryDate(m).full)
  <2>1. /\ f.key = DateKey(isFlac) /\ f = Field(DateKey(isFlac), PrimaryDate(m).full)
        /\ PrimaryDate(m).full # None
    BY <1>2 DEF Pushed, PushedIf, Field
  <2>2. DateKey(isFlac) \in DOMAIN Owner(isFlac) /\ Owner(isFlac)[DateKey(isFlac)] = "ReleaseDate"
    BY FormatOwners DEF DateKey
  <2>3. Owned(f, cfg, isFlac)
    BY <1>2, <2>2, PushedOwned DEF IsPushed, Pushed
  <2> QED BY <2>1, <2>3
<1> QED BY <1>1, <1>2, Zenon DEF DateFields

\* The keys of one format only.
LEMMA FormatOwned ==
    ASSUME NEW m, NEW cfg, NEW isFlac \in BOOLEAN,
           NEW f \in FormatFields(m, cfg, isFlac)
    PROVE  /\ Owned(f, cfg, isFlac)
           /\ f.key \in {"PRODUCER", "COMMERCIALINFORMATIONURL", "INVOLVEDPEOPLE",
                         "ITUNESADVISORY", "ORGANIZATION", "UPC", "URL"}
<1>1. CASE f \in ProducerFields(m, cfg, isFlac)
  <2>1. isFlac /\ IsPushed(f, cfg, "Producer", "PRODUCER")
    BY <1>1, Zenon DEF ProducerFields, IsPushed, Pushed
  <2>2. /\ "PRODUCER" \in DOMAIN Owner(isFlac) /\ Owner(isFlac)["PRODUCER"] = "Producer"
    BY <2>1, FormatOwners
  <2> QED BY <2>1, <2>2, PushedOwned
<1>2. CASE f \in UrlFields(m, cfg, isFlac)
  <2>1. ~isFlac /\ IsPushed(f, cfg, "Url", "COMMERCIALINFORMATIONURL")
    BY <1>2, Zenon DEF UrlFields, IsPushed, Pushed
  <2>2. /\ "COMMERCIALINFORMATIONURL" \in DOMAIN Owner(isFlac)
        /\ Owner(isFlac)["COMMERCIALINFORMATIONURL"] = "Url"
    BY <2>1, FormatOwners
  <2> QED BY <2>1, <2>2, PushedOwned
<1>3. CASE isFlac /\ f \in FlacFields(m, cfg)
  <2>1. \/ IsPushed(f, cfg, "InvolvedPeople", "INVOLVEDPEOPLE")
        \/ IsPushed(f, cfg, "Explicit", "ITUNESADVISORY")
        \/ IsPushed(f, cfg, "Label", "ORGANIZATION")
        \/ IsPushed(f, cfg, "Upc", "UPC")
        \/ IsPushed(f, cfg, "Url", "URL")
    BY <1>3 DEF FlacFields, IsPushed, Pushed
  <2>2. isFlac = TRUE
    BY <1>3
  <2>3. /\ "INVOLVEDPEOPLE" \in DOMAIN Owner(isFlac) /\ Owner(isFlac)["INVOLVEDPEOPLE"] = "InvolvedPeople"
        /\ "ITUNESADVISORY" \in DOMAIN Owner(isFlac) /\ Owner(isFlac)["ITUNESADVISORY"] = "Explicit"
        /\ "UPC" \in DOMAIN Owner(isFlac) /\ Owner(isFlac)["UPC"] = "Upc"
        /\ "URL" \in DOMAIN Owner(isFlac) /\ Owner(isFlac)["URL"] = "Url"
        /\ "ORGANIZATION" \in DOMAIN Owner(isFlac) /\ Owner(isFlac)["ORGANIZATION"] = "Label"
    BY <2>2, FormatOwners
  <2> QED BY <2>1, <2>3, PushedOwned
<1> QED BY <1>1, <1>2, <1>3, Zenon DEF FormatFields

\* The three kinds of fields have no key in common.
LEMMA FieldKinds ==
    ASSUME NEW m, NEW cfg, NEW isFlac \in BOOLEAN, NEW f \in Fields(m, cfg, isFlac)
    PROVE  /\ Owned(f, cfg, isFlac)
           /\ f.key \in {YearKey(isFlac), DateKey(isFlac)} => f \in DateFields(m, cfg, isFlac)
           /\ f.key = "COMPOSER" => f \in ComposerFields(m, cfg, isFlac)
<1>1. \/ f \in PeopleFields(m, cfg, isFlac)
      \/ f \in PlainFields(m, cfg)
      \/ f \in DateFields(m, cfg, isFlac)
      \/ f \in FormatFields(m, cfg, isFlac)
  BY DEF Fields, PeopleFields, FormatFields
<1>2. YearKey(isFlac) \in {"YEAR", "DATE"} /\ DateKey(isFlac) \in {"DATE", "RELEASEDATE"}
  BY DEF YearKey, DateKey
<1>3. CASE f \in PeopleFields(m, cfg, isFlac)
  <2>1. /\ Owned(f, cfg, isFlac)
        /\ f.key \in {"TITLE", "ALBUM", "ALBUMARTIST", "ARTIST", "COMPOSER", "MEDIA"}
        /\ f.key = "COMPOSER" => f \in ComposerFields(m, cfg, isFlac)
    BY <1>3, PeopleOwned, Zenon
  <2> QED BY <1>2, <2>1
<1>4. CASE f \in PlainFields(m, cfg)
  BY <1>2, <1>4, PlainOwned
<1>5. CASE f \in DateFields(m, cfg, isFlac)
  BY <1>2, <1>5, DateOwned
<1>6. CASE f \in FormatFields(m, cfg, isFlac)
  <2>1. /\ Owned(f, cfg, isFlac)
        /\ f.key \in {"PRODUCER", "COMMERCIALINFORMATIONURL", "INVOLVEDPEOPLE",
                      "ITUNESADVISORY", "ORGANIZATION", "UPC", "URL"}
    BY <1>6, FormatOwned, Zenon
  <2> QED BY <1>2, <2>1
<1> QED BY <1>1, <1>3, <1>4, <1>5, <1>6

\* Two fields of one key are one field.
Single(S) == \A f, g \in S : f.key = g.key => f = g

\* What is pushed under different keys is single.
LEMMA PeopleSingle ==
    ASSUME NEW m, NEW cfg, NEW isFlac \in BOOLEAN
    PROVE  Single(PeopleFields(m, cfg, isFlac))
<1>1. PICK v1, v2 : NameFields(m, cfg) = Pushed(cfg, "Title", "TITLE", v1)
                                            \cup Pushed(cfg, "Album", "ALBUM", v2)
  BY Zenon DEF NameFields
<1>2. PICK v3, t3 : AlbumArtistFields(m, cfg, isFlac) =
                       PushedIf(t3, cfg, "AlbumArtist", "ALBUMARTIST", v3)
  BY Zenon DEF AlbumArtistFields
<1>3. PICK v4, t4 : ArtistFields(m, cfg, isFlac) = PushedIf(t4, cfg, "Artist", "ARTIST", v4)
  BY Zenon DEF ArtistFields
<1>4. PICK v5, t5 : ComposerFields(m, cfg, isFlac) =
                       PushedIf(t5, cfg, "Composer", "COMPOSER", v5)
  BY Zenon DEF ComposerFields
<1>5. PICK v6 : MediaFields(m, cfg) = Pushed(cfg, "MediaType", "MEDIA", v6)
  BY Zenon DEF MediaFields
<1> QED BY <1>1, <1>2, <1>3, <1>4, <1>5, SMT DEF PeopleFields, Pushed, PushedIf, Field, Single

LEMMA PlainSingle ==
    ASSUME NEW m, NEW cfg
    PROVE  Single(PlainFields(m, cfg))
BY SMT DEF PlainFields, Pushed, PushedIf, Field, Single

LEMMA DateSingle ==
    ASSUME NEW m, NEW cfg, NEW isFlac \in BOOLEAN
    PROVE  Single(DateFields(m, cfg, isFlac))
BY DateOwned DEF Single, YearKey, DateKey

\* A FLAC file's own keys; PRODUCER alone may come several times.
LEMMA FormatSingle ==
    ASSUME NEW m, NEW cfg, NEW isFlac \in BOOLEAN
    PROVE  \A f, g \in FormatFields(m, cfg, isFlac) :
              f.key = g.key => f = g \/ f.key = "PRODUCER"
<1>1. \A f \in ProducerFields(m, cfg, isFlac) : f.key = "PRODUCER"
  <2> TAKE f \in ProducerFields(m, cfg, isFlac)
  <2>1. IsPushed(f, cfg, "Producer", "PRODUCER")
    BY Zenon DEF ProducerFields, IsPushed, Pushed
  <2> QED BY <2>1, PushedField DEF IsPushed
<1>2. CASE isFlac
  <2>1. UrlFields(m, cfg, isFlac) = {}
    BY <1>2 DEF UrlFields
  <2>2. PICK v1, v2, v3, v4, v5 : FlacFields(m, cfg) =
            UNION {Pushed(cfg, "InvolvedPeople", "INVOLVEDPEOPLE", v1),
                   Pushed(cfg, "Explicit", "ITUNESADVISORY", v2),
                   Pushed(cfg, "Label", "ORGANIZATION", v3),
                   Pushed(cfg, "Upc", "UPC", v4), Pushed(cfg, "Url", "URL", v5)}
    BY Zenon DEF FlacFields
  <2>3. \A f, g \in FlacFields(m, cfg) : f.key = g.key => f = g
    BY <2>2, SMT DEF Pushed, PushedIf, Field
  <2>4. \A f \in FlacFields(m, cfg) : f.key # "PRODUCER"
    BY <2>2, SMT DEF Pushed, PushedIf, Field
  <2>5. FormatFields(m, cfg, isFlac) =
            ProducerFields(m, cfg, isFlac) \cup FlacFields(m, cfg)
    BY <1>2, <2>1 DEF FormatFields
  <2> HIDE <1>2
  <2> QED BY <1>1, <2>3, <2>4, <2>5
<1>3. CASE ~isFlac
  <2>1. PICK v : UrlFields(m, cfg, isFlac) = Pushed(cfg, "Url", "COMMERCIALINFORMATIONURL", v)
    BY <1>3, Zenon DEF UrlFields
  <2>2. \A f, g \in UrlFields(m, cfg, isFlac) : f = g
    BY <2>1, SMT DEF Pushed, PushedIf, Field
  <2>3. ProducerFields(m, cfg, isFlac) = {}
    BY <1>3 DEF ProducerFields
  <2> QED BY <1>3, <2>2, <2>3 DEF FormatFields
<1> QED BY <1>2, <1>3

\* No key but PRODUCER is written twice.
LEMMA FieldsSingle ==
    ASSUME NEW m, NEW cfg, NEW isFlac \in BOOLEAN,
           NEW f \in Fields(m, cfg, isFlac), NEW g \in Fields(m, cfg, isFlac), f.key = g.key
    PROVE  f = g \/ f.key = "PRODUCER"
<1> DEFINE people == PeopleFields(m, cfg, isFlac)
           plain == PlainFields(m, cfg)
           dates == DateFields(m, cfg, isFlac)
           format == FormatFields(m, cfg, isFlac)
<1>1. /\ f \in people \/ f \in plain \/ f \in dates \/ f \in format
      /\ g \in people \/ g \in plain \/ g \in dates \/ g \in format
  BY DEF Fields, PeopleFields, FormatFields
<1>2. \A x \in people : x.key \in {"TITLE", "ALBUM", "ALBUMARTIST", "ARTIST", "COMPOSER", "MEDIA"}
  BY PeopleOwned
<1>3. \A x \in plain : x.key \in {"LABEL", "GENRE", "TRACKNUMBER", "TRACKTOTAL", "DISCNUMBER",
                                  "DISCTOTAL", "COPYRIGHT", "ISRC"}
  BY PlainOwned
<1>4. \A x \in dates : x.key \in {"YEAR", "DATE", "RELEASEDATE"}
  BY DateOwned DEF YearKey, DateKey
<1>5. \A x \in format : x.key \in {"PRODUCER", "COMMERCIALINFORMATIONURL", "INVOLVEDPEOPLE",
                                   "ITUNESADVISORY", "ORGANIZATION", "UPC", "URL"}
  BY FormatOwned
<1>6. Single(people) /\ Single(plain) /\ Single(dates)
  BY PeopleSingle, PlainSingle, DateSingle
<1>7. \A x, y \in format : x.key = y.key => x = y \/ x.key = "PRODUCER"
  BY FormatSingle, Zenon
<1> HIDE DEF people, plain, dates, format
<1> QED BY <1>1, <1>2, <1>3, <1>4, <1>5, <1>6, <1>7 DEF Single

\* The date of extracted metadata, and its year.
LEMMA PrimaryDateFollows ==
    ASSUME NEW m, DatesTyped(m), None \notin Int
    PROVE  /\ ReleasedAtOnly(m) => /\ PrimaryDate(m).full = CivilDateOf(m.released_at)
                                   /\ m.released_at \in Int
           /\ PrimaryDate(m).full # None /\ PrimaryDate(m).year # None =>
                PrimaryDate(m).year =
                    YearText(IF PrimaryDate(m).full.y > 0 THEN PrimaryDate(m).full.y ELSE 0)
<1> DEFINE given == GivenDate(m)
<1>1. CASE given # None
  <2>1. PrimaryDate(m) =
            [full |-> given, year |-> IF given.y = None THEN None ELSE YearText(given.y)]
    BY <1>1 DEF PrimaryDate, ParseYear
  <2>2. given.y \in Nat \/ given.y = None
    BY <1>1 DEF DatesTyped, IsDate, Either, GivenDate
  <2>3. ~ReleasedAtOnly(m)
    BY <1>1 DEF ReleasedAtOnly, Either, GivenDate
  <2> HIDE DEF given
  <2> QED BY <2>1, <2>2, <2>3
<1>2. CASE given = None /\ m.released_at # None
  <2>1. PrimaryDate(m) =
            [full |-> CivilDateOf(m.released_at), year |-> TimestampYear(m.released_at)]
    BY <1>2 DEF PrimaryDate
  <2>2. m.released_at \in Int
    BY <1>2 DEF DatesTyped
  <2> QED BY <2>1, <2>2 DEF TimestampYear
<1>3. CASE given = None /\ m.released_at = None
  BY <1>3 DEF PrimaryDate, ReleasedAtOnly, GivenDate, Either
<1> QED BY <1>1, <1>2, <1>3

\* A day has 86400 seconds.
LEMMA NextDay ==
    ASSUME NEW t \in Int
    PROVE  Tomorrow(CivilDateOf(t)) = CivilDateOf(t + SecondsPerDay)
<1>1. DaysOf(t) \in Int /\ DaysOf(t + SecondsPerDay) = DaysOf(t) + 1
  BY SMT DEF DaysOf, SecondsPerDay
<1> QED BY <1>1, DaysFollowCalendar DEF CivilDateOf

-----------------------------------------------------------------------------
(* Texts *)

\* Trimming gives a part of the text.
LEMMA Trimmed ==
    ASSUME NEW A, NEW s \in Seq(A)
    PROVE  Trim(s) \in Seq(A)
<1> DEFINE solid == {i \in DOMAIN s : s[i] \notin Blanks}
           first == CHOOSE i \in solid : \A j \in solid : i <= j
           last == CHOOSE i \in solid : \A j \in solid : j <= i
<1>1. Len(s) \in Nat /\ DOMAIN s = 1..Len(s) /\ \A i \in 1..Len(s) : s[i] \in A
  BY LenProperties
<1>2. CASE solid = {}
  BY <1>2 DEF Trim
<1>3. CASE solid # {}
  <2>1. solid \subseteq 1..Len(s) /\ solid \subseteq Nat
    BY <1>1
  <2>2. first \in solid
    <3> HIDE DEF solid
    <3>1. PICK m \in solid : \A j \in solid : ~(j < m)
      BY <1>3, <2>1, LeastExists
    <3>2. \A j \in solid : m <= j
      BY <2>1, <3>1
    <3> QED BY <3>2
  <2>3. last \in solid
    <3> HIDE DEF solid
    <3>1. \E i \in solid : \A j \in solid : j <= i
      BY <1>1, <1>3, <2>1, LastExists
    <3> QED BY <3>1
  <2>4. first \in Int /\ last \in Int /\ \A i \in first..last : s[i] \in A
    <3> HIDE DEF first, last
    <3> QED BY <1>1, <2>1, <2>2, <2>3
  <2>5. Trim(s) = SubSeq(s, first, last)
    BY <1>3 DEF Trim
  <2> HIDE DEF first, last
  <2> QED BY <2>4, <2>5, SubSeqProperties
<1> QED BY <1>2, <1>3

\* Splitting gives texts, one at least.
LEMMA SplitTyped ==
    ASSUME NEW A, NEW s \in Seq(A), NEW sep
    PROVE  Split(s, sep) \in Seq(Seq(A)) /\ Split(s, sep) # <<>>
<1> DEFINE N == Len(s)
           X == Seq(Seq(A)) \ {<<>>}
           Step(parts, c) == IF c = sep THEN Append(parts, <<>>)
                             ELSE [parts EXCEPT ![Len(parts)] = Append(@, c)]
           step == [n \in 1..N |-> [parts \in X |-> Step(parts, s[n])]]
           Body(it) == [S \in SUBSET (1..N) |->
                           IF S = {} THEN <<<<>>>>
                           ELSE Step(it[S \ {Max(S)}], s[Max(S)])]
           splits == CHOOSE it : it = Body(it)
<1>1. N \in Nat /\ DOMAIN s = 1..N /\ \A n \in 1..N : s[n] \in A
  BY LenProperties
<1>2. Split(s, sep) = splits[1..N]
  BY <1>1 DEF Split, FoldLeft, MapThenFoldSet
<1>3. ASSUME NEW parts \in X, NEW c \in A PROVE Step(parts, c) \in X
  <2>1. Len(parts) \in 1..Len(parts) /\ parts \in Seq(Seq(A)) /\ <<>> \in Seq(A)
    BY LenProperties, EmptySeq
  <2>2. parts[Len(parts)] \in Seq(A)
    BY <2>1, ElementOfSeq
  <2>3. CASE c = sep
    BY <2>1, <2>3, AppendProperties
  <2>4. CASE c # sep
    <3>1. Append(parts[Len(parts)], c) \in Seq(A)
      BY <2>2, AppendProperties
    <3>2. /\ Step(parts, c) = [parts EXCEPT ![Len(parts)] = Append(parts[Len(parts)], c)]
          /\ Len(parts) > 0
      BY <2>1, <2>4
    <3>3. Step(parts, c) \in Seq(Seq(A)) /\ Len(Step(parts, c)) = Len(parts)
      <4> HIDE DEF Step
      <4> QED BY <2>1, <3>1, <3>2, ExceptSeq
    <3> HIDE DEF Step
    <3> QED BY <3>2, <3>3
  <2> QED BY <2>3, <2>4
<1> HIDE DEF Step
<1>4. step \in [1..N -> [X -> X]] /\ <<<<>>>> \in X
  <2>1. <<<<>>>> \in X
    OBVIOUS
  <2>2. step \in [1..N -> [X -> X]]
    <3> HIDE DEF X
    <3> QED BY <1>1, <1>3
  <2> QED BY <2>1, <2>2
<1>5. \A S \in SUBSET (1..N) : S # {} => Max(S) \in 1..N /\ S \ {Max(S)} \in SUBSET (1..N)
  BY <1>1, MaxIsIn
<1>6. \E it : it = Body(it)
  <2>1. PICK it \in [SUBSET (1..N) -> X] : IsFold(it, N, <<<<>>>>, step)
    <3> HIDE DEF step, N, X
    <3> QED BY <1>1, <1>4, FoldExists
  <2> HIDE DEF X
  <2>2. \A S \in SUBSET (1..N) : it[S] = Body(it)[S]
    BY <1>5, <2>1 DEF IsFold
  <2> QED BY <2>1, <2>2
<1>7. splits = Body(splits)
  <2> HIDE DEF Body
  <2> QED BY <1>6
<1> HIDE DEF splits
<1>8. \A S \in SUBSET (1..N) : S # {} /\ splits[S \ {Max(S)}] \in X =>
          splits[S] = step[Max(S)][splits[S \ {Max(S)}]]
  <2> HIDE DEF X
  <2> QED BY <1>5, <1>7
<1>9. splits[{}] = <<<<>>>>
  BY <1>7
<1>10. PICK f : Runs(f, splits, N, X, <<<<>>>>, step)
  <2> HIDE DEF step, N, X
  <2> QED BY <1>1, <1>4, <1>8, <1>9, FoldRuns
<1>11. splits[1..N] \in X
  <2> HIDE DEF X
  <2> QED BY <1>1, <1>10 DEF Runs
<1> QED BY <1>2, <1>11

\* Squeezing gives a text of the same symbols.
LEMMA SqueezedTyped ==
    ASSUME NEW B, NEW s \in Seq(B)
    PROVE  Squeezed(s) \in Seq(B)
<1> DEFINE N == Len(s)
           X == Seq(B)
           Step(t, c) == IF c = " " /\ t # <<>> /\ Last(t) = " " THEN t ELSE Append(t, c)
           step == [n \in 1..N |-> [t \in X |-> Step(t, s[n])]]
           Body(it) == [S \in SUBSET (1..N) |->
                           IF S = {} THEN <<>> ELSE Step(it[S \ {Max(S)}], s[Max(S)])]
           squeezes == CHOOSE it : it = Body(it)
<1>1. N \in Nat /\ DOMAIN s = 1..N /\ \A n \in 1..N : s[n] \in B
  BY LenProperties
<1>2. Squeezed(s) = squeezes[1..N]
  BY <1>1 DEF Squeezed, FoldLeft, MapThenFoldSet
<1>6. \A t \in X, c \in B : Step(t, c) \in X
  BY AppendProperties
<1> HIDE DEF Step
<1>7. step \in [1..N -> [X -> X]] /\ <<>> \in X
  <2>1. <<>> \in X
    BY EmptySeq
  <2> HIDE DEF X
  <2> QED BY <1>1, <1>6, <2>1
<1>8. \A S \in SUBSET (1..N) : S # {} => Max(S) \in 1..N /\ S \ {Max(S)} \in SUBSET (1..N)
  BY <1>1, MaxIsIn
<1> HIDE DEF X
<1>9. \E it : it = Body(it)
  <2>1. PICK it \in [SUBSET (1..N) -> X] : IsFold(it, N, <<>>, step)
    <3> HIDE DEF step, N
    <3> QED BY <1>1, <1>7, FoldExists
  <2>2. \A S \in SUBSET (1..N) : it[S] = Body(it)[S]
    BY <1>8, <2>1 DEF IsFold
  <2> QED BY <2>1, <2>2
<1>10. squeezes = Body(squeezes)
  <2> HIDE DEF Body
  <2> QED BY <1>9
<1> HIDE DEF squeezes
<1>11. \A S \in SUBSET (1..N) : S # {} /\ squeezes[S \ {Max(S)}] \in X =>
          squeezes[S] = step[Max(S)][squeezes[S \ {Max(S)}]]
  BY <1>8, <1>10
<1>12. squeezes[{}] = <<>>
  BY <1>10
<1>13. PICK f : Runs(f, squeezes, N, X, <<>>, step)
  <2> HIDE DEF step, N
  <2> QED BY <1>1, <1>7, <1>11, <1>12, FoldRuns
<1>14. squeezes[1..N] \in X
  <2>1. N \in 0..N
    BY <1>1
  <2> HIDE DEF N, step
  <2> QED BY <1>13, <2>1 DEF Runs
<1> QED BY <1>2, <1>14 DEF X

\* Composers are compared by texts.
LEMMA NormalTyped ==
    ASSUME NEW A, NEW name \in Seq(A)
    PROVE  NormalizeComposer(name) \in Seq({Lower(a) : a \in A} \cup {" "})
<1> DEFINE B == {Lower(a) : a \in A} \cup {" "}
           small == [i \in DOMAIN name |-> Lower(name[i])]
           lower == Trim(small)
           letters == Picked(lower, ToSet(lower) \ {".", ","})
           spaced == [i \in DOMAIN letters |-> IF letters[i] = "-" THEN " " ELSE letters[i]]
<1>1. small \in Seq(B)
  <2>1. Len(name) \in Nat /\ DOMAIN name = 1..Len(name) /\ \A i \in 1..Len(name) : name[i] \in A
    BY LenProperties
  <2>2. small = [i \in 1..Len(name) |-> small[i]] /\ \A i \in 1..Len(name) : small[i] = Lower(name[i])
    BY <2>1
  <2>3. \A i \in 1..Len(name) : small[i] \in B
    BY <2>1, <2>2, Zenon
  <2> HIDE DEF B, small
  <2> QED BY <2>1, <2>2, <2>3
<1>2. letters \in Seq(B)
  <2> HIDE DEF B, small
  <2> QED BY <1>1, Trimmed, PickedTyped
<1>3. spaced \in Seq(B)
  <2>1. Len(letters) \in Nat /\ DOMAIN letters = 1..Len(letters)
        /\ \A i \in 1..Len(letters) : letters[i] \in B
    <3> HIDE DEF B, letters
    <3> QED BY <1>2, LenProperties
  <2>2. \A i \in 1..Len(letters) : spaced[i] \in B
    <3>1. " " \in B
      OBVIOUS
    <3> HIDE DEF B, letters
    <3> QED BY <2>1, <3>1
  <2>3. spaced = [i \in 1..Len(letters) |-> spaced[i]]
    BY <2>1
  <2> HIDE DEF B, spaced, letters
  <2> QED BY <2>1, <2>2, <2>3
<1>4. NormalizeComposer(name) = Trim(Squeezed(spaced))
  BY DEF NormalizeComposer
<1> HIDE DEF spaced, B
<1>5. Trim(Squeezed(spaced)) \in Seq(B)
  BY <1>3, SqueezedTyped, Trimmed
<1> QED BY <1>4, <1>5 DEF B

\* A text overlaps itself, and overlapping goes both ways.
LEMMA OverlapAlike ==
    /\ \A A : \A s \in Seq(A) : Overlap(s, s)
    /\ \A s, t : Overlap(s, t) <=> Overlap(t, s)
<1>1. ASSUME NEW A, NEW s \in Seq(A) PROVE Overlap(s, s)
  <2>1. SubSeq(s, 1, Len(s)) = s /\ Len(s) \in Nat
    BY SubSeqFull, LenProperties
  <2>2. 0 \in 0..(Len(s) - Len(s)) /\ SubSeq(s, 0 + 1, 0 + Len(s)) = s
    BY <2>1
  <2>3. Within(s, s)
    BY <2>2, Zenon DEF Within
  <2> QED BY <2>3 DEF Overlap
<1>2. \A s, t : Overlap(s, t) <=> Overlap(t, s)
  BY DEF Overlap
<1> QED BY <1>1, <1>2

-----------------------------------------------------------------------------
(* People *)

Credits(A) == [person : Seq(A), roles : Seq(Seq(A))]

LEMMA CreditTyped ==
    ASSUME NEW A, NEW group \in Seq(A)
    PROVE  Credit(group) \in Credits(A)
<1> DEFINE parts == Split(Trim(group), ",")
           trimmed == [i \in DOMAIN parts |-> Trim(parts[i])]
<1>1. parts \in Seq(Seq(A)) /\ parts # <<>>
  BY Trimmed, SplitTyped
<1> HIDE DEF parts
<1>2. Len(parts) \in Nat /\ DOMAIN parts = 1..Len(parts) /\ \A i \in 1..Len(parts) : parts[i] \in Seq(A)
  BY <1>1, LenProperties
<1>3. Len(parts) # 0
  BY <1>1, EmptySeq
<1>4. \A i \in 1..Len(parts) : Trim(parts[i]) \in Seq(A)
  BY <1>2, Trimmed
<1>5. trimmed \in Seq(Seq(A)) /\ trimmed # <<>>
  BY <1>2, <1>3, <1>4
<1> HIDE DEF trimmed
<1>6. Head(trimmed) \in Seq(A) /\ Tail(trimmed) \in Seq(Seq(A))
  BY <1>5, HeadTailProperties
<1>7. Credit(group) = [person |-> Head(trimmed), roles |-> Tail(trimmed)]
  BY DEF Credit, trimmed, parts
<1> QED BY <1>6, <1>7 DEF Credits

LEMMA ParsedTyped ==
    ASSUME NEW A, NEW text \in Seq(A)
    PROVE  ParsePerformers(text) \in Seq(Credits(A))
<1> DEFINE groups == Split(text, " - ")
<1>1. groups \in Seq(Seq(A))
  BY SplitTyped
<1>2. ParsePerformers(text) = [i \in DOMAIN groups |-> Credit(groups[i])]
  BY DEF ParsePerformers
<1> HIDE DEF groups
<1>3. /\ Len(groups) \in Nat /\ DOMAIN groups = 1..Len(groups)
      /\ \A i \in 1..Len(groups) : Credit(groups[i]) \in Credits(A)
  BY <1>1, LenProperties, CreditTyped
<1> QED BY <1>2, <1>3

\* The persons of some credits.
LEMMA PersonsTyped ==
    ASSUME NEW A, NEW credits \in Seq(Credits(A)), NEW T
    PROVE  LET chosen == Picked(credits, T)
               persons == [i \in DOMAIN chosen |-> chosen[i].person]
           IN  /\ persons \in Seq(Seq(A))
               /\ ToSet(persons) = {c.person : c \in ToSet(credits) \cap T}
<1> DEFINE chosen == Picked(credits, T)
           persons == [i \in DOMAIN chosen |-> chosen[i].person]
<1>1. chosen \in Seq(Credits(A)) /\ ToSet(chosen) = ToSet(credits) \cap T
  BY PickedTyped
<1> HIDE DEF chosen
<1>2. /\ Len(chosen) \in Nat /\ DOMAIN chosen = 1..Len(chosen)
      /\ \A i \in 1..Len(chosen) : chosen[i] \in Credits(A)
  BY <1>1, LenProperties
<1>3. persons \in Seq(Seq(A))
  BY <1>2 DEF Credits
<1>4. ToSet(persons) = {c.person : c \in ToSet(chosen)}
  BY <1>2 DEF ToSet
<1> QED BY <1>1, <1>3, <1>4 DEF chosen

\* Those an artist's or a composer's role names, each once.
LEMMA NamesTyped ==
    ASSUME NEW A, NEW text \in Seq(A)
    PROVE  /\ ArtistNames(text) \in Seq(Seq(A))
           /\ ToSet(ArtistNames(text)) =
                 {c.person : c \in {x \in ToSet(ParsePerformers(text)) :
                                        \E r \in ToSet(x.roles) : IsArtistRole(r)}}
           /\ ComposerNames(text) \in Seq(Seq(A))
<1> DEFINE credits == ParsePerformers(text)
           artists == {c \in ToSet(credits) : \E r \in ToSet(c.roles) : IsArtistRole(r)}
           composers == {c \in ToSet(credits) : \E r \in ToSet(c.roles) : IsComposerRole(r)}
           Named(T) == LET chosen == Picked(credits, T)
                       IN  [i \in DOMAIN chosen |-> chosen[i].person]
<1>1. credits \in Seq(Credits(A))
  BY ParsedTyped
<1>2. /\ ArtistNames(text) = Once(Named(artists))
      /\ ComposerNames(text) = Once(Named(composers))
  BY DEF ArtistNames, ComposerNames, Persons
<1> HIDE DEF credits
<1>3. \A T : Named(T) \in Seq(Seq(A)) /\ ToSet(Named(T)) = {c.person : c \in ToSet(credits) \cap T}
  BY <1>1, PersonsTyped
<1> HIDE DEF Named
<1>4. /\ ArtistNames(text) \in Seq(Seq(A)) /\ ComposerNames(text) \in Seq(Seq(A))
      /\ ToSet(ArtistNames(text)) = {c.person : c \in ToSet(credits) \cap artists}
  <2> HIDE DEF artists, composers
  <2> QED BY <1>2, <1>3, OnceList
<1>5. ToSet(credits) \cap artists = artists
  OBVIOUS
<1> QED BY <1>4, <1>5 DEF credits

\* The artists are those that are credited, each once.
LEMMA ArtistsAreCredited ==
    ASSUME NEW m, PeopleTyped(m)
    PROVE  Artists(m) \in SetToSeqs(Credited(m)) /\ (Artists(m) = <<>> => Credited(m) = {})
<1> DEFINE performing == IF m.performers = None THEN <<>> ELSE ArtistNames(m.performers)
           credits == IF m.performers = None THEN {} ELSE ToSet(ParsePerformers(m.performers))
           persons == {c.person : c \in {x \in credits : \E r \in ToSet(x.roles) : IsArtistRole(r)}}
           own == Texts(m.performer_name)
           naming == {a \in ToSet(m.album_artists) : a.name \notin {None, <<>>}}
           chosen == Picked(m.album_artists, naming)
           album == [i \in DOMAIN chosen |-> chosen[i].name]
           names == {a.name : a \in ToSet(m.album_artists)} \ {None, <<>>}
<1>1. performing \in Seq(ToSet(performing)) /\ ToSet(performing) = persons
  <2>1. CASE m.performers = None
    BY <2>1 DEF ToSet
  <2>2. CASE m.performers # None
    <3>1. m.performers \in Seq(ToSet(m.performers))
      BY <2>2 DEF PeopleTyped, IsList
    <3>2. performing \in Seq(Seq(ToSet(m.performers))) /\ ToSet(performing) = persons
      BY <2>2, <3>1, NamesTyped
    <3> HIDE DEF performing
    <3> QED BY <3>2, OwnElements
  <2> QED BY <2>1, <2>2
<1>2. own \in Seq(ToSet(own)) /\ ToSet(own) = {m.performer_name} \ {None}
  <2> DEFINE name == m.performer_name
  <2> HIDE DEF name
  <2>1. CASE name = None
    <3>1. Texts(name) = <<>>
      BY <2>1 DEF Texts
    <3>2. Texts(name) \in Seq(ToSet(Texts(name))) /\ ToSet(Texts(name)) = {}
      BY <3>1 DEF ToSet
    <3> QED BY <2>1, <3>2 DEF name
  <2>2. CASE name # None
    <3>1. Texts(name) = <<name>>
      BY <2>2 DEF Texts
    <3>2. <<name>> \in Seq({name}) /\ DOMAIN <<name>> = {1} /\ <<name>>[1] = name
      OBVIOUS
    <3>3. ToSet(<<name>>) = {name}
      BY <3>2 DEF ToSet
    <3> QED BY <2>2, <3>1, <3>2, <3>3 DEF name
  <2> QED BY <2>1, <2>2
<1>3. album \in Seq(ToSet(album)) /\ ToSet(album) = names
  <2>1. chosen \in Seq(ToSet(m.album_artists)) /\ ToSet(chosen) = ToSet(m.album_artists) \cap naming
    <3> HIDE DEF naming
    <3> QED BY PickedTyped DEF PeopleTyped
  <2>2. ToSet(chosen) = naming
    BY <2>1
  <2>3. {a.name : a \in naming} = names
    OBVIOUS
  <2> HIDE DEF chosen, naming
  <2>4. Len(chosen) \in Nat /\ DOMAIN chosen = 1..Len(chosen)
    BY <2>1, LenProperties
  <2>5. ToSet(album) = {a.name : a \in ToSet(chosen)}
    BY <2>4 DEF ToSet
  <2>6. album \in Seq({chosen[i].name : i \in 1..Len(chosen)})
    BY <2>4
  <2>7. album \in Seq(ToSet(album))
    <3> HIDE DEF album
    <3> QED BY <2>6, OwnElements
  <2> HIDE DEF album, names
  <2> QED BY <2>2, <2>3, <2>5, <2>7
<1>4. GivenArtists(m) = (performing \o own) \o album
  BY DEF GivenArtists
<1>5. Credited(m) = (persons \cup ({m.performer_name} \ {None})) \cup names
  BY DEF Credited
<1> HIDE DEF performing, own, album, persons, names
<1>6. /\ performing \o own \in Seq(ToSet(performing \o own))
      /\ ToSet(performing \o own) = ToSet(performing) \cup ToSet(own)
  BY <1>1, <1>2, Concatenated
<1>7. /\ (performing \o own) \o album \in Seq(ToSet((performing \o own) \o album))
      /\ ToSet((performing \o own) \o album) = ToSet(performing \o own) \cup ToSet(album)
  BY <1>3, <1>6, Concatenated
<1>8. ToSet(GivenArtists(m)) = Credited(m)
  BY <1>1, <1>2, <1>3, <1>4, <1>5, <1>6, <1>7
<1>9. GivenArtists(m) \in Seq(ToSet(GivenArtists(m)))
  BY <1>4, <1>7
<1>10. Artists(m) \in SetToSeqs(Credited(m)) /\ ToSet(Artists(m)) = Credited(m)
  BY <1>8, <1>9, OnceList DEF Artists
<1>11. Artists(m) = <<>> => Credited(m) = {}
  <2>1. ToSet(<<>>) = {}
    BY DEF ToSet
  <2> QED BY <1>10, <2>1
<1> QED BY <1>10, <1>11

LEMMA ComposersTyped ==
    ASSUME NEW m, PeopleTyped(m)
    PROVE  \E A : PerformerComposers(m) \in Seq(Seq(A))
<1>1. CASE m.performers = None
  BY <1>1 DEF PerformerComposers
<1>2. CASE m.performers # None
  <2>1. m.performers \in Seq(ToSet(m.performers))
    BY <1>2 DEF PeopleTyped, IsList
  <2> QED BY <1>2, <2>1, NamesTyped DEF PerformerComposers
<1> QED BY <1>1, <1>2

\* The fallback is one composer at most.
LEMMA FallbackIsOne ==
    ASSUME NEW m
    PROVE  \A i, j \in DOMAIN ComposerFallback(m) : i = j
<1> DEFINE given == <<m.track_composer_name, m.album_composer_name>>
           named == Picked(given, ToSet(given) \ {None, VariousComposers})
<1>1. ComposerFallback(m) = IF named = <<>> THEN <<>> ELSE <<Head(named)>>
  BY DEF ComposerFallback
<1> HIDE DEF named
<1> QED BY <1>1

LEMMA Mp3ComposersApart ==
    ASSUME NEW m, PeopleTyped(m)
    PROVE  /\ NoneRepeated(Composers(m, FALSE))
           /\ NoneLost(Composers(m, FALSE), PerformerComposers(m))
<1> DEFINE given == PerformerComposers(m)
           credited == ToSet(given) \ {VariousComposers}
           listed == Proper(given)
           repeats == Duplicates(listed)
           composers == Uncovered(listed, repeats)
           named == Composers(m, FALSE)
<1>1. named = IF composers # <<>> THEN composers ELSE ComposerFallback(m)
  BY DEF Composers, Mp3Composers, Distinct
<1>2. PICK A : given \in Seq(Seq(A))
  BY ComposersTyped
<1>3. listed \in Seq(Seq(A)) /\ ToSet(listed) = credited
  <2>1. Picked(given, credited) \in Seq(Seq(A))
        /\ ToSet(Picked(given, credited)) = ToSet(given) \cap credited
    <3> HIDE DEF given, credited
    <3> QED BY <1>2, PickedTyped
  <2> QED BY <2>1 DEF Proper
<1>4. \A x, y \in credited : <<y, x>> \in repeats <=> Alike(x, y)
  <2> HIDE DEF listed, credited
  <2> QED BY <1>3 DEF Duplicates, IsDuplicateComposer, Alike
<1> HIDE DEF repeats, listed
<1>5. /\ composers \in Seq(Seq(A)) /\ ToSet(composers) \subseteq ToSet(listed)
      /\ \A i, j \in 1..Len(composers) : i < j => <<composers[i], composers[j]>> \notin repeats
      /\ \A x \in ToSet(listed) : \/ x \in ToSet(composers)
                                  \/ \E y \in ToSet(composers) : <<y, x>> \in repeats
  BY <1>3, UncoveredList
<1> HIDE DEF composers, named
<1>6. /\ Len(composers) \in Nat /\ DOMAIN composers = 1..Len(composers)
      /\ \A x : x \in ToSet(composers) <=> \E i \in 1..Len(composers) : composers[i] = x
  BY <1>5, LenProperties, ToSetFacts
<1>7. \A x \in credited : Alike(x, x)
  <2>1. credited \subseteq Seq(A)
    BY <1>2, ToSetFacts
  <2> HIDE DEF credited
  <2>2. \A x \in credited : NormalizeComposer(x) \in Seq({Lower(a) : a \in A} \cup {" "})
    BY <2>1, NormalTyped
  <2> QED BY <2>2, OverlapAlike, Zenon DEF Alike
<1>8. \A x, y : Alike(x, y) <=> Alike(y, x)
  BY OverlapAlike DEF Alike
<1>9. ASSUME NEW i \in DOMAIN named, NEW j \in DOMAIN named, i # j
      PROVE  ~Alike(named[i], named[j])
  <2>1. named = composers
    BY <1>1, <1>9, FallbackIsOne
  <2>2. i \in 1..Len(composers) /\ j \in 1..Len(composers) /\ (i < j \/ j < i)
    BY <1>6, <1>9, <2>1
  <2>3. composers[i] \in credited /\ composers[j] \in credited
    BY <1>3, <1>5, <1>6, <2>2
  <2> HIDE DEF credited
  <2> QED BY <1>4, <1>5, <1>8, <2>1, <2>2, <2>3
<1>10. ASSUME NEW c \in credited
       PROVE  \E i \in DOMAIN named : Alike(c, named[i])
  <2>1. PICK y \in ToSet(composers) : Alike(c, y)
    BY <1>3, <1>4, <1>5, <1>7
  <2>2. PICK i \in 1..Len(composers) : composers[i] = y
    BY <1>6, <2>1
  <2>3. composers # <<>>
    BY <1>6, <2>2
  <2> QED BY <1>1, <1>6, <2>1, <2>2, <2>3
<1> QED BY <1>9, <1>10 DEF named, NoneRepeated, NoneLost

-----------------------------------------------------------------------------
(* The specification *)

\* Extraction keeps what is known of dates and people.
LEMMA ExtractTyped ==
    ASSUME NEW song \in Songs, InputsAssumption
    PROVE  LET m == Extract(song.track, song.album, song.artist, song.covered)
           IN  /\ DatesTyped(m)
               /\ PeopleTyped(m)
               /\ DOMAIN m = TrackFields \cup AlbumFields \cup
                                {"performer_name", "album_artists", "cover_art_data"}
<1> DEFINE m == Extract(song.track, song.album, song.artist, song.covered)
<1>1. /\ m.released_at = IF song.album = None THEN None ELSE song.album.released_at
      /\ m.album_release_date_download =
            IF song.album = None THEN None ELSE song.album.album_release_date_download
      /\ m.album_release_date_original =
            IF song.album = None THEN None ELSE song.album.album_release_date_original
      /\ m.track_release_date_original = song.track.track_release_date_original
      /\ m.performers = song.track.performers
  BY DEF Extract, TrackFields, AlbumFields
<1>2. DOMAIN m = TrackFields \cup AlbumFields \cup
                   {"performer_name", "album_artists", "cover_art_data"}
  BY DEF Extract
<1>3. m.album_artists = IF song.album = None \/ song.album.artists = None THEN <<>>
                         ELSE Picked(song.album.artists, ToSet(song.album.artists) \ {None})
  BY DEF Extract, TrackFields, AlbumFields
<1> HIDE DEF m
<1>4. DatesTyped(m)
  BY <1>1 DEF DatesTyped, InputsAssumption, IsDate
<1>5. m.album_artists \in Seq(ToSet(m.album_artists))
  <2>1. CASE m.album_artists = <<>>
    BY <2>1
  <2>2. CASE m.album_artists # <<>>
    <3>1. song.album # None /\ song.album.artists # None
      BY <1>3, <2>2
    <3>2. song.album.artists \in Seq(ToSet(song.album.artists))
      BY <3>1 DEF InputsAssumption, IsList
    <3> DEFINE artists == song.album.artists
               real == ToSet(artists) \ {None}
    <3>3. m.album_artists = Picked(artists, real)
      BY <1>3, <3>1
    <3> HIDE DEF artists, real
    <3>4. Picked(artists, real) \in Seq(ToSet(artists))
      BY <3>2, PickedTyped DEF artists
    <3> QED BY <3>3, <3>4, OwnElements
  <2> QED BY <2>1, <2>2
<1>6. PeopleTyped(m)
  BY <1>1, <1>5 DEF PeopleTyped, InputsAssumption
<1> QED BY <1>2, <1>4, <1>6 DEF m

\* The invariant, inductive as it stands with the types.
IInv == TypeOK /\ TagsInv /\ FreshInv

LEMMA IInvInit == Init => IInv
<1> SUFFICES ASSUME Init PROVE IInv
  OBVIOUS
<1>1. "COMMENT" \in DOMAIN Owner(flac) /\ "TITLE" \in DOMAIN Owner(flac)
  <2>1. CASE flac
    BY <2>1, SMT DEF Owner, FlacOwner
  <2>2. CASE ~flac
    BY <2>2, SMT DEF Owner, FlacOwner, Mp3Owner
  <2> QED BY <2>1, <2>2
<1> QED BY <1>1 DEF Init, IInv, TypeOK, TagsInv, FreshInv, Field, MetadataField

LEMMA IInvNext == IInv /\ [Next]_vars => IInv'
<1> SUFFICES ASSUME IInv, [Next]_vars PROVE IInv'
  OBVIOUS
<1>1. ASSUME NEW song \in Songs, NEW cfg \in Configs, Embed(song, cfg)
      PROVE  IInv'
  <2>1. /\ tags'.fields = Fields(meta', cfg, flac) /\ tags'.cover = CoverArt(meta', cfg)
        /\ config' = cfg /\ flac' = flac /\ flac \in BOOLEAN
    BY <1>1 DEF Embed, WriteTags, IInv, TypeOK
  <2>2. /\ DatesTyped(meta') /\ PeopleTyped(meta')
        /\ DOMAIN meta' = TrackFields \cup AlbumFields \cup
                              {"performer_name", "album_artists", "cover_art_data"}
    BY <1>1, ExtractTyped, InputsAssumption DEF Embed
  <2>3. \A f \in Fields(meta', cfg, flac) : Owned(f, cfg, flac)
    BY <2>1, FieldKinds
  <2>4. TagsInv'
    BY <2>1, <2>2 DEF TagsInv
  <2>5. cfg \subseteq MetadataField
    BY InputsAssumption DEF InputsAssumption
  <2>6. TypeOK'
    BY <2>1, <2>2, <2>3, <2>5 DEF TypeOK, Owned
  <2>7. FreshInv'
    BY <2>1 DEF FreshInv
  <2> QED BY <2>4, <2>6, <2>7 DEF IInv
<1>2. CASE UNCHANGED vars
  BY <1>2 DEF IInv, TypeOK, TagsInv, FreshInv, vars
<1> QED BY <1>1, <1>2 DEF Next

\* The types and the file's tags, always.
THEOREM Invariance == Spec => []IInv
<1> QED BY IInvInit, IInvNext, PTL DEF Spec

\* The keys of a file are its format's.
THEOREM TypeCorrect == Spec => []TypeOK
<1>1. IInv => TypeOK
  BY DEF IInv
<1> QED BY <1>1, Invariance, PTL

\* No tag is there whose MetadataField was off, whatever the file had before.
THEOREM SwitchedOffIsGone == Spec => []OnlyEnabled
<1>1. IInv => OnlyEnabled
  <2> SUFFICES ASSUME IInv, meta # None
               PROVE  /\ \A f \in tags.fields : Owner(flac)[f.key] \in config
                      /\ tags.cover # None => "CoverArt" \in config
    BY DEF OnlyEnabled
  <2>1. tags.fields = Fields(meta, config, flac) /\ tags.cover = CoverArt(meta, config)
    BY DEF IInv, TagsInv
  <2>2. \A f \in Fields(meta, config, flac) : Owned(f, config, flac)
    BY FieldKinds DEF IInv, TypeOK
  <2> QED BY <2>1, <2>2 DEF Owned, CoverArt
<1> QED BY <1>1, Invariance, PTL

\* No key has two values, PRODUCER excepted.
THEOREM KeysAreSingle == Spec => []KeysOnce
<1>1. IInv => KeysOnce
  <2> SUFFICES ASSUME IInv PROVE KeysOnce
    OBVIOUS
  <2>1. CASE tags.fields = {Field("COMMENT", "CDN"), Field("TITLE", "CDN")}
    BY <2>1 DEF KeysOnce, Field
  <2>2. CASE tags.fields = Fields(meta, config, flac)
    BY <2>2, FieldsSingle DEF IInv, TypeOK, KeysOnce
  <2> QED BY <2>1, <2>2 DEF IInv, FreshInv
<1> QED BY <1>1, Invariance, PTL

\* The dates of released_at are the calendar's, and the year is the date's if an
\* unsigned can hold it.
THEOREM DatesAreRight == Spec => []DatesFollowCalendar
<1>1. IInv => DatesFollowCalendar
  <2> SUFFICES ASSUME IInv, meta # None, NEW f \in tags.fields, f.key = DateKey(flac)
               PROVE  /\ ReleasedAtOnly(meta) =>
                            Tomorrow(f.value) = CivilDateOf(meta.released_at + SecondsPerDay)
                      /\ \A g \in tags.fields : g.key = YearKey(flac) /\ f.value.y < UIntSize =>
                            g.value = [y |-> IF f.value.y > 0 THEN f.value.y ELSE 0]
    BY DEF DatesFollowCalendar
  <2>1. /\ tags.fields = Fields(meta, config, flac) /\ DatesTyped(meta) /\ flac \in BOOLEAN
        /\ None \notin Int
    BY InputsAssumption DEF IInv, TypeOK, TagsInv, InputsAssumption
  <2>2. YearKey(flac) # DateKey(flac)
    BY DEF YearKey, DateKey
  <2>3. f.value = PrimaryDate(meta).full /\ PrimaryDate(meta).full # None
    BY <2>1, <2>2, FieldKinds, DateOwned DEF Field
  <2>4. ReleasedAtOnly(meta) => Tomorrow(f.value) = CivilDateOf(meta.released_at + SecondsPerDay)
    BY <2>1, <2>3, PrimaryDateFollows, NextDay
  <2>5. ASSUME NEW g \in tags.fields, g.key = YearKey(flac), f.value.y < UIntSize
        PROVE  g.value = [y |-> IF f.value.y > 0 THEN f.value.y ELSE 0]
    <3>1. g.value = PrimaryDate(meta).year /\ PrimaryDate(meta).year # None
      BY <2>1, <2>2, <2>5, FieldKinds, DateOwned DEF Field
    <3>2. g.value = YearText(IF f.value.y > 0 THEN f.value.y ELSE 0)
      BY <2>1, <2>3, <3>1, PrimaryDateFollows
    <3>3. (IF f.value.y > 0 THEN f.value.y ELSE 0) < UIntSize
      BY <2>5, InputsAssumption DEF InputsAssumption
    <3> QED BY <3>2, <3>3 DEF YearText, AsUnsigned
  <2> QED BY <2>4, <2>5
<1> QED BY <1>1, Invariance, PTL

\* Everybody who is credited as an artist is in ARTIST, once.
THEOREM ArtistsAreThere == Spec => []ArtistsOnce
<1>1. IInv => ArtistsOnce
  <2> SUFFICES ASSUME IInv, meta # None, "Artist" \in config, Credited(meta) # {}
               PROVE  \E f \in tags.fields, names \in SetToSeqs(Credited(meta)) :
                          f = Field("ARTIST", Join(names, ArtistSeparator(flac)))
    BY DEF ArtistsOnce
  <2> DEFINE f == Field("ARTIST", Join(Artists(meta), ArtistSeparator(flac)))
  <2>1. Artists(meta) \in SetToSeqs(Credited(meta)) /\ Artists(meta) # <<>>
    BY ArtistsAreCredited DEF IInv, TagsInv
  <2>2. f \in ArtistFields(meta, config, flac)
    BY <2>1 DEF ArtistFields, PushedIf
  <2> HIDE DEF f
  <2>3. f \in tags.fields
    BY <2>2 DEF IInv, TagsInv, Fields
  <2> QED BY <2>1, <2>3 DEF f
<1> QED BY <1>1, Invariance, PTL

\* The composers of an MP3 do not repeat each other, and none is lost.
THEOREM ComposersAreApart == Spec => []ComposersDistinct
<1>1. IInv => ComposersDistinct
  <2> SUFFICES ASSUME IInv, meta # None, ~flac PROVE ComposersDistinct
    BY DEF ComposersDistinct
  <2> DEFINE named == Composers(meta, flac)
  <2>1. /\ tags.fields = Fields(meta, config, flac) /\ PeopleTyped(meta)
        /\ flac \in BOOLEAN /\ flac = FALSE
    BY DEF IInv, TypeOK, TagsInv
  <2>2. NoneRepeated(named) /\ NoneLost(named, PerformerComposers(meta))
    BY <2>1, Mp3ComposersApart
  <2>3. ASSUME NEW f \in tags.fields, f.key = "COMPOSER"
        PROVE  f.value = Join(named, <<"/">>)
    <3>1. f \in ComposerFields(meta, config, flac)
      BY <2>1, <2>3, FieldKinds
    <3> QED BY <3>1, PushedField DEF ComposerFields
  <2> QED BY <2>2, <2>3 DEF ComposersDistinct
<1> QED BY <1>1, Invariance, PTL
=============================================================================
