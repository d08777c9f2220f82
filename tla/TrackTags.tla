----------------------------- MODULE TrackTags -----------------------------
(* The tags of one file: what a track and its album say (extractor.cc), the  *)
(* people of the performers text (performers.cc), and the fields that        *)
(* embed_metadata_in_file writes for them (embedder.cc).                     *)
(*                                                                           *)
(* Texts are sequences of symbols.  A role word, a line break and " - " are  *)
(* one symbol each; a name is spelled in letters, so that names can contain  *)
(* one another.  The fields of a file are a set: their order says nothing.   *)
EXTENDS CivilDate, Sequences, FiniteSets, Lists

CONSTANTS None,       \* an absent optional
          Songs,      \* what may be embedded: [track, album, artist, covered]
          Configs,    \* the sets of enabled MetadataFields
          Lower(_),   \* std::tolower, of a symbol
          ULongMax,   \* the largest number std::stoul reads
          UIntSize    \* the values of an unsigned: 2^32

MetadataField ==
    {"Title", "Artist", "Album", "AlbumArtist", "Genre", "ReleaseDate", "ReleaseYear",
     "Composer", "TrackNumber", "TrackTotal", "DiscNumber", "DiscTotal", "CoverArt",
     "Isrc", "Copyright", "Label", "MediaType", "Comment", "Producer",
     "InvolvedPeople", "Explicit", "Upc", "Url"}
MetadataConfig == MetadataField \ {"Comment"}   \* the default

\* Times are numbers, and the year of a date text is a natural one or None.
IsDate(d) == d = None \/ d.y \in Nat \/ d.y = None
IsList(l) == l = None \/ l \in Seq(ToSet(l))
InputsAssumption ==
    /\ Configs \subseteq SUBSET MetadataField
    /\ None \notin Int
    /\ ULongMax \in Nat /\ UIntSize \in Nat \ {0}
    /\ \A song \in Songs :
          /\ IsDate(song.track.track_release_date_original)
          /\ IsList(song.track.performers)
          /\ song.album # None =>
                /\ song.album.released_at \in Int \cup {None}
                /\ IsDate(song.album.album_release_date_download)
                /\ IsDate(song.album.album_release_date_original)
                /\ IsList(song.album.artists)
ASSUME InputsAssumption

VARIABLES flac,       \* whether the path does not end in ".mp3"
          meta,       \* ComprehensiveMetadata last embedded, None before
          config,     \* the MetadataFields enabled then
          tags        \* the file's [fields, cover]

vars == <<flac, meta, config, tags>>

-----------------------------------------------------------------------------
(* Texts                                                                     *)

Blanks == {" ", "CR", "CRLF"}

Trim(s) ==
    LET solid == {i \in DOMAIN s : s[i] \notin Blanks}
    IN  IF solid = {} THEN <<>>
        ELSE SubSeq(s, CHOOSE i \in solid : \A j \in solid : i <= j,
                       CHOOSE i \in solid : \A j \in solid : j <= i)

Split(s, sep) ==
    FoldLeft(LAMBDA parts, c : IF c = sep THEN Append(parts, <<>>)
                               ELSE [parts EXCEPT ![Len(parts)] = Append(@, c)],
             <<<<>>>>, s)

Join(names, sep) ==
    FoldLeft(LAMBDA text, i : text \o (IF i = 1 THEN <<>> ELSE sep) \o names[i],
             <<>>, [i \in DOMAIN names |-> i])

Within(t, s) == \E i \in 0..(Len(s) - Len(t)) : SubSeq(s, i + 1, i + Len(t)) = t

-----------------------------------------------------------------------------
(* The performers text: "name, role, role - name, role"                      *)

Credit(group) ==
    LET parts == Split(Trim(group), ",")
        trimmed == [i \in DOMAIN parts |-> Trim(parts[i])]
    IN  [person |-> Head(trimmed), roles |-> Tail(trimmed)]

ParsePerformers(text) ==
    LET groups == Split(text, " - ") IN [i \in DOMAIN groups |-> Credit(groups[i])]

Persons(text, IsRole(_)) ==
    LET credits == ParsePerformers(text)
        chosen == Picked(credits, {c \in ToSet(credits) : \E r \in ToSet(c.roles) : IsRole(r)})
    IN  [i \in DOMAIN chosen |-> chosen[i].person]

IsArtistRole(role) ==
    \/ role = <<"Performer">>
    \/ Within(<<"MainArtist">>, role)
    \/ Within(<<"FeaturedArtist">>, role)
IsComposerRole(role) == Within(<<"Composer">>, role) \/ Within(<<"Lyricist">>, role)
IsProducerRole(role) == role = <<"Producer">>

ArtistNames(text) == Once(Persons(text, IsArtistRole))
ComposerNames(text) == Once(Persons(text, IsComposerRole))
ProducerNames(text) == Persons(text, IsProducerRole)

\* A space that follows a space is left out.
Squeezed(text) ==
    FoldLeft(LAMBDA s, c : IF c = " " /\ s # <<>> /\ Last(s) = " " THEN s ELSE Append(s, c),
             <<>>, text)

NormalizeComposer(name) ==
    LET lower == Trim([i \in DOMAIN name |-> Lower(name[i])])
        letters == Picked(lower, ToSet(lower) \ {".", ","})
        spaced == [i \in DOMAIN letters |-> IF letters[i] = "-" THEN " " ELSE letters[i]]
    IN  Trim(Squeezed(spaced))

Overlap(a, b) == Within(a, b) \/ Within(b, a)

\* Mutant: only equal names are duplicates.
IsEqualComposer(name, normalized) == NormalizeComposer(name) \in normalized

IsDuplicateComposer(name, normalized) ==
    \E e \in normalized : Overlap(NormalizeComposer(name), e)

-----------------------------------------------------------------------------
(* Extraction.  The records of Songs name their fields as the metadata does: *)
(* album_artist_name is album.artist.name, absent when either is.            *)

TrackFields ==
    {"title", "track_version", "performers", "track_composer_name",
     "track_release_date_original", "copyright", "isrc", "track_number",
     "disc_number", "parental_warning"}
AlbumFields ==
    {"album", "album_version", "album_artist_name", "album_composer_name", "genre",
     "album_release_date_download", "album_release_date_original", "released_at",
     "upc", "product_url", "label", "release_type", "product_type", "track_total",
     "disc_total"}

Either(first, second) == IF first # None THEN first ELSE second

\* The last "600" of a cover's address becomes "org", wherever it stands.
UpgradeToOriginal(url) ==
    IF "600" \notin ToSet(url) THEN url
    ELSE [url EXCEPT ![CHOOSE i \in DOMAIN url :
                          /\ url[i] = "600"
                          /\ \A j \in (i + 1)..Len(url) : url[j] # "600"] = "org"]

CoverSizes == <<"mega", "extra_large", "large", "medium", "thumbnail", "small">>

BestCoverUrl(image) ==
    LET sizes == Picked(CoverSizes, {size \in ToSet(CoverSizes) : image[size] # None})
    IN  IF sizes = <<>> THEN None ELSE UpgradeToOriginal(image[Head(sizes)])

\* The cover's bytes stand for the address they are fetched from.
Extract(track, album, artist, covered) ==
    [f \in TrackFields \cup AlbumFields \cup
           {"performer_name", "album_artists", "cover_art_data"} |->
        CASE f \in TrackFields -> track[f]
          [] f = "performer_name" -> Either(track.performer_name, artist)
          [] f = "album_artists" ->
                IF album = None \/ album.artists = None THEN <<>>
                ELSE Picked(album.artists, ToSet(album.artists) \ {None})
          [] f = "cover_art_data" ->
                IF covered /\ album # None /\ album.image # None
                THEN BestCoverUrl(album.image) ELSE None
          [] f \in AlbumFields -> IF album = None THEN None ELSE album[f]]

-----------------------------------------------------------------------------
(* The fields of a file                                                      *)

Field(key, value) == [key |-> key, value |-> value]

\* A value that is there is pushed when its MetadataField is enabled.
PushedIf(there, cfg, field, key, value) ==
    IF there /\ field \in cfg THEN {Field(key, value)} ELSE {}
Pushed(cfg, field, key, value) == PushedIf(value # None, cfg, field, key, value)

Versioned(name, version) ==
    IF name = None \/ version \in {None, <<>>} THEN name
    ELSE name \o <<" (">> \o version \o <<")">>

\* TITLE and ALBUM, with their versions.
NameFields(m, cfg) ==
    Pushed(cfg, "Title", "TITLE", Versioned(m.title, m.track_version))
        \cup Pushed(cfg, "Album", "ALBUM", Versioned(m.album, m.album_version))

\* The fields copied as they are: label to copyright and ISRC.
PlainFields(m, cfg) ==
    UNION {Pushed(cfg, "Label", "LABEL", m.label),
           Pushed(cfg, "Genre", "GENRE", m.genre),
           Pushed(cfg, "TrackNumber", "TRACKNUMBER", m.track_number),
           Pushed(cfg, "TrackTotal", "TRACKTOTAL", m.track_total),
           Pushed(cfg, "DiscNumber", "DISCNUMBER", m.disc_number),
           Pushed(cfg, "DiscTotal", "DISCTOTAL", m.disc_total),
           Pushed(cfg, "Copyright", "COPYRIGHT", m.copyright),
           Pushed(cfg, "Isrc", "ISRC", m.isrc)}

\* A date text is [y, m, d] with y its number before the first "-", or None; the
\* text of a year is [y].  A year is cast to unsigned.
AsUnsigned(y) == IF y < UIntSize THEN y ELSE y % UIntSize
YearText(y) == [y |-> AsUnsigned(y)]
ParseYear(date) == IF date.y = None THEN None ELSE YearText(date.y)

TimestampYear(timestamp) ==
    YearText(IF CivilDateOf(timestamp).y > 0 THEN CivilDateOf(timestamp).y ELSE 0)

GivenDate(m) ==
    Either(Either(m.album_release_date_download, m.album_release_date_original),
           m.track_release_date_original)

PrimaryDate(m) ==
    IF GivenDate(m) # None THEN [full |-> GivenDate(m), year |-> ParseYear(GivenDate(m))]
    ELSE IF m.released_at # None
         THEN [full |-> CivilDateOf(m.released_at), year |-> TimestampYear(m.released_at)]
    ELSE [full |-> None, year |-> None]

\* std::stoul throws out_of_range, before anything is written.
YearThrows(m) ==
    /\ GivenDate(m) # None /\ GivenDate(m).y # None
    /\ GivenDate(m).y > ULongMax

YearKey(isFlac) == IF isFlac THEN "YEAR" ELSE "DATE"

\* Mutant: an MP3's full date goes under the key that carries its year.
OneDateKey(isFlac) == "DATE"

DateKey(isFlac) == IF isFlac THEN "DATE" ELSE "RELEASEDATE"

DateFields(m, cfg, isFlac) ==
    Pushed(cfg, "ReleaseYear", YearKey(isFlac), PrimaryDate(m).year)
        \cup Pushed(cfg, "ReleaseDate", DateKey(isFlac), PrimaryDate(m).full)

\* An address is [origin, path]; the origin is "" when it does not begin with http.
\* A locale is five letters long with a hyphen in third place.
Locales == {"fr-fr", "us-en"}
NormalizeUrl(url) ==
    LET origin == IF url.origin = "" THEN "https://www.qobuz.com" ELSE url.origin
    IN  IF /\ origin = "https://www.qobuz.com"
           /\ Len(url.path) >= 2 /\ Head(url.path) \in Locales
        THEN [origin |-> "https://open.qobuz.com", path |-> Tail(url.path)]
        ELSE [origin |-> origin, path |-> url.path]

NormalUrl(m) == IF m.product_url = None THEN None ELSE NormalizeUrl(m.product_url)

\* Mutant: the key of an MP3's address is written to every file.
UrlFieldsOfAll(m, cfg, isFlac) ==
    Pushed(cfg, "Url", "COMMERCIALINFORMATIONURL", NormalUrl(m))

UrlFields(m, cfg, isFlac) ==
    IF isFlac THEN {} ELSE Pushed(cfg, "Url", "COMMERCIALINFORMATIONURL", NormalUrl(m))

MediaFields(m, cfg) ==
    Pushed(cfg, "MediaType", "MEDIA", Either(m.release_type, m.product_type))

\* Line breaks between performers become full stops.
InvolvedPeople(m) ==
    IF m.performers \in {None, <<>>} THEN None
    ELSE LET Replace(text, c) ==
                 text \o IF c \in {"CR", "CRLF"} THEN <<".", " ">> ELSE <<c>>
         IN  Trim(FoldLeft(Replace, <<>>, m.performers))

Advisory(m) ==
    IF m.parental_warning = None THEN None ELSE IF m.parental_warning THEN "1" ELSE "0"

FlacFields(m, cfg) ==
    UNION {Pushed(cfg, "InvolvedPeople", "INVOLVEDPEOPLE", InvolvedPeople(m)),
           Pushed(cfg, "Explicit", "ITUNESADVISORY", Advisory(m)),
           Pushed(cfg, "Label", "ORGANIZATION", m.label),
           Pushed(cfg, "Upc", "UPC", m.upc),
           Pushed(cfg, "Url", "URL", NormalUrl(m))}

-----------------------------------------------------------------------------
(* People                                                                    *)

IsMainArtist(a) == a.roles # None /\ "main-artist" \in a.roles /\ a.name # None
MainArtists(m) == Picked(m.album_artists, {a \in ToSet(m.album_artists) : IsMainArtist(a)})
Texts(option) == IF option = None THEN <<>> ELSE <<option>>

FlacAlbumArtist(m) ==
    LET Conducts(a) == /\ m.performers # None
                       /\ Within(a.name \o <<",", " ", "Conductor">>, m.performers)
        conductors == Picked(MainArtists(m), {a \in ToSet(MainArtists(m)) : Conducts(a)})
    IN  IF conductors # <<>> THEN Head(conductors).name
        ELSE IF m.album_artist_name = None THEN <<>> ELSE m.album_artist_name

Mp3AlbumArtist(m) ==
    LET main == MainArtists(m)
    IN  Join(IF main = <<>> THEN Texts(m.album_artist_name)
                            ELSE [i \in DOMAIN main |-> main[i].name], <<"/">>)

AlbumArtistFields(m, cfg, isFlac) ==
    LET name == IF isFlac THEN FlacAlbumArtist(m) ELSE Mp3AlbumArtist(m)
    IN  PushedIf(name # <<>>, cfg, "AlbumArtist", "ALBUMARTIST", name)

\* The names of the three sources, as they are given.
GivenArtists(m) ==
    LET named == Picked(m.album_artists,
                        {a \in ToSet(m.album_artists) : a.name \notin {None, <<>>}})
    IN  (IF m.performers = None THEN <<>> ELSE ArtistNames(m.performers))
            \o Texts(m.performer_name) \o [i \in DOMAIN named |-> named[i].name]

\* Mutant: the artists of the album are not looked up in the set of those seen.
ArtistsAsGiven(m) == GivenArtists(m)

Artists(m) == Once(GivenArtists(m))

ArtistSeparator(isFlac) == IF isFlac THEN <<",", " ">> ELSE <<"/">>

ArtistFields(m, cfg, isFlac) ==
    PushedIf(Artists(m) # <<>>, cfg, "Artist", "ARTIST",
             Join(Artists(m), ArtistSeparator(isFlac)))

VariousComposers == <<"Various Composers">>

ComposerFallback(m) ==
    LET given == <<m.track_composer_name, m.album_composer_name>>
        named == Picked(given, ToSet(given) \ {None, VariousComposers})
    IN  IF named = <<>> THEN <<>> ELSE <<Head(named)>>

PerformerComposers(m) == IF m.performers = None THEN <<>> ELSE ComposerNames(m.performers)

FlacComposers(m) ==
    LET composers == PerformerComposers(m)
    IN  IF composers # <<>> /\ Last(composers) # VariousComposers
        THEN <<Last(composers)>> ELSE ComposerFallback(m)

\* The names that are pushed: no duplicate of one that was.
Proper(names) == Picked(names, ToSet(names) \ {VariousComposers})
Duplicates(names) ==
    {pair \in ToSet(names) \X ToSet(names) :
        IsDuplicateComposer(pair[2], {NormalizeComposer(pair[1])})}
Distinct(names) == Uncovered(names, Duplicates(names))

Mp3Composers(m) ==
    LET composers == Distinct(Proper(PerformerComposers(m)))
    IN  IF composers # <<>> THEN composers ELSE ComposerFallback(m)

Composers(m, isFlac) == IF isFlac THEN FlacComposers(m) ELSE Mp3Composers(m)

ComposerFields(m, cfg, isFlac) ==
    PushedIf(Composers(m, isFlac) # <<>>, cfg, "Composer", "COMPOSER",
             Join(Composers(m, isFlac), <<"/">>))

ProducerFields(m, cfg, isFlac) ==
    IF ~isFlac \/ m.performers = None THEN {}
    ELSE UNION {Pushed(cfg, "Producer", "PRODUCER", p) : p \in ToSet(ProducerNames(m.performers))}

-----------------------------------------------------------------------------
(* Embedding                                                                 *)

\* Mutant: the fields a file has stay when new ones come.
KeepExisting(old, new) == [fields |-> old.fields \cup new.fields, cover |-> new.cover]

\* arc::write_tags, with clear_existing; when it fails the file stays as it is.
WriteTags(old, new) == new

Fields(m, cfg, isFlac) ==
    UNION {NameFields(m, cfg),
           AlbumArtistFields(m, cfg, isFlac),
           ArtistFields(m, cfg, isFlac),
           ComposerFields(m, cfg, isFlac),
           ProducerFields(m, cfg, isFlac),
           PlainFields(m, cfg),
           DateFields(m, cfg, isFlac),
           UrlFields(m, cfg, isFlac),
           MediaFields(m, cfg),
           IF isFlac THEN FlacFields(m, cfg) ELSE {}}

CoverArt(m, cfg) == IF "CoverArt" \in cfg THEN m.cover_art_data ELSE None

\* A file from the CDN has tags of its own.
Init ==
    /\ flac \in BOOLEAN
    /\ meta = None /\ config = {}
    /\ tags = [fields |-> {Field("COMMENT", "CDN"), Field("TITLE", "CDN")}, cover |-> None]

\* extract_comprehensive_metadata, the fetched cover, embed_metadata_in_file.  A
\* call that throws leaves the file and its tags as they were.
Embed(song, cfg) ==
    /\ meta' = Extract(song.track, song.album, song.artist, song.covered)
    /\ ~YearThrows(meta')
    /\ config' = cfg
    /\ tags' = WriteTags(tags, [fields |-> Fields(meta', cfg, flac),
                               cover |-> CoverArt(meta', cfg)])
    /\ UNCHANGED flac

Next == \E song \in Songs, cfg \in Configs : Embed(song, cfg)

Spec == Init /\ [][Next]_vars

-----------------------------------------------------------------------------
(* What the tags must be                                                     *)

FlacOwner ==
    [TITLE |-> "Title", ALBUM |-> "Album", ALBUMARTIST |-> "AlbumArtist",
     ARTIST |-> "Artist", COMPOSER |-> "Composer", PRODUCER |-> "Producer",
     LABEL |-> "Label", GENRE |-> "Genre", TRACKNUMBER |-> "TrackNumber",
     TRACKTOTAL |-> "TrackTotal", DISCNUMBER |-> "DiscNumber", DISCTOTAL |-> "DiscTotal",
     COPYRIGHT |-> "Copyright", ISRC |-> "Isrc", YEAR |-> "ReleaseYear",
     DATE |-> "ReleaseDate", MEDIA |-> "MediaType", COMMENT |-> "Comment",
     INVOLVEDPEOPLE |-> "InvolvedPeople", ITUNESADVISORY |-> "Explicit",
     ORGANIZATION |-> "Label", UPC |-> "Upc", URL |-> "Url"]
Mp3Owner ==
    [key \in (DOMAIN FlacOwner \ {"YEAR", "INVOLVEDPEOPLE", "ITUNESADVISORY",
                                  "ORGANIZATION", "UPC", "URL", "PRODUCER"})
             \cup {"RELEASEDATE", "COMMERCIALINFORMATIONURL"} |->
        CASE key = "DATE" -> "ReleaseYear"
          [] key = "RELEASEDATE" -> "ReleaseDate"
          [] key = "COMMERCIALINFORMATIONURL" -> "Url"
          [] OTHER -> FlacOwner[key]]

\* The MetadataField that switches a key on, in a file's format.
Owner(isFlac) == IF isFlac THEN FlacOwner ELSE Mp3Owner

\* The keys of a file are those of its format, and its metadata are extracted.
TypeOK ==
    /\ flac \in BOOLEAN
    /\ config \subseteq MetadataField
    /\ meta # None => DOMAIN meta = TrackFields \cup AlbumFields \cup
                           {"performer_name", "album_artists", "cover_art_data"}
    /\ \A f \in tags.fields : f = Field(f.key, f.value) /\ f.key \in DOMAIN Owner(flac)

\* After an embedding no tag is there whose MetadataField was off: neither an
\* old one of the file nor one of the keys FLAC files get besides (LABEL also
\* gives ORGANIZATION), whatever was embedded before with other fields enabled.
OnlyEnabled ==
    meta # None =>
        /\ \A f \in tags.fields : Owner(flac)[f.key] \in config
        /\ tags.cover # None => "CoverArt" \in config

\* No key but PRODUCER has two values: year and full date share the key DATE
\* between the two formats, and the album's label and address have two keys each.
KeysOnce ==
    \A f, g \in tags.fields : f.key = g.key => f = g \/ f.key = "PRODUCER"

\* Everybody the performers text credits as an artist, the track's performer and
\* the album's artists are in ARTIST, each once, however often they are given.
Credited(m) ==
    LET credits == IF m.performers = None THEN {} ELSE ToSet(ParsePerformers(m.performers))
    IN  {c.person : c \in {x \in credits : \E r \in ToSet(x.roles) : IsArtistRole(r)}}
            \cup ({m.performer_name} \ {None})
            \cup ({a.name : a \in ToSet(m.album_artists)} \ {None, <<>>})

ArtistsOnce ==
    meta # None /\ "Artist" \in config /\ Credited(meta) # {} =>
        \E f \in tags.fields, names \in SetToSeqs(Credited(meta)) :
            f = Field("ARTIST", Join(names, ArtistSeparator(flac)))

Alike(a, b) == Overlap(NormalizeComposer(a), NormalizeComposer(b))

\* No two of the names overlap; each given name but the various overlaps one of them.
NoneRepeated(named) == \A i, j \in DOMAIN named : i # j => ~Alike(named[i], named[j])
NoneLost(named, given) ==
    \A c \in ToSet(given) \ {VariousComposers} : \E i \in DOMAIN named : Alike(c, named[i])

\* The composers of an MP3 do not repeat each other, and a credited composer who
\* is not named there overlaps one who is.
ComposersDistinct ==
    meta # None /\ ~flac =>
        /\ NoneRepeated(Composers(meta, flac))
        /\ NoneLost(Composers(meta, flac), PerformerComposers(meta))
        /\ \A f \in tags.fields :
               f.key = "COMPOSER" => f.value = Join(Composers(meta, flac), <<"/">>)

\* A date that comes from released_at is the calendar's: the day after it is the
\* date of the same time a day later.  Whatever the date comes from, the year tag
\* is its year, if an unsigned can hold it.
ReleasedAtOnly(m) ==
    /\ m.released_at # None
    /\ m.album_release_date_download = None
    /\ m.album_release_date_original = None
    /\ m.track_release_date_original = None

DatesFollowCalendar ==
    meta # None => \A f \in tags.fields : f.key = DateKey(flac) =>
        /\ ReleasedAtOnly(meta) =>
              Tomorrow(f.value) = CivilDateOf(meta.released_at + SecondsPerDay)
        /\ \A g \in tags.fields : g.key = YearKey(flac) /\ f.value.y < UIntSize =>
              g.value = [y |-> IF f.value.y > 0 THEN f.value.y ELSE 0]
=============================================================================
