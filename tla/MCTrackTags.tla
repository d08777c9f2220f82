---------------------------- MODULE MCTrackTags ----------------------------
(* Songs for TrackTags: one complete song, and others that differ from it in *)
(* one part, with the cases in which that part is decided.                   *)
EXTENDS TrackTags

Letters == [A |-> "a", B |-> "b", C |-> "c"]
MCLower(c) == IF c \in DOMAIN Letters THEN Letters[c] ELSE c

A == <<"A">>
B == <<"B">>
BA == <<"B", "A">>
Dotted == <<"B", ".", " ", "A">>
Hyphen == <<"b", "-", "A">>

Role(r) == <<",", " ">> \o r
MainArtist == Role(<<"MainArtist">>)
Composer == Role(<<"Composer">>)
Dash == <<" ", "CR", " - ", " ">>

Conducted == BA \o Role(<<"Conductor">>) \o Dash \o B \o Role(<<"Producer">>) \o MainArtist

Performers == {
    None, <<>>,
    A \o MainArtist \o Dash \o A \o Role(<<"Performer">>) \o Composer,
    A \o Role(<<"AssociatedPerformer">>) \o Dash \o BA \o Role(<<"FeaturedArtist", "s">>),
    Conducted,
    Dotted \o Role(<<"Composer", "Lyricist">>) \o Dash \o BA \o Composer \o Dash \o Hyphen \o Composer,
    A \o Composer \o Dash \o Hyphen \o Role(<<"Lyricist">>) \o Dash \o <<"C">> \o Composer,
    VariousComposers \o Composer,
    <<"C">> \o Composer \o Dash \o VariousComposers \o Composer,
    <<".">> \o Composer \o Dash \o A \o Composer,
    B \o Role(<<"Producer">>) \o Dash \o A \o Role(<<"Co-", "Producer">>) \o MainArtist}

Main(name) == [name |-> name, roles |-> {"main-artist"}]
ArtistLists == {
    None, <<Main(A)>>, <<Main(B), None, Main(BA)>>,
    <<[name |-> A, roles |-> None], [name |-> None, roles |-> {"main-artist"}], Main(B)>>,
    <<[name |-> <<>>, roles |-> {"featured-artist"}], Main(A), Main(A)>>}

NoImage == [size \in ToSet(CoverSizes) |-> None]
Cover == [NoImage EXCEPT !.large = <<"600", "x", "600", ".jpg">>, !.small = <<"50", ".jpg">>]
Images == {None, NoImage, Cover, [NoImage EXCEPT !.small = <<"50", ".jpg">>]}

Day(y, m, d) == [y |-> y, m |-> m, d |-> d]
\* A year, no number, a number too large for an unsigned, and one too large to read.
Dates == {None, Day(2001, 2, 3), Day(None, 1, 1), Day(7000, 1, 1), Day(10000, 1, 1)}
\* 2000-02-28 and the two days after it, the ends of 1971 and 2023, 1900-12-31,
\* the second before 1970 and the first times around it.
Times == {None, 951696000, 951782400, 951868800, 63071999, 1704067199, 2147396400,
          -2145916801, -1, 0, -86400, -86401, 68169599}

FullTrack ==
    [title |-> <<"t">>, track_version |-> <<"v">>, performer_name |-> A,
     performers |-> A \o MainArtist \o Composer \o Dash \o B \o Role(<<"Producer">>),
     track_composer_name |-> <<"C">>, track_release_date_original |-> Day(1999, 5, 6),
     copyright |-> "c", isrc |-> "i", track_number |-> 1, disc_number |-> 1,
     parental_warning |-> FALSE]
FullAlbum ==
    [album |-> <<"a">>, album_version |-> None, artists |-> <<Main(A)>>,
     album_artist_name |-> A, album_composer_name |-> B, genre |-> "g",
     album_release_date_download |-> Day(2003, 7, 8),
     album_release_date_original |-> None, released_at |-> 0, upc |-> "u",
     product_url |-> [origin |-> "", path |-> <<"fr-fr", "album", "a">>],
     label |-> "l", release_type |-> None, product_type |-> "p",
     track_total |-> 9, disc_total |-> 1, image |-> Cover]
Song(track, album) == [track |-> track, album |-> album, artist |-> None, covered |-> TRUE]
Whole == Song(FullTrack, FullAlbum)

Nothing(record) == [f \in DOMAIN record |-> None]
NoTrack == [Nothing(FullTrack) EXCEPT !.title = <<"u">>]

Urls == {None, [origin |-> "", path |-> <<"album", "a">>],
         [origin |-> "https://www.qobuz.com", path |-> <<"us-en", "a">>],
         [origin |-> "https://www.qobuz.com", path |-> <<"us-en">>],
         [origin |-> "http://www.qobuz.com", path |-> <<"us-en", "a">>]}

MCSongs ==
    {Whole, Song(NoTrack, None), Song(FullTrack, None), Song(NoTrack, FullAlbum),
     [Whole EXCEPT !.covered = FALSE], [Song(NoTrack, None) EXCEPT !.artist = A]}
    \cup {Song([FullTrack EXCEPT !.performers = text, !.performer_name = B],
               [FullAlbum EXCEPT !.artists = <<Main(A), Main(B)>>]) : text \in Performers}
    \cup {Song([FullTrack EXCEPT !.performers = text, !.performer_name = None],
               [FullAlbum EXCEPT !.artists = artists]) :
            text \in {None, Conducted}, artists \in ArtistLists}
    \cup {Song([FullTrack EXCEPT !.performers = None, !.track_composer_name = composer],
               [FullAlbum EXCEPT !.album_composer_name = None]) :
            composer \in {None, VariousComposers, A}}
    \cup {Song([FullTrack EXCEPT !.track_release_date_original = None],
               [FullAlbum EXCEPT !.album_release_date_download = None, !.released_at = time]) :
            time \in Times}
    \cup {Song(FullTrack, [FullAlbum EXCEPT !.album_release_date_download = None,
                                            !.album_release_date_original = date]) :
            date \in Dates}
    \cup {Song(FullTrack, [FullAlbum EXCEPT !.product_url = url, !.release_type = "r",
                                            !.album_version = <<>>]) : url \in Urls}
    \cup {Song(FullTrack, [FullAlbum EXCEPT !.image = image]) : image \in Images}

\* The default, nothing, and two halves that part the keys of one field.
MCConfigs ==
    {MetadataConfig, {},
     {"Title", "AlbumArtist", "Composer", "ReleaseDate", "Url", "Label", "CoverArt", "Comment"},
     MetadataField \ {"Title", "Artist", "ReleaseDate", "Url", "Label", "CoverArt"}}
=============================================================================
