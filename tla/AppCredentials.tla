--------------------------- MODULE AppCredentials ---------------------------
(* The app credentials outside memory (core/core/credentials.cc): the lines  *)
(* of the .env file, what loading finds in them and what saving makes of     *)
(* them, and the secrets that the web player's bundle yields.                *)
EXTENDS Sequences, Naturals, Lists

CONSTANTS NoPair,     \* load_app_credentials found no two values
          Texts,      \* ids, secrets and what else a line says; none breaks a line
          NoText,     \* the empty one
          Unquoted,   \* a text without the blanks and the quotes about it
          Commented   \* of a key: the texts that begin with its placeholder

\* An empty text has no quotes about it.
ASSUME TextAssumption ==
    /\ NoText \in Texts
    /\ Unquoted \in [Texts -> Texts] /\ Unquoted[NoText] = NoText
    /\ Commented \in [{"id", "secret"} -> SUBSET Texts]

\* A value is a text, or the beginning of one that a torn write left.
Values == [text : Texts, cut : BOOLEAN]
Pairs == [id : Values, secret : Values]
Empty == [text |-> NoText, cut |-> FALSE]
Whole(text) == [text |-> text, cut |-> FALSE]

(* A line is [key, form, value].  Its form is                                *)
(*   "plain"    QOBUZ_APP_ID=value: loading reads it, saving replaces it;     *)
(*   "spaced"   the same with a blank about the key: loading alone knows it; *)
(*   "blanked"  # QOBUZ_APP_ID=, a placeholder: saving alone knows it;       *)
(*   "text"     a comment, another variable or junk, with the key "other".   *)
Keys == {"id", "secret"}
KeyOf(key, form, value) == [key |-> key, form |-> form, value |-> value]
Text(value) == KeyOf("other", "text", value)
Lines == [key : Keys, form : {"plain", "spaced", "blanked"}, value : Values]
             \cup [key : {"other"}, form : {"text"}, value : Values]

\* parse_env_line skips comments and lines without "=", and trims the key.
Parses(line) == line.form \in {"plain", "spaced"}

\* A line that save_app_credentials replaces.
Owned(line) == line.form \in {"plain", "blanked"}

Found(lines, key) == {i \in DOMAIN lines : lines[i].key = key /\ Parses(lines[i])}

\* trim and unquote.  A beginning stays one, with a quote before it or without.
AsRead(value) == [value EXCEPT !.text = Unquoted[@]]
PairAsRead(pair) == [id |-> AsRead(pair.id), secret |-> AsRead(pair.secret)]

\* The last assignment of a key counts.
LastOf(lines, key) ==
    AsRead(lines[CHOOSE i \in Found(lines, key) : \A j \in Found(lines, key) : j <= i].value)

\* An empty value is found like any other.
Load(lines) ==
    IF \A key \in Keys : Found(lines, key) # {}
    THEN [id |-> LastOf(lines, "id"), secret |-> LastOf(lines, "secret")]
    ELSE NoPair

\* Mutant: the id of a file is left as it is.
ReplacedSecret(line, pair) ==
    IF Owned(line) /\ line.key = "secret" THEN KeyOf(line.key, "plain", pair[line.key]) ELSE line

Replaced(line, pair) ==
    IF Owned(line) THEN KeyOf(line.key, "plain", pair[line.key]) ELSE line

Missing(lines, key, pair) ==
    IF \E i \in DOMAIN lines : lines[i].key = key /\ Owned(lines[i]) THEN <<>>
    ELSE <<KeyOf(key, "plain", pair[key])>>

\* Mutant: the file is written without the lines it had.
SaveAlone(lines, pair) ==
    <<KeyOf("id", "plain", pair["id"]), KeyOf("secret", "plain", pair["secret"])>>

\* Mutant: a placeholder counts as written, but is left as it is.
SaveKeepingBlanks(lines, pair) ==
    [i \in DOMAIN lines |-> IF lines[i].form = "plain" THEN Replaced(lines[i], pair)
                                                       ELSE lines[i]]
        \o Missing(lines, "id", pair) \o Missing(lines, "secret", pair)

Save(lines, pair) ==
    [i \in DOMAIN lines |-> Replaced(lines[i], pair)]
        \o Missing(lines, "id", pair) \o Missing(lines, "secret", pair)

\* No line that only loading knows is behind one of its key that saving replaces.
SavedLinesLast(lines) ==
    \A i, j \in DOMAIN lines :
        i < j /\ Owned(lines[i]) /\ lines[j].form = "spaced" => lines[i].key # lines[j].key

OtherLines(lines) == Picked(lines, {line \in ToSet(lines) : ~Owned(line)})

-----------------------------------------------------------------------------
(* Writing the file                                                          *)

\* A line that ends too early: in its value, behind its "=", or in its key.  A
\* comment may end where it is a placeholder.
CutLine(line) ==
    {Text(Empty)} \cup
    (IF line.form = "text"
     THEN {KeyOf(key, "blanked", Empty) : key \in {k \in Keys : line.value.text \in Commented[k]}}
     ELSE {[line EXCEPT !.value = [@ EXCEPT !.cut = TRUE]], [line EXCEPT !.value = Empty]})

\* The beginnings of what is written, whole lines or not.
Torn(lines) ==
    {SubSeq(lines, 1, n) : n \in 0..Len(lines)}
        \cup UNION {{Append(SubSeq(lines, 1, n - 1), line) : line \in CutLine(lines[n])} :
                    n \in DOMAIN lines}

-----------------------------------------------------------------------------
(* The web player.  A bundle is [id, seeds]; a seed is [secret, decodes,      *)
(* anchored]: whether its timezone's object is there and decodes, and whether*)
(* "):" comes before it.                                                     *)

Secrets(bundle, anchored) ==
    LET seeds == Picked(bundle.seeds,
                        {s \in ToSet(bundle.seeds) : s.decodes /\ s.anchored = anchored})
    IN  [i \in DOMAIN seeds |-> seeds[i].secret]

\* Mutant: the two lists are joined the other way round.
RestFirst(bundle) == Secrets(bundle, FALSE) \o Secrets(bundle, TRUE)

\* extract_app_secrets_from_bundle: the anchored ones come first.
Candidates(bundle) == Secrets(bundle, TRUE) \o Secrets(bundle, FALSE)
=============================================================================
