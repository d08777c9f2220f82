--------------------------- MODULE MCHostSession ---------------------------
(* Files, bundles and accounts for HostSession.                              *)
EXTENDS HostSession

MCTexts == {"", "h", "k", "1", "2", "a", "b", "c", "x", "g", "gs",
            "'q'", "q", "# QOBUZ_APP_ID=5"}
MCUnquoted == [t \in MCTexts |-> IF t = "'q'" THEN "q" ELSE t]
MCCommented == [id |-> {"# QOBUZ_APP_ID=5"}, secret |-> {}]

Plain(key, text) == KeyOf(key, "plain", Whole(text))
Spaced(key, text) == KeyOf(key, "spaced", Whole(text))
Blanked(key) == KeyOf(key, "blanked", Empty)

\* No file; one with a comment that may be cut to a placeholder, and with quotes; one
\* in which a line that only loading knows is behind one that saving replaces.
MCHostFiles ==
    {<<>>,
     <<Text(Whole("# QOBUZ_APP_ID=5")), Plain("id", "h"), Spaced("secret", "'q'")>>,
     <<Blanked("id"), Spaced("id", "k")>>}

Seed(secret, decodes, anchored) ==
    [secret |-> secret, decodes |-> decodes, anchored |-> anchored]
MCBundles ==
    {[id |-> "1", seeds |-> <<Seed("x", FALSE, TRUE), Seed("b", TRUE, FALSE), Seed("a", TRUE, TRUE)>>],
     [id |-> "2", seeds |-> <<Seed("c", TRUE, FALSE)>>]}
MCConfigs ==
    {[given |-> NoPair, persists |-> TRUE],
     [given |-> [id |-> Whole("g"), secret |-> Whole("gs")], persists |-> FALSE]}

Var(user, tok, email, password) ==
    [user_id |-> user, auth_token |-> tok, email |-> None, username |-> email, password |-> password]
MCVariables ==
    {Var("u", "t", None, None), Var("v", "t", "u", "password"), Var("u", None, "v", "password"),
     Var(None, None, "u", None)}
MCOwner == [t |-> "u"]
=============================================================================
