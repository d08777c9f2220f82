---------------------------- MODULE HostSession ----------------------------
(* The life of services that share one .env file: creation from given,       *)
(* saved or scraped credentials, refreshes that save a new pair, logins, the *)
(* host's edits of the file, and crashes (core/api/service.cc, the JNI       *)
(* bridge).                                                                  *)
EXTENDS AppCredentials, FiniteSets

CONSTANTS Services,   \* the handles a host may hold
          None,
          Bundles,    \* what the web player may serve
          HostFiles,  \* the files a host may have written
          Configs,    \* [given, persists]: app_id and app_secret, or NoPair when
                      \* one of them is empty; whether env_path is set
          Users, Tokens,
          Owner,      \* the account of a token
          Variables,  \* what get_env may give: [user_id, auth_token, email,
                      \* username, password]
          MaxLines    \* bound: no save of a longer file is followed (torn lines stay)

\* A host writes any lines; the secrets of seeds are texts; tokens have owners.
ASSUME InputsAssumption ==
    /\ NoPair \notin Pairs /\ None \notin Tokens
    /\ HostFiles \subseteq Seq(Lines)
    /\ \A b \in Bundles :
          /\ b.id \in Texts
          /\ b.seeds \in Seq([secret : Texts, decodes : BOOLEAN, anchored : BOOLEAN])
    /\ \A c \in Configs : c.given \in Pairs \cup {NoPair} /\ c.persists \in BOOLEAN
    /\ Owner \in [Tokens -> Users]
    /\ \A var \in Variables : var.auth_token \in Tokens \cup {None}

VARIABLES env,        \* the lines of .env, <<>> when there is no file
          web,        \* the bundle served now
          pc, config, found, draft,   \* of a call: its step, its Config, the pair
                                      \* it found, the lines it will write
          pair,       \* of a service: its credentials, NoPair before create()
          refreshed, token,
          asked,      \* history: the user last logged in, when Qobuz vouched for it
          saved,      \* history: the last pair a save wrote whole
          others,     \* history: the host's own lines when it last wrote them
          excused     \* history: a save since then was cut short, could not read the
                      \* file, or overlapped another writer of it

file == <<env, saved, others, excused>>
calls == <<pc, config, found, draft>>
session == <<token, asked>>
vars == <<file, web, calls, pair, refreshed, session>>

Idle == \A s \in Services : pc[s] = "idle"

Init ==
    /\ env \in HostFiles
    /\ web \in Bundles
    /\ pc = [s \in Services |-> "idle"]
    /\ config = [s \in Services |-> None]
    /\ found = [s \in Services |-> NoPair] /\ draft = [s \in Services |-> <<>>]
    /\ pair = [s \in Services |-> NoPair] /\ refreshed = [s \in Services |-> FALSE]
    /\ token = [s \in Services |-> None] /\ asked = [s \in Services |-> None]
    /\ saved = NoPair /\ others = OtherLines(env) /\ excused = FALSE

\* A call returns, and forgets what it held.
Return(s) ==
    /\ pc' = [pc EXCEPT ![s] = "idle"]
    /\ found' = [found EXCEPT ![s] = NoPair]
    /\ draft' = [draft EXCEPT ![s] = <<>>]

-----------------------------------------------------------------------------
(* create()                                                                  *)

\* The Config's credentials, those of .env, or none yet.  With a file that cannot
\* be opened create() fails, and nothing has changed.
Create(s, c) ==
    /\ pc[s] = "idle" /\ pair[s] = NoPair
    /\ config' = [config EXCEPT ![s] = c]
    /\ \E p \in {IF c.given # NoPair THEN c.given
                 ELSE IF c.persists THEN Load(env) ELSE NoPair} :
          /\ found' = [found EXCEPT ![s] = p]
          /\ pc' = [pc EXCEPT ![s] = IF p = NoPair THEN "scrape" ELSE "adopt"]
    /\ UNCHANGED <<file, web, draft, pair, refreshed, session>>

\* refresh_credentials: once in a session; a second one is an error.
Refresh(s) ==
    /\ pc[s] = "idle" /\ pair[s] # NoPair
    /\ ~refreshed[s]
    /\ pc' = [pc EXCEPT ![s] = "scrape"]
    /\ UNCHANGED <<file, web, config, found, draft, pair, refreshed, session>>

\* create() takes the first candidate, a refresh one that a probe accepts.
Picks(s) ==
    IF pair[s] = NoPair THEN {Head(Candidates(web))} ELSE ToSet(Candidates(web))

\* The login page or the bundle cannot be had, or no secret decodes or is accepted.
Scrape(s) ==
    /\ pc[s] = "scrape"
    /\ \/ Return(s)
       \/ /\ Candidates(web) # <<>>
          /\ \E secret \in Picks(s) :
                found' = [found EXCEPT ![s] = [id |-> Whole(web.id), secret |-> Whole(secret)]]
          /\ pc' = [pc EXCEPT ![s] = IF config[s].persists THEN "read" ELSE "adopt"]
          /\ UNCHANGED draft
    /\ UNCHANGED <<file, web, config, pair, refreshed, session>>

-----------------------------------------------------------------------------
(* save_app_credentials                                                      *)

\* Nothing locks the file.  Assumed: nobody opens it for writing while another
\* has it open so.  Between the steps of a save anybody else may write it.
Closed == \A s \in Services : pc[s] # "write"

\* The existing lines are read; none when the file cannot be opened for reading,
\* which nobody hears of.
SaveRead(s) ==
    /\ pc[s] = "read" /\ Len(env) <= MaxLines
    /\ \E lines \in {env, <<>>} :
          /\ draft' = [draft EXCEPT ![s] = Save(lines, found[s])]
          /\ excused' = (excused \/ lines # env \/ ~Closed)
    /\ pc' = [pc EXCEPT ![s] = "open"]
    /\ UNCHANGED <<env, saved, others, web, config, found, pair, refreshed, session>>

\* The file is opened for writing, which empties it, or cannot be.
SaveOpen(s) ==
    /\ pc[s] = "open"
    /\ \/ /\ Closed
          /\ env' = <<>> /\ saved' = NoPair
          /\ pc' = [pc EXCEPT ![s] = "write"]
          /\ UNCHANGED <<found, draft, others, excused>>
       \/ Return(s) /\ UNCHANGED file
    /\ UNCHANGED <<web, config, pair, refreshed, session>>

\* The lines reach the file.
SaveWrite(s) ==
    /\ pc[s] = "write"
    /\ env' = draft[s]
    /\ saved' = found[s]
    /\ pc' = [pc EXCEPT ![s] = "adopt"]
    /\ draft' = [draft EXCEPT ![s] = <<>>]
    /\ UNCHANGED <<others, excused, web, config, found, pair, refreshed, session>>

\* A part of them does: the stream reports it, or loses it in its destructor.
SaveCut(s) ==
    /\ pc[s] = "write"
    /\ env' \in Torn(draft[s])
    /\ saved' = NoPair /\ excused' = TRUE
    /\ \/ Return(s)
       \/ /\ pc' = [pc EXCEPT ![s] = "adopt"]
          /\ draft' = [draft EXCEPT ![s] = <<>>]
          /\ UNCHANGED found
    /\ UNCHANGED <<others, web, config, pair, refreshed, session>>

Complete(p) == NoText \notin {p.id.text, p.secret.text}

\* build_service, which refuses empty values, or the swap of a refresh.
Adopt(s) ==
    /\ pc[s] = "adopt"
    /\ Return(s)
    /\ \/ /\ pair[s] = NoPair /\ ~Complete(found[s])
          /\ UNCHANGED <<pair, refreshed>>
       \/ /\ pair[s] # NoPair \/ Complete(found[s])
          /\ pair' = [pair EXCEPT ![s] = found[s]]
          /\ refreshed' = [refreshed EXCEPT ![s] = pair[s] # NoPair]
    /\ UNCHANGED <<file, web, config, session>>

-----------------------------------------------------------------------------
(* Sessions                                                                  *)

Ready(s) == pc[s] = "idle" /\ pair[s] # NoPair

LoggedIn(s, t, user) ==
    /\ token' = [token EXCEPT ![s] = t]
    /\ asked' = [asked EXCEPT ![s] = user]

LoginFailed(s) == UNCHANGED session

\* Email and password: a failure, a reply without a token, or the account's token.
Login(s, user) ==
    \/ LoginFailed(s)
    \/ \E t \in Tokens : Owner[t] = user /\ LoggedIn(s, t, user)

\* Mutant: the user of the reply is not compared.
LoginUnmatched(s, user, t) == LoginFailed(s) \/ LoggedIn(s, t, user)

\* Mutant: what is kept is the user id.
LoginSwapped(s, user, t) == LoginFailed(s) \/ LoggedIn(s, user, user)

\* A user id and its token.  The reply names the token's account, or no user.
LoginWithToken(s, user, t) ==
    \/ LoginFailed(s)
    \/ Owner[t] = user /\ LoggedIn(s, t, user)
    \/ LoggedIn(s, t, None)

\* The token's variables decide when both are there: a failure does not fall back.
Authenticate(s, var) ==
    LET email == IF var.email # None THEN var.email ELSE var.username
    IN  IF var.user_id # None /\ var.auth_token # None
        THEN LoginWithToken(s, var.user_id, var.auth_token)
        ELSE IF email = None \/ var.password = None THEN LoginFailed(s)
        ELSE Login(s, email)

SetAuthToken(s, t) ==
    /\ token' = [token EXCEPT ![s] = t]
    /\ asked' = [asked EXCEPT ![s] = None]

Session(s) ==
    /\ Ready(s)
    /\ \/ \E user \in Users : Login(s, user)
       \/ \E user \in Users, t \in Tokens : LoginWithToken(s, user, t)
       \/ \E var \in Variables : Authenticate(s, var)
       \/ \E t \in Tokens : SetAuthToken(s, t)
    /\ UNCHANGED <<file, web, calls, pair, refreshed>>

\* The host gives the handle up; no call may be under way on it.
Destroy(s) ==
    /\ Ready(s)
    /\ pair' = [pair EXCEPT ![s] = NoPair] /\ refreshed' = [refreshed EXCEPT ![s] = FALSE]
    /\ token' = [token EXCEPT ![s] = None] /\ asked' = [asked EXCEPT ![s] = None]
    /\ config' = [config EXCEPT ![s] = None]
    /\ UNCHANGED <<file, web, pc, found, draft>>

-----------------------------------------------------------------------------
(* The world                                                                 *)

\* The process dies; what is being written may have reached the file in part.
Crash ==
    /\ \E lines \in {env} \cup UNION {Torn(draft[s]) : s \in {t \in Services : pc[t] = "write"}} :
          /\ env' = lines
          /\ saved' = IF lines = env THEN saved ELSE NoPair
    /\ excused' = (excused \/ ~Closed)
    /\ pc' = [s \in Services |-> "idle"]
    /\ config' = [s \in Services |-> None]
    /\ found' = [s \in Services |-> NoPair] /\ draft' = [s \in Services |-> <<>>]
    /\ pair' = [s \in Services |-> NoPair] /\ refreshed' = [s \in Services |-> FALSE]
    /\ token' = [s \in Services |-> None] /\ asked' = [s \in Services |-> None]
    /\ UNCHANGED <<web, others>>

\* The host writes the file.  A save that has read it before will undo that.
HostEdit ==
    /\ Closed
    /\ env' \in HostFiles
    /\ others' = OtherLines(env') /\ saved' = NoPair
    /\ excused' = (\E s \in Services : pc[s] = "open")
    /\ UNCHANGED <<web, calls, pair, refreshed, session>>

Rotate ==
    /\ web' \in Bundles
    /\ UNCHANGED <<file, calls, pair, refreshed, session>>

Call(s) ==
    \/ \E c \in Configs : Create(s, c)
    \/ Refresh(s)
    \/ Scrape(s)
    \/ SaveRead(s)
    \/ SaveOpen(s)
    \/ SaveWrite(s)
    \/ SaveCut(s)
    \/ Adopt(s)
    \/ Session(s)
    \/ Destroy(s)

Next == \/ \E s \in Services : Call(s)
        \/ Crash
        \/ HostEdit
        \/ Rotate

Spec == Init /\ [][Next]_vars

-----------------------------------------------------------------------------
(* What must hold                                                            *)

TypeOK ==
    /\ env \in Seq(Lines) /\ web \in Bundles
    /\ pc \in [Services -> {"idle", "scrape", "read", "open", "write", "adopt"}]
    /\ config \in [Services -> Configs \cup {None}]
    /\ found \in [Services -> Pairs \cup {NoPair}]
    /\ draft \in [Services -> Seq(Lines)]
    /\ pair \in [Services -> Pairs \cup {NoPair}]
    /\ refreshed \in [Services -> BOOLEAN]
    /\ token \in [Services -> Tokens \cup {None}]
    /\ asked \in [Services -> Users \cup {None}]
    /\ saved \in Pairs \cup {NoPair} /\ excused \in BOOLEAN

\* What was saved whole is what a restart loads, but for blanks and quotes about
\* it: over placeholders and old values, whoever saved before, and until the host
\* or a crash gets at the file.  Excepted is a file in which a line that only
\* loading understands follows one of its key that saving replaced: there the
\* old value comes last, and counts (credentials.cc:71-75, 108).
SavedIsLoaded ==
    saved # NoPair /\ SavedLinesLast(env) => Load(env) = PairAsRead(saved)

\* Saving keeps the host's own lines, in order, however many services save, unless
\* a save is cut short, cannot read the file it may write (credentials.cc:89), or
\* overlaps with another writer: nothing locks the file.
OtherLinesKept == ~excused /\ Closed => OtherLines(env) = others

\* At every moment, what a restart would load from the file has its id and its
\* secret from one place: a bundle or the host's file.  A read that falls between
\* the steps of a save, or after a crash that tore it, never pairs the id of one
\* with the secret of the other.  Either may be only the beginning of the text it
\* is compared with: a torn write can leave half a secret, and that is loaded.
\* An empty value is refused later.  Excepted are files with lines that saving does
\* not recognise (a blank before "=", credentials.cc:108): there a torn save does
\* leave an old id beside the new secret.
Scraped(b) ==
    {[id |-> Whole(b.id), secret |-> Whole(secret)] : secret \in ToSet(Candidates(b))}
Origins ==
    (UNION {{PairAsRead(p) : p \in Scraped(b)} : b \in Bundles})
        \cup {Load(lines) : lines \in HostFiles}

PairNeverMixed ==
    (\A i \in DOMAIN env : env[i].form # "spaced")
        /\ Load(env) # NoPair /\ Complete(Load(env)) =>
        \E p \in Origins \ {NoPair} :
            Load(env).id.text = p.id.text /\ Load(env).secret.text = p.secret.text

\* A session whose login Qobuz vouched for is the asked user's: a login that fails
\* or whose reply names somebody else leaves the earlier session as it was.
SessionIsAsked ==
    \A s \in Services : asked[s] # None =>
        token[s] \in Tokens /\ Owner[token[s]] = asked[s]

\* create() cannot probe: the guess it commits to is a seed behind "):" whenever
\* one decodes (credentials.cc:175-181).  So the candidates are not "in bundle
\* order", as credentials.hh:54 has them.
GuessIsAnchored ==
    [][\A s \in Services :
          pc[s] = "scrape" /\ pair[s] = NoPair /\ pc'[s] \in {"read", "adopt"} =>
              LET decoded == {seed \in ToSet(web.seeds) : seed.decodes}
              IN  \E seed \in decoded :
                     /\ Whole(seed.secret) = found'[s].secret
                     /\ seed.anchored \/ \A other \in decoded : ~other.anchored]_vars
=============================================================================
