-------------------------- MODULE CredentialRefresh --------------------------
(* QobuzApiService's shared CredentialState (core/api/service.hh) and every   *)
(* call that reads or replaces it (core/api/service.cc): the ordinary         *)
(* requests that snapshot the client and the credentials under state_mutex,   *)
(* get_track_file_url, which heals a rejected signature in place, and the     *)
(* explicit refresh_app_credentials, all racing from several threads.         *)
(*                                                                            *)
(* state_mutex is only held for plain field access, so each block it guards   *)
(* is one action.  refresh_mutex is held across network and file I/O, so it   *)
(* is a variable.                                                             *)
EXTENDS Naturals, Sequences, FiniteSets

CONSTANTS
    Threads,       \* threads calling into one service (or copies of it)
    NoThread,      \* nobody holds refresh_mutex
    Pairs,         \* (app_id, app_secret) pairs
    NoPair,        \* no complete pair, or a pair not taken yet
    NoClient,      \* no client taken yet
    Bundles,       \* candidate lists a scrape of the web player may return
    Ops,           \* the calls the threads make
    Persist,       \* env_path_ is not empty
    WriteFaults,   \* the faults save_app_credentials may meet
    MaxCalls,      \* bound: calls made by each thread
    MaxRotations   \* bound: times Qobuz rotates the app secret

AllOps == {"url", "get", "apiGet", "cover", "refresh", "refreshProbed"}

ASSUME ThreadAssumption == NoThread \notin Threads
ASSUME PairAssumption == NoPair \notin Pairs
ASSUME ClientAssumption == NoClient \notin Nat
\* extract_app_secrets returns at least one secret, or an error.
ASSUME BundleAssumption == Bundles \subseteq Seq(Pairs) \ {<<>>}
ASSUME OpAssumption == Ops \subseteq AllOps
ASSUME PersistAssumption == Persist \in BOOLEAN
ASSUME FaultAssumption == WriteFaults \subseteq {"open", "write", "flush"}
ASSUME BoundAssumption == MaxCalls \in Nat /\ MaxRotations \in Nat

VARIABLES
    refresh_mutex,    \* its owner
    app_pair,         \* creds_->app_id and app_secret
    api_client,       \* creds_->api_client: clients are numbered as built
    retired_clients,  \* creds_->retired_clients
    generation,       \* creds_->generation
    refreshed,        \* creds_->refreshed
    listener,         \* whether creds_->listener is set
    authenticated,    \* whether user_auth_token_ is set
    env,              \* the pair load_app_credentials would read from .env
    host_pair,        \* the pair the host last supplied or was told
    live,             \* the pair Qobuz accepts now
    rotations,        \* how often it changed
    pc,               \* where each thread is
    op,               \* the call it is in
    seen,             \* the generation it saw, seen_generation
    client,           \* the client it took
    auth,             \* the pair it signs with
    attempt,          \* first or second attempt of get_track_file_url
    candidates,       \* the secrets left to try
    token,            \* whether the refresh runs with a user token
    chosen,           \* the candidate picked
    notify,           \* whether the refresh copied a listener
    result,           \* what its last call returned
    calls,            \* how many calls it made (bound)
    probed_at         \* history: rotations when a probe last accepted a pair

creds == <<app_pair, api_client, retired_clients, generation, refreshed>>
outside == <<listener, authenticated, host_pair, live, rotations>>
request == <<op, seen, client, auth, attempt, calls>>
healing == <<candidates, token, chosen, notify, probed_at>>
vars == <<refresh_mutex, creds, outside, env, pc, request, healing, result>>

Never == MaxRotations + 1     \* no probe vouches for the pair
Inside == {"check", "scrape", "probe", "save", "write", "adopt", "listen"}
Status == {"none", "ok", "sig", "err"}

TypeOK ==
    /\ refresh_mutex \in Threads \cup {NoThread}
    /\ app_pair \in Pairs
    /\ api_client \in Nat /\ retired_clients \subseteq Nat
    /\ generation \in Nat /\ refreshed \in BOOLEAN
    /\ listener \in BOOLEAN /\ authenticated \in BOOLEAN
    /\ env \in Pairs \cup {NoPair} /\ host_pair \in Pairs
    /\ live \in Pairs /\ rotations \in 0..MaxRotations
    /\ pc \in [Threads -> {"idle", "client", "auth", "send", "lock"} \cup Inside]
    /\ op \in [Threads -> Ops \cup {"none"}]
    /\ seen \in [Threads -> Nat]
    /\ client \in [Threads -> Nat \cup {NoClient}]
    /\ auth \in [Threads -> Pairs \cup {NoPair}]
    /\ attempt \in [Threads -> {1, 2}]
    /\ candidates \in [Threads -> Seq(Pairs)]
    /\ token \in [Threads -> BOOLEAN]
    /\ chosen \in [Threads -> Pairs \cup {NoPair}]
    /\ notify \in [Threads -> BOOLEAN]
    /\ result \in [Threads -> Status]
    /\ calls \in [Threads -> 0..MaxCalls]
    /\ probed_at \in 0..Never

\* build_service: any host-supplied or scraped pair, maybe already outdated.
Init ==
    /\ refresh_mutex = NoThread
    /\ app_pair \in Pairs
    /\ api_client = 0 /\ retired_clients = {}
    /\ generation = 0 /\ refreshed = FALSE
    /\ listener = FALSE /\ authenticated \in BOOLEAN
    /\ env \in Pairs \cup {NoPair} /\ host_pair = app_pair
    /\ live \in Pairs /\ rotations = 0
    /\ pc = [t \in Threads |-> "idle"]
    /\ op = [t \in Threads |-> "none"]
    /\ seen = [t \in Threads |-> 0]
    /\ client = [t \in Threads |-> NoClient]
    /\ auth = [t \in Threads |-> NoPair]
    /\ attempt = [t \in Threads |-> 1]
    /\ candidates = [t \in Threads |-> <<>>]
    /\ token = [t \in Threads |-> FALSE]
    /\ chosen = [t \in Threads |-> NoPair]
    /\ notify = [t \in Threads |-> FALSE]
    /\ result = [t \in Threads |-> "none"]
    /\ calls = [t \in Threads |-> 0]
    /\ probed_at = Never

Goto(t, p) == pc' = [pc EXCEPT ![t] = p]
Return(t, r) == Goto(t, "idle") /\ result' = [result EXCEPT ![t] = r]

-----------------------------------------------------------------------------
(* Calls *)

\* Thread t enters call o, past its early returns, at step p.
Begin(t, o, p) ==
    /\ pc[t] = "idle" /\ calls[t] < MaxCalls /\ o \in Ops
    /\ Goto(t, p)
    /\ op' = [op EXCEPT ![t] = o]
    /\ calls' = [calls EXCEPT ![t] = @ + 1]
    /\ client' = [client EXCEPT ![t] = NoClient]
    /\ auth' = [auth EXCEPT ![t] = NoPair]
    /\ attempt' = [attempt EXCEPT ![t] = 1]
    /\ UNCHANGED <<refresh_mutex, creds, outside, env, healing, result>>

\* Mutant: request_auth() is called before api_client().
GetTrackFileUrlAuthFirst(t) ==
    /\ authenticated
    /\ Begin(t, "url", "auth")
    /\ seen' = [seen EXCEPT ![t] = generation]

\* get_track_file_url reads the generation before its first attempt.
GetTrackFileUrl(t) ==
    /\ authenticated
    /\ Begin(t, "url", "client")
    /\ seen' = [seen EXCEPT ![t] = generation]

\* do_signed_get_raw and modify_favorites; neither heals.
SignedRequest(t) ==
    /\ authenticated
    /\ Begin(t, "get", "client")
    /\ UNCHANGED seen

\* apiGet evaluates http_client() and request_auth() as arguments of one call:
\* the compiler chooses the order.
ApiGet(t) ==
    /\ authenticated
    /\ \E first \in {"client", "auth"} : Begin(t, "apiGet", first)
    /\ UNCHANGED seen

\* fetch_cover_bytes uses http_client() alone.
FetchCover(t) ==
    /\ authenticated
    /\ Begin(t, "cover", "client")
    /\ UNCHANGED seen

\* Both overloads of refresh_app_credentials read the generation themselves.
RefreshAppCredentials(t) ==
    /\ \E o \in {"refresh", "refreshProbed"} : Begin(t, o, "lock")
    /\ seen' = [seen EXCEPT ![t] = generation]

\* require_auth_token: the other calls fail without a token.
Unauthenticated(t) ==
    /\ ~authenticated /\ pc[t] = "idle" /\ calls[t] < MaxCalls
    /\ Ops \cap {"url", "get", "apiGet", "cover"} # {}
    /\ calls' = [calls EXCEPT ![t] = @ + 1]
    /\ result' = [result EXCEPT ![t] = "err"]
    /\ UNCHANGED <<refresh_mutex, creds, outside, env, healing, pc, op, seen, client, auth, attempt>>

\* api_client() or http_client(): the client now current.
TakeClient(t) ==
    /\ pc[t] = "client"
    /\ client' = [client EXCEPT ![t] = api_client]
    /\ Goto(t, IF op[t] = "cover" \/ auth[t] # NoPair THEN "send" ELSE "auth")
    /\ UNCHANGED <<refresh_mutex, creds, outside, env, healing, result, op, seen, auth, attempt, calls>>

\* request_auth(): the credentials now current, under a lock of its own.
TakeAuth(t) ==
    /\ pc[t] = "auth"
    /\ auth' = [auth EXCEPT ![t] = app_pair]
    /\ Goto(t, IF client[t] # NoClient THEN "send" ELSE "client")
    /\ UNCHANGED <<refresh_mutex, creds, outside, env, healing, result, op, seen, client, attempt, calls>>

\* The request succeeds; only getFileUrl has its signature validated.
SendAccepted(t) ==
    /\ pc[t] = "send"
    /\ op[t] = "url" => auth[t] = live
    /\ Return(t, "ok")
    /\ UNCHANGED <<refresh_mutex, creds, outside, env, healing, request>>

\* The request fails for any reason but its signature.
SendFails(t) ==
    /\ pc[t] = "send"
    /\ Return(t, "err")
    /\ UNCHANGED <<refresh_mutex, creds, outside, env, healing, request>>

\* Mutant: the generation is read after the first attempt, not before it.
SendRejectedLateGeneration(t) ==
    /\ pc[t] = "send" /\ op[t] = "url" /\ auth[t] # live
    /\ \/ attempt[t] = 1 /\ Goto(t, "lock") /\ seen' = [seen EXCEPT ![t] = generation] /\ UNCHANGED result
       \/ attempt[t] = 2 /\ Return(t, "sig") /\ UNCHANGED seen
    /\ UNCHANGED <<refresh_mutex, creds, outside, env, healing, op, client, auth, attempt, calls>>

\* is_signature_error: the first attempt heals, the second is returned as is.
SendRejected(t) ==
    /\ pc[t] = "send" /\ op[t] = "url" /\ auth[t] # live
    /\ \/ attempt[t] = 1 /\ Goto(t, "lock") /\ UNCHANGED result
       \/ attempt[t] = 2 /\ Return(t, "sig")
    /\ UNCHANGED <<refresh_mutex, creds, outside, env, healing, request>>

-----------------------------------------------------------------------------
(* refresh_credentials *)

RefreshLock(t) ==
    /\ pc[t] = "lock" /\ refresh_mutex = NoThread
    /\ refresh_mutex' = t
    /\ Goto(t, "check")
    /\ UNCHANGED <<creds, outside, env, healing, result, request>>

\* refresh_credentials returns, which unlocks refresh_mutex, and its caller forgets
\* its locals and goes on: a healed getFileUrl is tried again, one that was not reports the
\* signature error of its first attempt.
Finish(t, healed) ==
    /\ refresh_mutex' = NoThread
    /\ \/ /\ op[t] = "url" /\ healed
          /\ Goto(t, "client")
          /\ attempt' = [attempt EXCEPT ![t] = 2]
          /\ client' = [client EXCEPT ![t] = NoClient]
          /\ auth' = [auth EXCEPT ![t] = NoPair]
          /\ UNCHANGED result
       \/ /\ ~(op[t] = "url" /\ healed)
          /\ Return(t, IF healed THEN "ok" ELSE IF op[t] = "url" THEN "sig" ELSE "err")
          /\ UNCHANGED <<attempt, client, auth>>
    /\ candidates' = [candidates EXCEPT ![t] = <<>>]
    /\ token' = [token EXCEPT ![t] = FALSE]
    /\ chosen' = [chosen EXCEPT ![t] = NoPair]
    /\ notify' = [notify EXCEPT ![t] = FALSE]
    /\ UNCHANGED <<op, seen, calls, probed_at>>

\* Mutant: the once-per-session guard is missing.
RefreshCheckUnguarded(t) ==
    /\ pc[t] = "check"
    /\ \/ generation # seen[t] /\ Finish(t, TRUE)
       \/ /\ generation = seen[t]
          /\ Goto(t, "scrape")
          /\ UNCHANGED <<refresh_mutex, request, result, healing>>
    /\ UNCHANGED <<creds, outside, env>>

\* Someone healed since the caller looked, or nobody did but the refresh of
\* this session is spent, or the refresh goes ahead.
RefreshCheck(t) ==
    /\ pc[t] = "check"
    /\ \/ generation # seen[t] /\ Finish(t, TRUE)
       \/ generation = seen[t] /\ refreshed /\ Finish(t, FALSE)
       \/ /\ generation = seen[t] /\ ~refreshed
          /\ Goto(t, "scrape")
          /\ UNCHANGED <<refresh_mutex, request, result, healing>>
    /\ UNCHANGED <<creds, outside, env>>

\* extract_all_from_web_player finds a bundle, whatever it holds.  The user
\* token is read once, before the probes.
Scrape(t) ==
    /\ pc[t] = "scrape"
    /\ \E b \in Bundles : candidates' = [candidates EXCEPT ![t] = b]
    /\ token' = [token EXCEPT ![t] = authenticated]
    /\ Goto(t, "probe")
    /\ UNCHANGED <<refresh_mutex, creds, outside, env, result, request, chosen, notify, probed_at>>

\* Mutant: after a failed scrape refresh_credentials calls itself once more.
ScrapeFailsTriesAgain(t) ==
    /\ pc[t] = "scrape"
    /\ Goto(t, "lock")
    /\ UNCHANGED <<refresh_mutex, creds, outside, env, result, request, healing>>

ScrapeFails(t) ==
    /\ pc[t] = "scrape"
    /\ Finish(t, FALSE)
    /\ UNCHANGED <<creds, outside, env>>

\* Without a probe the first candidate is taken on trust.
TakeFirst(t) ==
    /\ pc[t] = "probe" /\ op[t] = "refresh"
    /\ chosen' = [chosen EXCEPT ![t] = Head(candidates[t])]
    /\ probed_at' = Never
    /\ Goto(t, "save")
    /\ UNCHANGED <<refresh_mutex, creds, outside, env, result, request, candidates, token, notify>>

\* Mutant: the first candidate is adopted whatever its probe says.
ProbeAcceptsAnything(t) ==
    /\ pc[t] = "probe" /\ op[t] # "refresh" /\ candidates[t] # <<>>
    /\ chosen' = [chosen EXCEPT ![t] = Head(candidates[t])]
    /\ probed_at' = rotations
    /\ Goto(t, "save")
    /\ UNCHANGED <<refresh_mutex, creds, outside, env, result, request, candidates, token, notify>>

ProbeAccepts(t) ==
    /\ pc[t] = "probe" /\ op[t] # "refresh" /\ candidates[t] # <<>>
    /\ token[t] /\ Head(candidates[t]) = live
    /\ chosen' = [chosen EXCEPT ![t] = Head(candidates[t])]
    /\ probed_at' = rotations
    /\ Goto(t, "save")
    /\ UNCHANGED <<refresh_mutex, creds, outside, env, result, request, candidates, token, notify>>

\* A candidate is dropped when its probe is not ok(): a wrong secret, but also
\* any other failure of the request.
ProbeRejects(t) ==
    /\ pc[t] = "probe" /\ op[t] # "refresh" /\ candidates[t] # <<>>
    /\ candidates' = [candidates EXCEPT ![t] = Tail(@)]
    /\ UNCHANGED <<refresh_mutex, creds, outside, env, pc, result, request, token, chosen, notify, probed_at>>

\* Mutant: nobody tests whether a candidate was chosen.
ProbesExhaustedUntested(t) ==
    /\ pc[t] = "probe" /\ op[t] # "refresh" /\ candidates[t] = <<>>
    /\ Goto(t, "save")
    /\ UNCHANGED <<refresh_mutex, creds, outside, env, result, request, healing>>

ProbesExhausted(t) ==
    /\ pc[t] = "probe" /\ op[t] # "refresh" /\ candidates[t] = <<>>
    /\ Finish(t, FALSE)
    /\ UNCHANGED <<creds, outside, env>>

\* save_app_credentials opens the file with trunc, which empties it; without
\* an env_path_ nothing is saved.
OpenEnv(t) ==
    /\ pc[t] = "save"
    /\ env' = IF Persist THEN NoPair ELSE env
    /\ Goto(t, IF Persist THEN "write" ELSE "adopt")
    /\ UNCHANGED <<refresh_mutex, creds, outside, result, request, healing>>

\* Mutant: the result of save_app_credentials is ignored.
OpenEnvFailsIgnored(t) ==
    /\ pc[t] = "save" /\ Persist /\ "open" \in WriteFaults
    /\ Goto(t, "adopt")
    /\ UNCHANGED <<refresh_mutex, creds, outside, env, result, request, healing>>

OpenEnvFails(t) ==
    /\ pc[t] = "save" /\ Persist /\ "open" \in WriteFaults
    /\ Finish(t, FALSE)
    /\ UNCHANGED <<creds, outside, env>>

WriteEnv(t) ==
    /\ pc[t] = "write"
    /\ env' = chosen[t]
    /\ Goto(t, "adopt")
    /\ UNCHANGED <<refresh_mutex, creds, outside, result, request, healing>>

\* Mutant: a failed write is not reported.
WriteEnvFailsIgnored(t) ==
    /\ pc[t] = "write" /\ "write" \in WriteFaults
    /\ Goto(t, "adopt")
    /\ UNCHANGED <<refresh_mutex, creds, outside, env, result, request, healing>>

\* The stream has failed by the time it is tested: the error is returned.
WriteEnvFails(t) ==
    /\ pc[t] = "write" /\ "write" \in WriteFaults
    /\ Finish(t, FALSE)
    /\ UNCHANGED <<creds, outside, env>>

\* The stream is tested before its buffer is flushed: a write that only fails
\* when the destructor flushes is lost and save_app_credentials succeeds.
FlushEnvLost(t) ==
    /\ pc[t] = "write" /\ "flush" \in WriteFaults
    /\ Goto(t, "adopt")
    /\ UNCHANGED <<refresh_mutex, creds, outside, env, result, request, healing>>

\* Mutant: the outgoing client is freed.
AdoptFrees(t) ==
    /\ pc[t] = "adopt"
    /\ app_pair' = chosen[t]
    /\ api_client' = api_client + 1
    /\ generation' = generation + 1
    /\ refreshed' = TRUE
    /\ notify' = [notify EXCEPT ![t] = listener]
    /\ Goto(t, "listen")
    /\ UNCHANGED <<refresh_mutex, outside, env, result, request, retired_clients, candidates, token, chosen, probed_at>>

Adopt(t) ==
    /\ pc[t] = "adopt"
    /\ app_pair' = chosen[t]
    /\ retired_clients' = retired_clients \cup {api_client}
    /\ api_client' = api_client + 1
    /\ generation' = generation + 1
    /\ refreshed' = TRUE
    /\ notify' = [notify EXCEPT ![t] = listener]
    /\ Goto(t, "listen")
    /\ UNCHANGED <<refresh_mutex, outside, env, result, request, candidates, token, chosen, probed_at>>

\* The listener copied under the lock runs, and refresh_credentials returns.
Listen(t) ==
    /\ pc[t] = "listen"
    /\ host_pair' = IF notify[t] THEN chosen[t] ELSE host_pair
    /\ Finish(t, TRUE)
    /\ UNCHANGED <<creds, env, listener, authenticated, live, rotations>>

-----------------------------------------------------------------------------
(* The host application and Qobuz *)

\* set_credentials_listener, with a listener or with none.
SetCredentialsListener ==
    /\ listener' = ~listener
    /\ UNCHANGED <<refresh_mutex, creds, env, pc, request, healing, result, authenticated, host_pair, live, rotations>>

\* login or login_with_token succeeds.
SetAuthToken ==
    /\ ~authenticated
    /\ authenticated' = TRUE
    /\ UNCHANGED <<refresh_mutex, creds, env, pc, request, healing, result, listener, host_pair, live, rotations>>

\* Qobuz stops accepting one pair and starts accepting another.
Rotate ==
    /\ rotations < MaxRotations
    /\ rotations' = rotations + 1
    /\ live' \in Pairs \ {live}
    /\ UNCHANGED <<refresh_mutex, creds, env, pc, request, healing, result, listener, authenticated, host_pair>>

Start(t) ==
    \/ GetTrackFileUrl(t) \/ SignedRequest(t) \/ ApiGet(t) \/ FetchCover(t)
    \/ RefreshAppCredentials(t) \/ Unauthenticated(t)

Continue(t) ==
    \/ TakeClient(t) \/ TakeAuth(t)
    \/ SendAccepted(t) \/ SendFails(t) \/ SendRejected(t)
    \/ RefreshLock(t) \/ RefreshCheck(t)
    \/ Scrape(t) \/ ScrapeFails(t)
    \/ TakeFirst(t) \/ ProbeAccepts(t) \/ ProbeRejects(t) \/ ProbesExhausted(t)
    \/ OpenEnv(t) \/ OpenEnvFails(t)
    \/ WriteEnv(t) \/ WriteEnvFails(t) \/ FlushEnvLost(t)
    \/ Adopt(t) \/ Listen(t)

Next ==
    \/ \E t \in Threads : Start(t) \/ Continue(t)
    \/ SetCredentialsListener \/ SetAuthToken \/ Rotate

Spec == Init /\ [][Next]_vars

\* A thread inside a call keeps running, and what it calls outside returns.
Fairness == \A t \in Threads : WF_vars(Continue(t))

FairSpec == Spec /\ Fairness

-----------------------------------------------------------------------------
(* Properties *)

\* A reference handed out by http_client() survives the swap: a cover fetch or
\* an apiGet in flight uses the current client or a retired one, never a freed
\* one (service.hh, retired_clients).
ReferencesStayValid ==
    \A t \in Threads : pc[t] = "send" => client[t] \in retired_clients \cup {api_client}

\* The credentials are refreshed once per session: nobody scrapes, probes,
\* rewrites .env or adopts after a refresh has landed, whoever saw which
\* generation and whenever it blocked on refresh_mutex.
NoScrapeAfterRefresh ==
    \A t \in Threads : pc[t] \in {"scrape", "probe", "save", "write", "adopt"} => ~refreshed

\* Calls that take the client before the credentials never send the client of
\* today with the signature of yesterday: the mix a swap between the two locks
\* leaves is the harmless one, an outdated client with current credentials.
CurrentClientCurrentSignature ==
    \A t \in Threads :
        pc[t] = "send" /\ op[t] \in {"url", "get"} /\ client[t] = api_client => auth[t] = app_pair

\* With an env_path, the pair a refresh put in memory is the one a restart
\* loads from .env.
DurableBeforeAdopt == Persist /\ refreshed => env = app_pair

\* The second attempt of a healed getFileUrl signs with the pair Qobuz accepts,
\* unless Qobuz rotated again after the probe or no probe ever vouched for it.
HealIsFinal ==
    \A t \in Threads :
        pc[t] = "send" /\ attempt[t] = 2 /\ probed_at = rotations => auth[t] = live

\* A signature error is only reported to the caller for the pair still in
\* memory: if somebody swapped it meanwhile, the call was tried again with it.
NoUntriedPair ==
    [][\A t \in Threads :
         pc[t] # "idle" /\ pc'[t] = "idle" /\ result'[t] = "sig" => auth[t] = app_pair]_vars

\* Whatever the threads do, one pair goes from .env to memory to the host, at
\* most once, in that order.
Heal == INSTANCE HealPipeline
            WITH disk <- env, memory <- app_pair, host <- host_pair, swapped <- refreshed
HealsOnce == Heal!Spec

\* Every call returns, the ones that wait for another thread's refresh included.
CallsReturn == \A t \in Threads : pc[t] # "idle" ~> pc[t] = "idle"

\* The comment above the listener call: it runs outside the locks, so that it
\* cannot re-enter the service while they are held.
ListenerOutsideLocks ==
    \A t \in Threads : pc[t] = "listen" /\ notify[t] => refresh_mutex # t
=============================================================================
