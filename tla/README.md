# A verification of KawusapiCC

KawusapiCC is a C++ client library for the Qobuz API with an Android binding: it
signs and sends requests, keeps the web player's app credentials alive, downloads
tracks, albums, playlists and artists with resumption, and tags the files. The
modules here model its concurrent and failure-prone parts in TLA+; TLC checks
small instances and TLAPS proves the main results for all instances.

Paths below are relative to the repository root.

## 1. The system

| Component | Source | State | Operations |
|---|---|---|---|
| Credential state and healing | `core/api/service.{hh,cc}` | `CredentialState`: pair, HTTP client, retired clients, generation, refreshed, listener, two mutexes | snapshots (`api_client`, `request_auth`, `http_client`), `get_track_file_url`, `refresh_credentials`, `set_credentials_listener` |
| Credential files and scraping | `core/core/credentials.cc` | the `.env` file | `load_app_credentials`, `save_app_credentials`, `extract_all_from_web_player` |
| Session | `core/api/service.cc` | `user_auth_token_` | `create`, `login`, `login_with_token`, `authenticate_with_getter`, `set_auth_token` |
| Throttle and retries | `core/api/requests.cc` | `g_requests_per_minute`, `g_last_call` | `throttle`, `retry_with_backoff`, `execute_post` |
| Requests and signing | `core/api/requests.cc`, `core/core/signing.hh` | none | URL building, signatures, `handle_response` |
| Track download | `core/download/download.cc` | one file per track and format | `attempt_download`, `download_album_track`, `download_track` |
| Batch download | `core/download/download.cc` | worker counter, result slots, cancel flag | `run_bounded`, `download_album`, `download_playlist`, `download_artist`, `embed_album_metadata` |
| Metadata | `core/metadata/*` | the tagged file | performer parsing, composer rules, dates, `extract_comprehensive_metadata`, `embed_metadata_in_file` |
| JSON | `core/core/json.cc`, `models.hh` | none | decoding replies |
| Android binding | `platform/android/kobuzapi_jni.cpp`, `Kobuzapi.java` | `ServiceHandle`: service, cancel flag, progress | create/destroy, calls, downloads, cancel and reset |

How they interact: the host calls the service from several threads. Download
workers share one `const QobuzApiService&`; each attempt asks
`get_track_file_url` for a URL, which may refresh the shared credentials, which
scrapes the web player, writes `.env`, swaps the pair and client, and calls the
host's listener. Every GET passes the global throttle. A batch runs a pool of
workers over the track list; the host may raise or reset the cancel flag at any
time. After the downloads the same files are tagged in place.

The engine (`arc_net`, `arc_tag`, MD5, base64) is a submodule that is not in the
repository: HTTP, Range downloads and tag writing are external here and modelled
from their use.

What is hard, and what correctness means, per component:

- *Credentials*: several threads meet the same rotated secret. One refresh per
  session may happen; nobody may lose a client it is using, send a new client
  with an old signature, refresh a second time, or report an error that the swap
  already cured; what is in memory must be on disk before, and reach the host
  after; every call returns.
- *Throttle*: reservations race, the rate changes at any time, 429s resend.
  Slots stay spaced, nobody sends early, resends are bounded, calls end.
- *Downloads*: resume from a partial file, finished files, files that tagging
  made longer or shorter, two workers on one path, retries after network
  errors, 416.
- *Batches*: cancellation against completion and reset, a failed track among
  good ones, a worker pool of no workers, tag errors after good downloads.
- *Credential files and creation*: a crash between emptying and writing `.env`,
  torn values, lines that loading and saving do not agree about, the host's own
  lines, a first secret chosen without a probe. What was saved whole is what a
  restart loads, and what a torn save leaves has its two halves from one pair,
  though either may be cut short.
- *Sessions*: four ways to log in, failures and mismatched users among them. A
  session that Qobuz vouched for is the asked user's.
- *Metadata*: three sources of artists, composers that contain each other, keys
  that mean different things in FLAC and MP3, old tags, dates before 1970.

## 2. The modules

### Lists

The lists that loops of the code fill, as folds: `Picked` (the elements that pass a
test, as the results of a batch), `Uncovered` (those that no earlier kept element
covers, as the composers of an MP3) and `Once` (a name that was seen is skipped).
BatchDownload, AppCredentials and TrackTags use them, and ListProofs says what they
return.

### HealPipeline

The abstract promise of healing: one pair goes from `disk` to `memory` to `host`,
in that order, at most once per session. Emptying the file (`Truncate`) and
writing it (`Write`) happen only before the `Swap`; the host is told (`Tell`)
only after it.

### CredentialRefresh

Threads calling one service. A block under `state_mutex` is one action, since the
mutex only covers plain field access; `refresh_mutex` is held across I/O and is a
variable with an owner. The calls are:

| `op` | Call | Takes |
|---|---|---|
| `url` | `get_track_file_url` | generation, then client, then credentials; heals; second attempt |
| `get` | `do_signed_get_raw`, `modify_favorites` | client, then credentials |
| `apiGet` | `Kobuzapi.apiGet` | both as arguments of one call, in either order |
| `cover` | `fetch_cover_bytes` | a bare client reference |
| `refresh`, `refreshProbed` | the two `refresh_app_credentials` | generation |

`pc` walks through `client`, `auth`, `send` and, inside `refresh_credentials`,
`lock`, `check`, `scrape`, `probe`, `save`, `write`, `adopt`, `listen`. `Finish`
is a return from `refresh_credentials`: it frees the mutex and the caller goes on.
`env` is the pair `load_app_credentials` would read, `NoPair` for a file that is
absent, emptied or torn. Qobuz is `live`, the pair it accepts, which `Rotate`
changes; only getFileUrl validates signatures (`service.cc:548`). A probe may fail
for reasons other than a wrong secret and then drops the candidate all the same.
`probed_at` is a history variable used in properties only.

Clients are numbered as they are built. A pair stands for `app_id` and
`app_secret` together, as the code always replaces both.

### Throttle

Callers of `retry_with_backoff` (`get`) and `execute_post` (`post`). The rate is
loaded in one step and the slot reserved in another, as in the code. `slots` is a
history of the reservations with time, spacing and the number of requests sent in
each (`sent`): the code resends a request that Qobuz refused in the slot of its
call, so `ResendsBounded` says by how much the rate can be exceeded. `delay` is
`BASE_BACKOFF_MS << attempt`. The clock only advances beyond `IdleUntil` while
somebody sleeps, which bounds the state space without ever keeping a sleeper from
waking.

### ResumableFile

What a download promises about its file: it grows by the next block of the remote
file, starts over from nothing, or, once complete, gets tags. A file is a pair of
a number of tag blocks and a sequence of remote blocks. `Sound` files are the
beginnings of the remote file and its whole audio behind tags.

### TrackDownload

One file and the calls for it, one after the other: `download_track`, and
`download_album_track` with the tagging that `download_album` adds. `pc` follows
the code: `lookup`, `prepare` (create the directory), then for each attempt
`attempt` (cancel check and `detect_partial_file`), `url`, `request`, `transfer`,
and `backoff` before the next; then `finish` (last cancel check) and `embed`.

The engine is modelled from its use. It answers a Range with the rest (`Resume`),
the whole file (`Restart`) or, at or past the end, a 416 (`RangeRefused`), and
leaves behind a contiguous beginning of what it wrote when it stops. This is an
assumption: `service.cc:44` lets it fetch a file in eight segments at once, and
`detect_partial_file` has nothing but the size to go by. `Fail` is
the retry decision the two functions share; an error is transient or not, as
`from_engine` marks it. A failing `write_tags` leaves the file alone. A kill may
come at any step and keeps the file. `ignored` is a history variable: it tells
whether the server ever ignored a Range.

Tagging replaces the metadata at the head of the file by `TagSizes` blocks, in
place: it may make the file longer or shorter, and a kill, or an error of the
engine, may break it off (`BreakOff`) and leave a file that is no beginning of
anything. `detect_partial_file` has only the size to go by, so both kinds of file
are taken for partial ones. `exposed` is the history variable for this: it holds
from the moment a file is left shorter than the remote one by its tags, or broken
off, until an answer in full replaces it. `FileIsSound`, `OkIsComplete` and
`FinishedStaysFinished` speak of files that are not exposed, for tags of any size;
`FinishedNotCorrupted` is the claim at `download.cc:41` that there are no others, and
does not hold.

### BatchPromise

What a batch promises the host: each slot is decided once and only while the
batch runs, and the reply agrees with the slots: `ok` with the paths of exactly
the tracks that succeeded, in order; `failed` only if none did.

### BatchDownload

The calling thread (`pc`) and the pool of workers (`wpc`, `idx`) of
`run_bounded`, which is used twice by an album: for the tracks and for their
tags. `Claim` is `next.fetch_add(1)`, counted from 1. A `concurrency` of 0 starts
no worker for the tracks, whose slots stay empty, and one for their tags. The download of one track,
TrackDownload's subject, is `ok`, `err` or `canceled`. `download_playlist` has no
tagging of its own (each `download_track` tags its file) and `download_artist`
runs albums instead of tracks, two at a time; an album without tracks is `empty`.
The cancel flag toggles at any time, as `cancelDownloads` and `resetCancel` may
come from any thread. `tags` records which track's tags a file got.

The paths of a call are those of its own tracks: ids in one list are taken to be
different.

### AppCredentials

The `.env` file as a sequence of lines and what loading and saving make of it.
Loading (`parse_env_line`, `load_app_credentials`) trims keys and skips comments;
saving (`save_app_credentials`) compares whole prefixes and also replaces the
placeholder `# QOBUZ_APP_ID=`. So a line has one of four forms: `plain` (both know
it), `spaced` (loading alone), `blanked` (saving alone) and `text` (neither).
`Unquoted` is what trimming and unquoting make of a text; loading applies it
(`AsRead`), saving does not. `Torn` gives every beginning of a written file, whole
lines or not. A value is a text with a mark for one that was cut, and `Commented`
are the comments of which a beginning is a placeholder. A bundle of the web player is an id and
seeds that decode or not and stand behind `):` or not; `Candidates` is the order
in which `extract_app_secrets_from_bundle` returns them. `InputsAssumption` says no
more of a bundle than that its seeds are a list of such records, and of the host's
files that they are lists of lines.

### HostSession

Services over one `.env`: `Create` from given, saved or scraped credentials,
`Refresh`, logins, `Destroy`, the host's edits, the web player's rotation and
crashes at any step. A call takes the steps `scrape`, `read`, `open`, `write` and
`adopt`; opening empties the file, writing fills it whole (`SaveWrite`) or in part
(`SaveCut`), and a part may be reported or, lost at the flush, not. The races of
threads inside a refresh are CredentialRefresh's subject; here a call on a service
is alone, and it is the file's history that is followed. A login is one step, as
the reply decides all of it.

`SaveRead` reads the file as it is, or nothing when the file cannot be opened for
reading, which `save_app_credentials` does not notice before it empties it. Other
services and the host may write between the reading and the emptying. `Closed` is
the one assumption: nobody opens the file for writing while another has it open.

`asked`, `saved`, `others` and `excused` are histories: the user a login was made
for when Qobuz named the token's account, the pair that a save wrote whole, the
host's own lines, and whether a save since was cut short, blind, or overlapped by
another writer. Three properties have exceptions, for cases in which the code does
lose or mix something; section 5 lists them:

- `SavedIsLoaded` excepts files in which a `spaced` line is behind one of its key
  that saving replaced (`SavedLinesLast`): loading takes the last of the two.
- `PairNeverMixed` excepts files with a `spaced` line: saving does not replace such
  an id but appends another, and a save torn before that leaves the old id beside
  the new secret. A text that was cut counts as its whole.
- `OtherLinesKept` excepts what `excused` names.

`MaxLines` bounds the file, since each torn save may leave a line behind.

### CivilDate

The date arithmetic of the embedder, with flooring division where the code
corrects a truncating one by its remainder, beside the calendar's rule for the
next day (`Tomorrow`, with leap years).

### TrackTags

One file that is tagged again and again. `Embed` is `extract_comprehensive_metadata`
and `embed_metadata_in_file`, one operator for each group of fields. Texts are
sequences of symbols: words that matter as a whole, such as roles, are one symbol,
names are letters. The fields are a set of keys and values, so two producers of the
same name are one field. `WriteTags` is the engine's `write_tags` with
`clear_existing`, which replaces what was there. `InputsAssumption` says what
decoding gives: dates with a number or nothing for a year, times that are numbers,
and texts and artists that are lists when they are there. A year that `std::stoul`
cannot read (`ULongMax`) throws before the tags are written, and one that an
`unsigned` cannot hold (`UIntSize`) wraps.

## 3. What TLC checks

| Run | Instance | Shows |
|---|---|---|
| `refresh_safety` | 2 threads, 2 calls each of four kinds, 3 pairs, 2 bundles, 1 rotation, `.env` faults that are reported | references stay valid, one refresh, matching snapshots, durable before adopted, healing is final, no untried pair, implements HealPipeline |
| `refresh_liveness` | 2 threads, 1 call each of all kinds, all faults | every call returns |
| `listener_lock` | as above, expected to fail | the listener runs with `refresh_mutex` held |
| `flush_loss` | write faults at flush only, expected to fail | memory and `.env` disagree after a reported success |
| `throttle` | 2 callers with 2 requests each, GET and POST, rates 0 and 2 per minute of 4, 1 retry | slots spaced and awaited, resends bounded, every call ends |
| `track_file` | 2 + 3 blocks, tags of 1, 2 and 4, 2 retries, kills, calls without end | the file stays sound and implements ResumableFile, paths are returned for complete files only, complete files last, calls end |
| `track_short_tags` | as above with tags of 1 block, expected to fail | a finished file that its tags made shorter is resumed onto |
| `track_416` | as above with fewer blocks, expected to fail | `download_track` fails for a complete file |
| `batch` | up to 3 tracks, 0 to 2 workers, all three calls | items claimed once, no track forgotten where there is a worker, own tags, BatchPromise, batches return |
| `batch_embed` | albums of up to 2 tracks, expected to fail | a tag error fails an album with downloaded tracks |
| `tags` | 62 songs, 4 sets of fields, FLAC and MP3 | nothing switched off stays, single keys, artists once, composers distinct, the calendar's dates |
| `session` | 1 service, 2 bundles, 3 host files, 2 users, 1 token, 4 sets of variables, 3 lines | a restart loads what was saved, pairs are not mixed, the host's lines stay, each with the exceptions of section 2; sessions belong to the user asked for, the first secret is an anchored one |

The bounds are enough for the interesting cases. Two threads suffice for every
race over one swap: a leader and a loser, a leader and a holder of the old client.
Two calls each let a thread come back after the refresh is spent. Three pairs are
the one in use, its replacement and a wrong timezone's secret; the bundles hold
the accepted secret first, last and not at all. One rotation separates a pair
that was valid when probed from one that still is.

Two callers with two requests each race for a slot, and let one reserve between
the two of the other; a rate of 0 lets a request pass beside the slots. The spacing
of slots is proved for every number of callers and every rate. `MAX_RETRIES` is 1
instead of 3: it exercises both the resend and the giving up.

Two head and three body blocks let a transfer stop before, at and behind the end
of the metadata, and one block before the end; tags of one, two and four blocks are
shorter than the head, as long and longer, so tagging again both grows and shrinks
the file, also below the size of the remote one.
The calls for a file are not bounded: sessions may be killed and repeated for
ever. Two retries instead of three give a first, a middle and a last attempt.
Three tracks on two workers put one track behind, between and before others that
fail, and leave one worker to claim twice; a concurrency of 0 starts none; the invariants behind the pool are
proved for every number.

The `session` run has one service, whose steps the host's edits interleave with
and overlap; two are out of reach for a run of minutes, and that the saves of
several services overlap is covered by the proofs, which are for any number. The
three host files are none; one with a comment that can be cut to a placeholder, a
plain id and a spaced secret in quotes; and one with a placeholder and a spaced id
behind it, which is the case `SavedIsLoaded` excepts. One bundle has a seed that
does not decode, a plain and an anchored one in the wrong order, the other only a
plain one. The songs of `tags` differ from one complete song in one part each: performers with
names that contain each other and with repeated or odd roles, album artists with
and without roles and names, covers, dates and versions, and times around 1970,
around leap days and at the ends of years, and years too large for an `unsigned` and
for `std::stoul` (which are 5000 and 10000 in the run); the sets of fields are the default, the
empty one, and two that part the fields which share a key between the formats.

Fairness. `CallsReturn` assumes weak fairness of each thread inside a call: the
operating system schedules it and what it calls outside (HTTP, files, the
listener) returns. Starting calls is not fair, and neither are rotations or
listeners. Calls are bounded, so weak fairness is enough for the mutex too: its
owner leaves, and only finitely many others can overtake a waiter. `CallsEnd`
of Throttle assumes in addition that the clock advances. `CallsEnd` of
TrackDownload assumes that the calling thread runs and that each engine call
returns, which the counter of retries turns into the end of the call.
`BatchesReturn` assumes the same of the calling thread and of each worker.
Neither assumes anything of the cancel flag. HostSession and TrackTags have no
liveness: a host need not call, and a call may fail at every step.

## 4. What TLAPS proves

All the safety properties above, the action properties and the three refinements
(HealPipeline, ResumableFile, BatchPromise) are theorems: for any number of threads,
calls, pairs, rotations, rates, blocks, retries, tracks and workers, any files,
bundles, services, songs and sets of fields. `Durability` and `Refinement` of
CredentialRefresh have a condition: every failing write is reported
(`"flush" \notin WriteFaults`). The others have none but the assumptions on the
constants, which TLC evaluates; the exceptions of section 2 are part of the
properties, and so stated for every value.

The invariant of CredentialRefresh has one part per reason:

- `MutexInv`: a thread is between `check` and `listen` exactly while it owns
  `refresh_mutex`; so no two refreshes interleave.
- `SessionInv`: generation, client number and retired clients are functions of
  `refreshed`, and no seen generation is ahead; so a generation other than the one
  seen means that the swap happened.
- `RefreshInv`: a refresh past the check runs in a session not refreshed yet, at
  the generation its caller saw; what it chose is a pair; the file is empty before
  it is written; the listener is told the pair in memory.
- `RequestInv`, `AuthInv`: what a request took and when, in particular that a
  rejected getFileUrl signed with the pair of the generation it saw.
- `ProbeInv`: a pair adopted on a probe's word is live until a rotation.
- `DiskInv`: `.env` holds the pair about to be adopted and the one adopted. It
  needs `"flush" \notin WriteFaults`, and so do `Durability` and `Refinement`.

Returns from `refresh_credentials` are grouped by one lemma (`ContinueReturned`)
so that each part needs a single case for them. `Refinement` maps each step to a
step of HealPipeline or to a stutter.

In ThrottleProofs the invariant says that `g_last_call` is the last slot and none
is later (`LastInv`), and that callers hold distinct slots from reservation to
return (`HoldInv`); `NextSlotSpaced` is the arithmetic. `CountInv` counts what a
slot carries: as many requests as the caller that holds it was answered 429, which
the retry limit bounds before each send.

In TrackDownloadProofs, `SafeInv` says that a file that is not exposed is a
beginning of the remote file, or its audio behind tags with which it is no shorter
than the remote file, `OffsetInv` that between `detect_partial_file` and the request the offset is
still the size of the file, `TransferInv` that a transfer has written exactly what
was sent, and `CompleteInv` that a call only comes to its end, and to tagging, with a
complete file or an exposed one. The step that needs thought is `Resume`: of the sound
files that are not exposed only an unfinished one is shorter than the remote file
(`ShortIsPrefix`), and for a 416 conversely (`LongIsComplete`). `Refinement` maps the
steps that touch the file to the steps of ResumableFile, whose promise about an
exposed file is only that it is so until it is replaced.

In BatchDownloadProofs, `ClaimInv` orders the items handed out below the counter,
`PhaseInv` says that no worker runs outside the two pools, and `DownloadInv` that
each item handed out has a result, was skipped or is in the hands of a worker, and
that the first worker, if there is any (`HasWorkers`), leaves only after the last
item; joined workers leave the first two. `EveryTrackTried` has the same condition:
without a worker no track is tried.
`TagInv` says that the lists of paths and ids are one list, which gives
`TagsMatchFiles` whatever the list is. `PromiseIsKept` is the refinement of
BatchPromise, and needs to know what the list is. `PathsAreFaithful`, from ListProofs,
says that the paths are exactly the positions with a result `ok`, in order;
`TypeInv` adds to the types that the lists are no longer than the batch and that a
worker which tags holds one of the paths. `PromiseInv` says that no path is there
before the results are collected, that the slot a worker is about to decide, and each
that nobody was handed yet, is open, and that from then on the paths are those of the
slots. Each step then is a decision about one slot, a reply, or a stutter.

In HostSessionProofs the invariant says that what loads is of one origin (`FileOK`),
that a file written whole is a save of the pair it was written for over some lines
(`SavedInv`), that the pair a call is saving is of one bundle (`FoundInv`), and that
the lines about to be written are such a save and of one origin, and so is each of
their beginnings (`DraftInv`). `SaveThenLoad` is the
central lemma: loading what was saved gives the pair as it reads, whatever lines it
was saved over, if none that only loading understands is behind those. It rests on the last
assignment of a key, which exists by the library's least element of a set of
numbers (`LastExists`). For `HostLinesStay`, `OthersInv` says that without an excuse
what a call is about to write has the host's own lines, however many saves overlap:
a save puts nothing into the place of a line it does not own, appends
lines that it owns (`SaveKeepsOthers`), and lists that differ in those alone give the
same `OtherLines` (`SamePicked`). `GuessesAnchored` follows
from the order in which the candidates are picked: the anchored seeds come before the
others, and if none is anchored the first is one that decodes (`AnchoredGuess`).

CivilDateProofs proves `DaysFollowCalendar`: for every day before and after 1970,
the date of the next day is the calendar's next date, by the position of the day in
its month, year, century and era. TrackTagsProofs uses it for `DatesAreRight`; the
rest of it says which `MetadataField` owns each key and that no key is pushed by two
operators. The invariant says that the file has the fields of the last embedding, and
that its dates, performers and artists are what extraction gives. `ArtistsAreThere` and
`ComposersAreApart` follow the performers text through trimming, splitting, parsing and
normalizing (`Trimmed`, `SplitTyped`, `CreditTyped`, `PersonsTyped`, `NormalTyped`): the
names that come out are texts, so each overlaps itself, and are those of the credits.
What is left is `OnceList` for the artists and, for the composers, `UncoveredList`
with overlapping, which goes both ways, as what covers.

ListProofs is where the folds are dealt with. The prover can neither expand a
recursive definition nor use an induction theorem that takes a predicate as an
operator. But a fold of the library is defined by choice, as a function on the sets of
positions that satisfies its recursion; `FoldExists` builds such a function position
by position, `FoldRuns` reads from it the steps of the loop, and the induction is
`UpTo`, in which the predicate is a set of numbers and the least number outside it
gives the contradiction. `PickedSteps`, `UncoveredSteps`, `SplitTyped` and
`SqueezedTyped` apply this to one fold each, and the theorems about lists follow by
induction over the steps.

What is only model-checked: `CallsReturn`, both `CallsEnd` and `BatchesReturn`. They
depend on fairness, which is out of reach of these proofs. What the folds `Join` and
`InvolvedPeople` make of their texts is left open by the proofs: `ArtistsOnce` and
`ComposersDistinct` are about the lists that are joined.

## 5. Disagreements found

- `service.cc:343` says that the listener is called outside the locks;
  `refresh_mutex` is still held (run `listener_lock`).
- `credentials.cc:125` tests the stream before it is flushed (run `flush_loss`).
- `README.md:76` lists 416 handling; `download_track` does not have it, so a
  second download of a finished track fails (run `track_416`).
- `download.hh:56` says that an album fails only when every track failed; a tag
  error fails it as well (run `batch_embed`).
- `download.cc:41` says that with the format in its name a finished file is not taken
  for a partial one; one that tagging made shorter than the remote file is, is resumed
  onto and returned as downloaded (run `track_short_tags`).

Seen in the code while modelling it, without a run of their own:

- `service.hh:70` says that `create` takes credentials from `.env` or else from the
  web player, and `kobuzapi_jni.cpp:93` that it does so when they are empty. An empty
  value in `.env` is found, so nothing is scraped, and `build_service` refuses it
  (`service.cc:87`, `Adopt`).
- `credentials.hh:54` has the candidate secrets in bundle order; the seeds behind `):`
  come first (`credentials.cc:175-214`, `Candidates`), which `GuessIsAnchored` relies
  on.
- `credentials.hh:21` says that saving keeps unrelated lines. A file that may be
  written and not read is emptied and its lines are lost (`credentials.cc:88`,
  `SaveRead`), and so are lines written between the reading and the emptying.
- With `# QOBUZ_APP_ID=` and behind it `QOBUZ_APP_ID = k`, a save fills in the first
  line and a restart loads the second: the old id with the new secret
  (`credentials.cc:71-75,108`, `SavedLinesLast`). A save torn before the line it
  appends leaves a spaced old id beside the new secret in the same way.
- A save cut short (`credentials.cc:119`, `SaveCut`) may leave the beginning of a
  secret, which a restart loads and refuses only if it is empty.
- A tagging that a kill breaks off leaves a file that is resumed onto, or taken for
  complete when the answer is 416 (`download.cc:306`, `BreakOff`).
- A `concurrency` of 0 downloads no track and reports that all of them failed
  (`download.cc:331`); only the tagging takes one worker at least.

Met on the way, and not listed as disagreements: resends after a 429, POSTs, cover
fetches and the scrape take no slot, although `requests.hh:28` speaks of a global
limit.

## 6. Not modelled

- *The engine* (`arc_net`, `arc_tag`, MD5, base64): its sources are not in the
  repository. It is modelled from its use where a module needs it. What depends on
  its inside stays out: two transfers into one file (a playlist with a track twice,
  two calls of the host), the holes of segmented transfers, how much room tags take.
- *Two writers that have `.env` open at one time*: their lines may be mixed in any way.
  `Closed` names the assumption. Saves that overlap otherwise are modelled.
- *Exceptions through a worker*: `std::stoul` throws for a year of too many digits, and
  nlohmann's `value()` for an error code that is no number. Nothing catches them in a
  worker, so the process ends; for the files that is a kill, and for a tagging alone
  TrackTags has it that nothing is written. Which composers should be kept apart when a
  name normalizes to nothing (`performers.cc:116`) is not stated anywhere:
  `ComposersDistinct` takes the code's own overlap.
- *The pools of `download_artist` nested in each other*: each is the pool of
  BatchDownload, and they share nothing but the cancel flag.
- *JSON decoding, `models.hh`, URL building, signatures and `handle_response`*:
  functions of strings to records, without state or control beyond optional fields.
  The endpoints of the catalogue differ in their parameters alone.
- *The Android binding's progress and last error*, and the use of a handle after it
  was destroyed, which the binding leaves to the host.
- *The data race on `user_auth_token_`*: undefined behaviour of the language, not of
  a protocol; the modules take the token as set at once.
- Build files, scripts and the vendored JSON library.
