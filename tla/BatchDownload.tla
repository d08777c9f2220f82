---------------------------- MODULE BatchDownload ----------------------------
(* The batches of core/download/download.cc: download_album with its tagging, *)
(* download_playlist and download_artist, on top of run_bounded's pool of     *)
(* workers, while tracks fail and the host sets and resets the cancel flag.   *)
(* The download of one track is TrackDownload; here it succeeds, fails or is  *)
(* canceled.  For an artist the tracks are albums.                            *)
EXTENDS Naturals, Sequences, FiniteSets, Lists

CONSTANTS
    Ops,            \* the batches: "album", "playlist", "artist"
    MaxTracks,      \* bound: tracks of a batch
    Concurrencies,  \* values of options.concurrency
    MaxWorkers      \* bound: workers of a pool

ASSUME OpAssumption == Ops \subseteq {"album", "playlist", "artist"}
ASSUME TrackAssumption == MaxTracks \in Nat
\* An empty options.concurrency is 8.  The Android binding passes positive values
\* only, a native host whatever it likes: 0 is a pool of no workers, and a
\* negative number, cast to size_t, as many workers as there are tracks.
ASSUME ConcurrencyAssumption == Concurrencies \subseteq Nat
ASSUME WorkerAssumption == MaxWorkers \in Nat \ {0, 1} /\ \A k \in Concurrencies : k <= MaxWorkers

Workers == 1..MaxWorkers

VARIABLES
    cancel,          \* the flag options.cancel points to
    pc,              \* where the calling thread is
    op,              \* the batch it downloads
    metadata,        \* whether options.metadata is set
    concurrency,     \* options.concurrency
    results,         \* the result slots, one for each track
    interrupted,     \* history: whether a worker skipped a track
    paths,           \* the tracks whose paths are returned
    downloaded_ids,  \* their ids, in the same order
    count,           \* items of the pool
    next,            \* the next item of the pool, from 1 on
    wpc,             \* where each worker of the pool is
    idx,             \* the item it claimed
    first_error,     \* whether tagging met an error
    tags,            \* for each file the track whose tags it has, 0 for none
    reply            \* how the last batch returned

options == <<op, metadata, concurrency>>
lists == <<paths, downloaded_ids>>
pool == <<count, next, wpc, idx>>
tagging == <<first_error, tags>>
vars == <<cancel, pc, options, results, interrupted, lists, pool, tagging, reply>>

TypeOK ==
    /\ cancel \in BOOLEAN
    /\ pc \in {"idle", "lookup", "prepare", "download", "collect", "cover", "embed"}
    /\ op \in Ops \cup {"none"} /\ metadata \in BOOLEAN
    /\ concurrency \in Concurrencies \cup {0}
    /\ results \in Seq({"none", "ok", "empty", "err", "canceled"})
    /\ interrupted \in BOOLEAN
    /\ paths \in Seq(1..MaxTracks) /\ downloaded_ids \in Seq(1..MaxTracks)
    /\ count \in 0..MaxTracks /\ next \in Nat
    /\ wpc \in [Workers -> {"claim", "start", "run", "done"}]
    /\ idx \in [Workers -> Nat]
    /\ first_error \in BOOLEAN /\ tags \in [1..MaxTracks -> 0..MaxTracks]
    /\ reply \in {"none", "ok", "failed", "canceled", "err"}

Untagged == [i \in 1..MaxTracks |-> 0]

Init ==
    /\ cancel = FALSE
    /\ pc = "idle" /\ op = "none" /\ metadata = FALSE /\ concurrency = 0
    /\ results = <<>> /\ interrupted = FALSE
    /\ paths = <<>> /\ downloaded_ids = <<>>
    /\ count = 0 /\ next = 1
    /\ wpc = [w \in Workers |-> "done"]
    /\ idx = [w \in Workers |-> 0]
    /\ first_error = FALSE /\ tags = Untagged
    /\ reply = "none"

Goto(p) == pc' = p /\ UNCHANGED reply
Return(r) == pc' = "idle" /\ reply' = r

-----------------------------------------------------------------------------
(* run_bounded *)

\* Mutant: one item too many.
SpawnPastTheEnd(n, k) ==
    /\ count' = n + 1 /\ next' = 1
    /\ wpc' = [w \in Workers |-> IF w <= k /\ w <= n THEN "claim" ELSE "done"]
    /\ idx' = [w \in Workers |-> 0]

\* min(k, n) workers start, and none for an empty list or a k of 0.
Spawn(n, k) ==
    /\ count' = n /\ next' = 1
    /\ wpc' = [w \in Workers |-> IF w <= k /\ w <= n THEN "claim" ELSE "done"]
    /\ idx' = [w \in Workers |-> 0]

\* Mutant: next.load() in place of next.fetch_add(1).
ClaimByLoad(w) ==
    /\ wpc[w] = "claim"
    /\ idx' = [idx EXCEPT ![w] = next]
    /\ wpc' = [wpc EXCEPT ![w] = IF next <= count THEN "start" ELSE "done"]
    /\ UNCHANGED <<cancel, pc, options, results, interrupted, lists, tagging, reply, count, next>>

\* next.fetch_add(1)
Claim(w) ==
    /\ wpc[w] = "claim"
    /\ idx' = [idx EXCEPT ![w] = next]
    /\ next' = next + 1
    /\ wpc' = [wpc EXCEPT ![w] = IF next <= count THEN "start" ELSE "done"]
    /\ UNCHANGED <<cancel, pc, options, results, interrupted, lists, tagging, reply, count>>

Joined == \A w \in Workers : wpc[w] = "done"

-----------------------------------------------------------------------------
(* The calling thread up to the pool *)

Call(o, m, k) ==
    /\ pc = "idle"
    /\ op' = o /\ metadata' = m /\ concurrency' = k
    /\ results' = <<>> /\ paths' = <<>> /\ downloaded_ids' = <<>>
    /\ interrupted' = FALSE /\ first_error' = FALSE /\ tags' = Untagged
    /\ pc' = "lookup" /\ reply' = "none"
    /\ UNCHANGED <<cancel, pool>>

\* check_cancel: at entry, after the lookup and after the pool.
CheckCancel ==
    /\ pc \in {"lookup", "prepare"} /\ cancel
    /\ Return("canceled")
    /\ UNCHANGED <<cancel, options, results, interrupted, lists, pool, tagging>>

\* get_album, get_playlist or get_release_list answers.
Lookup ==
    /\ pc = "lookup" /\ ~cancel
    /\ Goto("prepare")
    /\ UNCHANGED <<cancel, options, results, interrupted, lists, pool, tagging>>

\* The lookup fails, or create_dir_all does.
LookupFails ==
    /\ pc \in {"lookup", "prepare"} /\ ~cancel
    /\ Return("err")
    /\ UNCHANGED <<cancel, options, results, interrupted, lists, pool, tagging>>

\* A playlist without tracks and an artist without releases are errors.
Nothing ==
    /\ pc = "prepare" /\ ~cancel /\ op # "album"
    /\ Return("err")
    /\ UNCHANGED <<cancel, options, results, interrupted, lists, pool, tagging>>

\* The slots are made and the pool starts; two albums of an artist at a time.
Prepare ==
    /\ pc = "prepare" /\ ~cancel
    /\ \E n \in 0..MaxTracks :
          /\ op # "album" => n > 0
          /\ results' = [i \in 1..n |-> "none"]
          /\ Spawn(n, IF op = "artist" THEN 2 ELSE concurrency)
    /\ Goto("download")
    /\ UNCHANGED <<cancel, options, interrupted, lists, tagging>>

-----------------------------------------------------------------------------
(* The workers that download *)

\* The flag is loaded once before the track: a worker that finds it set skips
\* the track, whose slot stays empty.
StartTrack(w) ==
    /\ pc = "download" /\ wpc[w] = "start"
    /\ wpc' = [wpc EXCEPT ![w] = IF cancel THEN "claim" ELSE "run"]
    /\ interrupted' = (interrupted \/ cancel)
    /\ UNCHANGED <<cancel, pc, options, results, lists, tagging, reply, count, next, idx>>

\* A track ends: canceled only while the flag is set, without any path only as
\* an artist's album that has no tracks.
TrackEnds(w) ==
    /\ pc = "download" /\ wpc[w] = "run"
    /\ \E r \in {"ok", "empty", "err", "canceled"} :
          /\ r = "canceled" => cancel
          /\ r = "empty" => op = "artist"
          /\ results' = [results EXCEPT ![idx[w]] = r]
    /\ wpc' = [wpc EXCEPT ![w] = "claim"]
    /\ UNCHANGED <<cancel, pc, options, interrupted, lists, tagging, reply, count, next, idx>>

\* Mutant: the calling thread does not join workers in the middle of a track.
JoinDownloadEarly ==
    /\ pc = "download" /\ \A w \in Workers : wpc[w] \in {"done", "run"}
    /\ Goto("collect")
    /\ UNCHANGED <<cancel, options, results, interrupted, lists, pool, tagging>>

JoinDownload ==
    /\ pc = "download" /\ Joined
    /\ Goto("collect")
    /\ UNCHANGED <<cancel, options, results, interrupted, lists, pool, tagging>>

\* A batch canceled by now throws its results away.
CollectCanceled ==
    /\ pc = "collect" /\ cancel
    /\ Return("canceled")
    /\ UNCHANGED <<cancel, options, results, interrupted, lists, pool, tagging>>

Indices == [i \in 1..Len(results) |-> i]
Ok == {i \in DOMAIN results : results[i] = "ok"}
SomeFailed == \E i \in DOMAIN results : results[i] \notin {"ok", "empty"}

\* Mutant: the ids of the tracks that failed stay in the list.
CollectAllIds ==
    /\ pc = "collect" /\ ~cancel
    /\ paths' = Picked(Indices, Ok)
    /\ downloaded_ids' = Indices
    /\ \/ paths' = <<>> /\ SomeFailed /\ Return("failed")
       \/ /\ paths' # <<>> \/ ~SomeFailed
          /\ \/ op = "album" /\ metadata /\ Goto("cover")
             \/ ~(op = "album" /\ metadata) /\ Return("ok")
    /\ UNCHANGED <<cancel, options, results, interrupted, pool, tagging>>

\* Mutant: one failed track fails the batch.
CollectStrict ==
    /\ pc = "collect" /\ ~cancel
    /\ paths' = Picked(Indices, Ok) /\ downloaded_ids' = paths'
    /\ \/ SomeFailed /\ Return("failed")
       \/ /\ ~SomeFailed
          /\ \/ op = "album" /\ metadata /\ Goto("cover")
             \/ ~(op = "album" /\ metadata) /\ Return("ok")
    /\ UNCHANGED <<cancel, options, results, interrupted, pool, tagging>>

\* Slots without a result count as failed.  The batch fails when it has no path
\* to return and something failed.
Collect ==
    /\ pc = "collect" /\ ~cancel
    /\ paths' = Picked(Indices, Ok)
    /\ downloaded_ids' = Picked(Indices, Ok)
    /\ \/ paths' = <<>> /\ SomeFailed /\ Return("failed")
       \/ /\ paths' # <<>> \/ ~SomeFailed
          /\ \/ op = "album" /\ metadata /\ Goto("cover")
             \/ ~(op = "album" /\ metadata) /\ Return("ok")
    /\ UNCHANGED <<cancel, options, results, interrupted, pool, tagging>>

-----------------------------------------------------------------------------
(* embed_album_metadata *)

\* A cover that cannot be fetched is left out.  The user token is there: the
\* tracks were downloaded with it, and nothing takes it away.
FetchCover ==
    /\ pc = "cover"
    /\ Spawn(Len(paths), IF concurrency = 0 THEN 1 ELSE concurrency)
    /\ Goto("embed")
    /\ UNCHANGED <<cancel, options, results, interrupted, lists, tagging>>

\* After an error the files that are left are skipped.
StartEmbed(w) ==
    /\ pc = "embed" /\ wpc[w] = "start"
    /\ wpc' = [wpc EXCEPT ![w] = IF first_error THEN "claim" ELSE "run"]
    /\ UNCHANGED <<cancel, pc, options, results, interrupted, lists, tagging, reply, count, next, idx>>

\* Path number idx gets the tags of the track of id number idx.
EmbedEnds(w) ==
    /\ pc = "embed" /\ wpc[w] = "run"
    /\ tags' = [tags EXCEPT ![paths[idx[w]]] = downloaded_ids[idx[w]]]
    /\ wpc' = [wpc EXCEPT ![w] = "claim"]
    /\ UNCHANGED <<cancel, pc, options, results, interrupted, lists, reply, first_error, count, next, idx>>

\* The track's data cannot be fetched, or its file not be tagged.
EmbedFails(w) ==
    /\ pc = "embed" /\ wpc[w] = "run"
    /\ first_error' = TRUE
    /\ wpc' = [wpc EXCEPT ![w] = "claim"]
    /\ UNCHANGED <<cancel, pc, options, results, interrupted, lists, reply, tags, count, next, idx>>

JoinEmbed ==
    /\ pc = "embed" /\ Joined
    /\ Return(IF first_error THEN "err" ELSE "ok")
    /\ UNCHANGED <<cancel, options, results, interrupted, lists, pool, tagging>>

-----------------------------------------------------------------------------

\* cancelDownloads and resetCancel, from any thread.
SetCancel ==
    /\ cancel' = ~cancel
    /\ UNCHANGED <<pc, options, results, interrupted, lists, pool, tagging, reply>>

Main ==
    \/ CheckCancel \/ Lookup \/ LookupFails \/ Nothing \/ Prepare
    \/ JoinDownload \/ CollectCanceled \/ Collect
    \/ FetchCover \/ JoinEmbed

Worker(w) ==
    \/ Claim(w) \/ StartTrack(w) \/ TrackEnds(w)
    \/ StartEmbed(w) \/ EmbedEnds(w) \/ EmbedFails(w)

Next ==
    \/ \E o \in Ops, m \in BOOLEAN, k \in Concurrencies : Call(o, m, k)
    \/ Main
    \/ \E w \in Workers : Worker(w)
    \/ SetCancel

Spec == Init /\ [][Next]_vars

\* All threads run, and what they call returns.
FairSpec == Spec /\ WF_vars(Main) /\ \A w \in Workers : WF_vars(Worker(w))

-----------------------------------------------------------------------------
(* Properties *)

\* Two workers never download one track or tag one file at once, though they
\* claim items concurrently from one counter.
ItemsExclusive ==
    \A v, w \in Workers :
        v # w /\ wpc[v] \in {"start", "run"} /\ wpc[w] \in {"start", "run"} => idx[v] # idx[w]

\* The tracks are downloaded by at least one worker: by two for an artist, whatever
\* the concurrency asked for.
HasWorkers == op = "artist" \/ concurrency > 0

\* Unless a worker found the batch canceled, each track was tried by the time the
\* results are counted, if the host asked for a worker at all: a concurrency of 0
\* tries none and returns that every track failed.
NoTrackForgotten ==
    pc = "collect" /\ HasWorkers /\ ~interrupted =>
        \A i \in DOMAIN results : results[i] # "none"

\* A file gets the tags of its own track, also when tracks before it failed.
TagsMatchFiles == \A i \in 1..MaxTracks : tags[i] \in {0, i}

\* The batch keeps its promise: no slot is written twice or after the return,
\* and the reply agrees with the slots.
Promise == INSTANCE BatchPromise WITH running <- pc # "idle"
KeepsPromise == Promise!Spec

\* Every batch returns, canceled or not, whatever fails.
BatchesReturn == pc # "idle" ~> pc = "idle"

\* download.hh: "One track failing does not abort the rest; fails only when
\* every track failed."
FailsOnlyWhenAllFailed ==
    reply \in {"failed", "err"} => \A i \in DOMAIN results : results[i] # "ok"
=============================================================================
