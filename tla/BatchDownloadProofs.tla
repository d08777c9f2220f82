------------------------ MODULE BatchDownloadProofs ------------------------
(* Proofs about BatchDownload for any number of tracks and workers.           *)
EXTENDS BatchDownload, ListProofs

\* Where the workers are, and the range of the counter and of their items.
PoolTypeOK ==
    /\ next \in Nat \ {0}
    /\ wpc \in [Workers -> {"claim", "start", "run", "done"}]
    /\ idx \in [Workers -> Nat]

Active(w) == wpc[w] \in {"start", "run"}

\* Items are handed out in order and each to one worker.
ClaimInv ==
    /\ \A w \in Workers : Active(w) => 0 < idx[w] /\ idx[w] < next
    /\ ItemsExclusive

\* No worker is left outside the two pools.
PhaseInv ==
    /\ pc \in {"idle", "lookup", "prepare", "download", "collect", "cover", "embed"}
    /\ pc \notin {"download", "embed"} => Joined
    /\ pc # "idle" => concurrency \in Concurrencies

\* Each item handed out has a result, has been skipped or is being worked on,
\* and the first worker, which starts if any does, only leaves after the last item.
Handled(i) ==
    \/ results[i] # "none"
    \/ interrupted
    \/ \E w \in Workers : Active(w) /\ idx[w] = i

DownloadInv ==
    pc = "download" =>
        /\ count \in Nat /\ results = [i \in 1..count |-> results[i]]
        /\ \A w \in Workers : Active(w) => idx[w] <= count
        /\ HasWorkers /\ wpc[1] = "done" => next > count
        /\ \A i \in 1..count : i < next => Handled(i)

IInv == PoolTypeOK /\ ClaimInv /\ PhaseInv /\ DownloadInv /\ NoTrackForgotten

-----------------------------------------------------------------------------

LEMMA WorkerOne == 1 \in Workers
BY WorkerAssumption DEF Workers

LEMMA InitIInv == Init => IInv
BY DEF Init, IInv, PoolTypeOK, ClaimInv, ItemsExclusive, Active, PhaseInv, Joined, DownloadInv,
       NoTrackForgotten

\* Steps that leave the pool and the slots alone and enter no pool.
LEMMA MovesKeepIInv ==
    ASSUME IInv,
           UNCHANGED <<results, interrupted, pool>>,
           \/ pc' = pc /\ UNCHANGED <<op, concurrency>>
           \/ pc' \in {"idle", "lookup", "prepare", "cover"} /\ Joined,
           pc' # "idle" => concurrency' \in Concurrencies
    PROVE  IInv'
<1> USE DEF pool
<1>1. PoolTypeOK' /\ ClaimInv'
  BY DEF IInv, PoolTypeOK, ClaimInv, ItemsExclusive, Active
<1>2. PhaseInv'
  BY DEF IInv, PhaseInv, Joined
<1>3. DownloadInv'
  BY DEF IInv, DownloadInv, Active, Handled, HasWorkers
<1>4. NoTrackForgotten'
  BY DEF IInv, NoTrackForgotten, HasWorkers
<1> QED BY <1>1, <1>2, <1>3, <1>4 DEF IInv

LEMMA CallKeepsIInv ==
    ASSUME IInv, NEW o \in Ops, NEW m \in BOOLEAN, NEW k \in Concurrencies, Call(o, m, k)
    PROVE  IInv'
BY DEF IInv, PoolTypeOK, ClaimInv, ItemsExclusive, Active, PhaseInv, Joined, DownloadInv,
       NoTrackForgotten, Call, pool

\* A pool that starts has handed out nothing.
LEMMA SpawnFacts ==
    ASSUME NEW n, NEW k, Spawn(n, k)
    PROVE  /\ PoolTypeOK' /\ ClaimInv'
           /\ \A w \in Workers : ~Active(w)'
           /\ next' = 1 /\ count' = n
BY DEF Spawn, PoolTypeOK, ClaimInv, ItemsExclusive, Active

LEMMA PrepareKeepsIInv == IInv /\ Prepare => IInv'
<1> SUFFICES ASSUME IInv, Prepare PROVE IInv'
  OBVIOUS
<1>1. PICK n \in 0..MaxTracks :
        /\ results' = [i \in 1..n |-> "none"]
        /\ Spawn(n, IF op = "artist" THEN 2 ELSE concurrency)
  BY DEF Prepare
<1>2. n \in Nat /\ results' = [i \in 1..n |-> results'[i]]
  BY <1>1, TrackAssumption
<1>3. pc' = "download" /\ concurrency' \in Concurrencies
  BY DEF IInv, PhaseInv, Prepare, Goto, options
<1>4. HasWorkers' /\ wpc'[1] = "done" => n = 0
  <2>1. concurrency \in Nat /\ UNCHANGED <<op, concurrency>>
    BY ConcurrencyAssumption DEF IInv, PhaseInv, Prepare, options
  <2>2. HasWorkers' => 1 <= IF op = "artist" THEN 2 ELSE concurrency
    BY <2>1 DEF HasWorkers
  <2> QED BY <1>1, <1>2, <2>2, WorkerOne DEF Spawn
<1>5. DownloadInv'
  BY <1>1, <1>2, <1>4, SpawnFacts DEF DownloadInv
<1> QED BY <1>1, <1>3, <1>5, SpawnFacts DEF IInv, PhaseInv, NoTrackForgotten

LEMMA FetchCoverKeepsIInv == IInv /\ FetchCover => IInv'
<1> SUFFICES ASSUME IInv, FetchCover PROVE IInv'
  OBVIOUS
<1>1. PoolTypeOK' /\ ClaimInv'
  BY SpawnFacts DEF FetchCover
<1>2. pc' = "embed" /\ concurrency' \in Concurrencies
  BY DEF IInv, PhaseInv, FetchCover, Goto, options
<1> QED BY <1>1, <1>2 DEF IInv, PhaseInv, DownloadInv, NoTrackForgotten

LEMMA ClaimKeepsIInv ==
    ASSUME IInv, NEW w \in Workers, Claim(w)
    PROVE  IInv'
<1> USE DEF Claim, options
<1>1. PoolTypeOK'
  BY DEF IInv, PoolTypeOK
<1>2. ClaimInv'
  BY DEF IInv, PoolTypeOK, ClaimInv, ItemsExclusive, Active
<1>3. PhaseInv'
  BY DEF IInv, PhaseInv, Joined
<1>4. DownloadInv'
  <2> SUFFICES ASSUME pc = "download" PROVE DownloadInv'
    BY DEF DownloadInv
  <2>1. count \in Nat /\ results = [i \in 1..count |-> results[i]]
    BY DEF IInv, DownloadInv
  <2>2. \A v \in Workers : Active(v)' => idx'[v] <= count
    BY <2>1 DEF IInv, PoolTypeOK, DownloadInv, Active
  <2>3. HasWorkers' /\ wpc'[1] = "done" => next' > count
    BY <2>1, WorkerOne DEF IInv, PoolTypeOK, DownloadInv, HasWorkers
  <2>4. ASSUME NEW i \in 1..count, i < next' PROVE Handled(i)'
    <3>1. CASE i = next
      BY <2>1, <3>1 DEF IInv, PoolTypeOK, Handled, Active
    <3>2. CASE i < next
      BY <2>1, <3>2 DEF IInv, PoolTypeOK, DownloadInv, Handled, Active
    <3> QED BY <2>4, <3>1, <3>2, <2>1 DEF IInv, PoolTypeOK
  <2> QED BY <2>1, <2>2, <2>3, <2>4 DEF DownloadInv
<1>5. NoTrackForgotten'
  BY DEF IInv, NoTrackForgotten, HasWorkers
<1> QED BY <1>1, <1>2, <1>3, <1>4, <1>5 DEF IInv

\* Starting an item, or skipping it and noting so.
LEMMA StartTrackKeepsIInv ==
    ASSUME IInv, NEW w \in Workers, StartTrack(w)
    PROVE  IInv'
<1> USE DEF StartTrack, options
<1>1. PoolTypeOK'
  BY DEF IInv, PoolTypeOK
<1>2. ClaimInv'
  BY DEF IInv, PoolTypeOK, ClaimInv, ItemsExclusive, Active
<1>3. PhaseInv'
  BY DEF IInv, PhaseInv, Joined
<1>4. DownloadInv'
  <2>1. \A v \in Workers : Active(v)' => Active(v)
    BY DEF IInv, PoolTypeOK, Active
  <2>2. HasWorkers' /\ wpc'[1] = "done" => HasWorkers /\ wpc[1] = "done"
    BY WorkerOne DEF IInv, PoolTypeOK, HasWorkers
  <2>3. ASSUME NEW i \in 1..count, i < next' PROVE Handled(i)'
    <3>1. Handled(i)
      BY <2>3 DEF IInv, DownloadInv
    <3>2. CASE cancel
      BY <3>2 DEF Handled
    <3>3. CASE ~cancel
      BY <3>1, <3>3 DEF IInv, PoolTypeOK, Handled, Active
    <3> QED BY <3>2, <3>3
  <2> QED BY <2>1, <2>2, <2>3 DEF IInv, DownloadInv
<1>5. NoTrackForgotten'
  BY DEF IInv, NoTrackForgotten
<1> QED BY <1>1, <1>2, <1>3, <1>4, <1>5 DEF IInv

LEMMA TrackEndsKeepsIInv ==
    ASSUME IInv, NEW w \in Workers, TrackEnds(w)
    PROVE  IInv'
<1> USE DEF options
<1>1. PICK r \in {"ok", "empty", "err", "canceled"} : results' = [results EXCEPT ![idx[w]] = r]
  BY DEF TrackEnds
<1>2. pc = "download" /\ pc' = pc /\ wpc[w] = "run" /\ wpc' = [wpc EXCEPT ![w] = "claim"]
      /\ UNCHANGED <<op, metadata, concurrency, count, next, idx, interrupted>>
  BY DEF TrackEnds
<1>3. PoolTypeOK'
  BY <1>2 DEF IInv, PoolTypeOK
<1>4. ClaimInv'
  BY <1>2 DEF IInv, PoolTypeOK, ClaimInv, ItemsExclusive, Active
<1>5. PhaseInv'
  BY <1>2 DEF IInv, PhaseInv, Joined
<1>6. count \in Nat /\ results = [i \in 1..count |-> results[i]] /\ idx[w] \in 1..count
  BY <1>2 DEF IInv, DownloadInv, PoolTypeOK, ClaimInv, Active
<1>7. results' = [i \in 1..count |-> results'[i]]
      /\ r # "none"
      /\ \A i \in 1..count : results'[i] = IF i = idx[w] THEN r ELSE results[i]
  BY <1>1, <1>6
<1>8. DownloadInv'
  <2>1. \A v \in Workers : Active(v)' => idx'[v] <= count
    BY <1>2 DEF IInv, DownloadInv, PoolTypeOK, Active
  <2>2. HasWorkers' /\ wpc'[1] = "done" => next' > count
    BY <1>2, WorkerOne DEF IInv, DownloadInv, PoolTypeOK, HasWorkers
  <2>3. ASSUME NEW i \in 1..count, i < next' PROVE Handled(i)'
    <3>1. CASE i = idx[w]
      BY <1>6, <1>7, <3>1 DEF Handled
    <3>2. CASE i # idx[w]
      <4>1. Handled(i)
        BY <1>2, <2>3 DEF IInv, DownloadInv
      <4> QED BY <4>1, <1>2, <1>7, <3>2 DEF Handled, Active, IInv, PoolTypeOK
    <3> QED BY <3>1, <3>2
  <2> QED BY <1>2, <1>6, <1>7, <2>1, <2>2, <2>3 DEF DownloadInv
<1>9. NoTrackForgotten'
  BY <1>2 DEF NoTrackForgotten
<1> QED BY <1>3, <1>4, <1>5, <1>8, <1>9 DEF IInv

\* When the workers have joined, each item has been handed out and dealt with.
LEMMA JoinDownloadKeepsIInv == IInv /\ JoinDownload => IInv'
<1> SUFFICES ASSUME IInv, JoinDownload PROVE IInv'
  OBVIOUS
<1> USE DEF JoinDownload, Goto, options, pool
<1>1. (HasWorkers => next > count) /\ \A w \in Workers : ~Active(w)
  BY WorkerOne DEF IInv, DownloadInv, Joined, Active
<1>2. HasWorkers => \A i \in 1..count : results[i] # "none" \/ interrupted
  BY <1>1 DEF IInv, PoolTypeOK, DownloadInv, Handled
<1>3. NoTrackForgotten'
  BY <1>2 DEF IInv, DownloadInv, NoTrackForgotten, HasWorkers
<1>4. PoolTypeOK' /\ ClaimInv' /\ DownloadInv'
  BY DEF IInv, PoolTypeOK, ClaimInv, ItemsExclusive, Active, DownloadInv
<1>5. PhaseInv'
  BY DEF IInv, PhaseInv, Joined
<1> QED BY <1>3, <1>4, <1>5 DEF IInv

LEMMA EmbedKeepsIInv ==
    ASSUME IInv, NEW w \in Workers, StartEmbed(w) \/ EmbedEnds(w) \/ EmbedFails(w)
    PROVE  IInv'
<1>1. /\ pc = "embed" /\ pc' = pc /\ Active(w)
      /\ wpc' \in {[wpc EXCEPT ![w] = "claim"], [wpc EXCEPT ![w] = "run"]}
      /\ UNCHANGED <<concurrency, results, interrupted, next, idx>>
  BY DEF StartEmbed, EmbedEnds, EmbedFails, options, Active
<1>2. PoolTypeOK' /\ ClaimInv'
  BY <1>1 DEF IInv, PoolTypeOK, ClaimInv, ItemsExclusive, Active
<1>3. PhaseInv' /\ DownloadInv' /\ NoTrackForgotten'
  BY <1>1 DEF IInv, PhaseInv, DownloadInv, NoTrackForgotten
<1> QED BY <1>2, <1>3 DEF IInv

LEMMA NextKeepsIInv == IInv /\ [Next]_vars => IInv'
<1> SUFFICES ASSUME IInv, [Next]_vars PROVE IInv'
  OBVIOUS
<1>1. ASSUME NEW o \in Ops, NEW m \in BOOLEAN, NEW k \in Concurrencies, Call(o, m, k) PROVE IInv'
  BY <1>1, CallKeepsIInv
<1>2. CASE CheckCancel \/ Lookup \/ LookupFails \/ Nothing \/ CollectCanceled \/ Collect \/ JoinEmbed
  <2>1. UNCHANGED <<options, results, interrupted, pool>>
    BY <1>2 DEF CheckCancel, Lookup, LookupFails, Nothing, CollectCanceled, Collect, JoinEmbed
  <2>2. pc' \in {"idle", "prepare", "cover"} /\ pc # "idle" /\ Joined
    BY <1>2 DEF IInv, PhaseInv, CheckCancel, Lookup, LookupFails, Nothing, CollectCanceled,
       Collect, JoinEmbed, Goto, Return
  <2> QED BY <2>1, <2>2, MovesKeepIInv DEF IInv, PhaseInv, options
<1>3. CASE SetCancel \/ UNCHANGED vars
  <2>1. UNCHANGED <<results, interrupted, pool>>
    BY <1>3 DEF SetCancel, vars
  <2>2. pc' = pc /\ UNCHANGED <<op, concurrency>>
    BY <1>3 DEF SetCancel, vars, options
  <2>3. pc' # "idle" => concurrency' \in Concurrencies
    BY <2>2 DEF IInv, PhaseInv
  <2> QED BY <2>1, <2>2, <2>3, MovesKeepIInv
<1>4. CASE Prepare \/ JoinDownload \/ FetchCover
  BY <1>4, PrepareKeepsIInv, JoinDownloadKeepsIInv, FetchCoverKeepsIInv
<1>5. ASSUME NEW w \in Workers, Worker(w) PROVE IInv'
  BY <1>5, ClaimKeepsIInv, StartTrackKeepsIInv, TrackEndsKeepsIInv, EmbedKeepsIInv DEF Worker
<1> QED BY <1>1, <1>2, <1>3, <1>4, <1>5 DEF Next, Main

-----------------------------------------------------------------------------

\* What the pool of run_bounded and the slots of a batch have in common in every
\* reachable state.
THEOREM Invariance == Spec => []IInv
<1> QED BY InitIInv, NextKeepsIInv, PTL DEF Spec

\* No two workers of a pool ever hold the same item, for any number of workers.
THEOREM ItemsAreExclusive == Spec => []ItemsExclusive
<1>1. IInv => ItemsExclusive
  BY DEF IInv, ClaimInv
<1> QED BY <1>1, Invariance, PTL

\* Every track of a batch that has a worker, and that no worker found canceled, has
\* been tried when the results are counted, for any number of tracks and workers.
THEOREM EveryTrackTried == Spec => []NoTrackForgotten
<1>1. IInv => NoTrackForgotten
  BY DEF IInv
<1> QED BY <1>1, Invariance, PTL

-----------------------------------------------------------------------------
(* Tagging *)

\* The two lists the tagging pairs up are one list: Collect fills both from the
\* same results in the same order, and nobody touches them afterwards.
TagInv ==
    /\ downloaded_ids = paths
    /\ tags = [i \in 1..MaxTracks |-> tags[i]]
    /\ TagsMatchFiles

LEMMA UntaggedMatches ==
    ASSUME downloaded_ids' = paths', tags' = Untagged
    PROVE  TagInv'
BY DEF TagInv, Untagged, TagsMatchFiles

\* The only step that writes a tag: path and id of one index are equal.
LEMMA EmbedEndsKeepsTagInv ==
    ASSUME TagInv, NEW w \in Workers, EmbedEnds(w)
    PROVE  TagInv'
<1> DEFINE i == paths[idx[w]]
<1>1. tags' = [tags EXCEPT ![i] = i] /\ UNCHANGED lists
  BY DEF EmbedEnds, TagInv
<1>2. tags' = [j \in 1..MaxTracks |-> tags'[j]]
  BY <1>1 DEF TagInv
<1>3. \A j \in 1..MaxTracks : tags'[j] = tags[j] \/ tags'[j] = j
  BY <1>1 DEF TagInv
<1> QED BY <1>1, <1>2, <1>3 DEF TagInv, TagsMatchFiles, lists

LEMMA NextKeepsTagInv == TagInv /\ [Next]_vars => TagInv'
<1> SUFFICES ASSUME TagInv, [Next]_vars PROVE TagInv'
  OBVIOUS
<1>1. ASSUME NEW o \in Ops, NEW m \in BOOLEAN, NEW k \in Concurrencies, Call(o, m, k) PROVE TagInv'
  BY <1>1, UntaggedMatches DEF Call
<1>2. ASSUME UNCHANGED <<lists, tags>> PROVE TagInv'
  BY <1>2 DEF TagInv, TagsMatchFiles, lists
<1>3. CASE Collect
  BY <1>3 DEF Collect, tagging, TagInv, TagsMatchFiles
<1>4. CASE CheckCancel \/ Lookup \/ LookupFails \/ Nothing \/ Prepare \/ JoinDownload
  BY <1>2, <1>4 DEF CheckCancel, Lookup, LookupFails, Nothing, Prepare, JoinDownload, tagging
<1>5. CASE CollectCanceled \/ FetchCover \/ JoinEmbed \/ SetCancel \/ UNCHANGED vars
  BY <1>2, <1>5 DEF CollectCanceled, FetchCover, JoinEmbed, SetCancel, vars, tagging
<1>6. ASSUME NEW w \in Workers, Worker(w) PROVE TagInv'
  <2>1. CASE EmbedEnds(w)
    BY <2>1, EmbedEndsKeepsTagInv
  <2>2. CASE Claim(w) \/ StartTrack(w) \/ TrackEnds(w) \/ StartEmbed(w) \/ EmbedFails(w)
    BY <1>2, <2>2 DEF Claim, StartTrack, TrackEnds, StartEmbed, EmbedFails, tagging
  <2> QED BY <1>6, <2>1, <2>2 DEF Worker
<1> QED BY <1>1, <1>3, <1>4, <1>5, <1>6 DEF Next, Main

\* A file only ever gets the tags of its own track, for any number of tracks,
\* whichever of them fail and in whatever order the workers tag.
THEOREM TagsAreTheirOwn == Spec => []TagsMatchFiles
<1>1. Init => TagInv
  BY DEF Init, TagInv, Untagged, TagsMatchFiles
<1>2. TagInv => TagsMatchFiles
  BY DEF TagInv
<1> QED BY <1>1, <1>2, NextKeepsTagInv, PTL DEF Spec

-----------------------------------------------------------------------------
(* Types, and the promise *)

Slots == {"none", "ok", "empty", "err", "canceled"}

\* What is collected are the tracks that succeeded, in order.
LEMMA PathsAreFaithful ==
    ASSUME results \in Seq(Slots)
    PROVE  /\ Picked(Indices, Ok) \in Seq(1..Len(results))
           /\ Len(Picked(Indices, Ok)) <= Len(results)
           /\ Promise!Faithful(Picked(Indices, Ok))
<1> DEFINE N == Len(results)
           Rising == {e \in Nat \X Nat : e[1] < e[2]}
           list == Picked(Indices, Ok)
<1>1. N \in Nat /\ DOMAIN results = 1..N
  BY LenProperties
<1>2. Indices \in Seq(1..N) /\ Len(Indices) = N /\ \A i \in 1..N : Indices[i] = i
  BY <1>1 DEF Indices
<1>3. \A i, j \in 1..Len(Indices) : i < j => <<Indices[i], Indices[j]>> \in Rising
  <2>1. \A i, j \in 1..N : i < j => <<i, j>> \in Rising
    BY <1>1
  <2> HIDE DEF Rising, N
  <2> QED BY <1>2, <2>1
<1>4. /\ list \in Seq(1..N) /\ ToSet(list) = ToSet(Indices) \cap Ok /\ Len(list) <= Len(Indices)
      /\ \A i, j \in 1..Len(list) : i < j => <<list[i], list[j]>> \in Rising
  <2> HIDE DEF Rising, N
  <2> QED BY <1>2, <1>3, PickedList, Zenon
<1>5. ToSet(Indices) \cap Ok = Ok
  BY <1>1, <1>2 DEF ToSet, Ok, Indices
<1>6. \A i, j \in 1..Len(list) : i < j => list[i] < list[j]
  BY <1>4
<1>7. DOMAIN list = 1..Len(list)
  BY <1>4, LenProperties
<1>8. Promise!Succeeded = Ok
  BY DEF Promise!Succeeded, Ok
<1> HIDE DEF list, N
<1>9. Promise!Faithful(list)
  BY <1>4, <1>5, <1>6, <1>7, <1>8 DEF Promise!Faithful, ToSet
<1> QED BY <1>2, <1>4, <1>9 DEF list, N

\* The lists are as long as the batch at most, and a worker that tags holds one of
\* the paths.
ListInv ==
    /\ Len(results) <= MaxTracks /\ Len(paths) <= MaxTracks
    /\ pc = "embed" =>
          count = Len(paths) /\ \A w \in Workers : Active(w) => idx[w] <= count

TypeInv == TypeOK /\ ListInv

LEMMA InitTypeInv == Init => TypeInv
<1> SUFFICES ASSUME Init PROVE TypeInv
  OBVIOUS
<1>1. results \in Seq(Slots) /\ paths \in Seq(1..MaxTracks) /\ downloaded_ids \in Seq(1..MaxTracks)
      /\ Len(results) = 0 /\ Len(paths) = 0
  BY EmptySeq DEF Init, Slots
<1>2. tags \in [1..MaxTracks -> 0..MaxTracks] /\ count \in 0..MaxTracks /\ next \in Nat
  BY TrackAssumption DEF Init, Untagged
<1>3. ListInv
  BY <1>1, TrackAssumption DEF Init, ListInv
<1>4. TypeOK
  <2>1. wpc \in [Workers -> {"claim", "start", "run", "done"}] /\ idx \in [Workers -> Nat]
    BY DEF Init
  <2> QED BY <1>1, <1>2, <2>1 DEF Init, TypeOK, Slots
<1> QED BY <1>3, <1>4 DEF TypeInv

\* Steps of the calling thread and of the host outside the pools.
LEMMA MovesKeepTypeInv ==
    ASSUME TypeInv, UNCHANGED <<options, results, interrupted, lists, pool, tagging>>,
           cancel' \in BOOLEAN, pc' = pc \/ pc' \in {"idle", "lookup", "prepare", "collect", "cover"},
           reply' \in {"none", "ok", "failed", "canceled", "err"}
    PROVE  TypeInv'
BY DEF TypeInv, TypeOK, ListInv, Active, options, lists, pool, tagging

LEMMA CallKeepsTypeInv ==
    ASSUME TypeInv, NEW o \in Ops, NEW m \in BOOLEAN, NEW k \in Concurrencies, Call(o, m, k)
    PROVE  TypeInv'
<1>1. /\ results' \in Seq(Slots) /\ paths' \in Seq(1..MaxTracks)
      /\ downloaded_ids' \in Seq(1..MaxTracks) /\ Len(results') = 0 /\ Len(paths') = 0
  BY EmptySeq DEF Call
<1>2. ListInv'
  BY <1>1, TrackAssumption DEF ListInv, Call
<1>3. tags' \in [1..MaxTracks -> 0..MaxTracks]
  BY TrackAssumption DEF Call, Untagged
<1> QED BY <1>1, <1>2, <1>3 DEF TypeInv, TypeOK, Call, Slots, pool

LEMMA PrepareKeepsTypeInv == TypeInv /\ Prepare => TypeInv'
<1> SUFFICES ASSUME TypeInv, Prepare PROVE TypeInv'
  OBVIOUS
<1>1. PICK n \in 0..MaxTracks :
        /\ results' = [i \in 1..n |-> "none"]
        /\ Spawn(n, IF op = "artist" THEN 2 ELSE concurrency)
  BY DEF Prepare
<1>2. results' \in Seq(Slots) /\ Len(results') = n
  BY <1>1, TrackAssumption DEF Slots
<1>3. ListInv'
  BY <1>2, TrackAssumption DEF TypeInv, ListInv, Prepare, Goto, lists
<1>4. /\ next' \in Nat /\ count' \in 0..MaxTracks /\ idx' \in [Workers -> Nat]
      /\ wpc' \in [Workers -> {"claim", "start", "run", "done"}]
  BY <1>1 DEF Spawn
<1> QED BY <1>2, <1>3, <1>4 DEF TypeInv, TypeOK, Prepare, Goto, options, lists, tagging, Slots

LEMMA FetchCoverKeepsTypeInv == TypeInv /\ FetchCover => TypeInv'
<1> SUFFICES ASSUME TypeInv, FetchCover PROVE TypeInv'
  OBVIOUS
<1>1. Len(paths) \in 0..MaxTracks /\ UNCHANGED lists
      /\ Spawn(Len(paths), IF concurrency = 0 THEN 1 ELSE concurrency)
  BY LenProperties, TrackAssumption DEF TypeInv, TypeOK, ListInv, FetchCover
<1>2. /\ next' \in Nat /\ count' \in 0..MaxTracks /\ idx' \in [Workers -> Nat]
      /\ wpc' \in [Workers -> {"claim", "start", "run", "done"}] /\ count' = Len(paths)
  BY <1>1 DEF Spawn
<1>3. ListInv'
  <2>1. \A w \in Workers : ~Active(w)'
    BY <1>1, SpawnFacts
  <2> QED BY <1>1, <1>2, <2>1 DEF TypeInv, ListInv, FetchCover, lists
<1> QED BY <1>2, <1>3 DEF TypeInv, TypeOK, FetchCover, Goto, options, lists, tagging

LEMMA CollectKeepsTypeInv == TypeInv /\ Collect => TypeInv'
<1> SUFFICES ASSUME TypeInv, Collect PROVE TypeInv'
  OBVIOUS
<1>1. /\ paths' \in Seq(1..Len(results)) /\ downloaded_ids' = paths'
      /\ Len(paths') <= Len(results) /\ Len(paths') \in Nat /\ Len(results) \in Nat
  BY PathsAreFaithful, LenProperties DEF TypeInv, TypeOK, Slots, Collect
<1>2. paths' \in Seq(1..MaxTracks) /\ Len(paths') <= MaxTracks
  <2>1. 1..Len(results) \subseteq 1..MaxTracks
    BY <1>1, TrackAssumption DEF TypeInv, ListInv
  <2> QED BY <1>1, <2>1, TrackAssumption DEF TypeInv, ListInv
<1>3. pc' \in {"idle", "cover"} /\ reply' \in {"none", "ok", "failed", "canceled", "err"}
  BY DEF TypeInv, TypeOK, Collect, Goto, Return
<1>4. UNCHANGED <<cancel, options, results, interrupted, pool, tagging>>
  BY DEF Collect
<1> QED BY <1>1, <1>2, <1>3, <1>4 DEF TypeInv, TypeOK, ListInv, options, pool, tagging

\* The workers of either pool.
LEMMA WorkerKeepsTypeInv ==
    ASSUME TypeInv, IInv, TagInv, NEW w \in Workers, Worker(w)
    PROVE  TypeInv'
<1>1. CASE Claim(w)
  <2>1. /\ next' \in Nat /\ idx' \in [Workers -> Nat]
        /\ wpc' \in [Workers -> {"claim", "start", "run", "done"}]
    BY <1>1 DEF TypeInv, TypeOK, Claim
  <2>2. ListInv'
    <3>1. ASSUME pc = "embed", NEW v \in Workers, Active(v)' PROVE idx'[v] <= count
      <4>1. CASE v = w
        BY <1>1, <3>1, <4>1 DEF TypeInv, TypeOK, Claim, Active
      <4>2. CASE v # w
        BY <1>1, <3>1, <4>2 DEF TypeInv, TypeOK, ListInv, Claim, Active
      <4> QED BY <4>1, <4>2
    <3> QED BY <1>1, <3>1 DEF TypeInv, ListInv, Claim, lists
  <2> QED BY <1>1, <2>1, <2>2 DEF TypeInv, TypeOK, Claim, options, lists, tagging
<1>2. CASE StartTrack(w) \/ StartEmbed(w)
  <2>1. wpc' \in [Workers -> {"claim", "start", "run", "done"}] /\ interrupted' \in BOOLEAN
    BY <1>2 DEF TypeInv, TypeOK, StartTrack, StartEmbed
  <2>2. ListInv'
    <3>1. \A v \in Workers : Active(v)' => Active(v)
      BY <1>2 DEF TypeInv, TypeOK, StartTrack, StartEmbed, Active
    <3> QED BY <1>2, <3>1 DEF TypeInv, ListInv, StartTrack, StartEmbed, lists
  <2> QED BY <1>2, <2>1, <2>2 DEF TypeInv, TypeOK, StartTrack, StartEmbed, options, lists, tagging
<1>3. CASE TrackEnds(w)
  <2>1. PICK r \in Slots : results' = [results EXCEPT ![idx[w]] = r]
    BY <1>3 DEF TrackEnds, Slots
  <2>2. results \in Seq(Slots) /\ Len(results) \in Nat
        /\ results = [i \in 1..Len(results) |-> results[i]]
        /\ \A i \in 1..Len(results) : results[i] \in Slots
    BY LenProperties DEF TypeInv, TypeOK, Slots
  <2>3. results' = [i \in 1..Len(results) |-> results'[i]]
        /\ \A i \in 1..Len(results) : results'[i] \in Slots
    BY <2>1, <2>2
  <2>4. results' \in Seq(Slots) /\ Len(results') = Len(results)
    BY <2>2, <2>3
  <2>5. wpc' \in [Workers -> {"claim", "start", "run", "done"}]
    BY <1>3 DEF TypeInv, TypeOK, TrackEnds
  <2>6. ListInv'
    BY <1>3, <2>4 DEF TypeInv, ListInv, TrackEnds, lists
  <2> QED BY <1>3, <2>4, <2>5, <2>6 DEF TypeInv, TypeOK, TrackEnds, options, lists, tagging, Slots
<1>4. CASE EmbedEnds(w)
  <2>1. idx[w] \in 1..Len(paths)
    BY <1>4 DEF EmbedEnds, TypeInv, TypeOK, ListInv, IInv, ClaimInv, Active
  <2>2. paths[idx[w]] \in 1..MaxTracks /\ downloaded_ids = paths
    <3>1. \A i \in 1..Len(paths) : paths[i] \in 1..MaxTracks
      <4>1. paths \in Seq(1..MaxTracks)
        BY DEF TypeInv, TypeOK
      <4> QED BY <4>1, ElementOfSeq
    <3> QED BY <2>1, <3>1 DEF TagInv
  <2>3. tags' \in [1..MaxTracks -> 0..MaxTracks]
    BY <1>4, <2>2 DEF EmbedEnds, TypeInv, TypeOK
  <2>4. wpc' \in [Workers -> {"claim", "start", "run", "done"}]
    BY <1>4 DEF TypeInv, TypeOK, EmbedEnds
  <2>5. ListInv'
    <3>1. \A v \in Workers : Active(v)' => Active(v)
      BY <1>4 DEF TypeInv, TypeOK, EmbedEnds, Active
    <3> QED BY <1>4, <3>1 DEF TypeInv, ListInv, EmbedEnds, lists
  <2> QED BY <1>4, <2>3, <2>4, <2>5 DEF TypeInv, TypeOK, EmbedEnds, options, lists
<1>5. CASE EmbedFails(w)
  <2>1. wpc' \in [Workers -> {"claim", "start", "run", "done"}]
    BY <1>5 DEF TypeInv, TypeOK, EmbedFails
  <2>2. ListInv'
    <3>1. \A v \in Workers : Active(v)' => Active(v)
      BY <1>5 DEF TypeInv, TypeOK, EmbedFails, Active
    <3> QED BY <1>5, <3>1 DEF TypeInv, ListInv, EmbedFails, lists
  <2> QED BY <1>5, <2>1, <2>2 DEF TypeInv, TypeOK, EmbedFails, options, lists
<1> QED BY <1>1, <1>2, <1>3, <1>4, <1>5 DEF Worker

LEMMA NextKeepsTypeInv == TypeInv /\ IInv /\ TagInv /\ [Next]_vars => TypeInv'
<1> SUFFICES ASSUME TypeInv, IInv, TagInv, [Next]_vars PROVE TypeInv'
  OBVIOUS
<1>1. ASSUME NEW o \in Ops, NEW m \in BOOLEAN, NEW k \in Concurrencies, Call(o, m, k)
      PROVE  TypeInv'
  BY <1>1, CallKeepsTypeInv
<1>2. reply \in {"none", "ok", "failed", "canceled", "err"} /\ cancel \in BOOLEAN
  BY DEF TypeInv, TypeOK
<1>3. CASE CheckCancel \/ Lookup \/ LookupFails \/ Nothing \/ SetCancel \/ UNCHANGED vars
  BY <1>2, <1>3, MovesKeepTypeInv DEF CheckCancel, Lookup, LookupFails, Nothing,
     SetCancel, Goto, Return, vars
<1>4. CASE JoinDownload \/ CollectCanceled \/ JoinEmbed
  BY <1>2, <1>4, MovesKeepTypeInv DEF JoinDownload, CollectCanceled, JoinEmbed, Goto, Return
<1>5. CASE Prepare \/ FetchCover \/ Collect
  BY <1>5, PrepareKeepsTypeInv, FetchCoverKeepsTypeInv, CollectKeepsTypeInv
<1>6. ASSUME NEW w \in Workers, Worker(w) PROVE TypeInv'
  BY <1>6, WorkerKeepsTypeInv
<1> QED BY <1>1, <1>3, <1>4, <1>5, <1>6 DEF Next, Main

\* Every variable has its type in every reachable state: the items the workers
\* hold stay within the lists of their pool, also in the second pool, that of the
\* tagging, and the lists within the tracks of the batch.
THEOREM TypeCorrect == Spec => []TypeOK
<1>1. Init => TagInv
  BY DEF Init, TagInv, Untagged, TagsMatchFiles
<1>2. TypeInv => TypeOK
  BY DEF TypeInv
<1> QED BY <1>1, <1>2, InitTypeInv, InitIInv, NextKeepsTypeInv, NextKeepsIInv, NextKeepsTagInv,
           PTL DEF Spec

\* What the promise needs to know of a batch: until the results are collected no
\* path is there, what a worker is about to decide is open, and what is to be
\* tagged are the tracks that succeeded.
PromiseInv ==
    /\ pc \in {"lookup", "prepare"} => results = <<>>
    /\ pc \in {"lookup", "prepare", "download", "collect"} => paths = <<>>
    /\ pc = "download" =>
          /\ \A w \in Workers : Active(w) => results[idx[w]] = "none"
          /\ \A i \in 1..count : next <= i => results[i] = "none"
    /\ pc \in {"cover", "embed"} =>
          /\ Promise!Faithful(paths)
          /\ paths = <<>> => \A i \in DOMAIN results : results[i] = "empty"

\* What holds of a batch in every reachable state.
BatchInv == TypeInv /\ IInv /\ TagInv /\ PromiseInv

\* A batch ends in its one way or the other.
LEMMA CollectDecides ==
    ASSUME BatchInv, Collect
    PROVE  /\ Promise!Faithful(paths')
           /\ \/ pc' = "idle" /\ reply' = "failed" /\ results # <<>>
                   /\ Promise!Succeeded = {} /\ paths' = paths
              \/ /\ (pc' = "idle" /\ reply' = "ok") \/ (pc' = "cover" /\ reply' = reply)
                 /\ paths' = <<>> => \A i \in DOMAIN results : results[i] = "empty"
<1>1. results \in Seq(Slots) /\ pc = "collect" /\ paths = <<>>
  BY DEF BatchInv, TypeInv, TypeOK, PromiseInv, Collect, Slots
<1>2. paths' = Picked(Indices, Ok) /\ Promise!Faithful(Picked(Indices, Ok))
  BY <1>1, PathsAreFaithful DEF Collect
<1>3. {paths'[i] : i \in DOMAIN paths'} = Promise!Succeeded
  BY <1>2 DEF Promise!Faithful
<1>4. paths' = <<>> => Promise!Succeeded = {}
  <2>1. DOMAIN (<<>>) = {}
    OBVIOUS
  <2> QED BY <1>3, <2>1
<1>5. CASE paths' = <<>> /\ SomeFailed /\ Return("failed")
  <2>1. results # <<>>
    BY <1>5 DEF SomeFailed
  <2> QED BY <1>1, <1>2, <1>4, <1>5, <2>1 DEF Return
<1>6. CASE /\ paths' # <<>> \/ ~SomeFailed
           /\ \/ op = "album" /\ metadata /\ Goto("cover")
              \/ ~(op = "album" /\ metadata) /\ Return("ok")
  <2>1. ASSUME paths' = <<>>, NEW i \in DOMAIN results PROVE results[i] = "empty"
    <3>1. results[i] # "ok"
      BY <1>4, <2>1 DEF Promise!Succeeded
    <3>2. results[i] \in {"ok", "empty"}
      BY <1>6, <2>1 DEF SomeFailed
    <3> QED BY <3>1, <3>2
  <2> QED BY <1>2, <1>6, <2>1 DEF Goto, Return
<1> QED BY <1>5, <1>6 DEF Collect

-----------------------------------------------------------------------------

LEMMA CallKeepsPromiseInv ==
    ASSUME NEW o \in Ops, NEW m \in BOOLEAN, NEW k \in Concurrencies, Call(o, m, k)
    PROVE  PromiseInv'
BY DEF Call, PromiseInv

\* Steps of the calling thread and of the host that leave lists, slots and pool alone.
LEMMA MovesKeepPromiseInv ==
    ASSUME PromiseInv, UNCHANGED <<results, paths, pool>>,
           \/ pc' = pc \/ pc' = "idle"
           \/ pc = "lookup" /\ pc' = "prepare"
           \/ pc = "download" /\ pc' = "collect"
    PROVE  PromiseInv'
<1>1. CASE pc' = pc
  BY <1>1 DEF PromiseInv, pool, Active, Promise!Faithful, Promise!Succeeded
<1>2. CASE pc' \in {"idle", "prepare", "collect"}
  BY <1>2 DEF PromiseInv
<1> QED BY <1>1, <1>2

LEMMA PrepareKeepsPromiseInv == PromiseInv /\ Prepare => PromiseInv'
<1> SUFFICES ASSUME PromiseInv, Prepare PROVE PromiseInv'
  OBVIOUS
<1>1. PICK n \in 0..MaxTracks :
        /\ results' = [i \in 1..n |-> "none"]
        /\ Spawn(n, IF op = "artist" THEN 2 ELSE concurrency)
  BY DEF Prepare
<1>2. /\ \A w \in Workers : ~Active(w)'
      /\ count' = n
  BY <1>1, SpawnFacts
<1>3. pc' = "download" /\ paths' = <<>>
  BY DEF PromiseInv, Prepare, Goto, lists
<1> QED BY <1>1, <1>2, <1>3 DEF PromiseInv

LEMMA CollectKeepsPromiseInv == BatchInv /\ Collect => PromiseInv'
<1> SUFFICES ASSUME BatchInv, Collect PROVE PromiseInv'
  OBVIOUS
<1>1. results' = results
  BY DEF Collect
<1>2. CASE pc' = "idle"
  BY <1>2 DEF PromiseInv
<1>3. CASE pc' = "cover"
  <2>1. /\ Promise!Faithful(paths')
        /\ paths' = <<>> => \A i \in DOMAIN results : results[i] = "empty"
    BY <1>3, CollectDecides
  <2> QED BY <1>1, <1>3, <2>1 DEF PromiseInv, Promise!Faithful, Promise!Succeeded
<1> QED BY <1>2, <1>3, CollectDecides

LEMMA FetchCoverKeepsPromiseInv == PromiseInv /\ FetchCover => PromiseInv'
BY DEF PromiseInv, FetchCover, Goto, lists, Promise!Faithful, Promise!Succeeded

\* The outcome goes to an open slot, which no other worker holds.
LEMMA TrackEndsKeepsPromiseInv ==
    ASSUME BatchInv, NEW w \in Workers, TrackEnds(w)
    PROVE  /\ PromiseInv'
           /\ idx[w] \in DOMAIN results /\ results[idx[w]] = "none"
<1> USE DEF BatchInv
<1>1. PICK r \in {"ok", "empty", "err", "canceled"} : results' = [results EXCEPT ![idx[w]] = r]
  BY DEF TrackEnds
<1>2. /\ pc = "download" /\ pc' = pc /\ wpc[w] = "run" /\ wpc' = [wpc EXCEPT ![w] = "claim"]
      /\ UNCHANGED <<paths, count, next, idx>>
  BY DEF TrackEnds, lists
<1>3. count \in Nat /\ results = [i \in 1..count |-> results[i]] /\ idx[w] \in 1..count
      /\ idx[w] < next
  BY <1>2 DEF IInv, DownloadInv, PoolTypeOK, ClaimInv, Active
<1>4. results[idx[w]] = "none"
  BY <1>2 DEF PromiseInv, Active
<1>5. ASSUME NEW v \in Workers, Active(v)' PROVE results'[idx'[v]] = "none"
  <2>1. v # w /\ Active(v)
    BY <1>2, <1>5 DEF Active, IInv, PoolTypeOK
  <2>2. idx[v] # idx[w]
    BY <1>2, <2>1 DEF Active, IInv, ClaimInv, ItemsExclusive
  <2>3. idx[v] \in 1..count
    BY <1>2, <1>3, <2>1 DEF IInv, PoolTypeOK, ClaimInv, DownloadInv
  <2>4. results[idx[v]] = "none"
    BY <1>2, <2>1 DEF PromiseInv
  <2> QED BY <1>1, <1>2, <1>3, <2>2, <2>3, <2>4
<1>6. ASSUME NEW i \in 1..count, next <= i PROVE results'[i] = "none"
  <2>1. i # idx[w] /\ results[i] = "none"
    BY <1>2, <1>3, <1>6 DEF PromiseInv, IInv, PoolTypeOK
  <2> QED BY <1>1, <1>3, <2>1
<1>7. PromiseInv'
  BY <1>2, <1>5, <1>6 DEF PromiseInv
<1> QED BY <1>3, <1>4, <1>7

LEMMA WorkerKeepsPromiseInv ==
    ASSUME BatchInv, NEW w \in Workers, Worker(w)
    PROVE  PromiseInv'
<1> USE DEF BatchInv
<1>1. CASE Claim(w)
  <2>1. ASSUME pc = "download", NEW v \in Workers, Active(v)' PROVE results[idx'[v]] = "none"
    <3>1. CASE v = w
      <4>1. next <= count /\ idx'[v] = next
        BY <1>1, <2>1, <3>1 DEF Claim, Active, IInv, PoolTypeOK
      <4>2. next \in 1..count /\ next <= next
        BY <2>1, <4>1 DEF IInv, PoolTypeOK, DownloadInv
      <4> QED BY <2>1, <4>1, <4>2 DEF PromiseInv
    <3>2. CASE v # w
      <4>1. Active(v) /\ idx'[v] = idx[v]
        BY <1>1, <2>1, <3>2 DEF Claim, Active, IInv, PoolTypeOK
      <4> QED BY <2>1, <4>1 DEF PromiseInv
    <3> QED BY <3>1, <3>2
  <2>2. ASSUME pc = "download", NEW i \in 1..count, next' <= i PROVE results[i] = "none"
    <3>1. next <= i
      BY <1>1, <2>2 DEF Claim, IInv, PoolTypeOK, DownloadInv
    <3> QED BY <2>2, <3>1 DEF PromiseInv
  <2>3. UNCHANGED <<pc, results, paths, count>>
    BY <1>1 DEF Claim, lists
  <2> QED BY <2>1, <2>2, <2>3 DEF PromiseInv, Promise!Faithful, Promise!Succeeded
<1>2. CASE StartTrack(w) \/ StartEmbed(w) \/ EmbedEnds(w) \/ EmbedFails(w)
  <2>1. \A v \in Workers : Active(v)' => Active(v)
    BY <1>2 DEF StartTrack, StartEmbed, EmbedEnds, EmbedFails, Active, IInv, PoolTypeOK
  <2>2. UNCHANGED <<pc, results, paths, count, next, idx>>
    BY <1>2 DEF StartTrack, StartEmbed, EmbedEnds, EmbedFails, lists
  <2> QED BY <2>1, <2>2 DEF PromiseInv, Promise!Faithful, Promise!Succeeded
<1>3. CASE TrackEnds(w)
  BY <1>3, TrackEndsKeepsPromiseInv
<1> QED BY <1>1, <1>2, <1>3 DEF Worker

LEMMA NextKeepsBatchInv == BatchInv /\ [Next]_vars => BatchInv'
<1> SUFFICES ASSUME BatchInv, [Next]_vars PROVE BatchInv'
  OBVIOUS
<1>1. TypeInv' /\ IInv' /\ TagInv'
  BY NextKeepsTypeInv, NextKeepsIInv, NextKeepsTagInv DEF BatchInv
<1>2. PromiseInv'
  <2>1. PromiseInv
    BY DEF BatchInv
  <2>2. CASE \E o \in Ops, m \in BOOLEAN, k \in Concurrencies : Call(o, m, k)
    BY <2>2, CallKeepsPromiseInv
  <2>3. CASE CheckCancel \/ Lookup \/ LookupFails \/ Nothing \/ SetCancel \/ UNCHANGED vars
    BY <2>1, <2>3, MovesKeepPromiseInv DEF CheckCancel, Lookup, LookupFails, Nothing,
       SetCancel, Goto, Return, vars, lists
  <2>4. CASE JoinDownload \/ CollectCanceled \/ JoinEmbed
    BY <2>1, <2>4, MovesKeepPromiseInv DEF JoinDownload, CollectCanceled, JoinEmbed, Goto,
       Return, lists
  <2>5. CASE Prepare \/ FetchCover \/ Collect
    BY <2>1, <2>5, PrepareKeepsPromiseInv, FetchCoverKeepsPromiseInv, CollectKeepsPromiseInv
  <2>6. CASE \E w \in Workers : Worker(w)
    BY <2>6, WorkerKeepsPromiseInv
  <2> QED BY <2>2, <2>3, <2>4, <2>5, <2>6 DEF Next, Main
<1> QED BY <1>1, <1>2 DEF BatchInv

LEMMA InitBatchInv == Init => BatchInv
<1>1. Init => TagInv /\ PromiseInv
  BY DEF Init, TagInv, Untagged, TagsMatchFiles, PromiseInv
<1> QED BY <1>1, InitTypeInv, InitIInv DEF BatchInv

\* What a worker does is a decision about one open track, or nothing that the
\* host can see.
LEMMA WorkerKeepsPromise ==
    ASSUME BatchInv, NEW w \in Workers, Worker(w)
    PROVE  Promise!Decide \/ UNCHANGED <<pc # "idle", results, reply, paths>>
<1>1. CASE TrackEnds(w)
  <2>1. PICK r \in {"ok", "empty", "err", "canceled"} : results' = [results EXCEPT ![idx[w]] = r]
    BY <1>1 DEF TrackEnds
  <2>2. idx[w] \in DOMAIN results /\ results[idx[w]] = "none"
    BY <1>1, TrackEndsKeepsPromiseInv
  <2>3. pc = "download" /\ UNCHANGED <<pc, reply, paths>>
    BY <1>1 DEF TrackEnds, lists
  <2> QED BY <2>1, <2>2, <2>3 DEF Promise!Decide, Promise!Outcomes
<1>2. CASE Claim(w) \/ StartTrack(w) \/ StartEmbed(w) \/ EmbedEnds(w) \/ EmbedFails(w)
  BY <1>2 DEF Claim, StartTrack, StartEmbed, EmbedEnds, EmbedFails, lists
<1> QED BY <1>1, <1>2 DEF Worker

\* Each step of a batch is one the promise allows.
LEMMA StepKeepsPromise ==
    ASSUME BatchInv, [Next]_vars
    PROVE  [Promise!Next]_<<pc # "idle", results, reply, paths>>
<1> DEFINE Same == UNCHANGED <<pc # "idle", results, reply, paths>>
<1>1. CASE \E o \in Ops, m \in BOOLEAN, k \in Concurrencies : Call(o, m, k)
  <2>1. Promise!Open
    BY <1>1 DEF Call, Promise!Open
  <2> QED BY <2>1 DEF Promise!Next
<1>2. CASE CheckCancel \/ LookupFails \/ Nothing \/ CollectCanceled
  <2>1. pc # "idle" /\ pc' = "idle" /\ reply' \in {"canceled", "err"} /\ UNCHANGED <<results, paths>>
    BY <1>2 DEF CheckCancel, LookupFails, Nothing, CollectCanceled, Return, lists
  <2>2. Promise!Close
    BY <2>1 DEF Promise!Close
  <2> QED BY <2>2 DEF Promise!Next
<1>3. CASE Lookup \/ JoinDownload \/ FetchCover \/ SetCancel \/ UNCHANGED vars
  BY <1>3 DEF Lookup, JoinDownload, FetchCover, SetCancel, Goto, lists, vars
<1>4. CASE Prepare
  <2>1. PICK n \in 0..MaxTracks : results' = [i \in 1..n |-> "none"]
    BY <1>4 DEF Prepare
  <2>2. results' \in Seq({"none"})
    BY <2>1, TrackAssumption
  <2>3. pc # "idle" /\ pc' # "idle" /\ results = <<>> /\ UNCHANGED <<reply, paths>>
    BY <1>4 DEF Prepare, Goto, lists, BatchInv, PromiseInv
  <2>4. Promise!Plan
    BY <2>2, <2>3 DEF Promise!Plan
  <2> QED BY <2>4 DEF Promise!Next
<1>5. CASE Collect
  <2>1. pc # "idle" /\ results' = results
    BY <1>5 DEF Collect
  <2>2. CASE pc' = "cover" /\ reply' = reply /\ Promise!Faithful(paths')
    <3>1. Promise!Collect
      BY <2>1, <2>2 DEF Promise!Collect
    <3> QED BY <3>1 DEF Promise!Next
  <2>3. CASE /\ pc' = "idle"
             /\ \/ /\ reply' = "failed" /\ results # <<>>
                   /\ Promise!Succeeded = {} /\ paths' = paths
                \/ /\ reply' = "ok" /\ Promise!Faithful(paths')
                   /\ paths' = <<>> => \A i \in DOMAIN results : results[i] = "empty"
    <3>1. Promise!Close
      BY <2>1, <2>3 DEF Promise!Close
    <3> QED BY <3>1 DEF Promise!Next
  <2> QED BY <1>5, <2>2, <2>3, CollectDecides
<1>6. CASE JoinEmbed
  <2>1. /\ pc = "embed" /\ pc' = "idle" /\ reply' \in {"err", "ok"} /\ UNCHANGED <<results, paths>>
    BY <1>6 DEF JoinEmbed, Return, lists
  <2>2. /\ Promise!Faithful(paths')
        /\ paths' = <<>> => \A i \in DOMAIN results : results[i] = "empty"
    BY <2>1 DEF BatchInv, PromiseInv
  <2>3. Promise!Close
    BY <2>1, <2>2 DEF Promise!Close
  <2> QED BY <2>3 DEF Promise!Next
<1>7. CASE \E w \in Workers : Worker(w)
  BY <1>7, WorkerKeepsPromise DEF Promise!Next
<1> QED BY <1>1, <1>2, <1>3, <1>4, <1>5, <1>6, <1>7 DEF Next, Main

\* For any number of tracks and workers, a batch keeps its promise to the host: no
\* slot is written twice or after the return, and the reply and the paths agree
\* with the slots.
THEOREM PromiseIsKept == Spec => KeepsPromise
<1>1. Init => Promise!Init
  BY DEF Init, Promise!Init
<1>2. BatchInv /\ [Next]_vars => [Promise!Next]_<<pc # "idle", results, reply, paths>>
  BY StepKeepsPromise
<1> QED BY <1>1, <1>2, InitBatchInv, NextKeepsBatchInv, PTL DEF Spec, KeepsPromise, Promise!Spec
=============================================================================
