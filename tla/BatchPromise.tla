---------------------------- MODULE BatchPromise ----------------------------
(* What a batch download promises the host: each track is decided once, while *)
(* the batch runs and by nobody after it, and the reply agrees with what was  *)
(* decided.                                                                   *)
EXTENDS Naturals, Sequences

VARIABLES
    running,   \* whether the batch is under way
    results,   \* the outcome of each track
    reply,     \* how the batch returned
    paths      \* the tracks whose paths it returns

Outcomes == {"ok", "empty", "err", "canceled"}
Succeeded == {i \in DOMAIN results : results[i] = "ok"}

\* The paths are those of the tracks that succeeded, in the order of the tracks.
Faithful(ps) ==
    /\ {ps[i] : i \in DOMAIN ps} = Succeeded
    /\ \A i, j \in DOMAIN ps : i < j => ps[i] < ps[j]

Init == running = FALSE /\ results = <<>> /\ reply = "none" /\ paths = <<>>

Open ==
    /\ ~running
    /\ running' = TRUE /\ results' = <<>> /\ reply' = "none" /\ paths' = <<>>

\* The tracks of the batch become known.
Plan ==
    /\ running /\ results = <<>>
    /\ results' \in Seq({"none"})
    /\ UNCHANGED <<running, reply, paths>>

Decide ==
    /\ running
    /\ \E i \in DOMAIN results, r \in Outcomes :
          results[i] = "none" /\ results' = [results EXCEPT ![i] = r]
    /\ UNCHANGED <<running, reply, paths>>

Collect ==
    /\ running
    /\ Faithful(paths')
    /\ UNCHANGED <<running, results, reply>>

\* A batch of which some track succeeded never fails with "All tracks failed",
\* and one that succeeds returns them all.
Close ==
    /\ running /\ running' = FALSE
    /\ \/ reply' = "ok" /\ Faithful(paths')
             /\ (paths' = <<>> => \A i \in DOMAIN results : results[i] = "empty")
       \/ reply' = "failed" /\ results # <<>> /\ Succeeded = {} /\ UNCHANGED paths
       \/ reply' \in {"canceled", "err"} /\ UNCHANGED paths
    /\ UNCHANGED results

Next == Open \/ Plan \/ Decide \/ Collect \/ Close

Spec == Init /\ [][Next]_<<running, results, reply, paths>>
=============================================================================
