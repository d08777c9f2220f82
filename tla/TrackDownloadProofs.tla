------------------------ MODULE TrackDownloadProofs ------------------------
(* Proofs about TrackDownload for any number of blocks and retries and tags   *)
(* of any size.  A file is only promised anything while it is not exposed, so *)
(* every part of the invariant that speaks of the blocks starts from that.    *)
EXTENDS TrackDownload, TLAPS

\* A file that is not exposed is a beginning of the remote file, or its audio
\* behind tags with which it is no shorter than the remote file.
SafeInv ==
    \/ exposed
    \/ \E n \in 0..File!Total : file = File!Prefix(n)
    \/ \E k \in TagSizes : k >= HeadBlocks /\ file = File!Tagged(k)

\* A resume starts at the size of the file, so it goes on with the block that
\* is missing.
OffsetInv == pc \in {"url", "request"} => offset = File!Size(file)

\* What was sent is what is in the file.
TransferInv == pc = "transfer" => exposed \/ file = File!Prefix(sent)

\* Tagging, and a returned path, come after the last block.
CompleteInv == pc \in {"finish", "embed"} => exposed \/ File!Complete(file)

\* A call that is under way has returned nothing yet.
ResultInv == pc # "idle" => result = "none"

IInv == TypeOK /\ SafeInv /\ OffsetInv /\ TransferInv /\ CompleteInv /\ ResultInv

-----------------------------------------------------------------------------
(* Files *)

\* The type and size of an untouched file.
LEMMA PrefixFacts ==
    ASSUME NEW n \in Nat
    PROVE  /\ File!Prefix(n) \in [tag : Nat, data : Seq(Nat)]
           /\ File!Prefix(n).tag = 0
           /\ Len(File!Prefix(n).data) = n
           /\ File!Size(File!Prefix(n)) = n
BY DEF File!Prefix, File!Size

\* The type and size of a tagged file.
LEMMA TaggedFacts ==
    ASSUME NEW k \in TagSizes
    PROVE  /\ File!Tagged(k) \in [tag : Nat, data : Seq(Nat)]
           /\ File!Tagged(k).tag = k /\ k > 0
BY HeadAssumption, BodyAssumption, TagAssumption DEF File!Tagged

\* A tagged file does not pass for a partial one if its tags take as much room
\* as the metadata they replaced, and only then.
LEMMA TaggedIsLong ==
    ASSUME NEW k \in TagSizes
    PROVE  /\ File!Size(File!Tagged(k)) \in Nat
           /\ File!Size(File!Tagged(k)) >= File!Total <=> k >= HeadBlocks
BY HeadAssumption, BodyAssumption, TagAssumption DEF File!Tagged, File!Size, File!Total

\* A block received after n others makes n + 1 of them.
LEMMA PrefixGrows ==
    ASSUME NEW n \in Nat
    PROVE  [File!Prefix(n) EXCEPT !.data = Append(@, n + 1)] = File!Prefix(n + 1)
<1> DEFINE old == [i \in 1..n |-> i]
           new == [i \in 1..(n + 1) |-> i]
<1>1. old \in Seq(Nat) /\ new \in Seq(Nat) /\ Len(old) = n /\ Len(new) = n + 1
  OBVIOUS
<1>2. \A i \in 1..n : old[i] = i
  OBVIOUS
<1>3. \A i \in 1..(n + 1) : new[i] = i
  OBVIOUS
<1> HIDE DEF old, new
<1>4. Append(old, n + 1) \in Seq(Nat) /\ Len(Append(old, n + 1)) = n + 1
  BY <1>1
<1>5. \A i \in 1..(n + 1) : Append(old, n + 1)[i] = new[i]
  BY <1>1, <1>2, <1>3
<1>6. Append(old, n + 1) = new
  BY <1>1, <1>4, <1>5
<1>7. File!Prefix(n) = [tag |-> 0, data |-> old] /\ File!Prefix(n + 1) = [tag |-> 0, data |-> new]
  BY DEF File!Prefix, old, new
<1>8. [[tag |-> 0, data |-> old] EXCEPT !.data = Append(@, n + 1)]
        = [tag |-> 0, data |-> Append(old, n + 1)]
  OBVIOUS
<1> QED BY <1>6, <1>7, <1>8

LEMMA TotalType == File!Total \in Nat \ {0}
BY HeadAssumption, BodyAssumption DEF File!Total

\* An empty file is the shortest prefix.
LEMMA EmptyIsPrefix == File!Empty = File!Prefix(0)
<1>1. <<>> = [i \in 1..0 |-> i]
  OBVIOUS
<1> QED BY <1>1 DEF File!Prefix, File!Empty

\* An unfinished file is not a complete one.
LEMMA PrefixIncomplete ==
    ASSUME NEW n \in Nat, n < File!Total
    PROVE  ~File!Complete(File!Prefix(n))
<1>1. File!Prefix(n) # File!Prefix(File!Total)
  BY PrefixFacts, TotalType
<1>2. ASSUME NEW k \in TagSizes PROVE File!Prefix(n) # File!Tagged(k)
  <2>1. File!Prefix(n).tag = 0
    BY PrefixFacts
  <2>2. File!Tagged(k).tag > 0
    BY <1>2, TaggedFacts
  <2> QED BY <2>1, <2>2
<1> QED BY <1>1, <1>2 DEF File!Complete

\* What is sound and not exposed is one of the two.
LEMMA SafeIsSound == SafeInv => FileIsSound
BY DEF SafeInv, FileIsSound, File!Sound

\* Of all files that are not exposed only an unfinished one is shorter than the
\* remote file.
LEMMA ShortIsPrefix ==
    ASSUME SafeInv, ~exposed, File!Size(file) < File!Total
    PROVE  File!Size(file) \in Nat /\ file = File!Prefix(File!Size(file))
<1>1. CASE \E n \in 0..File!Total : file = File!Prefix(n)
  <2>1. PICK n \in 0..File!Total : file = File!Prefix(n)
    BY <1>1
  <2> QED BY <2>1, PrefixFacts, TotalType
<1>2. CASE \E k \in TagSizes : k >= HeadBlocks /\ file = File!Tagged(k)
  <2>1. PICK k \in TagSizes : k >= HeadBlocks /\ file = File!Tagged(k)
    BY <1>2
  <2>2. File!Size(file) >= File!Total /\ File!Size(file) \in Nat
    BY <2>1, TaggedIsLong
  <2> QED BY <2>2, TotalType
<1> QED BY <1>1, <1>2 DEF SafeInv

\* One that is not shorter than the remote file is complete.
LEMMA LongIsComplete ==
    ASSUME SafeInv, ~exposed, File!Size(file) >= File!Total
    PROVE  File!Complete(file)
<1>1. CASE \E n \in 0..File!Total : file = File!Prefix(n)
  <2>1. PICK n \in 0..File!Total : file = File!Prefix(n)
    BY <1>1
  <2>2. n = File!Total
    BY <2>1, PrefixFacts, TotalType
  <2> QED BY <2>1, <2>2 DEF File!Complete
<1>2. CASE \E k \in TagSizes : k >= HeadBlocks /\ file = File!Tagged(k)
  BY <1>2 DEF File!Complete
<1> QED BY <1>1, <1>2 DEF SafeInv

\* Tagging a complete file leaves its audio behind tags.
LEMMA TaggingComplete ==
    ASSUME NEW f, File!Complete(f), NEW k \in TagSizes
    PROVE  [tag |-> k,
            data |-> IF f.tag = 0 THEN SubSeq(f.data, HeadBlocks + 1, Len(f.data))
                                  ELSE f.data] = File!Tagged(k)
<1>1. CASE f = File!Prefix(File!Total)
  <2> DEFINE all == [i \in 1..(HeadBlocks + BodyBlocks) |-> i]
             audio == [i \in 1..BodyBlocks |-> HeadBlocks + i]
  <2>1. SubSeq(all, HeadBlocks + 1, HeadBlocks + BodyBlocks) = audio
    <3>1. all \in Seq(Nat) /\ Len(all) = HeadBlocks + BodyBlocks
          /\ audio \in Seq(Nat) /\ Len(audio) = BodyBlocks
      BY HeadAssumption, BodyAssumption
    <3>2. /\ \A i \in 1..(HeadBlocks + BodyBlocks) : all[i] = i
          /\ \A i \in 1..BodyBlocks : audio[i] = HeadBlocks + i
      OBVIOUS
    <3> HIDE DEF all, audio
    <3> DEFINE rest == SubSeq(all, HeadBlocks + 1, HeadBlocks + BodyBlocks)
    <3>3. rest \in Seq(Nat) /\ Len(rest) = BodyBlocks
      BY <3>1, HeadAssumption, BodyAssumption
    <3>4. \A i \in 1..BodyBlocks : rest[i] = audio[i]
      BY <3>1, <3>2, HeadAssumption, BodyAssumption
    <3> HIDE DEF rest
    <3>5. rest = audio
      BY <3>1, <3>3, <3>4
    <3> QED BY <3>5 DEF rest
  <2>2. f.tag = 0 /\ Len(f.data) = HeadBlocks + BodyBlocks
    BY <1>1, PrefixFacts, TotalType DEF File!Total
  <2>3. f.data = [i \in 1..(HeadBlocks + BodyBlocks) |-> i]
    BY <1>1 DEF File!Prefix, File!Total
  <2> QED BY <2>1, <2>2, <2>3 DEF File!Tagged
<1>2. CASE \E j \in TagSizes : f = File!Tagged(j)
  <2>1. PICK j \in TagSizes : f = File!Tagged(j)
    BY <1>2
  <2>2. f.tag # 0
    BY <2>1, TaggedFacts, TagAssumption
  <2> QED BY <2>1, <2>2 DEF File!Tagged
<1> QED BY <1>1, <1>2 DEF File!Complete

-----------------------------------------------------------------------------
(* The inductive invariant *)

LEMMA InitIInv == Init => IInv
<1> SUFFICES ASSUME Init PROVE IInv
  OBVIOUS
<1>1. file \in [tag : Nat, data : Seq(Nat)] /\ exposed \in BOOLEAN
  BY PrefixFacts, TaggedFacts, TotalType DEF Init, File!Init
<1>2. TypeOK
  <2>1. attempt \in 0..MAX_DOWNLOAD_RETRIES /\ offset \in Nat /\ sent \in 0..File!Total
    BY RetryAssumption, TotalType DEF Init
  <2>2. ignored \in BOOLEAN /\ cancel \in BOOLEAN /\ metadata \in BOOLEAN
    BY DEF Init
  <2> QED BY <1>1, <2>1, <2>2 DEF Init, TypeOK
<1>3. SafeInv
  <2>1. CASE \E n \in 0..File!Total : file = File!Prefix(n)
    BY <2>1 DEF SafeInv
  <2>2. CASE \E k \in TagSizes : file = File!Tagged(k)
    <3>1. PICK k \in TagSizes : file = File!Tagged(k)
      BY <2>2
    <3>2. k >= HeadBlocks \/ File!Size(file) < File!Total
      BY <3>1, TaggedIsLong, TotalType
    <3>3. file.tag > 0
      BY <3>1, TaggedFacts
    <3> QED BY <3>1, <3>2, <3>3 DEF SafeInv, Init, File!Init
  <2> QED BY <2>1, <2>2 DEF Init, File!Init
<1>4. OffsetInv /\ TransferInv /\ CompleteInv /\ ResultInv
  BY DEF Init, OffsetInv, TransferInv, CompleteInv, ResultInv
<1> QED BY <1>2, <1>3, <1>4 DEF IInv

\* The steps that only move the call on, wherever it may not be afterwards.
LEMMA MovesKeepIInv ==
    ASSUME IInv,
           UNCHANGED <<file, exposed, sent>>,
           ignored' \in BOOLEAN, cancel' \in BOOLEAN, metadata' \in BOOLEAN,
           op' \in {"none"} \cup Ops, attempt' \in 0..MAX_DOWNLOAD_RETRIES,
           offset' = offset,
           result' \in {"none", "ok", "canceled", "range", "err"},
           pc' # "idle" => result' = "none",
           \/ pc' \in {"idle", "lookup", "prepare", "attempt", "backoff"}
           \/ pc' = pc
           \/ pc = "url" /\ pc' = "request"
           \/ pc' \in {"finish", "embed"} /\ (exposed \/ File!Complete(file))
    PROVE  IInv'
BY DEF IInv, TypeOK, SafeInv, OffsetInv, TransferInv, CompleteInv, ResultInv,
       File!Complete, File!Prefix, File!Tagged, File!Total, File!Size

\* A failed step either goes back to another attempt or ends the call.
LEMMA FailFacts ==
    ASSUME TypeOK, NEW e, Fail(e)
    PROVE  /\ pc' \in {"idle", "backoff"}
           /\ attempt' \in 0..MAX_DOWNLOAD_RETRIES
           /\ result' \in {"none", "ok", "canceled", "range", "err"}
           /\ pc' = "backoff" => result' = result
           /\ result' # "ok" \/ result' = result
BY RetryAssumption DEF TypeOK, Fail, Goto, Return

LEMMA CallKeepsIInv ==
    ASSUME IInv, NEW o \in Ops, NEW m \in BOOLEAN, Call(o, m)
    PROVE  IInv'
<1>1. pc' \in {"lookup", "attempt"} /\ op' \in {"none"} \cup Ops /\ metadata' \in BOOLEAN
  BY DEF Call
<1>2. attempt' \in 0..MAX_DOWNLOAD_RETRIES
  BY RetryAssumption DEF Call
<1> QED BY <1>1, <1>2, MovesKeepIInv DEF IInv, TypeOK, ResultInv, Call, disk

LEMMA StartAttemptKeepsIInv == IInv /\ StartAttempt => IInv'
<1> SUFFICES ASSUME IInv, StartAttempt PROVE IInv'
  OBVIOUS
<1>1. File!Size(file) \in Nat
  BY DEF IInv, TypeOK, File!Size
<1> QED BY <1>1 DEF IInv, TypeOK, SafeInv, OffsetInv, TransferInv, CompleteInv, ResultInv,
      StartAttempt, Goto, options, disk, File!Complete, File!Prefix, File!Tagged,
      File!Total, File!Size

LEMMA RangeRefusedKeepsIInv == IInv /\ RangeRefused => IInv'
<1> SUFFICES ASSUME IInv, RangeRefused PROVE IInv'
  OBVIOUS
<1>1. exposed \/ File!Complete(file)
  BY LongIsComplete DEF IInv, OffsetInv, RangeRefused
<1> QED BY <1>1, MovesKeepIInv DEF IInv, TypeOK, ResultInv, RangeRefused, Goto, Return,
           options, disk

LEMMA ResumeKeepsIInv == IInv /\ Resume => IInv'
<1> SUFFICES ASSUME IInv, Resume PROVE IInv'
  OBVIOUS
<1>1. exposed \/ file = File!Prefix(offset)
  BY ShortIsPrefix DEF IInv, OffsetInv, Resume
<1>2. offset \in 0..File!Total
  BY TotalType DEF IInv, TypeOK, Resume
<1> QED BY <1>1, <1>2 DEF IInv, TypeOK, SafeInv, OffsetInv, TransferInv, CompleteInv,
      ResultInv, Resume, Goto, options, disk, File!Complete, File!Prefix, File!Tagged,
      File!Total, File!Size

LEMMA RestartKeepsIInv == IInv /\ Restart => IInv'
<1> SUFFICES ASSUME IInv, Restart PROVE IInv'
  OBVIOUS
<1>1. file' = File!Prefix(0) /\ sent' = 0 /\ pc' = "transfer"
  BY EmptyIsPrefix DEF Restart, Goto
<1>2. file' \in [tag : Nat, data : Seq(Nat)]
  BY <1>1, PrefixFacts
<1>3. TypeOK'
  <2>1. exposed' \in BOOLEAN /\ ignored' \in BOOLEAN
    BY DEF Restart
  <2> QED BY <1>1, <1>2, <2>1, TotalType
         DEF IInv, TypeOK, Restart, Goto, options, File!Total
<1>4. SafeInv'
  BY <1>1, TotalType DEF SafeInv, File!Total, File!Prefix
<1>5. TransferInv'
  <2>1. file' = [tag |-> 0, data |-> [i \in 1..sent' |-> i]]
    BY <1>1 DEF File!Prefix
  <2> QED BY <2>1 DEF TransferInv, File!Prefix
<1> QED BY <1>1, <1>3, <1>4, <1>5 DEF IInv, OffsetInv, CompleteInv, ResultInv, Restart, Goto

LEMMA ReceiveKeepsIInv == IInv /\ Receive => IInv'
<1> SUFFICES ASSUME IInv, Receive PROVE IInv'
  OBVIOUS
<1>1. sent \in Nat /\ sent + 1 \in 0..File!Total
  BY TotalType DEF IInv, TypeOK, Receive
<1>2. exposed' \/ file' = File!Prefix(sent + 1)
  BY <1>1, PrefixGrows DEF IInv, TransferInv, Receive
<1>3. file' \in [tag : Nat, data : Seq(Nat)]
  <2>1. file.tag \in Nat /\ file.data \in Seq(Nat) /\ file = [tag |-> file.tag, data |-> file.data]
    BY DEF IInv, TypeOK
  <2>2. Append(file.data, sent + 1) \in Seq(Nat)
    BY <1>1, <2>1
  <2>3. file' = [tag |-> file.tag, data |-> Append(file.data, sent + 1)]
    BY <2>1 DEF Receive
  <2> QED BY <2>1, <2>2, <2>3
<1>4. TypeOK'
  BY <1>1, <1>3 DEF IInv, TypeOK, Receive, options, File!Total
<1>5. SafeInv'
  BY <1>1, <1>2 DEF SafeInv, File!Total, File!Prefix
<1> QED BY <1>2, <1>4, <1>5 DEF IInv, OffsetInv, TransferInv, CompleteInv, ResultInv,
           Receive, File!Prefix

LEMMA TransferEndsKeepsIInv == IInv /\ TransferEnds => IInv'
<1> SUFFICES ASSUME IInv, TransferEnds PROVE IInv'
  OBVIOUS
<1>1. exposed \/ File!Complete(file)
  BY DEF IInv, TransferInv, TransferEnds, File!Complete
<1> QED BY <1>1, MovesKeepIInv DEF IInv, TypeOK, ResultInv, TransferEnds, Goto, options, disk

\* Tagging a complete file completes it; tagging anything else leaves it exposed.
LEMMA EmbedFacts ==
    ASSUME IInv, Embed
    PROVE  /\ file' \in [tag : Nat, data : Seq(Nat)]
           /\ exposed \/ \E k \in TagSizes : file' = File!Tagged(k)
           /\ exposed' \/ \E k \in TagSizes : k >= HeadBlocks /\ file' = File!Tagged(k)
<1>1. PICK k \in TagSizes :
        file' = [tag |-> k,
                 data |-> IF file.tag = 0
                            THEN SubSeq(file.data, HeadBlocks + 1, Len(file.data))
                            ELSE file.data]
  BY DEF Embed
<1>2. file' \in [tag : Nat, data : Seq(Nat)]
  <2>1. SubSeq(file.data, HeadBlocks + 1, Len(file.data)) \in Seq(Nat)
    BY HeadAssumption DEF IInv, TypeOK
  <2>2. k \in Nat /\ file.data \in Seq(Nat)
    BY TagAssumption DEF IInv, TypeOK
  <2> QED BY <1>1, <2>1, <2>2
<1>3. exposed \/ file' = File!Tagged(k)
  BY <1>1, TaggingComplete DEF IInv, CompleteInv, Embed
<1>4. exposed' = (exposed \/ File!Size(file') < File!Total)
  BY DEF Embed
<1>5. ASSUME ~exposed' PROVE k >= HeadBlocks /\ file' = File!Tagged(k)
  <2>1. file' = File!Tagged(k) /\ ~(File!Size(file') < File!Total)
    BY <1>3, <1>4, <1>5
  <2>2. File!Size(File!Tagged(k)) >= File!Total
    BY <2>1, TaggedIsLong, TotalType
  <2> QED BY <2>1, <2>2, TaggedIsLong
<1> QED BY <1>2, <1>3, <1>5

LEMMA EmbedKeepsIInv == IInv /\ Embed => IInv'
<1> SUFFICES ASSUME IInv, Embed PROVE IInv'
  OBVIOUS
<1>1. file' \in [tag : Nat, data : Seq(Nat)] /\ exposed' \in BOOLEAN
  BY EmbedFacts DEF Embed
<1>2. TypeOK'
  BY <1>1 DEF IInv, TypeOK, Embed, Return, options, File!Total
<1>3. SafeInv'
  BY EmbedFacts DEF SafeInv, File!Tagged
<1> QED BY <1>2, <1>3 DEF IInv, OffsetInv, TransferInv, CompleteInv, ResultInv, Embed, Return

\* A tagging that is broken off leaves the file alone, or exposed.
LEMMA BreakOffKeepsIInv ==
    ASSUME IInv, BreakOff, pc' = "idle", cancel' \in BOOLEAN,
           result' \in {"none", "ok", "canceled", "range", "err"},
           UNCHANGED <<ignored, op, metadata, attempt, offset, sent>>
    PROVE  IInv'
<1>1. CASE UNCHANGED disk
  BY <1>1, MovesKeepIInv DEF IInv, TypeOK, disk
<1>2. CASE exposed' = TRUE /\ \E n \in 1..File!Total : file' = [tag |-> n, data |-> <<>>]
  <2>1. file' \in [tag : Nat, data : Seq(Nat)]
    BY <1>2, TotalType
  <2> QED BY <1>2, <2>1 DEF IInv, TypeOK, SafeInv, OffsetInv, TransferInv, CompleteInv,
             ResultInv, File!Total
<1> QED BY <1>1, <1>2 DEF BreakOff

LEMMA EmbedFailsKeepsIInv == IInv /\ EmbedFails => IInv'
BY BreakOffKeepsIInv DEF IInv, TypeOK, EmbedFails, Return, options

LEMMA KillKeepsIInv == IInv /\ Kill => IInv'
<1> SUFFICES ASSUME IInv, Kill PROVE IInv'
  OBVIOUS
<1>1. CASE pc = "embed"
  BY <1>1, BreakOffKeepsIInv DEF Kill, Return, options
<1>2. CASE pc # "embed"
  BY <1>2, MovesKeepIInv DEF IInv, TypeOK, Kill, Return, options, disk
<1> QED BY <1>1, <1>2

LEMMA NextKeepsIInv == IInv /\ [Next]_vars => IInv'
<1> SUFFICES ASSUME IInv, [Next]_vars PROVE IInv'
  OBVIOUS
<1> USE DEF Goto, Return, options, disk
<1>1. ASSUME NEW o \in Ops, NEW m \in BOOLEAN, Call(o, m) PROVE IInv'
  BY <1>1, CallKeepsIInv
<1>2. CASE CheckCancel \/ Lookup \/ LookupFails \/ Backoff \/ GetTrackFileUrl
  BY <1>2, MovesKeepIInv
     DEF IInv, TypeOK, ResultInv, CheckCancel, Lookup, LookupFails, Backoff, GetTrackFileUrl
<1>3. CASE StartAttempt
  BY <1>3, StartAttemptKeepsIInv
<1>4. CASE GetTrackFileUrlFails \/ RequestFails \/ TransferFails
  BY <1>4, FailFacts, MovesKeepIInv
     DEF IInv, TypeOK, ResultInv, GetTrackFileUrlFails, RequestFails, TransferFails
<1>5. CASE RangeRefused
  BY <1>5, RangeRefusedKeepsIInv
<1>6. CASE Resume
  BY <1>6, ResumeKeepsIInv
<1>7. CASE Restart
  BY <1>7, RestartKeepsIInv
<1>8. CASE Receive
  BY <1>8, ReceiveKeepsIInv
<1>9. CASE TransferEnds
  BY <1>9, TransferEndsKeepsIInv
<1>10. CASE TransferCanceled \/ SetCancel
  BY <1>10, MovesKeepIInv DEF IInv, TypeOK, ResultInv, TransferCanceled, SetCancel
<1>11. CASE Finish
  BY <1>11, MovesKeepIInv DEF IInv, TypeOK, CompleteInv, ResultInv, Finish
<1>12. CASE Embed
  BY <1>12, EmbedKeepsIInv
<1>13. CASE EmbedFails \/ Kill
  BY <1>13, EmbedFailsKeepsIInv, KillKeepsIInv
<1>14. CASE UNCHANGED vars
  BY <1>14, MovesKeepIInv DEF IInv, TypeOK, ResultInv, vars
<1> QED BY <1>1, <1>2, <1>3, <1>4, <1>5, <1>6, <1>7, <1>8, <1>9, <1>10, <1>11, <1>12, <1>13,
       <1>14 DEF Next, Continue

\* In every reachable state, for tags of any size: the offset of a request is the
\* size of the file, and unless the file is exposed, what was sent is what it
\* holds and it is complete before it is tagged or returned (attempt_download).
THEOREM Invariance == Spec => []IInv
<1> QED BY InitIInv, NextKeepsIInv, PTL DEF Spec

-----------------------------------------------------------------------------
(* The properties *)

\* Every variable of a download keeps its type, for tags of any size; the retry
\* counter never passes MAX_DOWNLOAD_RETRIES.
THEOREM TypeCorrectness == Spec => []TypeOK
<1>1. IInv => TypeOK
  BY DEF IInv
<1> QED BY <1>1, Invariance, PTL

\* For any sizes, retries, kills and cancellations: a file that is not exposed,
\* by tags that left it short or a tagging broken off, is a beginning of the
\* remote file or its audio behind tags.
THEOREM FilesAreSound == Spec => []FileIsSound
<1>1. IInv => FileIsSound
  BY SafeIsSound DEF IInv
<1> QED BY <1>1, Invariance, PTL

\* The only steps that touch the file: a block received, a full answer, tags, and
\* a tagging that breaks off, which leaves it alone or exposed.
LEMMA FileSteps ==
    ASSUME [Next]_vars
    PROVE  \/ Receive \/ Restart \/ Embed
           \/ UNCHANGED disk
           \/ pc = "embed" /\ exposed' = TRUE
BY DEF Next, Continue, vars, disk, Call, CheckCancel, Lookup, LookupFails, StartAttempt,
       Backoff, GetTrackFileUrl, GetTrackFileUrlFails, RangeRefused, RequestFails, Resume,
       TransferEnds, TransferFails, TransferCanceled, Finish, EmbedFails, SetCancel, Kill,
       BreakOff

\* The only steps that return a path.
LEMMA OkSteps ==
    ASSUME IInv, [Next]_vars, pc # "idle", result' = "ok"
    PROVE  Finish \/ Embed
<1>1. result # "ok"
  BY DEF IInv, ResultInv
<1> USE <1>1 DEF Goto, Return
<1>2. CASE GetTrackFileUrlFails \/ RequestFails \/ TransferFails
  BY <1>2, FailFacts DEF IInv, GetTrackFileUrlFails, RequestFails, TransferFails
<1> QED BY <1>2 DEF Next, Continue, vars, Call, CheckCancel, Lookup, LookupFails,
      StartAttempt, Backoff, GetTrackFileUrl, RangeRefused, Resume, Restart, Receive,
      TransferEnds, TransferCanceled, EmbedFails, SetCancel, Kill

\* Only a complete file's path is returned, for tags of any size, unless the call
\* was left an exposed file.
THEOREM ReturnedFilesAreComplete == Spec => OkIsComplete
<1>1. IInv /\ [Next]_vars
        => [pc # "idle" /\ result' = "ok" /\ ~exposed => File!Complete(file')]_vars
  <2> SUFFICES ASSUME IInv, [Next]_vars, pc # "idle", result' = "ok", ~exposed
               PROVE  File!Complete(file')
    OBVIOUS
  <2>1. CASE Finish
    <3>1. File!Complete(file) /\ file' = file
      BY <2>1 DEF IInv, CompleteInv, Finish, disk
    <3> QED BY <3>1
  <2>2. CASE Embed
    BY <2>2, EmbedFacts DEF File!Complete
  <2> QED BY <2>1, <2>2, OkSteps
<1> QED BY <1>1, Invariance, PTL DEF Spec, OkIsComplete

\* While the server honors Ranges nothing makes a complete file incomplete, for
\* tags of any size, until it is exposed.
THEOREM CompleteFilesLast == Spec => FinishedStaysFinished
<1>1. IInv /\ [Next]_vars
        => [File!Complete(file) /\ ~ignored' /\ ~exposed' => File!Complete(file')]_vars
  <2> SUFFICES ASSUME IInv, [Next]_vars, File!Complete(file), ~ignored', ~exposed'
               PROVE  File!Complete(file')
    OBVIOUS
  <2>1. CASE Receive
    <3>1. file = File!Prefix(sent) /\ sent \in Nat /\ sent < File!Total
      BY <2>1, TotalType DEF IInv, TypeOK, TransferInv, Receive
    <3> QED BY <3>1, PrefixIncomplete
  <2>2. CASE Restart
    <3>1. offset = File!Size(file) /\ ~(offset > 0)
      BY <2>2 DEF IInv, OffsetInv, Restart
    <3>2. File!Size(file) > 0
      BY PrefixFacts, TaggedFacts, TotalType, BodyAssumption
         DEF File!Complete, File!Size, File!Tagged
    <3> QED BY <3>1, <3>2
  <2>3. CASE Embed
    BY <2>3, EmbedFacts DEF File!Complete
  <2>4. CASE UNCHANGED disk
    BY <2>4 DEF disk
  <2> QED BY <2>1, <2>2, <2>3, <2>4, FileSteps
<1> QED BY <1>1, Invariance, PTL DEF Spec, FinishedStaysFinished

\* TrackDownload implements ResumableFile, for tags of any size: each of its steps
\* grows the file by the next block, starts it over, tags it when complete, leaves
\* it alone, or gives up an exposed file.
THEOREM Refinement == Spec => FileResumes
<1>1. Init => File!Init
  BY DEF Init
<1>2. IInv /\ [Next]_vars => [File!Next]_<<file, exposed>>
  <2> SUFFICES ASSUME IInv, [Next]_vars PROVE [File!Next]_<<file, exposed>>
    OBVIOUS
  <2>1. CASE Receive /\ ~exposed
    <3>1. sent \in Nat /\ sent \in 0..(File!Total - 1) /\ file = File!Prefix(sent)
      BY <2>1, TotalType DEF IInv, TypeOK, TransferInv, Receive
    <3>2. file' = File!Prefix(sent + 1)
      BY <2>1, <3>1, PrefixGrows DEF Receive
    <3>3. \E n \in 0..(File!Total - 1) : file = File!Prefix(n) /\ file' = File!Prefix(n + 1)
      BY <3>1, <3>2
    <3> QED BY <2>1, <3>3 DEF File!Next, File!Grow, Receive
  <2>2. CASE Restart
    BY <2>2 DEF Restart, File!Next, File!StartOver
  <2>3. CASE Embed /\ ~exposed
    <3>1. File!Complete(file)
      BY <2>3 DEF IInv, CompleteInv, Embed
    <3>2. \E k \in TagSizes : file' = File!Tagged(k)
      BY <2>3, EmbedFacts
    <3>3. exposed' = (File!Size(file') < File!Total)
      BY <2>3 DEF Embed
    <3> QED BY <2>3, <3>1, <3>2, <3>3 DEF File!Next, File!Tag
  <2>4. CASE (Receive \/ Embed) /\ exposed
    <3>1. exposed' = TRUE
      BY <2>4 DEF Receive, Embed, IInv, TypeOK
    <3> QED BY <2>4, <3>1 DEF File!Next, File!GiveUp
  <2>5. CASE pc = "embed" /\ exposed' = TRUE
    <3>1. exposed \/ File!Complete(file)
      BY <2>5 DEF IInv, CompleteInv
    <3> QED BY <2>5, <3>1 DEF File!Next, File!GiveUp
  <2>6. CASE UNCHANGED disk
    BY <2>6 DEF disk
  <2> QED BY <2>1, <2>2, <2>3, <2>4, <2>5, <2>6, FileSteps
<1> QED BY <1>1, <1>2, Invariance, PTL DEF Spec, FileResumes, File!Spec
=============================================================================
