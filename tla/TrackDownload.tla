--------------------------- MODULE TrackDownload ---------------------------
(* One file of core/download/download.cc: download_track, and                 *)
(* download_album_track with the tagging download_album adds, called again    *)
(* and again for one track and format while requests fail, connections break, *)
(* the host cancels and the process is killed.                                *)
(*                                                                            *)
(* The engine's download_to_file is outside the repository.  It is modelled   *)
(* from its use: it asks for the remote file from an offset on, appends what  *)
(* it receives or, when the server ignores the Range, writes the file anew,   *)
(* and leaves behind what it wrote when it fails.  The CDN client lets it use *)
(* eight segments; what it leaves is assumed to be contiguous even then.      *)
EXTENDS Naturals, Sequences

CONSTANTS
    HeadBlocks,            \* blocks of metadata at the head of the remote file
    BodyBlocks,            \* blocks of audio after them
    TagSizes,              \* sizes of the metadata put in their place
    MAX_DOWNLOAD_RETRIES,  \* 3 in the code
    Ops                    \* the calls: "track", "album"

VARIABLES
    file,      \* the file at the path of this track and format
    exposed,   \* history: tags left the file short, or broke off (see Embed)
    ignored,   \* history: whether the server ever ignored a Range
    cancel,    \* the flag options.cancel points to
    pc,        \* where the call is
    op,        \* which call it is
    metadata,  \* whether options.metadata is set
    attempt,   \* the retry counter
    offset,    \* size of the file found by detect_partial_file, 0 for none
    sent,      \* the remote blocks the server sent or skipped
    result     \* what the last call returned

File == INSTANCE ResumableFile

ASSUME RetryAssumption == MAX_DOWNLOAD_RETRIES \in Nat
ASSUME OpAssumption == Ops \subseteq {"track", "album"}
ASSUME HeadAssumption == HeadBlocks \in Nat \ {0}
ASSUME BodyAssumption == BodyBlocks \in Nat \ {0}
ASSUME TagAssumption == TagSizes \subseteq Nat \ {0}

disk == <<file, exposed>>
options == <<op, metadata>>
vars == <<disk, ignored, cancel, pc, options, attempt, offset, sent, result>>

TypeOK ==
    /\ file \in [tag : Nat, data : Seq(Nat)]
    /\ exposed \in BOOLEAN /\ ignored \in BOOLEAN /\ cancel \in BOOLEAN
    /\ pc \in {"idle", "lookup", "prepare", "attempt", "url", "request",
               "transfer", "backoff", "finish", "embed"}
    /\ op \in {"none"} \cup Ops /\ metadata \in BOOLEAN
    /\ attempt \in 0..MAX_DOWNLOAD_RETRIES
    /\ offset \in Nat /\ sent \in 0..File!Total
    /\ result \in {"none", "ok", "canceled", "range", "err"}

\* No file, a part of one left by an earlier session, or a finished one.
Init ==
    /\ File!Init
    /\ ignored = FALSE /\ cancel = FALSE
    /\ pc = "idle" /\ op = "none" /\ metadata = FALSE
    /\ attempt = 0 /\ offset = 0 /\ sent = 0
    /\ result = "none"

Goto(p) == pc' = p /\ UNCHANGED result
Return(r) == pc' = "idle" /\ result' = r

-----------------------------------------------------------------------------
(* The call *)

\* download_track looks the track up first, download_album_track does not.
Call(o, m) ==
    /\ pc = "idle"
    /\ op' = o /\ metadata' = m
    /\ attempt' = 0
    /\ pc' = IF o = "track" THEN "lookup" ELSE "attempt"
    /\ result' = "none"
    /\ UNCHANGED <<disk, ignored, cancel, offset, sent>>

\* check_cancel: at entry, after the lookup, before each attempt and at the end.
CheckCancel ==
    /\ pc \in {"lookup", "prepare", "attempt", "finish"} /\ cancel
    /\ Return("canceled")
    /\ UNCHANGED <<disk, ignored, cancel, options, attempt, offset, sent>>

\* get_track finds the track; the directory is created.
Lookup ==
    /\ pc \in {"lookup", "prepare"} /\ ~cancel
    /\ Goto(IF pc = "lookup" THEN "prepare" ELSE "attempt")
    /\ UNCHANGED <<disk, ignored, cancel, options, attempt, offset, sent>>

\* The track is not found, or create_dir_all fails.
LookupFails ==
    /\ pc \in {"lookup", "prepare"} /\ ~cancel
    /\ Return("err")
    /\ UNCHANGED <<disk, ignored, cancel, options, attempt, offset, sent>>

\* Mutant: the partial file is only looked for on the first attempt.
StartAttemptOnce ==
    /\ pc = "attempt" /\ ~cancel
    /\ offset' = IF attempt = 0 THEN File!Size(file) ELSE offset
    /\ Goto("url")
    /\ UNCHANGED <<disk, ignored, cancel, options, attempt, sent>>

\* Mutant: the file is always fetched from the start.
StartAttemptAnew ==
    /\ pc = "attempt" /\ ~cancel
    /\ offset' = 0
    /\ Goto("url")
    /\ UNCHANGED <<disk, ignored, cancel, options, attempt, sent>>

\* detect_partial_file takes the size of whatever is at the path.
StartAttempt ==
    /\ pc = "attempt" /\ ~cancel
    /\ offset' = File!Size(file)
    /\ Goto("url")
    /\ UNCHANGED <<disk, ignored, cancel, options, attempt, sent>>

\* Mutant: one retry too many.
FailTooLate(e) ==
    /\ \/ /\ e = "transient" /\ attempt <= MAX_DOWNLOAD_RETRIES
          /\ attempt' = attempt + 1
          /\ Goto("backoff")
       \/ /\ ~(e = "transient" /\ attempt <= MAX_DOWNLOAD_RETRIES)
          /\ Return("err")
          /\ UNCHANGED attempt

\* Mutant: a retry does not count as an attempt.
FailUncounted(e) ==
    /\ \/ e = "transient" /\ attempt < MAX_DOWNLOAD_RETRIES /\ Goto("backoff")
       \/ ~(e = "transient" /\ attempt < MAX_DOWNLOAD_RETRIES) /\ Return("err")
    /\ UNCHANGED attempt

\* A step of the attempt fails: a transient failure of the network is tried
\* again while retries are left, anything else ends the call.
Fail(e) ==
    \/ /\ e = "transient" /\ attempt < MAX_DOWNLOAD_RETRIES
       /\ attempt' = attempt + 1
       /\ Goto("backoff")
    \/ /\ ~(e = "transient" /\ attempt < MAX_DOWNLOAD_RETRIES)
       /\ Return("err")
       /\ UNCHANGED attempt

Backoff ==
    /\ pc = "backoff"
    /\ Goto("attempt")
    /\ UNCHANGED <<disk, ignored, cancel, options, attempt, offset, sent>>

GetTrackFileUrl ==
    /\ pc = "url"
    /\ Goto("request")
    /\ UNCHANGED <<disk, ignored, cancel, options, attempt, offset, sent>>

\* get_track_file_url fails, or its reply has no url.
GetTrackFileUrlFails ==
    /\ pc = "url"
    /\ \E e \in {"transient", "fatal"} : Fail(e)
    /\ UNCHANGED <<disk, ignored, cancel, options, offset, sent>>

\* The Range starts at or past the end: 416, which only the album path takes
\* for a file that is already complete.
RangeRefused ==
    /\ pc = "request" /\ offset >= File!Total
    /\ \/ op = "album" /\ Goto("finish")
       \/ op = "track" /\ Return("range")
    /\ UNCHANGED <<disk, ignored, cancel, options, attempt, offset, sent>>

\* Mutant: an album track that fails with a file at its path counts as complete.
RequestFailsComplete ==
    /\ pc = "request"
    /\ \/ op = "album" /\ offset > 0 /\ Goto("finish") /\ UNCHANGED attempt
       \/ ~(op = "album" /\ offset > 0) /\ \E e \in {"transient", "fatal"} : Fail(e)
    /\ UNCHANGED <<disk, ignored, cancel, options, offset, sent>>

\* No answer, or a status that is neither success nor 416.
RequestFails ==
    /\ pc = "request"
    /\ \E e \in {"transient", "fatal"} : Fail(e)
    /\ UNCHANGED <<disk, ignored, cancel, options, offset, sent>>

\* 206: the rest of the file follows.
Resume ==
    /\ pc = "request" /\ 0 < offset /\ offset < File!Total
    /\ sent' = offset
    /\ Goto("transfer")
    /\ UNCHANGED <<disk, ignored, cancel, options, attempt, offset>>

\* Mutant: a full answer is written after what is there.
RestartInPlace ==
    /\ pc = "request"
    /\ sent' = 0
    /\ ignored' = (ignored \/ offset > 0)
    /\ Goto("transfer")
    /\ UNCHANGED <<disk, cancel, options, attempt, offset>>

\* 200: the whole file follows, asked for or because the Range was ignored.
Restart ==
    /\ pc = "request"
    /\ file' = File!Empty /\ exposed' = FALSE
    /\ sent' = 0
    /\ ignored' = (ignored \/ offset > 0)
    /\ Goto("transfer")
    /\ UNCHANGED <<cancel, options, attempt, offset>>

\* Stops between two blocks stand for stops anywhere, lost buffers included.
Receive ==
    /\ pc = "transfer" /\ sent < File!Total
    /\ sent' = sent + 1
    /\ file' = [file EXCEPT !.data = Append(@, sent + 1)]
    /\ UNCHANGED <<exposed, ignored, cancel, pc, options, attempt, offset, result>>

TransferEnds ==
    /\ pc = "transfer" /\ sent = File!Total
    /\ Goto("finish")
    /\ UNCHANGED <<disk, ignored, cancel, options, attempt, offset, sent>>

\* The connection breaks, or the disk is full.
TransferFails ==
    /\ pc = "transfer"
    /\ \E e \in {"transient", "fatal"} : Fail(e)
    /\ UNCHANGED <<disk, ignored, cancel, options, offset, sent>>

\* The engine polls the cancel flag; a canceled error is not retried.
TransferCanceled ==
    /\ pc \in {"request", "transfer"} /\ cancel
    /\ Return("canceled")
    /\ UNCHANGED <<disk, ignored, cancel, options, attempt, offset, sent>>

\* The path is returned, after tagging when options.metadata is set.
Finish ==
    /\ pc = "finish" /\ ~cancel
    /\ \/ metadata /\ Goto("embed")
       \/ ~metadata /\ Return("ok")
    /\ UNCHANGED <<disk, ignored, cancel, options, attempt, offset, sent>>

\* embed_metadata_in_file replaces the metadata at the head of the file, the
\* remote file's or its own of an earlier call.  How much room the tags take is
\* TagLib's business: it pads them, but it also cuts padding back and leaves out
\* the pictures of the remote file.  A file they leave shorter than the remote
\* one is exposed: the next call takes it for a partial file.
Embed ==
    /\ pc = "embed"
    /\ \E k \in TagSizes :
          file' = [tag |-> k,
                   data |-> IF file.tag = 0 THEN SubSeq(file.data, HeadBlocks + 1, Len(file.data))
                                            ELSE file.data]
    /\ exposed' = (exposed \/ File!Size(file') < File!Total)
    /\ Return("ok")
    /\ UNCHANGED <<ignored, cancel, options, attempt, offset, sent>>

\* TagLib rewrites the file in place.  Broken off before it began, it leaves the
\* file alone; later, a file of which only the size is known, and exposed.  One
\* longer than the remote file fares as one of its length.
BreakOff ==
    \/ UNCHANGED disk
    \/ /\ \E n \in 1..File!Total : file' = [tag |-> n, data |-> <<>>]
       /\ exposed' = TRUE

\* The data of the track cannot be fetched, or write_tags fails, on its way too.
EmbedFails ==
    /\ pc = "embed"
    /\ BreakOff
    /\ Return("err")
    /\ UNCHANGED <<ignored, cancel, options, attempt, offset, sent>>

-----------------------------------------------------------------------------
(* The host application *)

\* cancelDownloads and resetCancel, from any thread.
SetCancel ==
    /\ cancel' = ~cancel
    /\ UNCHANGED <<disk, ignored, pc, options, attempt, offset, sent, result>>

\* The process is killed, within the tagging too; the next one starts with what
\* is on disk.
Kill ==
    /\ pc # "idle"
    /\ IF pc = "embed" THEN BreakOff ELSE UNCHANGED disk
    /\ Return("none")
    /\ cancel' = FALSE
    /\ UNCHANGED <<ignored, options, attempt, offset, sent>>

Continue ==
    \/ CheckCancel \/ Lookup \/ LookupFails
    \/ StartAttempt \/ Backoff
    \/ GetTrackFileUrl \/ GetTrackFileUrlFails
    \/ RangeRefused \/ RequestFails \/ Resume \/ Restart
    \/ Receive \/ TransferEnds \/ TransferFails \/ TransferCanceled
    \/ Finish \/ Embed \/ EmbedFails

Next ==
    \/ \E o \in Ops, m \in BOOLEAN : Call(o, m)
    \/ Continue
    \/ SetCancel \/ Kill

Spec == Init /\ [][Next]_vars

\* The thread of the call runs, and the engine's calls return.
FairSpec == Spec /\ WF_vars(Continue)

-----------------------------------------------------------------------------
(* Properties *)

\* No resume, retry, full answer, kill or repeated call mixes the file up: it is
\* a copy of the beginning of the remote file, or all of its audio behind tags.
\* This does not cover an exposed file: what detect_partial_file makes of one
\* that tagging left short, or of a rewriting broken off, is another matter.
FileIsSound == ~exposed => File!Sound(file)

\* A call returns a path only for a complete file, also when it takes a 416 for
\* one and when it never transferred a byte itself, unless an earlier call left
\* it an exposed file to resume.
OkIsComplete ==
    [][pc # "idle" /\ result' = "ok" /\ ~exposed => File!Complete(file')]_vars

\* As long as the server honors Ranges, a complete file stays complete: failed,
\* canceled and killed calls that come later do not take it away again.  The
\* exception is a file that is exposed: short tags, a tagging broken off.
FinishedStaysFinished ==
    [][File!Complete(file) /\ ~ignored' /\ ~exposed' => File!Complete(file')]_vars

\* The comment above track_file_name: with the format in the file's name, a call
\* does not take a finished file for a partial one, resume onto it and silently
\* corrupt it.  Nothing else looks at what a file is, so one that tagging made
\* shorter is taken for a partial one all the same.
FinishedNotCorrupted ==
    [][File!Complete(file) /\ pc # "embed" => File!Sound(file')]_vars

\* Retries, kills and cancellations change the file as ResumableFile allows.
FileResumes == File!Spec

\* Every call returns, with MAX_DOWNLOAD_RETRIES failures on the way or none.
CallsEnd == pc # "idle" ~> pc = "idle"

\* README.md lists "416 already-complete handling" among what is ported: a
\* call never fails because the file is already complete.
AlreadyCompleteHandled == result # "range"
=============================================================================
