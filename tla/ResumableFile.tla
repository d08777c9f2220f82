--------------------------- MODULE ResumableFile ---------------------------
(* What the download of one track promises about its file, whatever fails and *)
(* however often it is started: the file only ever grows by the next block of *)
(* the remote file, starts over from nothing, or, complete, is tagged.  Tags  *)
(* that leave it shorter than the remote file, and a tagging broken off, end  *)
(* the promise until the file starts over.                                    *)
EXTENDS Naturals, Sequences

CONSTANTS
    HeadBlocks,  \* blocks of metadata at the head of the remote file
    BodyBlocks,  \* blocks of audio after them
    TagSizes     \* sizes of the metadata that tagging puts in their place

VARIABLES
    file,    \* how many blocks of tags it has got, and remote blocks
    exposed  \* whether it was left short or torn by tagging

Total == HeadBlocks + BodyBlocks
Empty == [tag |-> 0, data |-> <<>>]

\* The file as file_size sees it.
Size(f) == f.tag + Len(f.data)

\* An untouched copy of the first n remote blocks.
Prefix(n) == [tag |-> 0, data |-> [i \in 1..n |-> i]]

\* The whole of the audio behind k blocks of tags.
Tagged(k) == [tag |-> k, data |-> [i \in 1..BodyBlocks |-> HeadBlocks + i]]

Complete(f) == f = Prefix(Total) \/ \E k \in TagSizes : f = Tagged(k)

Sound(f) == (\E n \in 0..Total : f = Prefix(n)) \/ (\E k \in TagSizes : f = Tagged(k))

Init ==
    /\ file \in {Prefix(n) : n \in 0..Total} \cup {Tagged(k) : k \in TagSizes}
    /\ exposed = (file.tag > 0 /\ Size(file) < Total)

Grow ==
    /\ ~exposed
    /\ \E n \in 0..(Total - 1) : file = Prefix(n) /\ file' = Prefix(n + 1)
    /\ UNCHANGED exposed

StartOver == file' = Empty /\ exposed' = FALSE

Tag ==
    /\ ~exposed /\ Complete(file)
    /\ \E k \in TagSizes : file' = Tagged(k)
    /\ exposed' = (Size(file') < Total)

\* Nothing is promised of the file from here on.
GiveUp == (exposed \/ Complete(file)) /\ exposed' = TRUE

Next == Grow \/ StartOver \/ Tag \/ GiveUp

Spec == Init /\ [][Next]_<<file, exposed>>
=============================================================================
