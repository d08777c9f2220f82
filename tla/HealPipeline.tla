---------------------------- MODULE HealPipeline ----------------------------
(* What healing the app credentials promises, whoever calls it and however   *)
(* many threads race: one pair travels from the .env file to memory to the   *)
(* host, in that order, at most once per session.  CredentialRefresh         *)
(* implements this specification.                                            *)

CONSTANTS Pairs,    \* the (app_id, app_secret) pairs that may ever be used
          NoPair,   \* a file that holds no complete pair
          Persist   \* whether the service has an env_path

VARIABLES disk,     \* the pair a restart would load from the .env file
          memory,   \* the pair that signs requests
          host,     \* the pair the host application was last told about
          swapped   \* whether memory was replaced in this session

vars == <<disk, memory, host, swapped>>

Init == /\ disk \in Pairs \cup {NoPair}
        /\ memory \in Pairs
        /\ host = memory
        /\ swapped = FALSE

\* The file is opened for writing, which empties it, only before the swap.
Truncate == /\ Persist
            /\ ~swapped
            /\ disk' = NoPair
            /\ UNCHANGED <<memory, host, swapped>>

\* A complete pair reaches the file, only before the swap.
Write == /\ Persist
         /\ ~swapped
         /\ disk = NoPair
         /\ disk' \in Pairs
         /\ UNCHANGED <<memory, host, swapped>>

\* The pair on disk becomes the pair in memory, once.
Swap == /\ ~swapped
        /\ memory' \in Pairs
        /\ Persist => memory' = disk
        /\ swapped' = TRUE
        /\ UNCHANGED <<disk, host>>

\* The host learns the pair in memory, after the swap.
Tell == /\ swapped
        /\ host' = memory
        /\ UNCHANGED <<disk, memory, swapped>>

Next == Truncate \/ Write \/ Swap \/ Tell

Spec == Init /\ [][Next]_vars
=============================================================================
