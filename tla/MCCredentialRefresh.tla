------------------------ MODULE MCCredentialRefresh ------------------------
(* Small instances of CredentialRefresh for TLC.                             *)
EXTENDS CredentialRefresh, TLC

CONSTANTS t1, t2, p1, p2, p3

\* The pair in use, its replacement, and a secret of the wrong timezone.  A
\* bundle may hold the accepted secret first, last or not at all.
MCBundles == {<<p2, p1>>, <<p3>>}
MCAllOps == AllOps
MCThreadSymmetry == Permutations(Threads)
=============================================================================
