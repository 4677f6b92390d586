---------------------------- MODULE MCTxFetcher ----------------------------
(***************************************************************************)
(* TxFetcher for TLC: two peers, three hashes, a request of at most two    *)
(* hashes, and at most two announcements tracked for a peer.               *)
(***************************************************************************)
EXTENDS TxFetcher, TLC

CONSTANTS p1, p2, h1, h2, h3

\* One peer offers every hash, the other all but one.
MCOffers == (p1 :> {h1, h2, h3}) @@ (p2 :> {h1, h2})
=============================================================================
