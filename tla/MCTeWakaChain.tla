--------------------------- MODULE MCTeWakaChain ---------------------------
(***************************************************************************)
(* Two nodes that mine, exchange blocks and crash, over two dumps.         *)
(***************************************************************************)
EXTENDS TeWakaChain, TLC

MCSymmetry == Permutations(Node) \cup Permutations(Claim)

=============================================================================
