---------------------------- MODULE TeWakaSupply ----------------------------
(***************************************************************************)
(* The money supply of the chain that TeWaka describes.  Sums over the     *)
(* accounts are out of the provers' reach: this property is for TLC.       *)
(***************************************************************************)
EXTENDS TeWaka, FiniteSetsExt

\* Nothing but the block reward creates coins, and nothing destroys them:
\* every transfer, fee and sweep adds up.
SupplyConserved ==
    MapThenSumSet(LAMBDA a : bal[a], Address)
      = MapThenSumSet(LAMBDA a : Alloc[a], Address)
          + MapThenSumSet(LAMBDA n : Reward(n), 1..(number - 1))

=============================================================================
