-------------------------------- MODULE Frames --------------------------------
(***************************************************************************)
(* What the state promises to nested calls: every open call has a whole    *)
(* world saved for it, and a call that fails puts that world back.  There  *)
(* is no journal here, no cache and no list of what is dirty.              *)
(*                                                                         *)
(* world.acc maps an address to None or to an account, with the mark of    *)
(* one that destroyed itself.  saved is the stack of worlds; its first one *)
(* belongs to the transaction.  failing says that the innermost call has   *)
(* failed and is about to be closed; ending, that the block has been       *)
(* rewarded and is about to be.                                            *)
(***************************************************************************)
EXTENDS Integers, Sequences

CONSTANTS Addr, None

VARIABLES world, saved, failing, ending

fvars == <<world, saved, failing, ending>>

Front(s) == SubSeq(s, 1, Len(s) - 1)

Init == saved = <<>> /\ ~failing /\ ~ending

OK == ~failing /\ ~failing' /\ ~ending /\ ~ending'

\* A transaction starts: only the access list is not what it was.
Begin ==
  /\ OK /\ saved = <<>> /\ Len(saved') = 1
  /\ saved' = <<[world EXCEPT !.al = saved'[1].al]>>

\* The running call changes the world.
Change == OK /\ saved # <<>> /\ saved' = saved

\* A call opens, and starts by changing the world.  The access list has moved
\* before, and stays so if it fails.
Call ==
  /\ OK /\ saved # <<>> /\ Len(saved') = Len(saved) + 1
  /\ saved' = Append(saved, [world EXCEPT !.al = saved'[Len(saved')].al])

\* So does the first call of a transaction, or the creation of a contract; the
\* caller's nonce has moved too.
Create ==
  /\ OK /\ saved # <<>> /\ Len(saved') = Len(saved) + 1
  /\ LET w == saved'[Len(saved')]
     IN  /\ saved' = Append(saved, w)
         /\ \E from \in Addr :
              /\ w = [world EXCEPT !.acc[from] = w.acc[from], !.al = w.al]
              /\ world.acc[from] # None => w.acc[from] = [world.acc[from] EXCEPT !.nonce = @ + 1]

\* A call succeeds: its changes stay.  A new contract gets its code.
Return ==
  /\ OK /\ Len(saved) > 1
  /\ saved' = Front(saved)
  /\ \/ world' = world
     \/ \E a \in Addr :
          /\ world' = [world EXCEPT !.acc[a] = world'.acc[a]]
          /\ world.acc[a] # None => world'.acc[a] = [world.acc[a] EXCEPT !.code = TRUE]

\* A call, or the transaction, fails: the world is what it was, and stays so
\* until the call is closed.
Fail ==
  /\ ~failing /\ failing' /\ ~ending /\ ~ending'
  /\ saved # <<>> /\ saved' = saved
  /\ world' = saved[Len(saved)]

Failed ==
  /\ failing /\ ~failing' /\ ~ending /\ ~ending'
  /\ saved' = Front(saved)
  /\ world' = world

Destroyed(w) == {a \in Addr : w.acc[a] # None /\ w.acc[a].suicided}
Empty(w) ==
  {a \in Addr : w.acc[a] # None /\ w.acc[a].nonce = 0 /\ w.acc[a].balance = 0 /\ ~w.acc[a].code}

\* Accounts that destroyed themselves are gone; of the empty ones some are.
Settled(w, gone) == [a \in Addr |-> IF a \in gone THEN None ELSE w.acc[a]]

Finish ==
  /\ OK /\ Len(saved) = 1 /\ saved' = <<>>
  /\ \E some \in SUBSET Empty(world) :
       world' = [world EXCEPT !.acc = Settled(world, Destroyed(world) \cup some), !.refund = 0]

\* Rewards and sweeps at the end of a block move accounts only.
Reward ==
  /\ ~failing /\ ~failing' /\ ~ending /\ ending'
  /\ saved = <<>> /\ saved' = <<>>
  /\ world' = [world EXCEPT !.acc = world'.acc]

\* The next block starts from what the accounts were.
NextBlock ==
  /\ ~failing /\ ~failing' /\ ending /\ ~ending'
  /\ saved = <<>> /\ saved' = <<>>
  /\ \E some \in SUBSET Empty(world) :
       world'.acc = Settled(world, Destroyed(world) \cup some)

Next == Change \/ Fail \/ Failed \/ Call \/ Return \/ Create \/ Begin \/ Finish \/ Reward \/ NextBlock

Spec == Init /\ [][Next]_fvars
=============================================================================
