------------------------------ MODULE EVMSound -------------------------------
(***************************************************************************)
(* What the proofs about EVMFrames say of a database.                      *)
(*                                                                         *)
(* A database is sound (SoundNow) when nothing escapes Finalise, and the   *)
(* refund counter pays for every slot that the transaction has cleared.    *)
(* Its journal has a history that passes, at every revision, through the   *)
(* world its snapshot saved, which was sound (Linked).                     *)
(***************************************************************************)
EXTENDS EVMFrames, StateDBViews

\* What the trie shows of an account.
InTrie(trie, a) == IF trie[a] = None THEN None ELSE Seen(newObject(trie[a]))

\* Nothing escapes Finalise: an account that destroyed itself or whose slot was
\* written is dirty, and one that is neither dirty nor pending is as in the trie.
Tidy(v, trie, pending) ==
  \A a \in Addr :
    /\ v.acc[a] # None /\ v.acc[a].suicided => v.dirties[a] > 0
    /\ v.acc[a] # None /\ v.dirties[a] = 0 => v.acc[a].slot = v.orig[a]
    /\ a \notin pending /\ v.dirties[a] = 0 => v.acc[a] = InTrie(trie, a)

\* The slots that this transaction has cleared.
Cleared(v) == {a \in Addr : v.acc[a] # None /\ v.orig[a] # 0 /\ v.acc[a].slot = 0}

\* S has at most m elements.
AtMost(S, m) == \E f : \A a \in S : \E i \in 1 .. m : f[i] = a

\* The refund counter r holds what every slot of S has earned.
Covers(S, r) == \E m \in Nat : AtMost(S, m) /\ ClearRefund * m <= r

Backed(v) == Covers(Cleared(v), v.refund)

Sound(v, trie, pending) == Tidy(v, trie, pending) /\ Backed(v)

SoundNow(d) == Sound(View(d), d.trie, d.pending)

\* From d to e the history grows, soundness is kept, and no account and no
\* address of the access list is lost.
Keeps(d, e) ==
  /\ Core(e) /\ Reaches(d, e) /\ (SoundNow(d) => SoundNow(e))
  /\ \A a \in Addr : Acc(d)[a] # None => Acc(e)[a] # None
  /\ \A a \in Addr : d.al.idx[a] # None => e.al.idx[a] # None

Payable == {TeWaKa} \cup {p[1] : p \in Payments} \cup {p[2] : p \in Payments}

\* Accounts are as they were, or have come into being empty.
Spares(was, is) ==
  \A a \in Addr \ Payable : is[a] = was[a] \/ (was[a] = None /\ is[a] = Blank)

\* A nonce moves by one.
Counts(d, e, from) ==
  /\ Keeps(d, e) /\ e.refund = d.refund /\ e.logs = d.logs
  /\ Acc(e) = [Acc(d) EXCEPT ![from] = [Found(Acc(d)[from]) EXCEPT !.nonce = Found(Acc(d)[from]).nonce + 1]]

\* What the first n snapshots remember is in the history, in order.
Remembers(d, n, h) ==
  /\ h[0].refund = 0
  /\ \A i \in 1 .. n :
       /\ d.revs[i].index \in 0 .. Len(d.journal) /\ d.past[i] = Worldly(h[d.revs[i].index])
       /\ Sound(h[d.revs[i].index], d.trie, d.pending)
  /\ \A i, j \in 1 .. n : i < j => d.revs[i].index <= d.revs[j].index

Linked(d, n) == \E h, known : History(d, h, known) /\ Remembers(d, n, h)

\* As many worlds as revisions.
PastOK(d) ==
  /\ \E S : d.past \in Seq(S)
  /\ \E S : d.revs \in Seq(S)
  /\ Len(d.past) = Len(d.revs)

\* Between transactions there is nothing to undo.
Idle(d) == d.journal = <<>> /\ d.revs = <<>> /\ d.past = <<>> /\ d.refund = 0

BytesOf(d) == Found(Acc(d)[TeWaKa]).te

=============================================================================
