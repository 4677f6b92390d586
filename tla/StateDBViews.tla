---------------------------- MODULE StateDBViews -----------------------------
(***************************************************************************)
(* What the proofs say of a database.                                      *)
(*                                                                         *)
(* A view is what programs, Finalise and the refund counter can tell of a  *)
(* database; how an object caches a value is not part of it.  An entry of  *)
(* the journal leads from the view after an operation to the view before   *)
(* it (Undoes), and a journal comes with a history: the view at every      *)
(* length it has had (History).                                            *)
(***************************************************************************)
EXTENDS StateDB, Provers

\* The fields of a database.
Shaped(d) ==
  /\ "trie" \in DOMAIN d /\ "objs" \in DOMAIN d /\ "journal" \in DOMAIN d
  /\ "dirties" \in DOMAIN d /\ "revs" \in DOMAIN d /\ "nextRev" \in DOMAIN d
  /\ "pending" \in DOMAIN d /\ "al" \in DOMAIN d /\ "refund" \in DOMAIN d
  /\ "logs" \in DOMAIN d /\ "past" \in DOMAIN d

\* The caches of an object agree: the origin is what the trie holds and is
\* known before anything is written, and a TeWaka entry is read as written.
Coherent(o) ==
  /\ o \in Object
  /\ o.origin # Unset => o.origin = o.trie
  /\ o.dirty # Unset \/ o.pending # Unset => o.origin # Unset
  /\ o.teDirty # Unset => o.teOrigin = o.teDirty
  /\ o.teDirty = Unset => o.teOrigin \in {Unset, o.teTrie}

\* An object that Finalise deleted, or will write, is pending.
ObjsOK(d) ==
  /\ d.objs \in [Addr -> Object \cup {None}]
  /\ \A a \in Addr : d.objs[a] # None => /\ Coherent(d.objs[a])
                                         /\ d.objs[a].deleted => a \in d.pending
  /\ \A a \in d.pending : d.objs[a] # None

AccessOK(al) ==
  /\ al = [idx |-> al.idx, slots |-> al.slots]
  /\ al.idx \in [Addr -> Int \cup {None}] /\ al.slots \in Seq(SUBSET Key)
  /\ \A a \in Addr : al.idx[a] # None => al.idx[a] = -1 \/ al.idx[a] \in 1 .. Len(al.slots)
  /\ \A i \in 1 .. Len(al.slots) : al.slots[i] # {}

CountsOK(d) ==
  /\ AccessOK(d.al) /\ d.refund \in Nat /\ d.logs \in Int /\ d.dirties \in [Addr -> Nat]

Core(d) ==
  /\ Shaped(d) /\ d.trie \in [Addr -> Account \cup {None}] /\ d.pending \in SUBSET Addr
  /\ ObjsOK(d) /\ CountsOK(d)

\* The value of the slot when the transaction started.
OrigOf(o) == IF Seen(o) = None THEN 0 ELSE GetCommittedState(o)

Acc(d) == [a \in Addr |-> Seen(getDeletedStateObject(d, a))]
Origs(d) == [a \in Addr |-> OrigOf(getDeletedStateObject(d, a))]

\* The accounts whose slot was read from the trie.  Undoing a write relies on
\* it; it is not part of the view, since reading leaves no entry.
Known(d) ==
  {a \in Addr : /\ getDeletedStateObject(d, a) # None
                /\ getDeletedStateObject(d, a).origin # Unset}

View(d) ==
  [acc |-> Acc(d), orig |-> Origs(d), al |-> d.al, refund |-> d.refund, logs |-> d.logs,
   dirties |-> d.dirties]

\* The part of a view that Snapshot remembers.
Worldly(v) == [acc |-> v.acc, al |-> v.al, refund |-> v.refund, logs |-> v.logs]

\* Nothing but objects, counters and the access list differs.
SameRest(d, e) ==
  /\ e.trie = d.trie /\ e.pending = d.pending
  /\ e.revs = d.revs /\ e.nextRev = d.nextRev /\ e.past = d.past

SameCounts(d, e) == e.al = d.al /\ e.refund = d.refund /\ e.logs = d.logs

\* The object of an account is o, and so it is seen.
ObjectSet(d, e, a, o) ==
  /\ e.objs = [d.objs EXCEPT ![a] = o]
  /\ Acc(e) = [Acc(d) EXCEPT ![a] = Seen(o)] /\ Origs(e) = [Origs(d) EXCEPT ![a] = OrigOf(o)]
  /\ \A b \in Addr : b # a => (b \in Known(e) <=> b \in Known(d))
  /\ a \in Known(e) <=> o.origin # Unset

\* The journal has one more entry.
Logged(d, e, ent) ==
  /\ SameRest(d, e) /\ e.journal = Append(d.journal, ent)
  /\ e.dirties = counted(d.dirties, ent.dirtied, 1)

\* A turn of journal.revert, without the shortening of the journal.
undone(d, e) == [restore(d, e) EXCEPT !.dirties = counted(@, e.dirtied, -1)]

\* Undoing e leads from v to u; K is known before, L after.
Undoes(trie, pending, e, v, K, u, L) ==
  \A d : Core(d) /\ d.trie = trie /\ d.pending = pending /\ View(d) = v /\ K \subseteq Known(d) =>
    /\ Core(undone(d, e)) /\ View(undone(d, e)) = u /\ L \subseteq Known(undone(d, e))
    /\ SameRest(d, undone(d, e)) /\ undone(d, e).journal = d.journal

\* h[k] is the view when the journal had k entries, and known[k] was known.
History(d, h, known) ==
  /\ \E S : d.journal \in Seq(S)
  /\ h[Len(d.journal)] = View(d) /\ known[Len(d.journal)] \subseteq Known(d)
  /\ \A k \in 1 .. Len(d.journal) :
       Undoes(d.trie, d.pending, d.journal[k], h[k], known[k], h[k - 1], known[k - 1])

\* From d to e, the history only grows.
Reaches(d, e) ==
  /\ Core(e) /\ SameRest(d, e)
  /\ \A h, known : History(d, h, known) =>
       /\ Len(d.journal) <= Len(e.journal)
       /\ \E g, l : History(e, g, l) /\ \A k \in 0 .. Len(d.journal) : g[k] = h[k]

\* Only the journal, the revisions and what they remember may differ.
SameState(d, e) ==
  /\ e.trie = d.trie /\ e.objs = d.objs /\ e.pending = d.pending /\ e.dirties = d.dirties
  /\ SameCounts(d, e)

Blank == Seen(newObject(EmptyAccount))

\* An account as GetOrNewStateObject finds or makes it.
Found(s) == IF s = None THEN Blank ELSE s

SeenAccount == [nonce: Nat, balance: Int, code: BOOLEAN, slot: Word, te: Blob, suicided: BOOLEAN]

=============================================================================
