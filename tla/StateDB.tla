------------------------------- MODULE StateDB -------------------------------
(***************************************************************************)
(* The state of a block under execution: accounts with their caches, the   *)
(* journal that undoes changes, the access list, and the tries the changes *)
(* end in (core/state).  Every operation of the code is a function from a  *)
(* state database db to the next one; EVMFrames calls them.                *)
(*                                                                         *)
(* An account has one storage slot and one TeWaka entry.  A state object   *)
(* keeps, as in the code, what its storage trie holds, the value read from *)
(* it, the value pending since an earlier transaction and the one written  *)
(* by the current transaction.                                             *)
(***************************************************************************)
EXTENDS Integers, Sequences

CONSTANTS Addr,    \* accounts
          Key,     \* storage keys of the access list
          Word,    \* values of a storage slot; 0 is the absent one
          Blob,    \* encodings of the TeWaka lists
          NoBlob,  \* the empty encoding
          None,    \* a nil pointer, or an absent account
          Unset    \* a key that a storage map does not have

Account == [nonce: Nat, balance: Int, code: BOOLEAN, slot: Word, te: Blob]

Object ==
  [nonce: Nat, balance: Int, code: BOOLEAN,
   trie: Word, origin: Word \cup {Unset}, pending: Word \cup {Unset}, dirty: Word \cup {Unset},
   teTrie: Blob, teOrigin: Blob \cup {Unset}, teDirty: Blob \cup {Unset},
   suicided: BOOLEAN, deleted: BOOLEAN]

ASSUME StateDBAssumption ==
  /\ 0 \in Word /\ Unset \notin Word
  /\ NoBlob \in Blob /\ Unset \notin Blob
  /\ None \notin Addr /\ None \notin Object /\ None \notin Account
  /\ None \notin Int /\ None \notin Blob
  /\ None \notin [nonce: Nat, balance: Int, code: BOOLEAN, slot: Word, te: Blob, suicided: BOOLEAN]

(***************************************************************************)
(* State objects.                                                          *)
(***************************************************************************)
newObject(acct) ==
  [nonce |-> acct.nonce, balance |-> acct.balance, code |-> acct.code,
   trie |-> acct.slot, origin |-> Unset, pending |-> Unset, dirty |-> Unset,
   teTrie |-> acct.te, teOrigin |-> Unset, teDirty |-> Unset,
   suicided |-> FALSE, deleted |-> FALSE]

EmptyAccount == [nonce |-> 0, balance |-> 0, code |-> FALSE, slot |-> 0, te |-> NoBlob]

empty(o) == o.nonce = 0 /\ o.balance = 0 /\ ~o.code /\ o.teDirty = Unset

GetCommittedState(o) ==
  IF o.pending # Unset THEN o.pending ELSE IF o.origin # Unset THEN o.origin ELSE o.trie

GetState(o) == IF o.dirty # Unset THEN o.dirty ELSE GetCommittedState(o)

GetTeWakaState(o) == IF o.teOrigin # Unset THEN o.teOrigin ELSE o.teTrie

\* What a program can see of an object, and whether it is marked for removal.
Seen(o) ==
  IF o = None THEN None
  ELSE IF o.deleted THEN None
  ELSE [nonce |-> o.nonce, balance |-> o.balance, code |-> o.code,
        slot |-> GetState(o), te |-> GetTeWakaState(o), suicided |-> o.suicided]

\* A transaction's last value of the slot becomes the pending one.
finalise(o) ==
  IF o.dirty = Unset THEN o ELSE [o EXCEPT !.pending = o.dirty, !.dirty = Unset]

\* The origin map returns zero for a key it does not have.
updateTrie(o) ==
  LET f == finalise(o)
      origin == IF f.origin = Unset THEN 0 ELSE f.origin
      g == IF f.pending = Unset \/ f.pending = origin THEN f
           ELSE [f EXCEPT !.trie = f.pending, !.origin = f.pending]
  IN  [g EXCEPT !.pending = Unset,
                !.teTrie = IF f.teDirty = Unset THEN @ ELSE f.teDirty,
                !.teDirty = Unset]

\* What updateStateObject writes to the account trie after updateRoot.
encoded(o) ==
  [nonce |-> o.nonce, balance |-> o.balance, code |-> o.code,
   slot |-> updateTrie(o).trie, te |-> updateTrie(o).teTrie]

(***************************************************************************)
(* The database.  db.past is a history: what a program could see when each *)
(* snapshot of db.revs was taken.                                          *)
(***************************************************************************)
NoAccess == [idx |-> [a \in Addr |-> None], slots |-> <<>>]

New(trie) ==
  [trie |-> trie, objs |-> [a \in Addr |-> None], journal |-> <<>>,
   dirties |-> [a \in Addr |-> 0], revs |-> <<>>, nextRev |-> 0, pending |-> {},
   al |-> NoAccess, refund |-> 0, logs |-> 0, past |-> <<>>]

getDeletedStateObject(db, a) ==
  IF db.objs[a] # None THEN db.objs[a]
  ELSE IF db.trie[a] # None THEN newObject(db.trie[a]) ELSE None

Exist(db, a) == Seen(getDeletedStateObject(db, a)) # None

World(db) ==
  [acc |-> [a \in Addr |-> Seen(getDeletedStateObject(db, a))],
   al |-> db.al, refund |-> db.refund, logs |-> db.logs]

GetBalance(db, a) == IF Exist(db, a) THEN getDeletedStateObject(db, a).balance ELSE 0
GetNonce(db, a) == IF Exist(db, a) THEN getDeletedStateObject(db, a).nonce ELSE 0
HasCode(db, a) == Exist(db, a) /\ getDeletedStateObject(db, a).code

entry(kind, a, dirtied, prev) == [kind |-> kind, addr |-> a, dirtied |-> dirtied, prev |-> prev]

\* The number of entries that dirty an account.
counted(dirties, a, n) == IF a = None THEN dirties ELSE [dirties EXCEPT ![a] = @ + n]

append(db, e) == [db EXCEPT !.journal = Append(@, e), !.dirties = counted(@, e.dirtied, 1)]

setStateObject(db, a, o) == [db EXCEPT !.objs[a] = o]

createObject(db, a) ==
  LET prev == getDeletedStateObject(db, a)
      e == IF prev = None THEN entry("createObject", a, a, None)
                          ELSE entry("resetObject", a, None, prev)
  IN  setStateObject(append(db, e), a, newObject(EmptyAccount))

\* An object read from the trie joins the live ones.
GetOrNewStateObject(db, a) ==
  IF Exist(db, a) THEN setStateObject(db, a, getDeletedStateObject(db, a)) ELSE createObject(db, a)

\* The balance of a live account is carried over, without an entry of its own.
CreateAccount(db, a) ==
  LET d == createObject(db, a)
  IN  IF Exist(db, a) THEN [d EXCEPT !.objs[a].balance = getDeletedStateObject(db, a).balance] ELSE d

SetBalance(db, a, n) ==
  LET d == GetOrNewStateObject(db, a)
      o == d.objs[a]
  IN  setStateObject(append(d, entry("balance", a, a, o.balance)), a, [o EXCEPT !.balance = n])

SetNonce(db, a, n) ==
  LET d == GetOrNewStateObject(db, a)
      o == d.objs[a]
  IN  setStateObject(append(d, entry("nonce", a, a, o.nonce)), a, [o EXCEPT !.nonce = n])

SetCode(db, a) ==
  LET d == GetOrNewStateObject(db, a)
      o == d.objs[a]
  IN  setStateObject(append(d, entry("code", a, a, o.code)), a, [o EXCEPT !.code = TRUE])

\* Nothing is recorded for nothing, except that an empty account is touched.
AddBalance(db, a, n) ==
  LET d == GetOrNewStateObject(db, a)
  IN  IF n # 0 THEN SetBalance(d, a, d.objs[a].balance + n)
      ELSE IF empty(d.objs[a]) THEN append(d, entry("touch", a, a, None)) ELSE d

SubBalance(db, a, n) ==
  LET d == GetOrNewStateObject(db, a)
  IN  IF n = 0 THEN d ELSE SetBalance(d, a, d.objs[a].balance - n)

Transfer(db, from, to, n) == AddBalance(SubBalance(db, from, n), to, n)

\* The old value is read first, which fills the origin map.
SetState(db, a, v) ==
  LET d == GetOrNewStateObject(db, a)
      o == d.objs[a]
      read == IF o.dirty = Unset /\ o.pending = Unset THEN [o EXCEPT !.origin = GetState(o)] ELSE o
  IN  IF GetState(o) = v THEN setStateObject(d, a, read)
      ELSE setStateObject(append(d, entry("storage", a, a, GetState(o))), a, [read EXCEPT !.dirty = v])

\* Without its entry in the journal: a failed call would keep the lists.
SetTeWakaStateUnjournaled(db, a, b) ==
  [GetOrNewStateObject(db, a) EXCEPT !.objs[a].teOrigin = b, !.objs[a].teDirty = b]

SetTeWakaState(db, a, b) ==
  LET d == GetOrNewStateObject(db, a)
      o == d.objs[a]
  IN  setStateObject(append(d, entry("teWakaStorage", a, a, GetTeWakaState(o))), a,
                     [o EXCEPT !.teOrigin = b, !.teDirty = b])

Suicide(db, a) ==
  LET d == GetOrNewStateObject(db, a)
      o == d.objs[a]
  IN  IF ~Exist(db, a) THEN db
      ELSE setStateObject(append(d, entry("suicide", a, a, [suicided |-> o.suicided, balance |-> o.balance])),
                          a, [o EXCEPT !.suicided = TRUE, !.balance = 0])

AddLog(db) == [append(db, entry("addLog", None, None, None)) EXCEPT !.logs = @ + 1]

AddRefund(db, n) == [append(db, entry("refund", None, None, db.refund)) EXCEPT !.refund = @ + n]

\* The code panics when the counter would go below zero; here it does go there.
SubRefund(db, n) == [append(db, entry("refund", None, None, db.refund)) EXCEPT !.refund = @ - n]

(***************************************************************************)
(* The access list: addresses map to no index (-1) or to the place of      *)
(* their keys in slots (counted from 1 here).                              *)
(***************************************************************************)
AddAddressToAccessList(db, a) ==
  IF db.al.idx[a] # None THEN db
  ELSE [append(db, entry("accessListAddAccount", a, None, None)) EXCEPT !.al.idx[a] = -1]

AddSlotToAccessList(db, a, k) ==
  LET d == AddAddressToAccessList(db, a)
      i == d.al.idx[a]
      e == entry("accessListAddSlot", a, None, k)
  IN  IF i = -1
      THEN [append(d, e) EXCEPT !.al = [idx |-> [@.idx EXCEPT ![a] = Len(d.al.slots) + 1],
                                         slots |-> Append(@.slots, {k})]]
      ELSE IF k \in d.al.slots[i] THEN d
      ELSE [append(d, e) EXCEPT !.al.slots[i] = @ \cup {k}]

DeleteSlot(al, a, k) ==
  LET i == al.idx[a]
      rest == al.slots[i] \ {k}
  IN  IF rest = {} THEN [idx |-> [al.idx EXCEPT ![a] = -1], slots |-> SubSeq(al.slots, 1, i - 1)]
      ELSE [al EXCEPT !.slots[i] = rest]

(***************************************************************************)
(* Snapshots and the journal.                                              *)
(***************************************************************************)
Snapshot(db) ==
  [db EXCEPT !.revs = Append(@, [id |-> db.nextRev, index |-> Len(db.journal)]), !.nextRev = @ + 1,
             !.past = Append(@, World(db))]

\* The revisions from i on are dropped.
dropRevisions(db, i) == [db EXCEPT !.revs = SubSeq(@, 1, i - 1), !.past = SubSeq(@, 1, i - 1)]

\* An entry that restores a field finds its account live.
restore(db, e) ==
  LET o == getDeletedStateObject(db, e.addr)
      set(object) == setStateObject(db, e.addr, object)
  IN  CASE e.kind = "createObject"  -> set(None)
        [] e.kind = "resetObject"   -> set(e.prev)
        [] e.kind = "suicide"       -> set([o EXCEPT !.suicided = e.prev.suicided, !.balance = e.prev.balance])
        [] e.kind = "balance"       -> set([o EXCEPT !.balance = e.prev])
        [] e.kind = "nonce"         -> set([o EXCEPT !.nonce = e.prev])
        [] e.kind = "code"          -> set([o EXCEPT !.code = e.prev])
        [] e.kind = "storage"       -> set([o EXCEPT !.dirty = e.prev])
        [] e.kind = "teWakaStorage" -> set([o EXCEPT !.teOrigin = e.prev, !.teDirty = e.prev])
        [] e.kind = "touch"         -> db
        [] e.kind = "addLog"        -> [db EXCEPT !.logs = @ - 1]
        [] e.kind = "refund"        -> [db EXCEPT !.refund = e.prev]
        [] e.kind = "accessListAddAccount" -> [db EXCEPT !.al.idx[e.addr] = None]
        [] e.kind = "accessListAddSlot"    -> [db EXCEPT !.al = DeleteSlot(@, e.addr, e.prev)]

\* One turn of the loop of journal.revert.
undoLast(db) ==
  LET n == Len(db.journal)
      e == db.journal[n]
  IN  [restore(db, e) EXCEPT
         !.journal = SubSeq(@, 1, n - 1),
         !.dirties = counted(@, e.dirtied, -1)]

\* sort.Search: the first revision whose id is not below revid.
searchRevision(db, revid) ==
  CHOOSE i \in 1 .. Len(db.revs) + 1 :
    /\ i <= Len(db.revs) => db.revs[i].id >= revid
    /\ \A j \in 1 .. i - 1 : db.revs[j].id < revid

(***************************************************************************)
(* The end of a transaction and of a block.                                *)
(***************************************************************************)
Finalise(db) ==
  LET touched == {a \in Addr : db.dirties[a] > 0 /\ db.objs[a] # None}
      end(o) == IF o.suicided \/ empty(o) THEN [o EXCEPT !.deleted = TRUE] ELSE finalise(o)
  IN  [db EXCEPT !.objs = [a \in Addr |-> IF a \in touched THEN end(@[a]) ELSE @[a]],
                 !.pending = @ \cup touched,
                 !.journal = <<>>, !.dirties = [a \in Addr |-> 0], !.past = <<>>, !.revs = <<>>,
                 !.refund = IF db.journal = <<>> THEN @ ELSE 0]

\* The account trie after IntermediateRoot.
rootOf(db) ==
  [a \in Addr |->
     IF a \notin db.pending THEN db.trie[a]
     ELSE IF db.objs[a].deleted THEN None ELSE encoded(db.objs[a])]

\* Prepare starts a transaction with an empty access list.
Prepare(db) == [db EXCEPT !.al = NoAccess]

\* IntermediateRoot and Commit, and the database opened at the new root.
Commit(db) == New(rootOf(Finalise(db)))

=============================================================================
