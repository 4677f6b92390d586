---------------------------- MODULE StateDBProofs ----------------------------
(***************************************************************************)
(* What the journal of StateDB promises.                                   *)
(*                                                                         *)
(* Every operation that changes the view of a database appends an entry,   *)
(* and undoing the entry leads from any database with the view after the   *)
(* operation to one with the view before it.  The history of a journal     *)
(* (StateDBViews) therefore grows with every operation, and undoing the    *)
(* entries down to a length leads to the view it had at that length.       *)
(***************************************************************************)
EXTENDS StateDBViews

USE FirstOrder

-----------------------------------------------------------------------------
(***************************************************************************)
(* Objects and views.                                                      *)
(***************************************************************************)
\* Sequences of the same length with the same elements are equal.
LEMMA SameSeqs ==
  ASSUME NEW S, NEW s \in Seq(S), NEW t \in Seq(S), Len(s) = Len(t),
         \A i \in 1 .. Len(s) : s[i] = t[i]
  PROVE  s = t
BY Solver

\* An object made from an account shows that account.
LEMMA NewObject ==
  ASSUME NEW acct \in Account
  PROVE  /\ Coherent(newObject(acct)) /\ ~newObject(acct).deleted
         /\ OrigOf(newObject(acct)) = acct.slot
         /\ Seen(newObject(acct))
              = [nonce |-> acct.nonce, balance |-> acct.balance, code |-> acct.code,
                 slot |-> acct.slot, te |-> acct.te, suicided |-> FALSE]
<1>1. newObject(acct) \in Object
  BY DEF newObject, Account, Object
<1>2. newObject(acct) # None
  BY <1>1, StateDBAssumption
<1>3. Coherent(newObject(acct)) /\ ~newObject(acct).deleted
  BY <1>1 DEF Coherent, newObject
<1>4. GetCommittedState(newObject(acct)) = acct.slot /\ GetState(newObject(acct)) = acct.slot
      /\ GetTeWakaState(newObject(acct)) = acct.te
  BY DEF newObject, GetCommittedState, GetState, GetTeWakaState
<1>5. Seen(newObject(acct))
              = [nonce |-> acct.nonce, balance |-> acct.balance, code |-> acct.code,
                 slot |-> acct.slot, te |-> acct.te, suicided |-> FALSE]
  BY <1>2, <1>3, <1>4 DEF Seen, newObject
<1>6. Seen(newObject(acct)) \in SeenAccount
  BY Solver, <1>5 DEF Account, SeenAccount
<1>7. Seen(newObject(acct)) # None
  BY <1>6, StateDBAssumption DEF SeenAccount
<1> QED
  BY <1>3, <1>4, <1>5, <1>7 DEF OrigOf

\* The account that a new object starts from.
LEMMA EmptyIsAccount == EmptyAccount \in Account
BY Solver, StateDBAssumption DEF EmptyAccount, Account

\* What is seen of a coherent object.
LEMMA SeenOf ==
  ASSUME NEW o, Coherent(o)
  PROVE  /\ o # None /\ GetState(o) \in Word /\ GetCommittedState(o) \in Word /\ GetTeWakaState(o) \in Blob
         /\ Seen(o) = None <=> o.deleted
         /\ ~o.deleted => /\ Seen(o) = [nonce |-> o.nonce, balance |-> o.balance, code |-> o.code,
                                        slot |-> GetState(o), te |-> GetTeWakaState(o),
                                        suicided |-> o.suicided]
                          /\ Seen(o) \in SeenAccount
                          /\ OrigOf(o) = GetCommittedState(o)
<1>1. o \in Object /\ o # None
  BY StateDBAssumption DEF Coherent
<1>2. GetCommittedState(o) \in Word /\ GetTeWakaState(o) \in Blob
  BY <1>1 DEF GetCommittedState, GetTeWakaState, Object
<1>3. GetState(o) \in Word
  BY <1>1, <1>2 DEF GetState, Object
<1>4. CASE o.deleted
  BY <1>1, <1>2, <1>3, <1>4 DEF Seen
<1>5. CASE ~o.deleted
  <2>1. Seen(o) = [nonce |-> o.nonce, balance |-> o.balance, code |-> o.code,
                   slot |-> GetState(o), te |-> GetTeWakaState(o), suicided |-> o.suicided]
    BY <1>1, <1>5 DEF Seen
  <2>2. Seen(o) \in SeenAccount
    BY Solver, <1>1, <1>2, <1>3, <2>1 DEF SeenAccount, Object
  <2>3. Seen(o) # None
    BY <2>2, StateDBAssumption DEF SeenAccount
  <2> QED
    BY <1>1, <1>2, <1>3, <1>5, <2>1, <2>2, <2>3 DEF OrigOf
<1>6. o.deleted \in BOOLEAN
  BY <1>1 DEF Object
<1> QED
  BY <1>4, <1>5, <1>6

\* The object of an account, live, deleted, in the trie or nowhere.
LEMMA ObjectOf ==
  ASSUME NEW d, Core(d), NEW a \in Addr
  PROVE  LET o == getDeletedStateObject(d, a)
         IN  /\ o # None => Coherent(o) /\ (o.deleted => a \in d.pending)
             /\ d.objs[a] # None => o = d.objs[a]
<1> DEFINE o == getDeletedStateObject(d, a)
<1>1. CASE d.objs[a] # None
  BY <1>1 DEF Core, ObjsOK, getDeletedStateObject
<1>2. CASE d.objs[a] = None /\ d.trie[a] # None
  <2>1. d.trie[a] \in Account /\ o = newObject(d.trie[a])
    BY <1>2 DEF Core, getDeletedStateObject
  <2> QED
    BY <1>2, <2>1, NewObject
<1>3. CASE d.objs[a] = None /\ d.trie[a] = None
  BY <1>3 DEF getDeletedStateObject
<1> QED
  BY <1>1, <1>2, <1>3

\* Where there is no object, nothing is seen.
LEMMA SeenNone == Seen(None) = None /\ OrigOf(None) = 0
BY DEF Seen, OrigOf

\* Databases with the same parts have the same view.
LEMMA SameViews ==
  ASSUME NEW d, NEW e, Acc(e) = Acc(d), Origs(e) = Origs(d), e.al = d.al, e.refund = d.refund,
         e.logs = d.logs, e.dirties = d.dirties
  PROVE  View(e) = View(d)
BY DEF View

\* The parts of a view.
LEMMA ViewFields ==
  ASSUME NEW d
  PROVE  /\ View(d).acc = Acc(d) /\ View(d).orig = Origs(d) /\ View(d).al = d.al
         /\ View(d).refund = d.refund /\ View(d).logs = d.logs /\ View(d).dirties = d.dirties
BY DEF View

\* What the view shows of one account.
LEMMA AccAt ==
  ASSUME NEW d, NEW a \in Addr
  PROVE  /\ Acc(d)[a] = Seen(getDeletedStateObject(d, a))
         /\ Origs(d)[a] = OrigOf(getDeletedStateObject(d, a))
BY DEF Acc, Origs

\* Databases with the same objects and trie.
LEMMA SameObjects ==
  ASSUME NEW d, NEW e, e.objs = d.objs, e.trie = d.trie
  PROVE  Acc(e) = Acc(d) /\ Origs(e) = Origs(d) /\ Known(e) = Known(d)
BY DEF Acc, Origs, Known, getDeletedStateObject

\* setStateObject changes what is seen of one account.
LEMMA SetObject ==
  ASSUME NEW d, Core(d), NEW a \in Addr, NEW o, Coherent(o), o.deleted => a \in d.pending
  PROVE  /\ Core(setStateObject(d, a, o)) /\ SameRest(d, setStateObject(d, a, o))
         /\ SameCounts(d, setStateObject(d, a, o)) /\ ObjectSet(d, setStateObject(d, a, o), a, o)
         /\ setStateObject(d, a, o).journal = d.journal
         /\ setStateObject(d, a, o).dirties = d.dirties
<1> DEFINE e == setStateObject(d, a, o)
<1>1. /\ Shaped(e) /\ SameRest(d, e) /\ e.journal = d.journal /\ e.objs = [d.objs EXCEPT ![a] = o]
      /\ SameCounts(d, e) /\ e.dirties = d.dirties
  BY DEF setStateObject, Core, Shaped, SameRest, SameCounts
<1>2. o \in Object /\ o # None
  BY StateDBAssumption DEF Coherent
<1> HIDE DEF e
<1>3. ObjsOK(e)
  BY <1>1, <1>2 DEF ObjsOK, Core, SameRest
<1>4. Core(e)
  BY <1>1, <1>3 DEF Core, SameRest, SameCounts, CountsOK
<1>5. getDeletedStateObject(e, a) = o
  BY <1>1, <1>2 DEF getDeletedStateObject, Core, ObjsOK
<1>6. \A b \in Addr : b # a => getDeletedStateObject(e, b) = getDeletedStateObject(d, b)
  BY <1>1, <1>2 DEF getDeletedStateObject, Core, ObjsOK, SameRest
<1>7. Acc(e) = [Acc(d) EXCEPT ![a] = Seen(o)]
  BY <1>5, <1>6 DEF Acc
<1>8. Origs(e) = [Origs(d) EXCEPT ![a] = OrigOf(o)]
  BY <1>5, <1>6 DEF Origs
<1>9. /\ \A b \in Addr : b # a => (b \in Known(e) <=> b \in Known(d))
      /\ a \in Known(e) <=> o.origin # Unset
  BY <1>2, <1>5, <1>6 DEF Known
<1>10. ObjectSet(d, e, a, o)
  BY <1>1, <1>7, <1>8, <1>9 DEF ObjectSet
<1> QED
  BY <1>1, <1>4, <1>10 DEF e

\* An entry is appended: what it dirties is counted.
LEMMA Appended ==
  ASSUME NEW d, Core(d), NEW ent, ent.dirtied \in Addr \cup {None}
  PROVE  /\ Core(append(d, ent)) /\ Logged(d, append(d, ent), ent) /\ SameCounts(d, append(d, ent))
         /\ append(d, ent).objs = d.objs
         /\ Acc(append(d, ent)) = Acc(d) /\ Origs(append(d, ent)) = Origs(d)
         /\ Known(append(d, ent)) = Known(d)
<1> DEFINE e == append(d, ent)
<1>1. /\ Shaped(e) /\ Logged(d, e, ent) /\ e.objs = d.objs /\ SameCounts(d, e)
  BY DEF append, Core, Shaped, SameRest, SameCounts, Logged
<1> HIDE DEF e
<1>2. counted(d.dirties, ent.dirtied, 1) \in [Addr -> Nat]
  BY Solver DEF counted, Core, CountsOK
<1>3. Core(e)
  BY <1>1, <1>2 DEF Core, Logged, SameRest, SameCounts, CountsOK, ObjsOK
<1>4. Acc(e) = Acc(d) /\ Origs(e) = Origs(d) /\ Known(e) = Known(d)
  BY <1>1, SameObjects DEF Logged, SameRest
<1> QED
  BY <1>1, <1>3, <1>4 DEF e

\* An entry for an account, and the account's new object.
LEMMA EntrySet ==
  ASSUME NEW d, Core(d), NEW a \in Addr, NEW ent, ent.dirtied \in {a, None},
         NEW o, Coherent(o), o.deleted => a \in d.pending
  PROVE  LET e == setStateObject(append(d, ent), a, o)
         IN  Core(e) /\ Logged(d, e, ent) /\ SameCounts(d, e) /\ ObjectSet(d, e, a, o)
<1> DEFINE g == append(d, ent)
           e == setStateObject(g, a, o)
<1>1. /\ Core(g) /\ Logged(d, g, ent) /\ SameCounts(d, g)
      /\ g.objs = d.objs /\ Acc(g) = Acc(d) /\ Origs(g) = Origs(d) /\ Known(g) = Known(d)
  BY Appended
<1> HIDE DEF g
<1>2. o.deleted => a \in g.pending
  BY <1>1 DEF Logged, SameRest
<1>3. /\ Core(e) /\ SameRest(g, e) /\ SameCounts(g, e) /\ ObjectSet(g, e, a, o)
      /\ e.journal = g.journal /\ e.dirties = g.dirties
  BY <1>1, <1>2, SetObject
<1> HIDE DEF e
<1>4. Logged(d, e, ent)
  BY <1>1, <1>3 DEF SameRest, Logged
<1>5. SameCounts(d, e) /\ ObjectSet(d, e, a, o)
  BY <1>1, <1>3 DEF SameCounts, ObjectSet
<1> QED
  BY <1>3, <1>4, <1>5 DEF e, g

-----------------------------------------------------------------------------
(***************************************************************************)
(* What an entry undoes.                                                   *)
(***************************************************************************)
\* Counting a dirty account and uncounting it.
LEMMA CountBack ==
  ASSUME NEW f \in [Addr -> Nat], NEW x \in Addr \cup {None}
  PROVE  counted(counted(f, x, 1), x, -1) = f
<1>1. CASE x = None
  BY <1>1 DEF counted
<1>2. CASE x # None
  <2> DEFINE g == counted(f, x, 1)
  <2>1. g = [f EXCEPT ![x] = @ + 1] /\ counted(g, x, -1) = [g EXCEPT ![x] = @ + (-1)]
    BY <1>2 DEF counted
  <2>2. x \in Addr /\ g \in [Addr -> Nat] /\ g[x] = f[x] + 1
    BY Solver, <1>2, <2>1
  <2> HIDE DEF g
  <2>3. g[x] + (-1) = f[x]
    BY Solver, <2>2
  <2>4. \A y \in Addr : [g EXCEPT ![x] = g[x] + (-1)][y] = f[y]
    BY <2>1, <2>2, <2>3
  <2> QED
    BY <2>1, <2>2, <2>4 DEF g
<1> QED
  BY <1>1, <1>2

\* The counts of dirty accounts are not part of an account.
LEMMA Recounted ==
  ASSUME NEW d, Core(d), NEW f \in [Addr -> Nat]
  PROVE  LET e == [d EXCEPT !.dirties = f]
         IN  /\ Core(e) /\ SameRest(d, e) /\ SameCounts(d, e) /\ e.journal = d.journal
             /\ e.dirties = f /\ Acc(e) = Acc(d) /\ Origs(e) = Origs(d) /\ Known(e) = Known(d)
<1> DEFINE e == [d EXCEPT !.dirties = f]
<1>1. /\ Shaped(e) /\ SameRest(d, e) /\ SameCounts(d, e) /\ e.journal = d.journal /\ e.dirties = f
      /\ e.objs = d.objs
  BY DEF Core, Shaped, SameRest, SameCounts
<1> HIDE DEF e
<1>2. Core(e)
  BY <1>1 DEF Core, SameRest, SameCounts, CountsOK, ObjsOK
<1>3. Acc(e) = Acc(d) /\ Origs(e) = Origs(d) /\ Known(e) = Known(d)
  BY <1>1, SameObjects DEF SameRest
<1> QED
  BY <1>1, <1>2, <1>3 DEF e

\* From g to s, an account is put back.
PutBack(g, s, a, x, y) ==
  /\ Core(s) /\ SameRest(g, s) /\ SameCounts(g, s) /\ s.journal = g.journal /\ s.dirties = g.dirties
  /\ Acc(s) = [Acc(g) EXCEPT ![a] = x] /\ Origs(s) = [Origs(g) EXCEPT ![a] = y]
  /\ \A b \in Known(g) : b # a => b \in Known(s)

\* An entry that kept the former object puts it back.
LEMMA PutBackObject ==
  ASSUME NEW g, Core(g), NEW a \in Addr, NEW r, Coherent(r), r.deleted => a \in g.pending
  PROVE  /\ PutBack(g, setStateObject(g, a, r), a, Seen(r), OrigOf(r))
         /\ a \in Known(setStateObject(g, a, r)) <=> r.origin # Unset
<1> DEFINE e == setStateObject(g, a, r)
<1>1. /\ Core(e) /\ SameRest(g, e) /\ SameCounts(g, e) /\ ObjectSet(g, e, a, r)
      /\ e.journal = g.journal /\ e.dirties = g.dirties
  BY SetObject
<1> HIDE DEF e
<1>2. PutBack(g, e, a, Seen(r), OrigOf(r)) /\ (a \in Known(e) <=> r.origin # Unset)
  <2>1. Known(g) \subseteq Addr
    BY DEF Known
  <2> QED
    BY <1>1, <2>1 DEF PutBack, ObjectSet
<1> QED
  BY <1>2 DEF e

\* The entry of a created account forgets its object.
LEMMA PutBackNone ==
  ASSUME NEW g, Core(g), NEW a \in Addr, g.trie[a] = None, a \notin g.pending
  PROVE  PutBack(g, setStateObject(g, a, None), a, None, 0)
<1> DEFINE e == setStateObject(g, a, None)
<1>1. /\ Shaped(e) /\ SameRest(g, e) /\ e.journal = g.journal /\ e.objs = [g.objs EXCEPT ![a] = None]
      /\ SameCounts(g, e) /\ e.dirties = g.dirties
  BY DEF setStateObject, Core, Shaped, SameRest, SameCounts
<1> HIDE DEF e
<1>2. ObjsOK(e)
  BY Solver, <1>1 DEF ObjsOK, Core, SameRest
<1>3. Core(e)
  BY <1>1, <1>2 DEF Core, SameRest, SameCounts, CountsOK
<1>4. getDeletedStateObject(e, a) = None
  BY <1>1 DEF getDeletedStateObject, Core, ObjsOK, SameRest
<1>5. \A b \in Addr : b # a => getDeletedStateObject(e, b) = getDeletedStateObject(g, b)
  BY <1>1 DEF getDeletedStateObject, Core, ObjsOK, SameRest
<1>6. Acc(e) = [Acc(g) EXCEPT ![a] = None]
  BY <1>4, <1>5, SeenNone DEF Acc
<1>7. Origs(e) = [Origs(g) EXCEPT ![a] = 0]
  BY <1>4, <1>5, SeenNone DEF Origs
<1>8. \A b \in Known(g) : b # a => b \in Known(e)
  BY <1>5 DEF Known
<1> QED
  BY <1>1, <1>3, <1>6, <1>7, <1>8 DEF e, PutBack

\* Undoing the entry puts the account back as d shows it.
GivesBack(d, e, a, o, ent) ==
  \A g : Core(g) /\ g.trie = d.trie /\ g.pending = d.pending /\ Acc(g)[a] = Seen(o)
         /\ Origs(g)[a] = OrigOf(o) /\ (a \in Known(e) => a \in Known(g)) =>
           /\ PutBack(g, restore(g, ent), a, Acc(d)[a], Origs(d)[a])
           /\ a \in Known(d) => a \in Known(restore(g, ent))

\* An entry that puts one account back as it was seen.
LEMMA AccountUndoes ==
  ASSUME NEW d, Core(d), NEW a \in Addr, NEW ent, ent.dirtied \in {a, None},
         NEW e, NEW o, Logged(d, e, ent), SameCounts(d, e), ObjectSet(d, e, a, o),
         GivesBack(d, e, a, o, ent)
  PROVE  Undoes(d.trie, d.pending, ent, View(e), Known(e), View(d), Known(d))
<1> SUFFICES ASSUME NEW g, Core(g), g.trie = d.trie, g.pending = d.pending, View(g) = View(e),
                    Known(e) \subseteq Known(g)
             PROVE  /\ Core(undone(g, ent)) /\ View(undone(g, ent)) = View(d)
                    /\ Known(d) \subseteq Known(undone(g, ent))
                    /\ SameRest(g, undone(g, ent)) /\ undone(g, ent).journal = g.journal
  BY DEF Undoes
<1>1. /\ Acc(g) = [Acc(d) EXCEPT ![a] = Seen(o)] /\ Origs(g) = [Origs(d) EXCEPT ![a] = OrigOf(o)]
      /\ SameCounts(d, g) /\ g.dirties = counted(d.dirties, ent.dirtied, 1)
  BY Solver, ViewFields DEF ObjectSet, SameCounts, Logged
<1>2. DOMAIN Acc(d) = Addr /\ DOMAIN Origs(d) = Addr
  BY DEF Acc, Origs
<1>3. Acc(g)[a] = Seen(o) /\ Origs(g)[a] = OrigOf(o)
  BY <1>1, <1>2
<1> DEFINE s == restore(g, ent)
<1>5. PutBack(g, s, a, Acc(d)[a], Origs(d)[a]) /\ (a \in Known(d) => a \in Known(s))
  <2>1. a \in Known(e) => a \in Known(g)
    OBVIOUS
  <2> QED
    BY <1>3, <2>1 DEF GivesBack
<1>6. undone(g, ent) = [s EXCEPT !.dirties = counted(s.dirties, ent.dirtied, -1)]
  BY DEF undone
<1> HIDE DEF s
<1>7. counted(s.dirties, ent.dirtied, -1) = d.dirties /\ d.dirties \in [Addr -> Nat]
  BY Solver, <1>1, <1>5, CountBack DEF Core, CountsOK, PutBack
<1>8. /\ Core(undone(g, ent)) /\ SameRest(s, undone(g, ent)) /\ SameCounts(s, undone(g, ent))
      /\ undone(g, ent).journal = s.journal /\ undone(g, ent).dirties = d.dirties
      /\ Acc(undone(g, ent)) = Acc(s) /\ Origs(undone(g, ent)) = Origs(s)
      /\ Known(undone(g, ent)) = Known(s)
  <2>1. Core(s)
    BY <1>5 DEF PutBack
  <2> QED
    BY Solver, <1>6, <1>7, <2>1, Recounted
<1>9. Acc(s) = Acc(d)
  <2>1. Acc(s) = [[Acc(d) EXCEPT ![a] = Seen(o)] EXCEPT ![a] = Acc(d)[a]]
    BY <1>1, <1>5 DEF PutBack
  <2>2. Acc(d) = [b \in Addr |-> Acc(d)[b]]
    BY DEF Acc
  <2> QED
    BY <2>1, <2>2
<1>10. Origs(s) = Origs(d)
  <2>1. Origs(s) = [[Origs(d) EXCEPT ![a] = OrigOf(o)] EXCEPT ![a] = Origs(d)[a]]
    BY <1>1, <1>5 DEF PutBack
  <2>2. Origs(d) = [b \in Addr |-> Origs(d)[b]]
    BY DEF Origs
  <2> QED
    BY <2>1, <2>2
<1>11. View(undone(g, ent)) = View(d)
  BY <1>1, <1>5, <1>8, <1>9, <1>10, SameViews DEF SameCounts, PutBack
<1>12. Known(d) \subseteq Known(s)
  <2>1. Known(d) \subseteq Addr
    BY DEF Known
  <2>2. \A b \in Known(d) : b # a => b \in Known(g)
    BY <2>1 DEF ObjectSet
  <2> QED
    BY <1>5, <2>2 DEF PutBack
<1> QED
  BY <1>5, <1>8, <1>11, <1>12 DEF SameRest, PutBack

-----------------------------------------------------------------------------
(***************************************************************************)
(* Histories.                                                              *)
(***************************************************************************)
LEMMA HistoryLen ==
  ASSUME NEW d, NEW h, NEW known, History(d, h, known) PROVE Len(d.journal) \in Nat
BY Solver DEF History

\* A step that the view cannot tell needs no entry.
LEMMA ReachesStill ==
  ASSUME NEW d, NEW e, Core(e), SameRest(d, e), e.journal = d.journal, View(e) = View(d),
         Known(d) \subseteq Known(e)
  PROVE  Reaches(d, e)
<1> SUFFICES ASSUME NEW h, NEW known, History(d, h, known)
             PROVE  /\ Len(d.journal) <= Len(e.journal)
                    /\ History(e, h, known) /\ \A k \in 0 .. Len(d.journal) : h[k] = h[k]
  BY DEF Reaches
<1>1. Len(d.journal) <= Len(e.journal)
  BY Solver, HistoryLen
<1>2. History(e, h, known)
  BY DEF History, SameRest
<1> QED
  BY <1>1, <1>2

\* A step with an entry that undoes it extends the history.
LEMMA ReachesEntry ==
  ASSUME NEW d, NEW e, NEW ent, Core(e), Logged(d, e, ent),
         Undoes(d.trie, d.pending, ent, View(e), Known(e), View(d), Known(d))
  PROVE  Reaches(d, e)
<1> SUFFICES ASSUME NEW h, NEW known, History(d, h, known)
             PROVE  /\ Len(d.journal) <= Len(e.journal)
                    /\ \E g, l : History(e, g, l) /\ \A k \in 0 .. Len(d.journal) : g[k] = h[k]
  BY DEF Reaches, Logged
<1>1. PICK S : d.journal \in Seq(S)
  BY DEF History
<1>2. PICK n \in Nat : n = Len(d.journal)
  BY Solver, <1>1
<1>3. /\ d.journal \in Seq(S \cup {ent}) /\ e.journal = Append(d.journal, ent)
      /\ e.journal \in Seq(S \cup {ent}) /\ Len(e.journal) = n + 1
  BY Solver, <1>1, <1>2 DEF Logged
<1>4. e.journal[n + 1] = ent /\ \A k \in 1 .. n : e.journal[k] = d.journal[k]
  BY Solver, <1>1, <1>2, <1>3
<1> DEFINE g == [k \in 0 .. n + 1 |-> IF k = n + 1 THEN View(e) ELSE h[k]]
           l == [k \in 0 .. n + 1 |-> IF k = n + 1 THEN Known(e) ELSE known[k]]
<1>5. /\ g[n + 1] = View(e) /\ \A k \in 0 .. n : g[k] = h[k]
      /\ l[n + 1] = Known(e) /\ \A k \in 0 .. n : l[k] = known[k]
  BY Solver, <1>2
<1> HIDE DEF g, l
<1>6. e.trie = d.trie /\ e.pending = d.pending
  BY DEF Logged, SameRest
<1>7. \A k \in 1 .. n + 1 : Undoes(e.trie, e.pending, e.journal[k], g[k], l[k], g[k - 1], l[k - 1])
  <2> TAKE k \in 1 .. n + 1
  <2>1. CASE k = n + 1
    <3>1. k - 1 \in 0 .. n /\ k - 1 = n /\ h[n] = View(d) /\ known[n] \subseteq Known(d)
      BY Solver, <1>2, <2>1 DEF History
    <3>2. Undoes(d.trie, d.pending, ent, View(e), Known(e), View(d), known[n])
      BY <3>1 DEF Undoes
    <3>3. g[k - 1] = View(d) /\ l[k - 1] = known[n] /\ g[k] = View(e) /\ l[k] = Known(e)
      BY <1>5, <2>1, <3>1
    <3> QED
      BY <1>4, <1>6, <2>1, <3>2, <3>3
  <2>2. CASE k # n + 1
    <3>1. k \in 1 .. n /\ k \in 0 .. n /\ k - 1 \in 0 .. n
      BY Solver, <1>2, <2>2
    <3>2. Undoes(d.trie, d.pending, d.journal[k], h[k], known[k], h[k - 1], known[k - 1])
      BY <1>2, <3>1 DEF History
    <3>3. /\ e.journal[k] = d.journal[k] /\ g[k] = h[k] /\ g[k - 1] = h[k - 1]
          /\ l[k] = known[k] /\ l[k - 1] = known[k - 1]
      BY <1>4, <1>5, <3>1
    <3> QED
      BY <1>6, <3>2, <3>3
  <2> QED
    BY <2>1, <2>2
<1>8. History(e, g, l)
  BY <1>3, <1>5, <1>7 DEF History
<1> QED
  BY Solver, <1>2, <1>3, <1>5, <1>8

\* A database extends its own history.
LEMMA ReachesSelf == ASSUME NEW d, Core(d) PROVE Reaches(d, d)
BY ReachesStill DEF SameRest

\* Histories are extended one step after the other.
LEMMA ReachesTrans ==
  ASSUME NEW d, NEW e, NEW f, Reaches(d, e), Reaches(e, f) PROVE Reaches(d, f)
<1> SUFFICES ASSUME NEW h, NEW known, History(d, h, known)
             PROVE  /\ Len(d.journal) <= Len(f.journal)
                    /\ \E g, l : History(f, g, l) /\ \A k \in 0 .. Len(d.journal) : g[k] = h[k]
  BY DEF Reaches, SameRest
<1>1. Len(d.journal) <= Len(e.journal)
  BY DEF Reaches
<1>2. PICK i, m : History(e, i, m) /\ \A k \in 0 .. Len(d.journal) : i[k] = h[k]
  BY DEF Reaches
<1>3. Len(e.journal) <= Len(f.journal)
  BY <1>2 DEF Reaches
<1>4. PICK g, l : History(f, g, l) /\ \A k \in 0 .. Len(e.journal) : g[k] = i[k]
  BY <1>2 DEF Reaches
<1>5. Len(d.journal) \in Nat /\ Len(e.journal) \in Nat /\ Len(f.journal) \in Nat
  BY <1>2, <1>4, HistoryLen
<1>6. \A k \in 0 .. Len(d.journal) : k \in 0 .. Len(e.journal)
  BY Solver, <1>1, <1>5
<1>7. \A k \in 0 .. Len(d.journal) : g[k] = h[k]
  BY <1>2, <1>4, <1>6
<1> QED
  BY Solver, <1>1, <1>3, <1>4, <1>5, <1>7

-----------------------------------------------------------------------------
(***************************************************************************)
(* Operations on one account.                                              *)
(***************************************************************************)
\* A change of an account is counted, unless the account is pending anyway.
Noted(d, e, a) ==
  /\ \A b \in Addr : b # a => e.dirties[b] = d.dirties[b]
  /\ e.dirties[a] >= d.dirties[a]
  /\ \/ e.dirties[a] > 0 \/ Acc(e)[a] = Acc(d)[a]
     \/ a \in d.pending /\ Acc(d)[a] = None /\ Acc(e)[a] = Blank

\* The account a is seen as s, and nothing else changes.
Changed(d, e, a, s) ==
  /\ Reaches(d, e) /\ SameCounts(d, e) /\ Noted(d, e, a)
  /\ Acc(e) = [Acc(d) EXCEPT ![a] = s] /\ Origs(e) = Origs(d)

\* What each kind of entry restores.
LEMMA RestoreCreate ==
  ASSUME NEW g, NEW a, NEW x, NEW p
  PROVE  restore(g, entry("createObject", a, x, p))
           = setStateObject(g, a, None)
BY DEF restore, entry

\* What each kind of entry restores.
LEMMA RestoreReset ==
  ASSUME NEW g, NEW a, NEW x, NEW p
  PROVE  restore(g, entry("resetObject", a, x, p))
           = setStateObject(g, a, p)
BY DEF restore, entry

\* What undoing an entry sets: the balance,
LEMMA RestoreBalance ==
  ASSUME NEW g, NEW a, NEW x, NEW p
  PROVE  restore(g, entry("balance", a, x, p))
           = setStateObject(g, a, [getDeletedStateObject(g, a) EXCEPT !.balance = p])
BY DEF restore, entry

\* the nonce,
LEMMA RestoreNonce ==
  ASSUME NEW g, NEW a, NEW x, NEW p
  PROVE  restore(g, entry("nonce", a, x, p))
           = setStateObject(g, a, [getDeletedStateObject(g, a) EXCEPT !.nonce = p])
BY DEF restore, entry

\* the code,
LEMMA RestoreCode ==
  ASSUME NEW g, NEW a, NEW x, NEW p
  PROVE  restore(g, entry("code", a, x, p))
           = setStateObject(g, a, [getDeletedStateObject(g, a) EXCEPT !.code = p])
BY DEF restore, entry

\* the slot,
LEMMA RestoreStorage ==
  ASSUME NEW g, NEW a, NEW x, NEW p
  PROVE  restore(g, entry("storage", a, x, p))
           = setStateObject(g, a, [getDeletedStateObject(g, a) EXCEPT !.dirty = p])
BY DEF restore, entry

\* the TeWaka entry,
LEMMA RestoreTeWaka ==
  ASSUME NEW g, NEW a, NEW x, NEW p
  PROVE  restore(g, entry("teWakaStorage", a, x, p))
           = setStateObject(g, a, [getDeletedStateObject(g, a) EXCEPT !.teOrigin = p, !.teDirty = p])
BY DEF restore, entry

marks(r, m, n) == [r EXCEPT !.suicided = m, !.balance = n]

\* the mark and the balance of an account that destroyed itself,
LEMMA RestoreSuicide ==
  ASSUME NEW g, NEW a, NEW x, NEW p
  PROVE  restore(g, entry("suicide", a, x, p))
           = setStateObject(g, a, marks(getDeletedStateObject(g, a), p.suicided, p.balance))
BY DEF restore, entry, marks

\* and nothing, for an account that was only touched.
LEMMA RestoreTouch ==
  ASSUME NEW g, NEW a, NEW x, NEW p
  PROVE  restore(g, entry("touch", a, x, p))
           = g
BY DEF restore, entry

creation(d, a) ==
  IF getDeletedStateObject(d, a) = None THEN entry("createObject", a, a, None)
  ELSE entry("resetObject", a, None, getDeletedStateObject(d, a))

\* A new object, in place of none or of an earlier one.
LEMMA Created ==
  ASSUME NEW d, Core(d), NEW a \in Addr, NEW o, Coherent(o), ~o.deleted
  PROVE  LET e == setStateObject(append(d, creation(d, a)), a, o)
         IN  /\ Core(e) /\ Reaches(d, e) /\ SameCounts(d, e) /\ ObjectSet(d, e, a, o)
             /\ e.dirties = counted(d.dirties, creation(d, a).dirtied, 1)
<1> DEFINE prev == getDeletedStateObject(d, a)
           ent == creation(d, a)
           e == setStateObject(append(d, ent), a, o)
<1>1. ent.dirtied \in {a, None}
  BY DEF creation, entry
<1>2. Core(e) /\ Logged(d, e, ent) /\ SameCounts(d, e) /\ ObjectSet(d, e, a, o)
  <2> HIDE DEF ent
  <2> QED
    BY Solver, <1>1, EntrySet
<1> HIDE DEF e
<1>3. ASSUME prev = None PROVE Reaches(d, e)
  <2>1. ent = entry("createObject", a, a, None)
    BY <1>3 DEF creation
  <2>2. d.objs[a] = None /\ d.trie[a] = None
    <3>1. d.objs[a] = None
      BY <1>3 DEF getDeletedStateObject
    <3>2. d.trie[a] # None => d.trie[a] \in Account /\ prev = newObject(d.trie[a])
      BY <3>1 DEF getDeletedStateObject, Core
    <3>3. d.trie[a] # None => prev # None
      BY <3>2, NewObject, SeenOf
    <3> QED
      BY <1>3, <3>1, <3>3
  <2>3. a \notin d.pending /\ Acc(d)[a] = None /\ Origs(d)[a] = 0 /\ a \notin Known(d)
    BY Solver, <1>3, <2>2, AccAt, SeenNone DEF Core, ObjsOK, Known
  <2>4. ASSUME NEW g, Core(g), g.trie = d.trie, g.pending = d.pending
        PROVE  /\ PutBack(g, restore(g, ent), a, Acc(d)[a], Origs(d)[a])
               /\ a \in Known(d) => a \in Known(restore(g, ent))
    <3>1. restore(g, ent) = setStateObject(g, a, None)
      BY <2>1, RestoreCreate
    <3> QED
      BY <2>2, <2>3, <2>4, <3>1, PutBackNone
  <2> HIDE DEF ent
  <2>5. Undoes(d.trie, d.pending, ent, View(e), Known(e), View(d), Known(d))
    <3>1. GivesBack(d, e, a, o, ent)
      BY <2>4 DEF GivesBack
    <3> QED
      BY Solver, <1>1, <1>2, <3>1, AccountUndoes
  <2> QED
    BY <1>2, <2>5, ReachesEntry
<1>4. ASSUME prev # None PROVE Reaches(d, e)
  <2>1. ent = entry("resetObject", a, None, prev)
    BY <1>4 DEF creation
  <2>2. Coherent(prev) /\ (prev.deleted => a \in d.pending)
    BY <1>4, ObjectOf
  <2>3. /\ Acc(d)[a] = Seen(prev) /\ Origs(d)[a] = OrigOf(prev)
        /\ a \in Known(d) => prev.origin # Unset
    BY AccAt DEF Known
  <2> HIDE DEF prev
  <2>4. ASSUME NEW g, Core(g), g.trie = d.trie, g.pending = d.pending
        PROVE  /\ PutBack(g, restore(g, ent), a, Acc(d)[a], Origs(d)[a])
               /\ a \in Known(d) => a \in Known(restore(g, ent))
    <3>1. restore(g, ent) = setStateObject(g, a, prev)
      BY <2>1, RestoreReset
    <3> QED
      BY <2>2, <2>3, <2>4, <3>1, PutBackObject
  <2> HIDE DEF ent
  <2>5. Undoes(d.trie, d.pending, ent, View(e), Known(e), View(d), Known(d))
    <3>1. GivesBack(d, e, a, o, ent)
      BY <2>4 DEF GivesBack
    <3> QED
      BY Solver, <1>1, <1>2, <3>1, AccountUndoes
  <2> QED
    BY <1>2, <2>5, ReachesEntry
<1>5. Reaches(d, e)
  BY <1>3, <1>4
<1> QED
  BY <1>2, <1>5 DEF Logged, e

\* A new account is empty.
LEMMA BlankObject ==
  /\ Coherent(newObject(EmptyAccount)) /\ ~newObject(EmptyAccount).deleted
  /\ OrigOf(newObject(EmptyAccount)) = 0 /\ Blank # None
  /\ Blank = [nonce |-> 0, balance |-> 0, code |-> FALSE, slot |-> 0, te |-> NoBlob, suicided |-> FALSE]
<1>1. EmptyAccount \in Account /\ EmptyAccount.slot = 0
  BY EmptyIsAccount DEF EmptyAccount
<1>2. Coherent(newObject(EmptyAccount)) /\ ~newObject(EmptyAccount).deleted
      /\ OrigOf(newObject(EmptyAccount)) = 0
  BY <1>1, NewObject
<1>3. Blank = [nonce |-> 0, balance |-> 0, code |-> FALSE, slot |-> 0, te |-> NoBlob, suicided |-> FALSE]
  BY <1>1, NewObject DEF Blank, EmptyAccount
<1>4. Blank # None
  BY <1>2, SeenOf DEF Blank
<1> QED
  BY <1>2, <1>3, <1>4

\* GetOrNewStateObject: the account is found, or created with an entry.
LEMMA Acquired ==
  ASSUME NEW d, Core(d), NEW a \in Addr
  PROVE  LET e == GetOrNewStateObject(d, a)
         IN  /\ Core(e) /\ Changed(d, e, a, Found(Acc(d)[a]))
             /\ e.objs[a] # None /\ Coherent(e.objs[a]) /\ ~e.objs[a].deleted
             /\ Seen(e.objs[a]) = Found(Acc(d)[a])
<1> DEFINE e == GetOrNewStateObject(d, a)
           o == getDeletedStateObject(d, a)
<1>1. Acc(d)[a] = Seen(o) /\ Origs(d)[a] = OrigOf(o)
  BY AccAt
<1>2. Acc(d) = [b \in Addr |-> Acc(d)[b]] /\ Origs(d) = [b \in Addr |-> Origs(d)[b]]
  BY DEF Acc, Origs
<1>3. d.objs \in [Addr -> Object \cup {None}]
  BY DEF Core, ObjsOK
<1>4. CASE Exist(d, a)
  <2>1. e = setStateObject(d, a, o) /\ Seen(o) # None
    BY <1>4 DEF GetOrNewStateObject, Exist
  <2>2. o # None
    BY <2>1, SeenNone
  <2>3. Coherent(o) /\ ~o.deleted
    BY <2>1, <2>2, ObjectOf, SeenOf
  <2> HIDE DEF o, e
  <2>4. /\ Core(e) /\ SameRest(d, e) /\ SameCounts(d, e) /\ ObjectSet(d, e, a, o)
        /\ e.journal = d.journal /\ e.dirties = d.dirties
    BY <2>1, <2>3, SetObject
  <2>5. Acc(e) = Acc(d) /\ Origs(e) = Origs(d)
    BY <1>1, <1>2, <2>4 DEF ObjectSet
  <2>6. Known(d) \subseteq Known(e)
    <3>1. Known(d) \subseteq Addr /\ (a \in Known(d) => o.origin # Unset)
      BY DEF Known, o
    <3> QED
      BY <2>4, <3>1 DEF ObjectSet
  <2>7. View(e) = View(d)
    BY <2>4, <2>5, SameViews DEF SameCounts
  <2>8. Reaches(d, e)
    BY <2>4, <2>6, <2>7, ReachesStill
  <2>9. Noted(d, e, a)
    BY Solver, <2>4, <2>5 DEF Noted, Core, CountsOK
  <2>10. Found(Acc(d)[a]) = Acc(d)[a] /\ Acc(d)[a] = Seen(o)
    BY <1>1, <2>1 DEF Found
  <2>11. Changed(d, e, a, Found(Acc(d)[a]))
    BY <1>2, <2>4, <2>5, <2>8, <2>9, <2>10 DEF Changed
  <2>12. e.objs[a] = o
    BY <1>3, <2>4 DEF ObjectSet
  <2> QED
    BY <2>2, <2>3, <2>4, <2>10, <2>11, <2>12 DEF e
<1>5. CASE ~Exist(d, a)
  <2> DEFINE n == newObject(EmptyAccount)
  <2>1. e = setStateObject(append(d, creation(d, a)), a, n) /\ Acc(d)[a] = None
    BY <1>1, <1>5 DEF GetOrNewStateObject, Exist, createObject, creation
  <2>2. Coherent(n) /\ ~n.deleted /\ OrigOf(n) = 0 /\ Seen(n) = Blank /\ n # None
    BY BlankObject, SeenOf DEF Blank
  <2> HIDE DEF n, e
  <2>3. /\ Core(e) /\ Reaches(d, e) /\ SameCounts(d, e) /\ ObjectSet(d, e, a, n)
        /\ e.dirties = counted(d.dirties, creation(d, a).dirtied, 1)
    BY <2>1, <2>2, Created
  <2>4. Origs(d)[a] = 0 /\ Found(Acc(d)[a]) = Blank
    BY <1>1, <2>1 DEF OrigOf, Found
  <2>5. Acc(e) = [Acc(d) EXCEPT ![a] = Blank] /\ Origs(e) = Origs(d) /\ Acc(e)[a] = Blank
    BY Solver, <1>2, <2>2, <2>3, <2>4 DEF ObjectSet
  <2>6. Noted(d, e, a)
    <3>1. CASE o = None
      <4>1. creation(d, a).dirtied = a
        BY <3>1 DEF creation, entry
      <4>2. e.dirties = [d.dirties EXCEPT ![a] = @ + 1]
        BY <2>3, <4>1, StateDBAssumption DEF counted
      <4> QED
        BY Solver, <4>2 DEF Noted, Core, CountsOK
    <3>2. CASE o # None
      <4>1. creation(d, a).dirtied = None
        BY <3>2 DEF creation, entry
      <4>2. e.dirties = d.dirties
        BY <2>3, <4>1 DEF counted
      <4>3. a \in d.pending
        BY <1>1, <2>1, <3>2, ObjectOf, SeenOf
      <4> QED
        BY Solver, <2>1, <2>5, <4>2, <4>3 DEF Noted, Core, CountsOK
    <3> QED
      BY <3>1, <3>2
  <2>7. Changed(d, e, a, Found(Acc(d)[a]))
    BY <2>3, <2>4, <2>5, <2>6 DEF Changed
  <2>8. e.objs[a] = n
    BY <1>3, <2>3 DEF ObjectSet
  <2> QED
    BY <2>2, <2>3, <2>4, <2>7, <2>8 DEF e
<1> QED
  BY <1>4, <1>5

\* Two changes of one account are a change.
LEMMA ChangedTwice ==
  ASSUME NEW d, NEW e, NEW f, Core(d), Core(e), Core(f), NEW a \in Addr, NEW s, NEW t,
         Changed(d, e, a, s), Changed(e, f, a, t)
  PROVE  Changed(d, f, a, t)
<1>1. Reaches(d, f)
  BY ReachesTrans DEF Changed
<1>2. SameCounts(d, f) /\ Origs(f) = Origs(d)
  BY DEF Changed, SameCounts
<1>3. Acc(d) = [b \in Addr |-> Acc(d)[b]]
  BY DEF Acc
<1>4. Acc(f) = [Acc(d) EXCEPT ![a] = t] /\ Acc(f)[a] = t /\ Acc(e)[a] = s
  BY <1>3 DEF Changed
<1>5. e.pending = d.pending
  BY DEF Changed, Reaches, SameRest
<1>6. /\ d.dirties \in [Addr -> Nat] /\ e.dirties \in [Addr -> Nat] /\ f.dirties \in [Addr -> Nat]
  BY DEF Core, CountsOK
<1>7. Noted(d, f, a)
  BY Solver, <1>4, <1>5, <1>6, BlankObject DEF Changed, Noted
<1> QED
  BY <1>1, <1>2, <1>4, <1>7 DEF Changed

\* Undoing the entry sets the field of the account back to what it was.
SetsBack(a, ent, o, was) ==
  \A g : LET r == getDeletedStateObject(g, a)
         IN  Coherent(r) /\ ~r.deleted /\ Seen(r) = Seen(o) /\ OrigOf(r) = OrigOf(o)
             /\ (o.origin # Unset => r.origin # Unset) =>
               \E q : /\ restore(g, ent) = setStateObject(g, a, q)
                      /\ Coherent(q) /\ ~q.deleted /\ q.origin = r.origin
                      /\ Seen(q) = Seen(was) /\ OrigOf(q) = OrigOf(was)

\* An operation that records a field of a live account and sets it.
LEMMA Setter ==
  ASSUME NEW d, Core(d), NEW a \in Addr, NEW ent, ent.dirtied = a,
         d.objs[a] # None, ~d.objs[a].deleted,
         NEW o, Coherent(o), ~o.deleted, OrigOf(o) = OrigOf(d.objs[a]),
         d.objs[a].origin # Unset => o.origin # Unset,
         SetsBack(a, ent, o, d.objs[a])
  PROVE  LET e == setStateObject(append(d, ent), a, o)
         IN  /\ Core(e) /\ Changed(d, e, a, Seen(o)) /\ e.dirties[a] > 0
             /\ e.objs[a] = o
<1> DEFINE e == setStateObject(append(d, ent), a, o)
           was == d.objs[a]
<1>1. Core(e) /\ Logged(d, e, ent) /\ SameCounts(d, e) /\ ObjectSet(d, e, a, o)
  BY Solver, EntrySet
<1> HIDE DEF e
<1>2. was = getDeletedStateObject(d, a) /\ Acc(d)[a] = Seen(was) /\ Origs(d)[a] = OrigOf(was)
  BY Solver, AccAt, ObjectOf
<1>3. ASSUME NEW g, Core(g), g.trie = d.trie, g.pending = d.pending, Acc(g)[a] = Seen(o),
             Origs(g)[a] = OrigOf(o), a \in Known(e) => a \in Known(g)
      PROVE  /\ PutBack(g, restore(g, ent), a, Acc(d)[a], Origs(d)[a])
             /\ a \in Known(d) => a \in Known(restore(g, ent))
  <2> DEFINE r == getDeletedStateObject(g, a)
  <2>1. Seen(r) = Seen(o) /\ OrigOf(r) = OrigOf(o) /\ Seen(o) # None
    BY Solver, <1>3, AccAt, SeenOf
  <2>2. r # None
    BY <2>1, SeenNone
  <2>3. Coherent(r) /\ ~r.deleted
    BY <1>3, <2>1, <2>2, ObjectOf, SeenOf
  <2>4. o.origin # Unset => r.origin # Unset
    BY <1>1, <1>3 DEF ObjectSet, Known
  <2>5. PICK q : /\ restore(g, ent) = setStateObject(g, a, q)
                 /\ Coherent(q) /\ ~q.deleted /\ q.origin = r.origin
                 /\ Seen(q) = Seen(was) /\ OrigOf(q) = OrigOf(was)
    BY <2>1, <2>3, <2>4 DEF SetsBack
  <2>6. a \in Known(d) => q.origin # Unset
    BY <1>2, <2>4, <2>5 DEF Known
  <2> HIDE DEF r, was
  <2> QED
    BY <1>2, <1>3, <2>5, <2>6, PutBackObject
<1>4. Undoes(d.trie, d.pending, ent, View(e), Known(e), View(d), Known(d))
  <2>1. GivesBack(d, e, a, o, ent)
    BY <1>3 DEF GivesBack
  <2> QED
    BY Solver, <1>1, <2>1, AccountUndoes
<1>5. Reaches(d, e)
  BY <1>1, <1>4, ReachesEntry
<1>6. Origs(e) = Origs(d)
  <2>1. Origs(d) = [b \in Addr |-> Origs(d)[b]]
    BY DEF Origs
  <2> QED
    BY Solver, <1>1, <1>2, <2>1 DEF ObjectSet
<1>7. e.dirties = [d.dirties EXCEPT ![a] = @ + 1] /\ d.dirties \in [Addr -> Nat]
  BY <1>1, StateDBAssumption DEF Logged, counted, Core, CountsOK
<1>8. Noted(d, e, a) /\ e.dirties[a] > 0
  BY Solver, <1>7 DEF Noted
<1>9. e.objs[a] = o
  BY <1>1 DEF ObjectSet, Core, ObjsOK
<1>10. Changed(d, e, a, Seen(o))
  BY <1>1, <1>5, <1>6, <1>8 DEF Changed, ObjectSet
<1> QED
  BY <1>1, <1>8, <1>9, <1>10 DEF e

\* An object with another balance.
LEMMA WithBalance ==
  ASSUME NEW r, Coherent(r), ~r.deleted, NEW n \in Int
  PROVE  LET q == [r EXCEPT !.balance = n]
         IN  /\ Coherent(q) /\ ~q.deleted /\ q.origin = r.origin /\ OrigOf(q) = OrigOf(r)
             /\ Seen(q) = [Seen(r) EXCEPT !.balance = n]
<1> DEFINE q == [r EXCEPT !.balance = n]
<1>1. q \in Object /\ ~q.deleted /\ q.origin = r.origin
  BY DEF Coherent, Object
<1>2. Coherent(q)
  BY <1>1 DEF Coherent, Object
<1>3. GetState(q) = GetState(r) /\ GetCommittedState(q) = GetCommittedState(r)
      /\ GetTeWakaState(q) = GetTeWakaState(r)
  BY DEF GetState, GetCommittedState, GetTeWakaState, Coherent, Object
<1>4. /\ q.nonce = r.nonce /\ q.balance = n /\ q.code = r.code /\ q.suicided = r.suicided
  BY DEF Coherent, Object
<1> HIDE DEF q
<1>5. OrigOf(q) = OrigOf(r)
  BY <1>1, <1>2, <1>3, SeenOf
<1>6. Seen(q) = [Seen(r) EXCEPT !.balance = n]
  BY Solver, <1>1, <1>2, <1>3, <1>4, SeenOf
<1> QED
  BY <1>1, <1>2, <1>5, <1>6 DEF q

\* SetBalance journals the former balance.
LEMMA BalanceSet ==
  ASSUME NEW d, Core(d), NEW a \in Addr, NEW n \in Int
  PROVE  /\ Core(SetBalance(d, a, n)) /\ SetBalance(d, a, n).dirties[a] > 0
         /\ Changed(d, SetBalance(d, a, n), a, [Found(Acc(d)[a]) EXCEPT !.balance = n])
<1> DEFINE c == GetOrNewStateObject(d, a)
           was == c.objs[a]
           o == [was EXCEPT !.balance = n]
           ent == entry("balance", a, a, was.balance)
           e == setStateObject(append(c, ent), a, o)
<1>1. /\ Core(c) /\ Changed(d, c, a, Found(Acc(d)[a]))
      /\ was # None /\ Coherent(was) /\ ~was.deleted /\ Seen(was) = Found(Acc(d)[a])
  BY Acquired
<1>2. SetBalance(d, a, n) = e
  BY DEF SetBalance
<1> HIDE DEF c
<1>3. ent.dirtied = a
  BY DEF entry
<1>4. /\ Coherent(o) /\ ~o.deleted /\ o.origin = was.origin /\ OrigOf(o) = OrigOf(was)
      /\ Seen(o) = [Seen(was) EXCEPT !.balance = n]
  <2> HIDE DEF was
  <2> QED
    BY <1>1, WithBalance
<1>5. was.balance \in Int /\ Seen(was).balance = was.balance
      /\ [[Seen(was) EXCEPT !.balance = n] EXCEPT !.balance = was.balance] = Seen(was)
  <2> HIDE DEF was
  <2>1. was.balance \in Int
    BY <1>1 DEF Coherent, Object
  <2>2. Seen(was) \in SeenAccount /\ Seen(was).balance = was.balance
    BY Solver, <1>1, SeenOf
  <2>3. [[Seen(was) EXCEPT !.balance = n] EXCEPT !.balance = was.balance] = Seen(was)
    BY <2>2 DEF SeenAccount
  <2> QED
    BY <2>1, <2>2, <2>3
<1> HIDE DEF o
<1>6. ASSUME NEW g, LET r == getDeletedStateObject(g, a)
                    IN  Coherent(r) /\ ~r.deleted /\ Seen(r) = Seen(o) /\ OrigOf(r) = OrigOf(o)
      PROVE  \E q : /\ restore(g, ent) = setStateObject(g, a, q)
                    /\ Coherent(q) /\ ~q.deleted /\ q.origin = getDeletedStateObject(g, a).origin
                    /\ Seen(q) = Seen(was) /\ OrigOf(q) = OrigOf(was)
  <2> DEFINE r == getDeletedStateObject(g, a)
             q == [r EXCEPT !.balance = was.balance]
  <2>1. restore(g, ent) = setStateObject(g, a, q)
    BY RestoreBalance
  <2> HIDE DEF r, was
  <2>2. /\ Coherent(q) /\ ~q.deleted /\ q.origin = r.origin /\ OrigOf(q) = OrigOf(r)
        /\ Seen(q) = [Seen(r) EXCEPT !.balance = was.balance]
    BY <1>5, <1>6, WithBalance DEF r
  <2> HIDE DEF q
  <2>3. Seen(q) = Seen(was) /\ OrigOf(q) = OrigOf(was)
    BY <1>4, <1>5, <1>6, <2>2 DEF r
  <2> QED
    BY <2>1, <2>2, <2>3 DEF r
<1> HIDE DEF ent
<1>7. Core(e) /\ Changed(c, e, a, Seen(o)) /\ e.dirties[a] > 0
  <2>1. SetsBack(a, ent, o, was)
    BY <1>6 DEF SetsBack
  <2> QED
    BY Solver, <1>1, <1>3, <1>4, <2>1, Setter
<1> HIDE DEF e, was
<1>8. Changed(d, e, a, Seen(o))
  BY <1>1, <1>7, ChangedTwice
<1> QED
  BY <1>1, <1>2, <1>4, <1>7, <1>8
\* An object with another nonce.
LEMMA WithNonce ==
  ASSUME NEW r, Coherent(r), ~r.deleted, NEW n \in Nat
  PROVE  LET q == [r EXCEPT !.nonce = n]
         IN  /\ Coherent(q) /\ ~q.deleted /\ q.origin = r.origin /\ OrigOf(q) = OrigOf(r)
             /\ Seen(q) = [Seen(r) EXCEPT !.nonce = n]
<1> DEFINE q == [r EXCEPT !.nonce = n]
<1>1. q \in Object /\ ~q.deleted /\ q.origin = r.origin
  BY DEF Coherent, Object
<1>2. Coherent(q)
  BY <1>1 DEF Coherent, Object
<1>3. GetState(q) = GetState(r) /\ GetCommittedState(q) = GetCommittedState(r)
      /\ GetTeWakaState(q) = GetTeWakaState(r)
  BY DEF GetState, GetCommittedState, GetTeWakaState, Coherent, Object
<1>4. /\ q.nonce = n /\ q.balance = r.balance /\ q.code = r.code /\ q.suicided = r.suicided
  BY DEF Coherent, Object
<1> HIDE DEF q
<1>5. OrigOf(q) = OrigOf(r)
  BY <1>1, <1>2, <1>3, SeenOf
<1>6. Seen(q) = [Seen(r) EXCEPT !.nonce = n]
  BY Solver, <1>1, <1>2, <1>3, <1>4, SeenOf
<1> QED
  BY <1>1, <1>2, <1>5, <1>6 DEF q

\* SetNonce journals the former nonce.
LEMMA NonceSet ==
  ASSUME NEW d, Core(d), NEW a \in Addr, NEW n \in Nat
  PROVE  /\ Core(SetNonce(d, a, n)) /\ SetNonce(d, a, n).dirties[a] > 0
         /\ Changed(d, SetNonce(d, a, n), a, [Found(Acc(d)[a]) EXCEPT !.nonce = n])
<1> DEFINE c == GetOrNewStateObject(d, a)
           was == c.objs[a]
           o == [was EXCEPT !.nonce = n]
           ent == entry("nonce", a, a, was.nonce)
           e == setStateObject(append(c, ent), a, o)
<1>1. /\ Core(c) /\ Changed(d, c, a, Found(Acc(d)[a]))
      /\ was # None /\ Coherent(was) /\ ~was.deleted /\ Seen(was) = Found(Acc(d)[a])
  BY Acquired
<1>2. SetNonce(d, a, n) = e
  BY DEF SetNonce
<1> HIDE DEF c
<1>3. ent.dirtied = a
  BY DEF entry
<1>4. /\ Coherent(o) /\ ~o.deleted /\ o.origin = was.origin /\ OrigOf(o) = OrigOf(was)
      /\ Seen(o) = [Seen(was) EXCEPT !.nonce = n]
  <2> HIDE DEF was
  <2> QED
    BY <1>1, WithNonce
<1>5. was.nonce \in Nat /\ Seen(was).nonce = was.nonce
      /\ [[Seen(was) EXCEPT !.nonce = n] EXCEPT !.nonce = was.nonce] = Seen(was)
  <2> HIDE DEF was
  <2>1. was.nonce \in Nat
    BY <1>1 DEF Coherent, Object
  <2>2. Seen(was) \in SeenAccount /\ Seen(was).nonce = was.nonce
    BY Solver, <1>1, SeenOf
  <2>3. [[Seen(was) EXCEPT !.nonce = n] EXCEPT !.nonce = was.nonce] = Seen(was)
    BY <2>2 DEF SeenAccount
  <2> QED
    BY <2>1, <2>2, <2>3
<1> HIDE DEF o
<1>6. ASSUME NEW g, LET r == getDeletedStateObject(g, a)
                    IN  Coherent(r) /\ ~r.deleted /\ Seen(r) = Seen(o) /\ OrigOf(r) = OrigOf(o)
      PROVE  \E q : /\ restore(g, ent) = setStateObject(g, a, q)
                    /\ Coherent(q) /\ ~q.deleted /\ q.origin = getDeletedStateObject(g, a).origin
                    /\ Seen(q) = Seen(was) /\ OrigOf(q) = OrigOf(was)
  <2> DEFINE r == getDeletedStateObject(g, a)
             q == [r EXCEPT !.nonce = was.nonce]
  <2>1. restore(g, ent) = setStateObject(g, a, q)
    BY RestoreNonce
  <2> HIDE DEF r, was
  <2>2. /\ Coherent(q) /\ ~q.deleted /\ q.origin = r.origin /\ OrigOf(q) = OrigOf(r)
        /\ Seen(q) = [Seen(r) EXCEPT !.nonce = was.nonce]
    BY <1>5, <1>6, WithNonce DEF r
  <2> HIDE DEF q
  <2>3. Seen(q) = Seen(was) /\ OrigOf(q) = OrigOf(was)
    BY <1>4, <1>5, <1>6, <2>2 DEF r
  <2> QED
    BY <2>1, <2>2, <2>3 DEF r
<1> HIDE DEF ent
<1>7. Core(e) /\ Changed(c, e, a, Seen(o)) /\ e.dirties[a] > 0
  <2>1. SetsBack(a, ent, o, was)
    BY <1>6 DEF SetsBack
  <2> QED
    BY Solver, <1>1, <1>3, <1>4, <2>1, Setter
<1> HIDE DEF e, was
<1>8. Changed(d, e, a, Seen(o))
  BY <1>1, <1>7, ChangedTwice
<1> QED
  BY <1>1, <1>2, <1>4, <1>7, <1>8
\* An object with code.
LEMMA WithCode ==
  ASSUME NEW r, Coherent(r), ~r.deleted, NEW c \in BOOLEAN
  PROVE  LET q == [r EXCEPT !.code = c]
         IN  /\ Coherent(q) /\ ~q.deleted /\ q.origin = r.origin /\ OrigOf(q) = OrigOf(r)
             /\ Seen(q) = [Seen(r) EXCEPT !.code = c]
<1> DEFINE q == [r EXCEPT !.code = c]
<1>1. q \in Object /\ ~q.deleted /\ q.origin = r.origin
  BY Solver DEF Coherent, Object
<1>2. Coherent(q)
  BY <1>1 DEF Coherent, Object
<1>3. GetState(q) = GetState(r) /\ GetCommittedState(q) = GetCommittedState(r)
      /\ GetTeWakaState(q) = GetTeWakaState(r)
  BY DEF GetState, GetCommittedState, GetTeWakaState, Coherent, Object
<1>4. /\ q.nonce = r.nonce /\ q.balance = r.balance /\ q.code = c /\ q.suicided = r.suicided
  BY DEF Coherent, Object
<1> HIDE DEF q
<1>5. OrigOf(q) = OrigOf(r)
  BY <1>1, <1>2, <1>3, SeenOf
<1>6. Seen(q) = [Seen(r) EXCEPT !.code = c]
  BY Solver, <1>1, <1>2, <1>3, <1>4, SeenOf
<1> QED
  BY <1>1, <1>2, <1>5, <1>6 DEF q

\* SetCode journals that there was no code.
LEMMA CodeSet ==
  ASSUME NEW d, Core(d), NEW a \in Addr
  PROVE  /\ Core(SetCode(d, a)) /\ SetCode(d, a).dirties[a] > 0
         /\ Changed(d, SetCode(d, a), a, [Found(Acc(d)[a]) EXCEPT !.code = TRUE])
<1> DEFINE c == GetOrNewStateObject(d, a)
           was == c.objs[a]
           o == [was EXCEPT !.code = TRUE]
           ent == entry("code", a, a, was.code)
           e == setStateObject(append(c, ent), a, o)
<1>1. /\ Core(c) /\ Changed(d, c, a, Found(Acc(d)[a]))
      /\ was # None /\ Coherent(was) /\ ~was.deleted /\ Seen(was) = Found(Acc(d)[a])
  BY Acquired
<1>2. SetCode(d, a) = e
  BY DEF SetCode
<1> HIDE DEF c
<1>3. ent.dirtied = a
  BY DEF entry
<1>4. /\ Coherent(o) /\ ~o.deleted /\ o.origin = was.origin /\ OrigOf(o) = OrigOf(was)
      /\ Seen(o) = [Seen(was) EXCEPT !.code = TRUE]
  <2> HIDE DEF was
  <2> QED
    BY <1>1, WithCode
<1>9. Coherent(o) /\ ~o.deleted /\ o.origin = was.origin /\ OrigOf(o) = OrigOf(was)
  BY <1>4
<1>5. was.code \in BOOLEAN /\ Seen(was).code = was.code
      /\ [[Seen(was) EXCEPT !.code = TRUE] EXCEPT !.code = was.code] = Seen(was)
  <2> HIDE DEF was
  <2>1. was.code \in BOOLEAN
    BY <1>1 DEF Coherent, Object
  <2>2. Seen(was) \in SeenAccount /\ Seen(was).code = was.code
    BY Solver, <1>1, SeenOf
  <2>3. [[Seen(was) EXCEPT !.code = TRUE] EXCEPT !.code = was.code] = Seen(was)
    BY <2>2 DEF SeenAccount
  <2> QED
    BY <2>1, <2>2, <2>3
<1> HIDE DEF o
<1>6. ASSUME NEW g, LET r == getDeletedStateObject(g, a)
                    IN  Coherent(r) /\ ~r.deleted /\ Seen(r) = Seen(o) /\ OrigOf(r) = OrigOf(o)
      PROVE  \E q : /\ restore(g, ent) = setStateObject(g, a, q)
                    /\ Coherent(q) /\ ~q.deleted /\ q.origin = getDeletedStateObject(g, a).origin
                    /\ Seen(q) = Seen(was) /\ OrigOf(q) = OrigOf(was)
  <2> DEFINE r == getDeletedStateObject(g, a)
             q == [r EXCEPT !.code = was.code]
  <2>1. restore(g, ent) = setStateObject(g, a, q)
    BY RestoreCode
  <2> HIDE DEF r, was
  <2>2. /\ Coherent(q) /\ ~q.deleted /\ q.origin = r.origin /\ OrigOf(q) = OrigOf(r)
        /\ Seen(q) = [Seen(r) EXCEPT !.code = was.code]
    BY <1>5, <1>6, WithCode DEF r
  <2> HIDE DEF q
  <2>3. Seen(q) = Seen(was) /\ OrigOf(q) = OrigOf(was)
    BY <1>4, <1>5, <1>6, <2>2 DEF r
  <2> QED
    BY <2>1, <2>2, <2>3 DEF r
<1> HIDE DEF ent
<1>7. Core(e) /\ Changed(c, e, a, Seen(o)) /\ e.dirties[a] > 0
  <2>1. SetsBack(a, ent, o, was)
    BY <1>6 DEF SetsBack
  <2> QED
    BY Solver, <1>1, <1>3, <1>9, <2>1, Setter
<1> HIDE DEF e, was
<1>8. Changed(d, e, a, Seen(o))
  BY <1>1, <1>7, ChangedTwice
<1> QED
  BY <1>1, <1>2, <1>4, <1>7, <1>8
\* An object with another TeWaka entry.
LEMMA WithTeWaka ==
  ASSUME NEW r, Coherent(r), ~r.deleted, NEW b \in Blob
  PROVE  LET q == [r EXCEPT !.teOrigin = b, !.teDirty = b]
         IN  /\ Coherent(q) /\ ~q.deleted /\ q.origin = r.origin /\ OrigOf(q) = OrigOf(r)
             /\ Seen(q) = [Seen(r) EXCEPT !.te = b]
<1> DEFINE q == [r EXCEPT !.teOrigin = b, !.teDirty = b]
<1>1. q \in Object /\ ~q.deleted /\ q.origin = r.origin
  BY DEF Coherent, Object
<1>2. Coherent(q)
  BY <1>1, StateDBAssumption DEF Coherent, Object
<1>3. GetState(q) = GetState(r) /\ GetCommittedState(q) = GetCommittedState(r)
      /\ GetTeWakaState(q) = b
  BY StateDBAssumption DEF GetState, GetCommittedState, GetTeWakaState, Coherent, Object
<1>4. /\ q.nonce = r.nonce /\ q.balance = r.balance /\ q.code = r.code /\ q.suicided = r.suicided
  BY DEF Coherent, Object
<1> HIDE DEF q
<1>5. OrigOf(q) = OrigOf(r)
  BY <1>1, <1>2, <1>3, SeenOf
<1>6. Seen(q) = [Seen(r) EXCEPT !.te = b]
  BY Solver, <1>1, <1>2, <1>3, <1>4, SeenOf
<1> QED
  BY <1>1, <1>2, <1>5, <1>6 DEF q

\* SetTeWakaState journals the former entry, and the reads find the new one.
LEMMA TeWakaSet ==
  ASSUME NEW d, Core(d), NEW a \in Addr, NEW b \in Blob
  PROVE  /\ Core(SetTeWakaState(d, a, b)) /\ SetTeWakaState(d, a, b).dirties[a] > 0
         /\ Changed(d, SetTeWakaState(d, a, b), a, [Found(Acc(d)[a]) EXCEPT !.te = b])
<1> DEFINE c == GetOrNewStateObject(d, a)
           was == c.objs[a]
           o == [was EXCEPT !.teOrigin = b, !.teDirty = b]
           old == GetTeWakaState(was)
           ent == entry("teWakaStorage", a, a, old)
           e == setStateObject(append(c, ent), a, o)
<1>1. /\ Core(c) /\ Changed(d, c, a, Found(Acc(d)[a]))
      /\ was # None /\ Coherent(was) /\ ~was.deleted /\ Seen(was) = Found(Acc(d)[a])
  BY Acquired
<1>2. SetTeWakaState(d, a, b) = e
  BY DEF SetTeWakaState
<1> HIDE DEF c
<1>3. ent.dirtied = a
  BY DEF entry
<1>4. /\ Coherent(o) /\ ~o.deleted /\ o.origin = was.origin /\ OrigOf(o) = OrigOf(was)
      /\ Seen(o) = [Seen(was) EXCEPT !.te = b]
  <2> HIDE DEF was
  <2> QED
    BY <1>1, WithTeWaka
<1>5. old \in Blob /\ Seen(was).te = old
      /\ [[Seen(was) EXCEPT !.te = b] EXCEPT !.te = old] = Seen(was)
  <2> HIDE DEF was
  <2>1. old \in Blob
    BY <1>1, SeenOf
  <2>2. Seen(was) \in SeenAccount /\ Seen(was).te = old
    BY Solver, <1>1, SeenOf
  <2> HIDE DEF old
  <2>3. [[Seen(was) EXCEPT !.te = b] EXCEPT !.te = old] = Seen(was)
    BY <2>2 DEF SeenAccount
  <2> QED
    BY <2>1, <2>2, <2>3
<1> HIDE DEF o
<1>6. ASSUME NEW g, LET r == getDeletedStateObject(g, a)
                    IN  Coherent(r) /\ ~r.deleted /\ Seen(r) = Seen(o) /\ OrigOf(r) = OrigOf(o)
      PROVE  \E q : /\ restore(g, ent) = setStateObject(g, a, q)
                    /\ Coherent(q) /\ ~q.deleted /\ q.origin = getDeletedStateObject(g, a).origin
                    /\ Seen(q) = Seen(was) /\ OrigOf(q) = OrigOf(was)
  <2> DEFINE r == getDeletedStateObject(g, a)
             q == [r EXCEPT !.teOrigin = old, !.teDirty = old]
  <2>1. restore(g, ent) = setStateObject(g, a, q)
    BY RestoreTeWaka
  <2> HIDE DEF r, was, old
  <2>2. /\ Coherent(q) /\ ~q.deleted /\ q.origin = r.origin /\ OrigOf(q) = OrigOf(r)
        /\ Seen(q) = [Seen(r) EXCEPT !.te = old]
    BY <1>5, <1>6, WithTeWaka DEF r
  <2> HIDE DEF q
  <2>3. Seen(q) = Seen(was) /\ OrigOf(q) = OrigOf(was)
    BY <1>4, <1>5, <1>6, <2>2 DEF r
  <2> QED
    BY <2>1, <2>2, <2>3 DEF r
<1> HIDE DEF ent
<1>7. Core(e) /\ Changed(c, e, a, Seen(o)) /\ e.dirties[a] > 0
  <2>1. SetsBack(a, ent, o, was)
    BY <1>6 DEF SetsBack
  <2> QED
    BY Solver, <1>1, <1>3, <1>4, <2>1, Setter
<1> HIDE DEF e, was
<1>8. Changed(d, e, a, Seen(o))
  BY <1>1, <1>7, ChangedTwice
<1> QED
  BY <1>1, <1>2, <1>4, <1>7, <1>8

\* An object that destroyed itself.
LEMMA WithMark ==
  ASSUME NEW r, Coherent(r), ~r.deleted, NEW m \in BOOLEAN, NEW n \in Int
  PROVE  LET q == marks(r, m, n)
         IN  /\ Coherent(q) /\ ~q.deleted /\ q.origin = r.origin /\ OrigOf(q) = OrigOf(r)
             /\ Seen(q) = marks(Seen(r), m, n)
<1> DEFINE q == marks(r, m, n)
<1>1. q \in Object /\ ~q.deleted /\ q.origin = r.origin
  BY DEF Coherent, Object, marks
<1>2. Coherent(q)
  BY <1>1 DEF Coherent, Object, marks
<1>3. GetState(q) = GetState(r) /\ GetCommittedState(q) = GetCommittedState(r)
      /\ GetTeWakaState(q) = GetTeWakaState(r)
  BY DEF GetState, GetCommittedState, GetTeWakaState, Coherent, Object, marks
<1>4. /\ q.nonce = r.nonce /\ q.balance = n /\ q.code = r.code /\ q.suicided = m
  BY DEF Coherent, Object, marks
<1> HIDE DEF q
<1>5. OrigOf(q) = OrigOf(r)
  BY <1>1, <1>2, <1>3, SeenOf
<1>6. Seen(q) = marks(Seen(r), m, n)
  <2>1. Seen(r) = [nonce |-> r.nonce, balance |-> r.balance, code |-> r.code, slot |-> GetState(r),
                   te |-> GetTeWakaState(r), suicided |-> r.suicided]
    BY SeenOf
  <2>2. Seen(q) = [nonce |-> r.nonce, balance |-> n, code |-> r.code, slot |-> GetState(r),
                   te |-> GetTeWakaState(r), suicided |-> m]
    BY <1>1, <1>2, <1>3, <1>4, SeenOf
  <2>3. marks(Seen(r), m, n)
          = [nonce |-> Seen(r).nonce, balance |-> n, code |-> Seen(r).code, slot |-> Seen(r).slot,
             te |-> Seen(r).te, suicided |-> m]
    <3>1. Seen(r) \in SeenAccount
      BY SeenOf
    <3> DEFINE t == [Seen(r) EXCEPT !.suicided = m]
    <3>2. marks(Seen(r), m, n) = [t EXCEPT !.balance = n]
      BY <3>1 DEF marks
    <3>3. t = [nonce |-> Seen(r).nonce, balance |-> Seen(r).balance, code |-> Seen(r).code,
               slot |-> Seen(r).slot, te |-> Seen(r).te, suicided |-> m]
      BY Solver, <3>1 DEF SeenAccount
    <3> HIDE DEF t
    <3> QED
      BY <3>2, <3>3
  <2> QED
    BY Solver, <2>1, <2>2, <2>3
<1> QED
  BY <1>1, <1>2, <1>5, <1>6 DEF q

\* What Suicide makes of an account.
Marked(s) == marks(s, TRUE, 0)

\* Suicide journals the mark and the balance.
LEMMA SuicideSet ==
  ASSUME NEW d, Core(d), NEW a \in Addr
  PROVE  /\ Core(Suicide(d, a)) /\ (Acc(d)[a] = None => Suicide(d, a) = d)
         /\ Acc(d)[a] # None => /\ Changed(d, Suicide(d, a), a, Marked(Acc(d)[a]))
                                /\ Suicide(d, a).dirties[a] > 0
<1>1. Exist(d, a) <=> Acc(d)[a] # None
  BY AccAt DEF Exist
<1>2. CASE ~Exist(d, a)
  BY <1>1, <1>2 DEF Suicide
<1>3. CASE Exist(d, a)
  <2> DEFINE c == GetOrNewStateObject(d, a)
             was == c.objs[a]
             o == marks(was, TRUE, 0)
             old == [suicided |-> was.suicided, balance |-> was.balance]
             ent == entry("suicide", a, a, old)
             e == setStateObject(append(c, ent), a, o)
  <2>1. /\ Core(c) /\ Changed(d, c, a, Found(Acc(d)[a]))
        /\ was # None /\ Coherent(was) /\ ~was.deleted /\ Seen(was) = Acc(d)[a]
    BY <1>1, <1>3, Acquired DEF Found
  <2>2. Suicide(d, a) = e
    BY <1>3 DEF Suicide, marks
  <2> HIDE DEF c
  <2>3. ent.dirtied = a
    BY DEF entry
  <2>4. Coherent(o) /\ ~o.deleted /\ o.origin = was.origin /\ OrigOf(o) = OrigOf(was)
        /\ Seen(o) = Marked(Seen(was))
    <3> HIDE DEF was
    <3>1. PICK m \in BOOLEAN : m = TRUE
      OBVIOUS
    <3>2. Coherent(marks(was, m, 0)) /\ ~marks(was, m, 0).deleted /\ marks(was, m, 0).origin = was.origin
          /\ OrigOf(marks(was, m, 0)) = OrigOf(was) /\ Seen(marks(was, m, 0)) = marks(Seen(was), m, 0)
      BY Solver, <2>1, WithMark
    <3> QED
      BY <3>1, <3>2 DEF Marked
  <2>5. was.balance \in Int /\ was.suicided \in BOOLEAN
        /\ marks(Marked(Seen(was)), was.suicided, was.balance) = Seen(was)
    <3> HIDE DEF was
    <3>1. was.balance \in Int /\ was.suicided \in BOOLEAN
      BY <2>1 DEF Coherent, Object
    <3>2. Seen(was) \in SeenAccount /\ Seen(was).balance = was.balance /\ Seen(was).suicided = was.suicided
      BY Solver, <2>1, SeenOf
    <3>3. marks(Marked(Seen(was)), was.suicided, was.balance) = Seen(was)
      BY <3>2 DEF SeenAccount, Marked, marks
    <3> QED
      BY <3>1, <3>3
  <2> HIDE DEF o
  <2>6. ASSUME NEW g, LET r == getDeletedStateObject(g, a)
                      IN  Coherent(r) /\ ~r.deleted /\ Seen(r) = Seen(o) /\ OrigOf(r) = OrigOf(o)
        PROVE  \E q : /\ restore(g, ent) = setStateObject(g, a, q)
                      /\ Coherent(q) /\ ~q.deleted /\ q.origin = getDeletedStateObject(g, a).origin
                      /\ Seen(q) = Seen(was) /\ OrigOf(q) = OrigOf(was)
    <3> DEFINE r == getDeletedStateObject(g, a)
               q == marks(r, was.suicided, was.balance)
    <3>1. restore(g, ent) = setStateObject(g, a, q)
      <4>1. old.suicided = was.suicided /\ old.balance = was.balance
        OBVIOUS
      <4> HIDE DEF old, was
      <4> QED
        BY <4>1, RestoreSuicide
    <3> HIDE DEF r, was
    <3>2. /\ Coherent(q) /\ ~q.deleted /\ q.origin = r.origin /\ OrigOf(q) = OrigOf(r)
          /\ Seen(q) = marks(Seen(r), was.suicided, was.balance)
      BY <2>5, <2>6, WithMark DEF r
    <3> HIDE DEF q
    <3>3. Seen(q) = Seen(was) /\ OrigOf(q) = OrigOf(was)
      BY <2>4, <2>5, <2>6, <3>2 DEF r
    <3> QED
      BY <3>1, <3>2, <3>3 DEF r
  <2> HIDE DEF ent
  <2>7. Core(e) /\ Changed(c, e, a, Seen(o)) /\ e.dirties[a] > 0
    <3>1. SetsBack(a, ent, o, was)
      BY <2>6 DEF SetsBack
    <3> QED
      BY Solver, <2>1, <2>3, <2>4, <3>1, Setter
  <2> HIDE DEF e, was
  <2>8. Changed(d, e, a, Seen(o))
    BY <2>1, <2>7, ChangedTwice
  <2> QED
    BY <1>1, <1>3, <2>1, <2>2, <2>4, <2>7, <2>8
<1> QED
  BY <1>2, <1>3

\* The slot is read, then written.
slotRead(o) == IF o.dirty = Unset /\ o.pending = Unset THEN [o EXCEPT !.origin = GetState(o)] ELSE o

\* Reading a slot caches it and shows nothing.
LEMMA SlotRead ==
  ASSUME NEW r, Coherent(r), ~r.deleted
  PROVE  LET q == slotRead(r)
         IN  /\ Coherent(q) /\ ~q.deleted /\ q.origin # Unset /\ OrigOf(q) = OrigOf(r)
             /\ Seen(q) = Seen(r)
<1> DEFINE q == slotRead(r)
<1>1. r \in Object /\ GetState(r) \in Word
  BY SeenOf DEF Coherent
<1>2. CASE r.dirty = Unset /\ r.pending = Unset
  <2>1. q = [r EXCEPT !.origin = GetState(r)] /\ GetState(r) = r.trie
    BY <1>2 DEF slotRead, GetState, GetCommittedState, Coherent
  <2>2. q \in Object /\ ~q.deleted /\ q.origin = r.trie /\ q.origin # Unset
    BY Solver, <1>1, <2>1, StateDBAssumption DEF Object
  <2>3. /\ q.nonce = r.nonce /\ q.balance = r.balance /\ q.code = r.code /\ q.suicided = r.suicided
        /\ q.trie = r.trie /\ q.dirty = r.dirty /\ q.pending = r.pending
        /\ q.teTrie = r.teTrie /\ q.teOrigin = r.teOrigin /\ q.teDirty = r.teDirty
    BY <1>1, <2>1 DEF Object
  <2> HIDE DEF q
  <2>4. Coherent(q)
    BY <2>2, <2>3 DEF Coherent
  <2>5. GetState(q) = GetState(r) /\ GetCommittedState(q) = GetCommittedState(r)
        /\ GetTeWakaState(q) = GetTeWakaState(r)
    BY <1>2, <2>1, <2>2, <2>3 DEF GetState, GetCommittedState, GetTeWakaState
  <2>6. Seen(q) = Seen(r) /\ OrigOf(q) = OrigOf(r)
    BY <2>2, <2>3, <2>4, <2>5, SeenOf
  <2> QED
    BY <2>2, <2>4, <2>6 DEF q
<1>3. CASE ~(r.dirty = Unset /\ r.pending = Unset)
  BY <1>3 DEF slotRead, Coherent
<1> QED
  BY <1>2, <1>3

\* An object with another slot.
LEMMA WithSlot ==
  ASSUME NEW r, Coherent(r), ~r.deleted, r.origin # Unset, NEW v \in Word
  PROVE  LET q == [r EXCEPT !.dirty = v]
         IN  /\ Coherent(q) /\ ~q.deleted /\ q.origin = r.origin /\ OrigOf(q) = OrigOf(r)
             /\ Seen(q) = [Seen(r) EXCEPT !.slot = v]
<1> DEFINE q == [r EXCEPT !.dirty = v]
<1>1. q \in Object /\ ~q.deleted /\ q.origin = r.origin
  BY DEF Coherent, Object
<1>2. Coherent(q)
  BY <1>1 DEF Coherent, Object
<1>3. GetState(q) = v /\ GetCommittedState(q) = GetCommittedState(r)
      /\ GetTeWakaState(q) = GetTeWakaState(r)
  BY StateDBAssumption DEF GetState, GetCommittedState, GetTeWakaState, Coherent, Object
<1>4. /\ q.nonce = r.nonce /\ q.balance = r.balance /\ q.code = r.code /\ q.suicided = r.suicided
  BY DEF Coherent, Object
<1> HIDE DEF q
<1>5. OrigOf(q) = OrigOf(r)
  BY <1>1, <1>2, <1>3, SeenOf
<1>6. Seen(q) = [Seen(r) EXCEPT !.slot = v]
  BY Solver, <1>1, <1>2, <1>3, <1>4, SeenOf
<1> QED
  BY <1>1, <1>2, <1>5, <1>6 DEF q

\* SetState journals the former value, unless it is the same.
LEMMA SlotSet ==
  ASSUME NEW d, Core(d), NEW a \in Addr, NEW v \in Word
  PROVE  /\ Core(SetState(d, a, v))
         /\ Changed(d, SetState(d, a, v), a, [Found(Acc(d)[a]) EXCEPT !.slot = v])
         /\ SetState(d, a, v).dirties[a] > 0 \/ Found(Acc(d)[a]).slot = v
<1> DEFINE c == GetOrNewStateObject(d, a)
           was == c.objs[a]
           read == slotRead(was)
           s == Found(Acc(d)[a])
           e == SetState(d, a, v)
<1>1. /\ Core(c) /\ Changed(d, c, a, s)
      /\ was # None /\ Coherent(was) /\ ~was.deleted /\ Seen(was) = s
  BY Acquired
<1>2. e = IF GetState(was) = v THEN setStateObject(c, a, read)
          ELSE setStateObject(append(c, entry("storage", a, a, GetState(was))), a, [read EXCEPT !.dirty = v])
  BY DEF SetState, slotRead
<1>3. was = getDeletedStateObject(c, a)
  BY <1>1, ObjectOf
<1> HIDE DEF c, e
<1>4. /\ Coherent(read) /\ ~read.deleted /\ read.origin # Unset /\ OrigOf(read) = OrigOf(was)
      /\ Seen(read) = s
  <2> HIDE DEF was, read
  <2> QED
    BY <1>1, SlotRead DEF read
<1>5. s \in SeenAccount /\ s.slot = GetState(was) /\ GetState(was) \in Word
  <2> HIDE DEF was, s
  <2> QED
    BY Solver, <1>1, SeenOf
<1> HIDE DEF was, read, s
<1>6. [[s EXCEPT !.slot = v] EXCEPT !.slot = GetState(was)] = s
  BY <1>5 DEF SeenAccount
<1>7. Acc(c)[a] = s /\ Acc(c) = [Acc(d) EXCEPT ![a] = s] /\ Origs(c)[a] = OrigOf(was)
  BY <1>1, <1>3, AccAt DEF Changed
<1>8. CASE GetState(was) = v
  <2>1. /\ Core(e) /\ SameRest(c, e) /\ SameCounts(c, e) /\ ObjectSet(c, e, a, read)
        /\ e.journal = c.journal /\ e.dirties = c.dirties
    BY <1>1, <1>2, <1>4, <1>8, SetObject
  <2>2. Acc(c) = [b \in Addr |-> Acc(c)[b]] /\ Origs(c) = [b \in Addr |-> Origs(c)[b]]
    BY DEF Acc, Origs
  <2>3. Acc(e) = Acc(c) /\ Origs(e) = Origs(c)
    BY <1>4, <1>7, <2>1, <2>2 DEF ObjectSet
  <2>4. Known(c) \subseteq Known(e)
    <3>1. Known(c) \subseteq Addr
      BY DEF Known
    <3> QED
      BY <1>4, <2>1, <3>1 DEF ObjectSet
  <2>5. View(e) = View(c)
    BY <2>1, <2>3, SameViews DEF SameCounts
  <2>6. Reaches(c, e)
    BY <2>1, <2>4, <2>5, ReachesStill
  <2>7. Noted(c, e, a)
    BY Solver, <2>1, <2>3 DEF Noted, Core, CountsOK
  <2>8. [s EXCEPT !.slot = v] = s
    BY <1>5, <1>8 DEF SeenAccount
  <2>9. Changed(c, e, a, s)
    BY <1>7, <2>1, <2>2, <2>3, <2>6, <2>7 DEF Changed
  <2>10. Changed(d, e, a, s)
    BY <1>1, <2>1, <2>9, ChangedTwice
  <2> QED
    BY <1>5, <1>8, <2>1, <2>8, <2>10 DEF s, e
<1>9. CASE GetState(was) # v
  <2> DEFINE o == [read EXCEPT !.dirty = v]
             ent == entry("storage", a, a, GetState(was))
  <2>1. e = setStateObject(append(c, ent), a, o)
    BY <1>2, <1>9
  <2>2. ent.dirtied = a
    BY DEF entry
  <2>3. /\ Coherent(o) /\ ~o.deleted /\ o.origin # Unset /\ OrigOf(o) = OrigOf(was)
        /\ Seen(o) = [s EXCEPT !.slot = v]
    BY <1>4, WithSlot
  <2> HIDE DEF o
  <2>4. ASSUME NEW g, LET r == getDeletedStateObject(g, a)
                      IN  Coherent(r) /\ ~r.deleted /\ Seen(r) = Seen(o) /\ OrigOf(r) = OrigOf(o)
                          /\ (o.origin # Unset => r.origin # Unset)
        PROVE  \E q : /\ restore(g, ent) = setStateObject(g, a, q)
                      /\ Coherent(q) /\ ~q.deleted /\ q.origin = getDeletedStateObject(g, a).origin
                      /\ Seen(q) = Seen(was) /\ OrigOf(q) = OrigOf(was)
    <3> DEFINE r == getDeletedStateObject(g, a)
               q == [r EXCEPT !.dirty = GetState(was)]
    <3>1. restore(g, ent) = setStateObject(g, a, q)
      BY RestoreStorage
    <3> HIDE DEF r
    <3>2. /\ Coherent(q) /\ ~q.deleted /\ q.origin = r.origin /\ OrigOf(q) = OrigOf(r)
          /\ Seen(q) = [Seen(r) EXCEPT !.slot = GetState(was)]
      BY <1>5, <2>3, <2>4, WithSlot DEF r
    <3> HIDE DEF q
    <3>3. Seen(q) = Seen(was) /\ OrigOf(q) = OrigOf(was)
      BY <1>1, <1>6, <2>3, <2>4, <3>2 DEF r
    <3> QED
      BY <3>1, <3>2, <3>3 DEF r
  <2> HIDE DEF ent
  <2>5. Core(e) /\ Changed(c, e, a, Seen(o)) /\ e.dirties[a] > 0
    <3>1. SetsBack(a, ent, o, was)
      BY <2>4 DEF SetsBack
    <3> QED
      BY <1>1, <2>1, <2>2, <2>3, <3>1, Setter DEF was
  <2>6. Changed(d, e, a, Seen(o))
    BY <1>1, <2>5, ChangedTwice
  <2> QED
    BY <2>3, <2>5, <2>6 DEF s, e
<1> QED
  BY <1>8, <1>9

\* A touched account is dirty and as before.
LEMMA Touched ==
  ASSUME NEW d, Core(d), NEW a \in Addr, d.objs[a] # None, ~d.objs[a].deleted
  PROVE  LET e == append(d, entry("touch", a, a, None))
         IN  Core(e) /\ Changed(d, e, a, Acc(d)[a])
<1> DEFINE ent == entry("touch", a, a, None)
           e == append(d, ent)
           o == d.objs[a]
<1>1. ent.dirtied = a
  BY DEF entry
<1>2. \A g : restore(g, ent) = g
  BY RestoreTouch
<1> HIDE DEF ent
<1>3. /\ Core(e) /\ Logged(d, e, ent) /\ SameCounts(d, e) /\ e.objs = d.objs
      /\ Acc(e) = Acc(d) /\ Origs(e) = Origs(d) /\ Known(e) = Known(d)
  BY <1>1, Appended
<1> HIDE DEF e
<1>4. o = getDeletedStateObject(d, a) /\ Acc(d)[a] = Seen(o) /\ Origs(d)[a] = OrigOf(o)
  BY AccAt, ObjectOf
<1>5. /\ Acc(d) = [b \in Addr |-> Acc(d)[b]] /\ Origs(d) = [b \in Addr |-> Origs(d)[b]]
      /\ d.objs = [b \in Addr |-> d.objs[b]]
  BY DEF Acc, Origs, Core, ObjsOK
<1>6. ObjectSet(d, e, a, o)
  <2>1. a \in Known(d) <=> o.origin # Unset
    BY <1>4 DEF Known
  <2>2. e.objs = [d.objs EXCEPT ![a] = o]
    BY <1>3, <1>5
  <2> HIDE DEF o
  <2> QED
    BY <1>3, <1>4, <1>5, <2>1, <2>2 DEF ObjectSet
<1>7. ASSUME NEW g, Core(g), g.trie = d.trie, g.pending = d.pending, Acc(g)[a] = Seen(o),
             Origs(g)[a] = OrigOf(o), a \in Known(e) => a \in Known(g)
      PROVE  /\ PutBack(g, restore(g, ent), a, Acc(d)[a], Origs(d)[a])
             /\ a \in Known(d) => a \in Known(restore(g, ent))
  <2>1. Acc(g) = [b \in Addr |-> Acc(g)[b]] /\ Origs(g) = [b \in Addr |-> Origs(g)[b]]
    BY DEF Acc, Origs
  <2>2. Acc(g) = [Acc(g) EXCEPT ![a] = Acc(d)[a]] /\ Origs(g) = [Origs(g) EXCEPT ![a] = Origs(d)[a]]
    BY <1>4, <1>7, <2>1
  <2> HIDE DEF o
  <2>3. PutBack(g, g, a, Acc(d)[a], Origs(d)[a])
    BY <1>7, <2>2 DEF PutBack, SameRest, SameCounts
  <2> QED
    BY <1>2, <1>3, <1>7, <2>3
<1> HIDE DEF o
<1>8. Undoes(d.trie, d.pending, ent, View(e), Known(e), View(d), Known(d))
  <2>1. GivesBack(d, e, a, o, ent)
    BY <1>7 DEF GivesBack
  <2> QED
    BY Solver, <1>1, <1>3, <1>6, <2>1, AccountUndoes
<1>9. Reaches(d, e)
  BY <1>3, <1>8, ReachesEntry
<1>10. e.dirties = [d.dirties EXCEPT ![a] = @ + 1] /\ d.dirties \in [Addr -> Nat]
  BY <1>1, <1>3, StateDBAssumption DEF Logged, counted, Core, CountsOK
<1>11. Noted(d, e, a)
  BY Solver, <1>10 DEF Noted
<1>12. Changed(d, e, a, Acc(d)[a])
  BY <1>3, <1>5, <1>9, <1>11 DEF Changed
<1> QED
  BY <1>3, <1>12 DEF e, ent

\* Coins move to or from an account.
Paid(d, e, a) ==
  \E b \in Int : Changed(d, e, a, [Found(Acc(d)[a]) EXCEPT !.balance = b])

\* The account found or created at an address.
LEMMA FoundSeen ==
  ASSUME NEW d, Core(d), NEW a \in Addr
  PROVE  /\ Found(Acc(d)[a]) \in SeenAccount /\ Found(Acc(d)[a]) # None
         /\ Acc(d)[a] # None => Acc(d)[a] \in SeenAccount
<1> DEFINE o == getDeletedStateObject(d, a)
<1>1. Acc(d)[a] = Seen(o)
  BY AccAt
<1>2. Acc(d)[a] # None => Acc(d)[a] \in SeenAccount
  <2> SUFFICES ASSUME Acc(d)[a] # None PROVE Acc(d)[a] \in SeenAccount
    OBVIOUS
  <2>1. o # None
    BY <1>1, SeenNone
  <2>2. Coherent(o)
    BY <2>1, ObjectOf
  <2> HIDE DEF o
  <2> QED
    BY <1>1, <2>2, SeenOf
<1>3. Blank \in SeenAccount
  BY BlankObject, SeenOf DEF Blank
<1> QED
  BY <1>2, <1>3, BlankObject DEF Found

\* AddBalance, with the touch of an empty account.
LEMMA BalanceAdded ==
  ASSUME NEW d, Core(d), NEW a \in Addr, NEW n \in Int
  PROVE  /\ Core(AddBalance(d, a, n)) /\ Paid(d, AddBalance(d, a, n), a)
         /\ n = 0 => Changed(d, AddBalance(d, a, n), a, Found(Acc(d)[a]))
<1> DEFINE c == GetOrNewStateObject(d, a)
           s == Found(Acc(d)[a])
           e == AddBalance(d, a, n)
<1>1. /\ Core(c) /\ Changed(d, c, a, s) /\ c.objs[a] # None /\ Coherent(c.objs[a])
      /\ ~c.objs[a].deleted
  BY Acquired
<1>2. /\ n # 0 => e = SetBalance(c, a, c.objs[a].balance + n)
      /\ n = 0 => e = append(c, entry("touch", a, a, None)) \/ e = c
  BY DEF AddBalance
<1> HIDE DEF c, e
<1>3. Acc(c)[a] = s /\ s # None /\ s \in SeenAccount /\ Found(Acc(c)[a]) = s
  <2>1. Acc(c) = [Acc(d) EXCEPT ![a] = s] /\ DOMAIN Acc(d) = Addr
    BY <1>1 DEF Changed, Acc
  <2> QED
    BY <2>1, FoundSeen DEF Found
<1> HIDE DEF s
<1>4. CASE n # 0
  <2> DEFINE b == c.objs[a].balance + n
  <2>1. b \in Int
    BY Solver, <1>1 DEF Coherent, Object
  <2> HIDE DEF b
  <2>2. Core(e) /\ Changed(c, e, a, [s EXCEPT !.balance = b])
    BY <1>1, <1>2, <1>3, <1>4, <2>1, BalanceSet DEF b
  <2>3. Changed(d, e, a, [s EXCEPT !.balance = b])
    BY <1>1, <2>2, ChangedTwice
  <2> QED
    BY <1>4, <2>1, <2>2, <2>3 DEF Paid, s, e
<1>5. CASE n = 0
  <2>1. Core(e) /\ Changed(d, e, a, s)
    <3>1. CASE e = c
      BY <1>1, <3>1
    <3>2. CASE e = append(c, entry("touch", a, a, None))
      <4>1. Core(e) /\ Changed(c, e, a, s)
        BY <1>1, <1>3, <3>2, Touched
      <4> QED
        BY <1>1, <4>1, ChangedTwice
    <3> QED
      BY <1>2, <1>5, <3>1, <3>2
  <2>2. s = [s EXCEPT !.balance = s.balance] /\ s.balance \in Int
    BY <1>3 DEF SeenAccount
  <2>3. Paid(d, e, a)
    BY <2>1, <2>2 DEF Paid, s
  <2> QED
    BY <2>1, <2>3 DEF s, e
<1> QED
  BY <1>4, <1>5

\* SubBalance does nothing for a zero amount.
LEMMA BalanceSubbed ==
  ASSUME NEW d, Core(d), NEW a \in Addr, NEW n \in Int
  PROVE  /\ Core(SubBalance(d, a, n)) /\ Paid(d, SubBalance(d, a, n), a)
         /\ n = 0 => Changed(d, SubBalance(d, a, n), a, Found(Acc(d)[a]))
<1> DEFINE c == GetOrNewStateObject(d, a)
           s == Found(Acc(d)[a])
           e == SubBalance(d, a, n)
<1>1. /\ Core(c) /\ Changed(d, c, a, s) /\ c.objs[a] # None /\ Coherent(c.objs[a])
      /\ ~c.objs[a].deleted
  BY Acquired
<1>2. /\ n # 0 => e = SetBalance(c, a, c.objs[a].balance - n)
      /\ n = 0 => e = c
  BY DEF SubBalance
<1> HIDE DEF c, e
<1>3. Acc(c)[a] = s /\ s # None /\ s \in SeenAccount /\ Found(Acc(c)[a]) = s
  <2>1. Acc(c) = [Acc(d) EXCEPT ![a] = s] /\ DOMAIN Acc(d) = Addr
    BY <1>1 DEF Changed, Acc
  <2> QED
    BY <2>1, FoundSeen DEF Found
<1> HIDE DEF s
<1>4. CASE n # 0
  <2> DEFINE b == c.objs[a].balance - n
  <2>1. b \in Int
    BY Solver, <1>1 DEF Coherent, Object
  <2> HIDE DEF b
  <2>2. Core(e) /\ Changed(c, e, a, [s EXCEPT !.balance = b])
    BY <1>1, <1>2, <1>3, <1>4, <2>1, BalanceSet DEF b
  <2>3. Changed(d, e, a, [s EXCEPT !.balance = b])
    BY <1>1, <2>2, ChangedTwice
  <2> QED
    BY <1>4, <2>1, <2>2, <2>3 DEF Paid, s, e
<1>5. CASE n = 0
  <2>1. Core(e) /\ Changed(d, e, a, s)
    BY <1>1, <1>2, <1>5
  <2>2. s = [s EXCEPT !.balance = s.balance] /\ s.balance \in Int
    BY <1>3 DEF SeenAccount
  <2>3. Paid(d, e, a)
    BY <2>1, <2>2 DEF Paid, s
  <2> QED
    BY <2>1, <2>3 DEF s, e
<1> QED
  BY <1>4, <1>5

\* CreateAccount forgets everything but the balance.
Remade(d, e, a, s) ==
  /\ Reaches(d, e) /\ SameCounts(d, e)
  /\ Acc(e) = [Acc(d) EXCEPT ![a] = s] /\ Origs(e) = [Origs(d) EXCEPT ![a] = 0]
  /\ \A b \in Addr : b # a => e.dirties[b] = d.dirties[b]
  /\ e.dirties[a] >= d.dirties[a]

\* CreateAccount carries the balance over and journals the former object.
LEMMA AccountCreated ==
  ASSUME NEW d, Core(d), NEW a \in Addr
  PROVE  /\ Core(CreateAccount(d, a))
         /\ \E b \in Int : Remade(d, CreateAccount(d, a), a, [Blank EXCEPT !.balance = b])
         /\ Acc(d)[a] = None => Changed(d, CreateAccount(d, a), a, Blank)
<1> DEFINE n == newObject(EmptyAccount)
           x == append(d, creation(d, a))
           e == CreateAccount(d, a)
<1>1. Exist(d, a) <=> Acc(d)[a] # None
  BY AccAt DEF Exist
<1>2. Coherent(n) /\ ~n.deleted /\ OrigOf(n) = 0 /\ Seen(n) = Blank
  BY BlankObject DEF Blank
<1>3. createObject(d, a) = setStateObject(x, a, n)
  BY DEF createObject, creation
<1>4. CASE ~Exist(d, a)
  <2>1. e = GetOrNewStateObject(d, a) /\ Acc(d)[a] = None
    BY <1>1, <1>4 DEF CreateAccount, GetOrNewStateObject
  <2> HIDE DEF e
  <2>2. Core(e) /\ Changed(d, e, a, Blank)
    BY <2>1, Acquired DEF Found
  <2>3. Blank = [Blank EXCEPT !.balance = 0]
    <3>1. PICK m \in BOOLEAN : m = FALSE
      OBVIOUS
    <3>2. Blank = [nonce |-> 0, balance |-> 0, code |-> m, slot |-> 0, te |-> NoBlob, suicided |-> m]
      BY <3>1, BlankObject
    <3> QED
      BY Solver, <3>2
  <2>4. Origs(e) = [Origs(d) EXCEPT ![a] = 0]
    <3>1. Origs(d)[a] = 0 /\ Origs(d) = [b \in Addr |-> Origs(d)[b]]
      BY <1>4, AccAt DEF Origs, OrigOf, Exist
    <3> QED
      BY <2>2, <3>1 DEF Changed
  <2>5. Remade(d, e, a, Blank)
    BY <2>2, <2>4 DEF Remade, Changed, Noted
  <2> QED
    BY Solver, <2>2, <2>3, <2>5 DEF e
<1>5. CASE Exist(d, a)
  <2> DEFINE b == getDeletedStateObject(d, a).balance
             o == [n EXCEPT !.balance = b]
  <2>1. Coherent(getDeletedStateObject(d, a))
    BY <1>5, ObjectOf, SeenNone DEF Exist
  <2>2. b \in Int
    BY <2>1 DEF Coherent, Object
  <2>3. e = [setStateObject(x, a, n) EXCEPT !.objs[a].balance = b]
    BY <1>3, <1>5 DEF CreateAccount
  <2>4. Core(x) /\ x.objs = d.objs
    <3>1. creation(d, a).dirtied \in Addr \cup {None}
      BY DEF creation, entry
    <3> QED
      BY <3>1, Appended
  <2> HIDE DEF x, b, n
  <2>5. e = setStateObject(x, a, o)
    <3>1. "objs" \in DOMAIN x /\ a \in DOMAIN x.objs
      BY <2>4 DEF Core, Shaped, ObjsOK
    <3> QED
      BY <2>3, <3>1 DEF setStateObject
  <2>6. Coherent(o) /\ ~o.deleted /\ OrigOf(o) = 0 /\ Seen(o) = [Blank EXCEPT !.balance = b]
    BY <1>2, <2>2, WithBalance
  <2> HIDE DEF o, e
  <2>7. /\ Core(e) /\ Reaches(d, e) /\ SameCounts(d, e) /\ ObjectSet(d, e, a, o)
        /\ e.dirties = counted(d.dirties, creation(d, a).dirtied, 1)
    BY <2>5, <2>6, Created DEF x
  <2>8. /\ \A c \in Addr : c # a => e.dirties[c] = d.dirties[c]
        /\ e.dirties[a] >= d.dirties[a]
    <3>1. creation(d, a).dirtied \in {a, None}
      BY DEF creation, entry
    <3>2. d.dirties \in [Addr -> Nat]
      BY DEF Core, CountsOK
    <3> QED
      BY Solver, <2>7, <3>1, <3>2 DEF counted
  <2>9. Remade(d, e, a, [Blank EXCEPT !.balance = b])
    BY <2>6, <2>7, <2>8 DEF Remade, ObjectSet
  <2> QED
    BY <1>1, <1>5, <2>2, <2>7, <2>9 DEF e
<1> QED
  BY <1>4, <1>5

-----------------------------------------------------------------------------
(***************************************************************************)
(* Counters and the access list.                                           *)
(***************************************************************************)

\* No account is touched.
Bookkept(d, e) ==
  /\ Core(e) /\ Reaches(d, e) /\ Acc(e) = Acc(d) /\ Origs(e) = Origs(d) /\ e.dirties = d.dirties

\* Undoing the entry takes back what it did to the counters and the access list.
CountsBack(d, e, ent) ==
  \A g : Core(g) /\ g.al = e.al /\ g.refund = e.refund /\ g.logs = e.logs =>
    LET s == restore(g, ent)
    IN  /\ Shaped(s) /\ SameRest(g, s) /\ s.journal = g.journal /\ s.objs = g.objs
        /\ s.dirties = g.dirties /\ SameCounts(d, s)

\* An entry for a counter or for the access list.
LEMMA CounterUndoes ==
  ASSUME NEW d, Core(d), NEW ent, ent.dirtied = None, NEW e, Core(e), Logged(d, e, ent), e.objs = d.objs,
         CountsBack(d, e, ent)
  PROVE  Bookkept(d, e)
<1>1. e.dirties = d.dirties /\ e.trie = d.trie
  BY DEF Logged, SameRest, counted
<1>2. Acc(e) = Acc(d) /\ Origs(e) = Origs(d) /\ Known(e) = Known(d)
  BY <1>1, SameObjects
<1>3. ASSUME NEW g, Core(g), g.trie = d.trie, g.pending = d.pending, View(g) = View(e),
             Known(e) \subseteq Known(g)
      PROVE  /\ Core(undone(g, ent)) /\ View(undone(g, ent)) = View(d)
             /\ Known(d) \subseteq Known(undone(g, ent))
             /\ SameRest(g, undone(g, ent)) /\ undone(g, ent).journal = g.journal
  <2> DEFINE s == restore(g, ent)
             u == undone(g, ent)
  <2>1. /\ g.al = e.al /\ g.refund = e.refund /\ g.logs = e.logs /\ g.dirties = e.dirties
        /\ Acc(g) = Acc(e) /\ Origs(g) = Origs(e)
    BY Solver, <1>3, ViewFields
  <2>2. /\ Shaped(s) /\ SameRest(g, s) /\ s.journal = g.journal /\ s.objs = g.objs
        /\ s.dirties = g.dirties /\ SameCounts(d, s)
    BY <1>3, <2>1 DEF CountsBack
  <2>3. u = [s EXCEPT !.dirties = s.dirties]
    BY DEF undone, counted
  <2> HIDE DEF s, u
  <2>4. Core(s)
    BY Solver, <1>3, <2>2 DEF Core, ObjsOK, CountsOK, SameRest, SameCounts
  <2>5. /\ Core(u) /\ SameRest(s, u) /\ SameCounts(s, u) /\ u.journal = s.journal
        /\ u.dirties = s.dirties /\ Acc(u) = Acc(s) /\ Origs(u) = Origs(s) /\ Known(u) = Known(s)
    BY Solver, <2>3, <2>4, Recounted DEF Core, CountsOK
  <2>6. Acc(s) = Acc(g) /\ Origs(s) = Origs(g) /\ Known(s) = Known(g)
    BY <2>2, SameObjects DEF SameRest
  <2>7. View(u) = View(d)
    BY <1>1, <1>2, <2>1, <2>2, <2>5, <2>6, SameViews DEF SameCounts
  <2> QED
    BY <1>2, <1>3, <2>2, <2>5, <2>6, <2>7 DEF u, SameRest
<1>4. Undoes(d.trie, d.pending, ent, View(e), Known(e), View(d), Known(d))
  BY <1>3 DEF Undoes
<1>5. Reaches(d, e)
  BY <1>4, ReachesEntry
<1> QED
  BY <1>1, <1>2, <1>5 DEF Bookkept

\* AddLog.
LEMMA LogAdded ==
  ASSUME NEW d, Core(d)
  PROVE  LET e == AddLog(d)
         IN  Bookkept(d, e) /\ e.al = d.al /\ e.refund = d.refund /\ e.logs = d.logs + 1
<1> DEFINE ent == entry("addLog", None, None, None)
           x == append(d, ent)
           e == AddLog(d)
<1>1. ent.dirtied = None /\ ent.kind = "addLog"
  BY DEF entry
<1>2. Core(x) /\ Logged(d, x, ent) /\ SameCounts(d, x) /\ x.objs = d.objs
  BY <1>1, Appended
<1>3. e = [x EXCEPT !.logs = @ + 1]
  BY DEF AddLog
<1> HIDE DEF ent, x, e
<1>4. /\ Shaped(e) /\ e.objs = x.objs /\ e.al = x.al /\ e.refund = x.refund /\ e.logs = x.logs + 1
      /\ e.dirties = x.dirties /\ e.journal = x.journal /\ SameRest(x, e)
  BY <1>2, <1>3 DEF Core, Shaped, SameRest
<1>5. Core(e)
  BY Solver, <1>2, <1>4 DEF Core, CountsOK, ObjsOK, SameRest
<1>6. Logged(d, e, ent) /\ e.objs = d.objs
  BY <1>2, <1>4 DEF Logged, SameRest
<1>7. e.al = d.al /\ e.refund = d.refund /\ e.logs = d.logs + 1 /\ d.logs \in Int
  BY <1>2, <1>4 DEF SameCounts, Core, CountsOK
<1>8. ASSUME NEW g, Core(g), g.al = e.al, g.refund = e.refund, g.logs = e.logs
      PROVE  LET s == restore(g, ent)
             IN  /\ Shaped(s) /\ SameRest(g, s) /\ s.journal = g.journal /\ s.objs = g.objs
                 /\ s.dirties = g.dirties /\ SameCounts(d, s)
  <2> DEFINE s == restore(g, ent)
  <2>1. s = [g EXCEPT !.logs = @ - 1]
    BY <1>1 DEF restore
  <2> HIDE DEF s
  <2>2. /\ Shaped(s) /\ SameRest(g, s) /\ s.journal = g.journal /\ s.objs = g.objs
        /\ s.dirties = g.dirties /\ s.al = g.al /\ s.refund = g.refund /\ s.logs = g.logs - 1
    BY <1>8, <2>1 DEF Core, Shaped, SameRest
  <2> QED
    BY Solver, <1>7, <1>8, <2>2 DEF SameCounts, s
<1>9. Bookkept(d, e)
  <2>1. CountsBack(d, e, ent)
    BY <1>8 DEF CountsBack
  <2> QED
    BY <1>1, <1>5, <1>6, <2>1, CounterUndoes
<1> QED
  BY <1>7, <1>9 DEF e

\* The entry of a refund holds the former counter.
LEMMA RefundSet ==
  ASSUME NEW d, Core(d), NEW n \in Nat
  PROVE  LET e == [append(d, entry("refund", None, None, d.refund)) EXCEPT !.refund = n]
         IN  Bookkept(d, e) /\ e.al = d.al /\ e.refund = n /\ e.logs = d.logs
<1> DEFINE ent == entry("refund", None, None, d.refund)
           x == append(d, ent)
           e == [x EXCEPT !.refund = n]
<1>1. ent.dirtied = None /\ ent.kind = "refund" /\ ent.prev = d.refund
  BY DEF entry
<1>2. Core(x) /\ Logged(d, x, ent) /\ SameCounts(d, x) /\ x.objs = d.objs
  BY <1>1, Appended
<1> HIDE DEF ent, x
<1>4. /\ Shaped(e) /\ e.objs = x.objs /\ e.al = x.al /\ e.refund = n /\ e.logs = x.logs
      /\ e.dirties = x.dirties /\ e.journal = x.journal /\ SameRest(x, e)
  BY <1>2 DEF Core, Shaped, SameRest
<1> HIDE DEF e
<1>5. Core(e)
  BY <1>2, <1>4 DEF Core, CountsOK, ObjsOK, SameRest
<1>6. Logged(d, e, ent) /\ e.objs = d.objs
  BY <1>2, <1>4 DEF Logged, SameRest
<1>7. e.al = d.al /\ e.refund = n /\ e.logs = d.logs
  BY <1>2, <1>4 DEF SameCounts, Core, CountsOK
<1>8. ASSUME NEW g, Core(g), g.al = e.al, g.refund = e.refund, g.logs = e.logs
      PROVE  LET s == restore(g, ent)
             IN  /\ Shaped(s) /\ SameRest(g, s) /\ s.journal = g.journal /\ s.objs = g.objs
                 /\ s.dirties = g.dirties /\ SameCounts(d, s)
  <2> DEFINE s == restore(g, ent)
  <2>1. s = [g EXCEPT !.refund = d.refund]
    BY <1>1 DEF restore
  <2> HIDE DEF s
  <2>2. /\ Shaped(s) /\ SameRest(g, s) /\ s.journal = g.journal /\ s.objs = g.objs
        /\ s.dirties = g.dirties /\ s.al = g.al /\ s.refund = d.refund /\ s.logs = g.logs
    BY <1>8, <2>1 DEF Core, Shaped, SameRest
  <2> QED
    BY <1>7, <1>8, <2>2 DEF SameCounts, s
<1>9. Bookkept(d, e)
  <2>1. CountsBack(d, e, ent)
    BY <1>8 DEF CountsBack
  <2> QED
    BY <1>1, <1>5, <1>6, <2>1, CounterUndoes
<1> QED
  BY <1>7, <1>9 DEF e, x, ent

\* AddRefund.
LEMMA RefundAdded ==
  ASSUME NEW d, Core(d), NEW n \in Nat
  PROVE  LET e == AddRefund(d, n)
         IN  Bookkept(d, e) /\ e.al = d.al /\ e.refund = d.refund + n /\ e.logs = d.logs
<1> DEFINE x == append(d, entry("refund", None, None, d.refund))
           m == d.refund + n
<1>1. x.refund = d.refund /\ "refund" \in DOMAIN x /\ d.refund \in Nat
  BY Appended, StateDBAssumption DEF SameCounts, entry, Core, Shaped, CountsOK
<1>2. m \in Nat
  BY Solver, <1>1
<1>3. AddRefund(d, n) = [x EXCEPT !.refund = m]
  <2> HIDE DEF x
  <2>1. [x EXCEPT !.refund = @ + n] = [x EXCEPT !.refund = m]
    BY <1>1
  <2> QED
    BY <2>1 DEF AddRefund, x
<1> HIDE DEF m
<1>4. /\ Bookkept(d, AddRefund(d, n)) /\ AddRefund(d, n).al = d.al /\ AddRefund(d, n).refund = m
      /\ AddRefund(d, n).logs = d.logs
  BY Solver, <1>2, <1>3, RefundSet
<1> QED
  BY <1>4 DEF m

\* SubRefund, of no more than there is.
LEMMA RefundSubbed ==
  ASSUME NEW d, Core(d), NEW n \in Nat, n <= d.refund
  PROVE  LET e == SubRefund(d, n)
         IN  Bookkept(d, e) /\ e.al = d.al /\ e.refund = d.refund - n /\ e.logs = d.logs
<1> DEFINE x == append(d, entry("refund", None, None, d.refund))
           m == d.refund - n
<1>1. x.refund = d.refund /\ "refund" \in DOMAIN x /\ d.refund \in Nat
  BY Appended, StateDBAssumption DEF SameCounts, entry, Core, Shaped, CountsOK
<1>2. m \in Nat
  BY Solver, <1>1
<1>3. SubRefund(d, n) = [x EXCEPT !.refund = m]
  <2> HIDE DEF x
  <2>1. [x EXCEPT !.refund = @ - n] = [x EXCEPT !.refund = m]
    BY <1>1
  <2> QED
    BY <2>1 DEF SubRefund, x
<1> HIDE DEF m
<1>4. /\ Bookkept(d, SubRefund(d, n)) /\ SubRefund(d, n).al = d.al /\ SubRefund(d, n).refund = m
      /\ SubRefund(d, n).logs = d.logs
  BY Solver, <1>2, <1>3, RefundSet
<1> QED
  BY <1>4 DEF m

\* An entry for the access list.
LEMMA AccessSet ==
  ASSUME NEW d, Core(d), NEW ent, ent.dirtied = None, NEW al, AccessOK(al),
         \A g : Core(g) /\ g.al = al => restore(g, ent) = [g EXCEPT !.al = d.al]
  PROVE  LET e == [append(d, ent) EXCEPT !.al = al]
         IN  Bookkept(d, e) /\ e.al = al /\ e.refund = d.refund /\ e.logs = d.logs
<1> DEFINE x == append(d, ent)
           e == [x EXCEPT !.al = al]
<1>2. Core(x) /\ Logged(d, x, ent) /\ SameCounts(d, x) /\ x.objs = d.objs
  BY Appended
<1> HIDE DEF x
<1>4. /\ Shaped(e) /\ e.objs = x.objs /\ e.al = al /\ e.refund = x.refund /\ e.logs = x.logs
      /\ e.dirties = x.dirties /\ e.journal = x.journal /\ SameRest(x, e)
  BY <1>2 DEF Core, Shaped, SameRest
<1> HIDE DEF e
<1>5. Core(e)
  BY <1>2, <1>4 DEF Core, CountsOK, ObjsOK, SameRest
<1>6. Logged(d, e, ent) /\ e.objs = d.objs
  BY <1>2, <1>4 DEF Logged, SameRest
<1>7. e.al = al /\ e.refund = d.refund /\ e.logs = d.logs
  BY <1>2, <1>4 DEF SameCounts, Core, CountsOK
<1>8. ASSUME NEW g, Core(g), g.al = e.al, g.refund = e.refund, g.logs = e.logs
      PROVE  LET s == restore(g, ent)
             IN  /\ Shaped(s) /\ SameRest(g, s) /\ s.journal = g.journal /\ s.objs = g.objs
                 /\ s.dirties = g.dirties /\ SameCounts(d, s)
  <2> DEFINE s == restore(g, ent)
  <2>1. s = [g EXCEPT !.al = d.al]
    BY <1>7, <1>8
  <2> HIDE DEF s
  <2>2. /\ Shaped(s) /\ SameRest(g, s) /\ s.journal = g.journal /\ s.objs = g.objs
        /\ s.dirties = g.dirties /\ s.al = d.al /\ s.refund = g.refund /\ s.logs = g.logs
    BY <1>8, <2>1 DEF Core, Shaped, SameRest
  <2> QED
    BY <1>7, <1>8, <2>2 DEF SameCounts, s
<1>9. Bookkept(d, e)
  <2>1. CountsBack(d, e, ent)
    BY <1>8 DEF CountsBack
  <2> QED
    BY <1>5, <1>6, <2>1, CounterUndoes
<1> QED
  BY <1>7, <1>9 DEF e, x

\* The access list only grows, and nothing else changes.
Warmed(d, e) ==
  /\ Bookkept(d, e) /\ e.refund = d.refund /\ e.logs = d.logs
  /\ \A b \in Addr : d.al.idx[b] # None => e.al.idx[b] # None

\* Warming nothing is a warming.
LEMMA WarmedSelf == ASSUME NEW d, Core(d) PROVE Warmed(d, d)
BY ReachesSelf DEF Warmed, Bookkept

\* One warming after another is a warming.
LEMMA WarmedTrans == ASSUME NEW d, NEW e, NEW f, Warmed(d, e), Warmed(e, f) PROVE Warmed(d, f)
BY ReachesTrans DEF Warmed, Bookkept

\* One address more.
withAddress(al, a, i) == [idx |-> [al.idx EXCEPT ![a] = i], slots |-> al.slots]

\* AddAddressToAccessList.
LEMMA AddressAdded ==
  ASSUME NEW d, Core(d), NEW a \in Addr
  PROVE  LET e == AddAddressToAccessList(d, a)
         IN  Warmed(d, e) /\ e.al.idx[a] # None
<1> DEFINE e == AddAddressToAccessList(d, a)
           ent == entry("accessListAddAccount", a, None, None)
           x == append(d, ent)
           al == withAddress(d.al, a, -1)
<1>1. CASE d.al.idx[a] # None
  BY <1>1, WarmedSelf DEF AddAddressToAccessList
<1>2. CASE d.al.idx[a] = None
  <2>1. ent.dirtied = None /\ ent.kind = "accessListAddAccount" /\ ent.addr = a
    BY DEF entry
  <2>2. Core(x) /\ x.al = d.al
    BY <2>1, Appended DEF SameCounts
  <2>3. /\ d.al = [idx |-> d.al.idx, slots |-> d.al.slots] /\ d.al.idx \in [Addr -> Int \cup {None}]
        /\ AccessOK(d.al)
    BY DEF Core, CountsOK, AccessOK
  <2>4. e = [x EXCEPT !.al.idx[a] = -1]
    BY <1>2 DEF AddAddressToAccessList
  <2> HIDE DEF ent, x, e
  <2>5. [x EXCEPT !.al.idx[a] = -1] = [x EXCEPT !.al = al]
    <3>1. "al" \in DOMAIN x
      BY <2>2 DEF Core, Shaped
    <3>2. [x.al EXCEPT !.idx[a] = -1] = al
      BY Solver, <2>2, <2>3 DEF withAddress
    <3> QED
      BY <3>1, <3>2
  <2>6. al.idx = [d.al.idx EXCEPT ![a] = -1] /\ al.slots = d.al.slots
    BY DEF withAddress
  <2>7. al = [idx |-> al.idx, slots |-> al.slots]
    BY DEF withAddress
  <2> HIDE DEF al
  <2>8. AccessOK(al)
    BY Solver, <2>3, <2>6, <2>7 DEF AccessOK
  <2>9. ASSUME NEW g, Core(g), g.al = al PROVE restore(g, ent) = [g EXCEPT !.al = d.al]
    <3>1. restore(g, ent) = [g EXCEPT !.al.idx[a] = None]
      BY <2>1 DEF restore
    <3>2. [g.al EXCEPT !.idx[a] = None] = d.al
      <4>1. [al.idx EXCEPT ![a] = None] = d.al.idx
        BY <1>2, <2>3, <2>6
      <4> QED
        BY <2>3, <2>6, <2>7, <2>9, <4>1
    <3> QED
      BY <3>1, <3>2
  <2>10. Bookkept(d, e) /\ e.al = al /\ e.refund = d.refund /\ e.logs = d.logs
    <3>1. e = [append(d, ent) EXCEPT !.al = al]
      BY <2>4, <2>5 DEF x
    <3>2. \A g : Core(g) /\ g.al = al => restore(g, ent) = [g EXCEPT !.al = d.al]
      BY <2>9
    <3>3. ent.dirtied = None
      BY <2>1
    <3> QED
      BY Solver, <2>8, <3>1, <3>2, <3>3, AccessSet
  <2>11. -1 # None
    BY Solver, StateDBAssumption
  <2>12. \A b \in Addr : d.al.idx[b] # None => e.al.idx[b] # None
    BY <2>3, <2>6, <2>10, <2>11
  <2>13. e.al.idx[a] # None
    BY <2>3, <2>6, <2>10, <2>11
  <2> QED
    BY <2>10, <2>12, <2>13 DEF Warmed, e
<1> QED
  BY <1>1, <1>2

\* A key for an address that has none, and one more key.
withKeys(al, a, k) == [idx |-> [al.idx EXCEPT ![a] = Len(al.slots) + 1], slots |-> Append(al.slots, {k})]
withKey(al, i, k) == [idx |-> al.idx, slots |-> [al.slots EXCEPT ![i] = @ \cup {k}]]

\* DeleteSlot undoes the first slot of an address.
LEMMA KeysBack ==
  ASSUME NEW al, AccessOK(al), NEW a \in Addr, al.idx[a] = -1, NEW k \in Key
  PROVE  AccessOK(withKeys(al, a, k)) /\ DeleteSlot(withKeys(al, a, k), a, k) = al
<1> DEFINE n == Len(al.slots)
           w == withKeys(al, a, k)
<1>1. /\ al = [idx |-> al.idx, slots |-> al.slots] /\ al.idx \in [Addr -> Int \cup {None}]
      /\ al.slots \in Seq(SUBSET Key) /\ n \in Nat
  BY Solver DEF AccessOK
<1>2. /\ w = [idx |-> w.idx, slots |-> w.slots] /\ w.idx = [al.idx EXCEPT ![a] = n + 1]
      /\ w.slots = Append(al.slots, {k})
  BY DEF withKeys
<1> HIDE DEF w
<1>3. /\ w.slots \in Seq(SUBSET Key) /\ Len(w.slots) = n + 1 /\ w.slots[n + 1] = {k}
      /\ \A i \in 1 .. n : w.slots[i] = al.slots[i]
  BY Solver, <1>1, <1>2
<1>4. AccessOK(w)
  <2>1. \A b \in Addr : w.idx[b] # None => w.idx[b] = -1 \/ w.idx[b] \in 1 .. Len(w.slots)
    BY Solver, <1>1, <1>2, <1>3 DEF AccessOK
  <2>2. \A i \in 1 .. Len(w.slots) : w.slots[i] # {}
    <3>1. \A i \in 1 .. n + 1 : i = n + 1 \/ i \in 1 .. n
      BY Solver, <1>1
    <3>2. \A i \in 1 .. n : al.slots[i] # {}
      BY DEF AccessOK
    <3> QED
      BY <1>3, <3>1, <3>2
  <2> QED
    BY Solver, <1>1, <1>2, <1>3, <2>1, <2>2 DEF AccessOK
<1>5. w.idx[a] = n + 1 /\ w.slots[w.idx[a]] \ {k} = {}
  BY <1>1, <1>2, <1>3
<1>6. DeleteSlot(w, a, k) = [idx |-> [w.idx EXCEPT ![a] = -1], slots |-> SubSeq(w.slots, 1, w.idx[a] - 1)]
  BY <1>5 DEF DeleteSlot
<1>7. [w.idx EXCEPT ![a] = -1] = al.idx
  BY <1>1, <1>2
<1>8. SubSeq(w.slots, 1, n) = al.slots
  <2>1. SubSeq(w.slots, 1, n) \in Seq(SUBSET Key) /\ Len(SubSeq(w.slots, 1, n)) = n
    BY Solver, <1>1, <1>3
  <2>2. \A i \in 1 .. n : SubSeq(w.slots, 1, n)[i] = al.slots[i]
    BY Solver, <1>1, <1>3
  <2> QED
    BY <1>1, <2>1, <2>2, SameSeqs
<1>9. w.idx[a] - 1 = n
  BY Solver, <1>1, <1>5
<1> QED
  BY <1>1, <1>4, <1>6, <1>7, <1>8, <1>9 DEF w

\* DeleteSlot undoes a further slot of an address.
LEMMA KeyBack ==
  ASSUME NEW al, AccessOK(al), NEW a \in Addr, al.idx[a] \in 1 .. Len(al.slots), NEW k \in Key,
         k \notin al.slots[al.idx[a]]
  PROVE  AccessOK(withKey(al, al.idx[a], k)) /\ DeleteSlot(withKey(al, al.idx[a], k), a, k) = al
<1> DEFINE i == al.idx[a]
           w == withKey(al, i, k)
<1>1. /\ al = [idx |-> al.idx, slots |-> al.slots] /\ al.idx \in [Addr -> Int \cup {None}]
      /\ al.slots \in Seq(SUBSET Key) /\ Len(al.slots) \in Nat /\ i \in 1 .. Len(al.slots)
      /\ al.slots[i] # {} /\ k \notin al.slots[i]
  BY Solver DEF AccessOK
<1>2. /\ w = [idx |-> w.idx, slots |-> w.slots] /\ w.idx = al.idx
      /\ w.slots = [al.slots EXCEPT ![i] = al.slots[i] \cup {k}]
  BY DEF withKey
<1> HIDE DEF w
<1>3. /\ w.slots \in Seq(SUBSET Key) /\ Len(w.slots) = Len(al.slots)
      /\ w.slots[i] = al.slots[i] \cup {k}
      /\ \A j \in 1 .. Len(al.slots) : j # i => w.slots[j] = al.slots[j]
  BY Solver, <1>1, <1>2
<1>4. AccessOK(w)
  <2>1. \A j \in 1 .. Len(w.slots) : w.slots[j] # {}
    BY <1>3 DEF AccessOK
  <2> QED
    BY <1>2, <1>3, <2>1 DEF AccessOK
<1>5. w.idx[a] = i /\ w.slots[i] \ {k} = al.slots[i]
  BY <1>1, <1>2, <1>3
<1> HIDE DEF i
<1>6. DeleteSlot(w, a, k) = [w EXCEPT !.slots[i] = al.slots[i]]
  BY <1>1, <1>5 DEF DeleteSlot
<1>7. [w.slots EXCEPT ![i] = al.slots[i]] = al.slots
  <2> DEFINE t == [w.slots EXCEPT ![i] = al.slots[i]]
  <2>1. t \in Seq(SUBSET Key) /\ Len(t) = Len(al.slots)
    BY Solver, <1>1, <1>3
  <2>2. \A j \in 1 .. Len(t) : t[j] = al.slots[j]
    BY Solver, <1>1, <1>3
  <2> QED
    BY <1>1, <2>1, <2>2, SameSeqs
<1>8. [w EXCEPT !.slots[i] = al.slots[i]] = [idx |-> w.idx, slots |-> [w.slots EXCEPT ![i] = al.slots[i]]]
  BY Solver, <1>2
<1> QED
  BY <1>1, <1>2, <1>4, <1>6, <1>7, <1>8 DEF w, i

\* AddSlotToAccessList, with one entry or two.
LEMMA KeyAdded ==
  ASSUME NEW d, Core(d), NEW a \in Addr, NEW k \in Key
  PROVE  Warmed(d, AddSlotToAccessList(d, a, k))
<1> DEFINE x == AddAddressToAccessList(d, a)
           i == x.al.idx[a]
           ent == entry("accessListAddSlot", a, None, k)
           e == AddSlotToAccessList(d, a, k)
<1>1. Warmed(d, x) /\ i # None
  BY AddressAdded
<1>2. Core(x)
  BY <1>1 DEF Warmed, Bookkept
<1>3. /\ AccessOK(x.al) /\ (i = -1 \/ i \in 1 .. Len(x.al.slots))
      /\ x.al.idx \in [Addr -> Int \cup {None}] /\ Len(x.al.slots) \in Nat
      /\ x.al = [idx |-> x.al.idx, slots |-> x.al.slots]
  <2> HIDE DEF x
  <2>1. AccessOK(x.al)
    BY <1>2 DEF Core, CountsOK
  <2>2. Len(x.al.slots) \in Nat
    BY Solver, <2>1 DEF AccessOK
  <2> QED
    BY <1>1, <2>1, <2>2 DEF AccessOK
<1>4. ent.dirtied = None /\ ent.kind = "accessListAddSlot" /\ ent.addr = a /\ ent.prev = k
  BY DEF entry
<1>5. "al" \in DOMAIN append(x, ent) /\ append(x, ent).al = x.al
  BY <1>2, <1>4, Appended DEF Core, Shaped, SameCounts
<1>6. ASSUME NEW al, AccessOK(al), DeleteSlot(al, a, k) = x.al, e = [append(x, ent) EXCEPT !.al = al],
             \A b \in Addr : x.al.idx[b] # None => al.idx[b] # None
      PROVE  Warmed(x, e)
  <2> HIDE DEF x, ent, e
  <2>1. ASSUME NEW g, Core(g), g.al = al PROVE restore(g, ent) = [g EXCEPT !.al = x.al]
    <3>1. restore(g, ent) = [g EXCEPT !.al = DeleteSlot(g.al, a, k)]
      BY <1>4 DEF restore
    <3> QED
      BY <1>6, <2>1, <3>1
  <2>2. \A g : Core(g) /\ g.al = al => restore(g, ent) = [g EXCEPT !.al = x.al]
    BY <2>1
  <2>3. Bookkept(x, e) /\ e.al = al /\ e.refund = x.refund /\ e.logs = x.logs
    <3>1. ent.dirtied = None
      BY <1>4
    <3> QED
      BY Solver, <1>2, <1>6, <2>2, <3>1, AccessSet
  <2> QED
    BY <1>6, <2>3 DEF Warmed
<1>7. CASE i = -1
  <2> DEFINE al == withKeys(x.al, a, k)
  <2>1. AccessOK(al) /\ DeleteSlot(al, a, k) = x.al
    BY <1>3, <1>7, KeysBack
  <2>2. e = [append(x, ent) EXCEPT !.al = al]
    BY <1>5, <1>7 DEF AddSlotToAccessList, withKeys
  <2>3. \A b \in Addr : x.al.idx[b] # None => al.idx[b] # None
    <3>1. al.idx = [x.al.idx EXCEPT ![a] = Len(x.al.slots) + 1]
      BY DEF withKeys
    <3>2. Len(x.al.slots) + 1 # None
      BY Solver, <1>3, StateDBAssumption
    <3> HIDE DEF al
    <3> QED
      BY <1>3, <3>1, <3>2
  <2> HIDE DEF al, x, e
  <2>4. Warmed(x, e)
    BY <1>6, <2>1, <2>2, <2>3
  <2> QED
    BY <1>1, <2>4, WarmedTrans DEF e
<1>8. CASE i # -1
  <2>1. i \in 1 .. Len(x.al.slots)
    BY <1>3, <1>8
  <2>2. CASE k \in x.al.slots[i]
    <3>1. e = x
      BY <1>8, <2>2 DEF AddSlotToAccessList
    <3> QED
      BY <1>1, <3>1
  <2>3. CASE k \notin x.al.slots[i]
    <3> DEFINE al == withKey(x.al, i, k)
    <3>1. AccessOK(al) /\ DeleteSlot(al, a, k) = x.al
      BY <1>3, <2>1, <2>3, KeyBack
    <3>2. e = [append(x, ent) EXCEPT !.al.slots[i] = @ \cup {k}]
      BY <1>8, <2>3 DEF AddSlotToAccessList
    <3>3. [append(x, ent) EXCEPT !.al.slots[i] = @ \cup {k}] = [append(x, ent) EXCEPT !.al = al]
      <4> DEFINE y == append(x, ent)
      <4>1. y.al = x.al /\ y.al = [idx |-> y.al.idx, slots |-> y.al.slots]
        BY <1>3, <1>5
      <4>2. PICK z, j : z = y /\ j = i
        OBVIOUS
      <4>3. withKey(z.al, j, k) = al
        BY <4>1, <4>2
      <4> HIDE DEF y, i, x, al
      <4>4. [z EXCEPT !.al.slots[j] = @ \cup {k}] = [z EXCEPT !.al = withKey(z.al, j, k)]
        BY Solver, <4>1, <4>2 DEF withKey
      <4>5. [z EXCEPT !.al.slots[j] = @ \cup {k}] = [z EXCEPT !.al = al]
        BY <4>3, <4>4
      <4> QED
        BY <4>2, <4>5 DEF y
    <3>4. \A b \in Addr : x.al.idx[b] # None => al.idx[b] # None
      BY DEF withKey
    <3> HIDE DEF al, x, e, i
    <3>5. Warmed(x, e)
      BY <1>6, <3>1, <3>2, <3>3, <3>4
    <3> QED
      BY <1>1, <3>5, WarmedTrans DEF e
  <2> QED
    BY <2>2, <2>3
<1> QED
  BY <1>7, <1>8

\* Snapshot leaves accounts and counters alone.
LEMMA SnapshotSame ==
  ASSUME NEW d, Core(d)
  PROVE  LET s == Snapshot(d) IN Core(s) /\ SameCounts(d, s) /\ Acc(s) = Acc(d)
<1> DEFINE s == Snapshot(d)
<1>1. Shaped(s) /\ SameState(d, s)
  BY DEF Core, Shaped, SameState, SameCounts, Snapshot
<1> HIDE DEF s
<1>2. Core(s)
  BY <1>1 DEF Core, ObjsOK, CountsOK, SameState, SameCounts
<1> QED
  BY <1>1, <1>2, SameObjects DEF SameState, s

=============================================================================
