---------------------------- MODULE EVMSoundProofs ---------------------------
(***************************************************************************)
(* What every operation that a call makes keeps of a database.             *)
(*                                                                         *)
(* A database is sound (SoundNow) when nothing escapes Finalise, and the   *)
(* refund counter pays for every slot that the transaction has cleared.    *)
(* Each operation extends the history of the journal and keeps the         *)
(* database sound (Keeps), so that a reverted world is sound again.        *)
(***************************************************************************)
EXTENDS EVMSound, StateDBProofs

USE FirstOrder

(***************************************************************************)
(* The end of a transaction and of a block.                                *)
(***************************************************************************)

\* finalise moves the dirty slot to pending.
LEMMA FinalisedObject ==
  ASSUME NEW o, Coherent(o)
  PROVE  /\ Coherent(finalise(o)) /\ (finalise(o).deleted <=> o.deleted)
         /\ Seen(finalise(o)) = Seen(o)
         /\ ~o.deleted => OrigOf(finalise(o)) = Seen(o).slot
<1> DEFINE f == finalise(o)
<1>1. o \in Object
  BY DEF Coherent
<1>2. CASE o.dirty = Unset
  <2>1. f = o
    BY <1>2 DEF finalise
  <2>2. GetState(o) = GetCommittedState(o)
    BY <1>2 DEF GetState
  <2> QED
    BY Solver, <2>1, <2>2, SeenOf
<1>3. CASE o.dirty # Unset
  <2>1. f = [o EXCEPT !.pending = o.dirty, !.dirty = Unset]
    BY <1>3 DEF finalise
  <2>2. /\ f \in Object /\ f.pending = o.dirty /\ f.dirty = Unset /\ f.origin = o.origin /\ f.trie = o.trie
        /\ f.teTrie = o.teTrie /\ f.teOrigin = o.teOrigin /\ f.teDirty = o.teDirty
        /\ f.deleted = o.deleted /\ f.nonce = o.nonce /\ f.balance = o.balance /\ f.code = o.code
        /\ f.suicided = o.suicided
    BY <1>1, <2>1 DEF Object
  <2> HIDE DEF f
  <2>3. Coherent(f)
    BY <1>3, <2>2 DEF Coherent
  <2>4. GetState(f) = GetState(o) /\ GetCommittedState(f) = GetState(o) /\ GetTeWakaState(f) = GetTeWakaState(o)
    BY <1>3, <2>2 DEF GetState, GetCommittedState, GetTeWakaState
  <2>5. o # None /\ f # None
    BY <2>3, SeenOf
  <2>6. Seen(f) = Seen(o)
    BY <2>2, <2>4, <2>5 DEF Seen
  <2>7. ~o.deleted => OrigOf(f) = Seen(o).slot
    <3>1. ~o.deleted => OrigOf(f) = GetCommittedState(f)
      BY <2>2, <2>3, SeenOf
    <3>2. ~o.deleted => Seen(o).slot = GetState(o)
      BY Solver, SeenOf
    <3> QED
      BY <2>4, <3>1, <3>2
  <2> QED
    BY <2>2, <2>3, <2>6, <2>7 DEF f
<1> QED
  BY <1>2, <1>3

\* A deleted object is not seen.
LEMMA DeletedObject ==
  ASSUME NEW o, Coherent(o)
  PROVE  LET x == [o EXCEPT !.deleted = TRUE] IN Coherent(x) /\ x.deleted /\ Seen(x) = None
<1>1. PICK m \in BOOLEAN : m = TRUE
  OBVIOUS
<1> DEFINE x == [o EXCEPT !.deleted = m]
<1>2. o \in Object
  BY DEF Coherent
<1>3. /\ x \in Object /\ x.pending = o.pending /\ x.dirty = o.dirty /\ x.origin = o.origin /\ x.trie = o.trie
      /\ x.teTrie = o.teTrie /\ x.teOrigin = o.teOrigin /\ x.teDirty = o.teDirty /\ x.deleted = m
  BY <1>2 DEF Object
<1> HIDE DEF x
<1>4. Coherent(x)
  BY <1>3 DEF Coherent
<1>5. Seen(x) = None
  BY <1>1, <1>3, <1>4, SeenOf
<1> QED
  BY <1>1, <1>3, <1>4, <1>5 DEF x

\* What is written to the account trie is what was seen.
LEMMA EncodedObject ==
  ASSUME NEW o, Coherent(o), ~o.deleted
  PROVE  /\ encoded(o) \in Account
         /\ ~Seen(o).suicided => Seen(newObject(encoded(o))) = Seen(o)
<1> DEFINE f == finalise(o)
           u == updateTrie(o)
           origin == IF f.origin = Unset THEN 0 ELSE f.origin
           g == IF f.pending = Unset \/ f.pending = origin THEN f
                ELSE [f EXCEPT !.trie = f.pending, !.origin = f.pending]
           te == IF f.teDirty = Unset THEN g.teTrie ELSE f.teDirty
<1>1. Coherent(f) /\ ~f.deleted /\ Seen(f) = Seen(o)
  BY FinalisedObject
<1>2. f \in Object
  BY <1>1 DEF Coherent
<1>3. f.dirty = Unset
  <2>1. o \in Object
    BY DEF Coherent
  <2> QED
    BY <2>1 DEF finalise, Object
<1>4. u = [g EXCEPT !.pending = Unset, !.teTrie = te, !.teDirty = Unset]
  BY DEF updateTrie
<1> HIDE DEF f
<1>5. g \in Object /\ g.teTrie = f.teTrie
  BY <1>2 DEF Object
<1>6. g.trie = GetState(f)
  <2>1. GetState(f) = GetCommittedState(f)
    BY <1>3 DEF GetState
  <2>2. CASE f.pending = Unset
    <3>1. g = f
      BY <2>2
    <3> QED
      BY <1>1, <2>1, <2>2, <3>1 DEF GetCommittedState, Coherent
  <2>3. CASE f.pending # Unset /\ f.pending = origin
    <3>1. g = f
      BY <2>3
    <3>2. f.origin # Unset /\ f.origin = f.trie
      BY <1>1, <2>3 DEF Coherent
    <3> QED
      BY <2>1, <2>3, <3>1, <3>2 DEF GetCommittedState
  <2>4. CASE f.pending # Unset /\ f.pending # origin
    <3>1. g = [f EXCEPT !.trie = f.pending, !.origin = f.pending]
      BY <2>4
    <3>2. g.trie = f.pending
      BY <1>2, <3>1 DEF Object
    <3> QED
      BY <2>1, <2>4, <3>2 DEF GetCommittedState
  <2> QED
    BY <2>2, <2>3, <2>4
<1> HIDE DEF g
<1>7. te = GetTeWakaState(f)
  BY <1>1, <1>5 DEF GetTeWakaState, Coherent
<1> HIDE DEF te
<1>8. u.trie = GetState(f) /\ u.teTrie = GetTeWakaState(f)
  BY <1>4, <1>5, <1>6, <1>7 DEF Object
<1> HIDE DEF u
<1>9. /\ GetState(f) = Seen(o).slot /\ GetTeWakaState(f) = Seen(o).te /\ Seen(o) \in SeenAccount
      /\ Seen(o).nonce = o.nonce /\ Seen(o).balance = o.balance /\ Seen(o).code = o.code
  <2>1. /\ Seen(f) = [nonce |-> f.nonce, balance |-> f.balance, code |-> f.code,
                      slot |-> GetState(f), te |-> GetTeWakaState(f), suicided |-> f.suicided]
        /\ Seen(f) \in SeenAccount
    BY <1>1, SeenOf
  <2>2. /\ Seen(o) = [nonce |-> o.nonce, balance |-> o.balance, code |-> o.code,
                      slot |-> GetState(o), te |-> GetTeWakaState(o), suicided |-> o.suicided]
    BY SeenOf
  <2>3. Seen(o).slot = GetState(f) /\ Seen(o).te = GetTeWakaState(f)
    BY Solver, <1>1, <2>1
  <2>4. Seen(o).nonce = o.nonce /\ Seen(o).balance = o.balance /\ Seen(o).code = o.code
    BY Solver, <2>2
  <2> QED
    BY <1>1, <2>1, <2>3, <2>4
<1> DEFINE s == Seen(o)
<1>10. encoded(o) = [nonce |-> s.nonce, balance |-> s.balance, code |-> s.code, slot |-> s.slot, te |-> s.te]
  BY <1>8, <1>9 DEF encoded, u
<1> HIDE DEF s
<1>11. encoded(o) \in Account
  BY Solver, <1>9, <1>10 DEF SeenAccount, Account, s
<1>12. ASSUME ~s.suicided PROVE Seen(newObject(encoded(o))) = s
  <2> DEFINE x == encoded(o)
  <2>1. /\ x.nonce = s.nonce /\ x.balance = s.balance /\ x.code = s.code /\ x.slot = s.slot /\ x.te = s.te
    BY Solver, <1>10
  <2>2. Seen(newObject(x)) = [nonce |-> x.nonce, balance |-> x.balance, code |-> x.code,
                 slot |-> x.slot, te |-> x.te, suicided |-> FALSE]
    BY <1>11, NewObject
  <2> HIDE DEF x
  <2>3. s \in SeenAccount /\ s.suicided = FALSE
    BY <1>9, <1>12 DEF s, SeenAccount
  <2>4. s = [nonce |-> s.nonce, balance |-> s.balance, code |-> s.code, slot |-> s.slot, te |-> s.te,
             suicided |-> s.suicided]
    BY <2>3 DEF SeenAccount
  <2> QED
    BY <2>1, <2>2, <2>3, <2>4 DEF x
<1> QED
  BY <1>11, <1>12 DEF s

\* The accounts that Finalise looks at, and those that it removes.
TouchedBy(d) == {a \in Addr : d.dirties[a] > 0 /\ d.objs[a] # None}

Dead(s) == s.suicided \/ (s.nonce = 0 /\ s.balance = 0 /\ ~s.code)

ended(o) == IF o.suicided \/ empty(o) THEN [o EXCEPT !.deleted = TRUE] ELSE finalise(o)

\* What Finalise does with a dirty object.
LEMMA EndedObject ==
  ASSUME NEW o, Coherent(o)
  PROVE  /\ Coherent(ended(o))
         /\ o.deleted => Seen(ended(o)) = None
         /\ ~o.deleted => \/ Seen(ended(o)) = None /\ Dead(Seen(o))
                          \/ /\ Seen(ended(o)) = Seen(o) /\ ~Seen(o).suicided
                             /\ OrigOf(ended(o)) = Seen(o).slot
<1>1. CASE o.suicided \/ empty(o)
  <2>1. ended(o) = [o EXCEPT !.deleted = TRUE]
    BY <1>1 DEF ended
  <2>2. Coherent(ended(o)) /\ Seen(ended(o)) = None
    BY <2>1, DeletedObject
  <2>3. ASSUME ~o.deleted PROVE Dead(Seen(o))
    <3>1. /\ Seen(o).nonce = o.nonce /\ Seen(o).balance = o.balance /\ (Seen(o).code <=> o.code)
          /\ Seen(o).suicided <=> o.suicided
      <4>1. Seen(o) = [nonce |-> o.nonce, balance |-> o.balance, code |-> o.code,
                       slot |-> GetState(o), te |-> GetTeWakaState(o), suicided |-> o.suicided]
        BY <2>3, SeenOf
      <4> QED
        BY Solver, <4>1
    <3> QED
      BY <1>1, <3>1 DEF Dead, empty
  <2> QED
    BY <2>2, <2>3
<1>2. CASE ~(o.suicided \/ empty(o))
  <2>1. ended(o) = finalise(o)
    BY <1>2 DEF ended
  <2>2. /\ Coherent(ended(o)) /\ Seen(ended(o)) = Seen(o)
        /\ ~o.deleted => OrigOf(ended(o)) = Seen(o).slot
    BY <2>1, FinalisedObject
  <2>3. o.deleted => Seen(o) = None
    BY SeenOf
  <2>4. ~o.deleted => ~Seen(o).suicided
    <3>1. ~o.deleted => Seen(o) = [nonce |-> o.nonce, balance |-> o.balance, code |-> o.code,
                       slot |-> GetState(o), te |-> GetTeWakaState(o), suicided |-> o.suicided]
      BY SeenOf
    <3> QED
      BY Solver, <1>2, <3>1
  <2> QED
    BY <2>2, <2>3, <2>4
<1> QED
  BY <1>1, <1>2

\* Finalise leaves every account as it is or removes it.
Settles(d, e) ==
  \A a \in Addr :
    \/ Acc(e)[a] = Acc(d)[a] /\ (Acc(d)[a] # None => ~Acc(d)[a].suicided)
    \/ Acc(e)[a] = None /\ Acc(d)[a] # None /\ Dead(Acc(d)[a])

\* The slots are as a transaction finds them.
Unwritten(d) == \A a \in Addr : Acc(d)[a] # None => Acc(d)[a].slot = Origs(d)[a]

\* Finalise removes the dead accounts, and loses no other change.
LEMMA Finalised ==
  ASSUME NEW d, Core(d), Tidy(View(d), d.trie, d.pending)
  PROVE  LET e == Finalise(d)
         IN  /\ Core(e) /\ Tidy(View(e), e.trie, e.pending) /\ Settles(d, e) /\ Unwritten(e)
             /\ e.journal = <<>> /\ e.revs = <<>> /\ e.past = <<>> /\ e.nextRev = d.nextRev
             /\ e.al = d.al /\ e.logs = d.logs /\ e.trie = d.trie
             /\ e.refund = (IF d.journal = <<>> THEN d.refund ELSE 0)
             /\ \A a \in Addr \ e.pending : Acc(e)[a] = InTrie(e.trie, a)
<1> DEFINE T == TouchedBy(d)
           e == Finalise(d)
<1>1. /\ Shaped(e) /\ e.journal = <<>> /\ e.revs = <<>> /\ e.past = <<>> /\ e.nextRev = d.nextRev
      /\ e.al = d.al /\ e.logs = d.logs /\ e.trie = d.trie
      /\ e.refund = (IF d.journal = <<>> THEN d.refund ELSE 0)
      /\ e.dirties = [a \in Addr |-> 0] /\ e.pending = d.pending \cup T
      /\ e.objs = [a \in Addr |-> IF a \in T THEN ended(d.objs[a]) ELSE d.objs[a]]
  BY DEF Finalise, Core, Shaped, TouchedBy, ended
<1> HIDE DEF e
<1>2. /\ d.objs \in [Addr -> Object \cup {None}] /\ T \subseteq Addr
      /\ \A a \in T : d.objs[a] # None /\ Coherent(d.objs[a])
      /\ \A a \in Addr : d.objs[a] # None => Coherent(d.objs[a]) /\ (d.objs[a].deleted => a \in d.pending)
  BY DEF Core, ObjsOK, TouchedBy
<1>3. \A a \in T : Coherent(ended(d.objs[a])) /\ ended(d.objs[a]) \in Object /\ ended(d.objs[a]) # None
  <2>1. \A a \in T : Coherent(ended(d.objs[a]))
    BY <1>2, EndedObject
  <2> QED
    BY <2>1, SeenOf DEF Coherent
<1>4. ObjsOK(e)
  <2>1. e.objs \in [Addr -> Object \cup {None}]
    BY Solver, <1>1, <1>2, <1>3
  <2>2. \A a \in Addr : e.objs[a] # None => Coherent(e.objs[a]) /\ (e.objs[a].deleted => a \in e.pending)
    BY Solver, <1>1, <1>2, <1>3
  <2>3. \A a \in e.pending : e.objs[a] # None
    BY <1>1, <1>2, <1>3 DEF Core, ObjsOK
  <2> QED
    BY <2>1, <2>2, <2>3 DEF ObjsOK
<1>5. Core(e)
  BY Solver, <1>1, <1>2, <1>4 DEF Core, CountsOK
<1>6. ASSUME NEW a \in T
      PROVE  /\ Acc(d)[a] = Seen(d.objs[a]) /\ Acc(e)[a] = Seen(ended(d.objs[a]))
             /\ Origs(e)[a] = OrigOf(ended(d.objs[a]))
  <2>1. getDeletedStateObject(d, a) = d.objs[a] /\ getDeletedStateObject(e, a) = ended(d.objs[a])
    BY <1>1, <1>2, <1>3 DEF getDeletedStateObject
  <2> QED
    BY <1>2, <2>1, AccAt
<1>7. ASSUME NEW a \in Addr \ T
      PROVE  Acc(e)[a] = Acc(d)[a] /\ Origs(e)[a] = Origs(d)[a]
  <2>1. getDeletedStateObject(e, a) = getDeletedStateObject(d, a)
    BY <1>1 DEF getDeletedStateObject
  <2> QED
    BY <2>1, AccAt
<1>8. \A a \in Addr :
        /\ Acc(d)[a] # None /\ Acc(d)[a].suicided => d.dirties[a] > 0
        /\ Acc(d)[a] # None /\ d.dirties[a] = 0 => Acc(d)[a].slot = Origs(d)[a]
        /\ a \notin d.pending /\ d.dirties[a] = 0 => Acc(d)[a] = InTrie(d.trie, a)
  BY ViewFields DEF Tidy
<1>9. ASSUME NEW a \in Addr \ T
      PROVE  d.dirties[a] = 0 \/ Acc(d)[a] = InTrie(d.trie, a)
  <2>1. CASE d.dirties[a] > 0
    <3>1. d.objs[a] = None
      BY <1>9, <2>1 DEF TouchedBy
    <3>2. Acc(d)[a] = InTrie(d.trie, a)
      BY <3>1, AccAt, SeenNone DEF getDeletedStateObject, InTrie
    <3> QED
      BY <3>2
  <2>2. d.dirties[a] \in Nat
    BY DEF Core, CountsOK
  <2> QED
    BY Solver, <2>1, <2>2
<1>10. ASSUME NEW a \in Addr, Acc(d)[a] = InTrie(d.trie, a), Acc(d)[a] # None, a \notin T,
              d.dirties[a] > 0
       PROVE  ~Acc(d)[a].suicided /\ Acc(d)[a].slot = Origs(d)[a]
  <2>1. d.objs[a] = None /\ d.trie[a] # None
    BY <1>10 DEF TouchedBy, InTrie
  <2>2. d.trie[a] \in Account /\ getDeletedStateObject(d, a) = newObject(d.trie[a])
    BY <2>1 DEF Core, getDeletedStateObject
  <2>3. /\ Acc(d)[a] = Seen(newObject(d.trie[a]))
        /\ Origs(d)[a] = OrigOf(newObject(d.trie[a]))
    BY <2>2, AccAt
  <2> DEFINE x == d.trie[a]
  <2>4. /\ OrigOf(newObject(x)) = x.slot
        /\ Seen(newObject(x)) = [nonce |-> x.nonce, balance |-> x.balance, code |-> x.code,
                 slot |-> x.slot, te |-> x.te, suicided |-> FALSE]
    BY <2>2, NewObject
  <2> QED
    BY Solver, <2>3, <2>4
<1>11. d.dirties \in [Addr -> Nat]
  BY DEF Core, CountsOK
<1>12. Settles(d, e) /\ Unwritten(e)
  <2> SUFFICES ASSUME NEW a \in Addr
               PROVE  /\ \/ Acc(e)[a] = Acc(d)[a] /\ (Acc(d)[a] # None => ~Acc(d)[a].suicided)
                         \/ Acc(e)[a] = None /\ Acc(d)[a] # None /\ Dead(Acc(d)[a])
                      /\ Acc(e)[a] # None => Acc(e)[a].slot = Origs(e)[a]
    BY DEF Settles, Unwritten
  <2>1. CASE a \in T
    <3> DEFINE o == d.objs[a]
    <3>1. Coherent(o) /\ Acc(d)[a] = Seen(o) /\ Acc(e)[a] = Seen(ended(o)) /\ Origs(e)[a] = OrigOf(ended(o))
      BY <1>2, <1>6, <2>1
    <3> HIDE DEF o
    <3>2. CASE o.deleted
      <4>1. Seen(o) = None /\ Seen(ended(o)) = None
        BY <3>1, <3>2, SeenOf, EndedObject
      <4> QED
        BY <3>1, <4>1
    <3>3. CASE ~o.deleted
      <4>1. Seen(o) # None
        BY <3>1, <3>3, SeenOf
      <4>2. \/ Seen(ended(o)) = None /\ Dead(Seen(o))
            \/ /\ Seen(ended(o)) = Seen(o) /\ ~Seen(o).suicided
               /\ OrigOf(ended(o)) = Seen(o).slot
        BY <3>1, <3>3, EndedObject
      <4> QED
        BY <3>1, <4>1, <4>2
    <3> QED
      BY <3>2, <3>3
  <2>2. CASE a \notin T
    <3>1. Acc(e)[a] = Acc(d)[a] /\ Origs(e)[a] = Origs(d)[a]
      BY <1>7, <2>2
    <3>2. CASE d.dirties[a] = 0
      BY Solver, <1>8, <1>11, <3>1, <3>2
    <3>3. CASE d.dirties[a] # 0
      <4>1. Acc(d)[a] = InTrie(d.trie, a) /\ d.dirties[a] > 0
        BY Solver, <1>9, <1>11, <2>2, <3>3
      <4> QED
        BY <1>10, <2>2, <3>1, <4>1
    <3> QED
      BY <3>2, <3>3
  <2> QED
    BY <2>1, <2>2
<1>13. \A a \in Addr \ e.pending : Acc(e)[a] = InTrie(e.trie, a)
  BY <1>1, <1>7, <1>8, <1>9
<1>14. \A a \in Addr : Acc(e)[a] # None => ~Acc(e)[a].suicided
  BY <1>12 DEF Settles
<1>15. Tidy(View(e), e.trie, e.pending)
  BY <1>12, <1>13, <1>14, ViewFields DEF Tidy, Unwritten
<1> QED
  BY <1>1, <1>5, <1>12, <1>13, <1>15 DEF e

\* The access list of a transaction starts empty.
LEMMA EmptyAccess == AccessOK(NoAccess)
<1>1. /\ NoAccess.idx = [a \in Addr |-> None] /\ NoAccess.slots = <<>>
      /\ NoAccess = [idx |-> NoAccess.idx, slots |-> NoAccess.slots]
  BY DEF NoAccess
<1>2. <<>> \in Seq(SUBSET Key) /\ Len(<<>>) = 0
  <2>1. PICK S : S = SUBSET Key
    OBVIOUS
  <2>2. <<>> \in Seq(S) /\ Len(<<>>) = 0
    BY Solver
  <2> QED
    BY <2>1, <2>2
<1> QED
  BY Solver, <1>1, <1>2 DEF AccessOK

\* A database opened at a root.
LEMMA Fresh ==
  ASSUME NEW trie \in [Addr -> Account \cup {None}]
  PROVE  LET e == New(trie)
         IN  /\ Core(e) /\ Tidy(View(e), e.trie, e.pending) /\ Unwritten(e)
             /\ e.journal = <<>> /\ e.revs = <<>> /\ e.past = <<>> /\ e.nextRev = 0 /\ e.refund = 0
             /\ \A a \in Addr : Acc(e)[a] = InTrie(trie, a)
<1> DEFINE e == New(trie)
<1>1. /\ Shaped(e) /\ e.journal = <<>> /\ e.revs = <<>> /\ e.past = <<>> /\ e.nextRev = 0 /\ e.refund = 0
      /\ e.trie = trie /\ e.objs = [a \in Addr |-> None] /\ e.dirties = [a \in Addr |-> 0]
      /\ e.pending = {} /\ e.al = NoAccess /\ e.logs = 0
  BY DEF New, Shaped
<1> HIDE DEF e
<1>2. ObjsOK(e)
  BY Solver, <1>1 DEF ObjsOK
<1>3. AccessOK(NoAccess)
  BY EmptyAccess
<1>4. Core(e)
  BY Solver, <1>1, <1>2, <1>3 DEF Core, CountsOK
<1>5. \A a \in Addr : Acc(e)[a] = InTrie(trie, a)
  BY <1>1, AccAt, SeenNone DEF getDeletedStateObject, InTrie
<1>6. ASSUME NEW a \in Addr, Acc(e)[a] # None
      PROVE  ~Acc(e)[a].suicided /\ Acc(e)[a].slot = Origs(e)[a]
  <2>1. trie[a] # None
    BY <1>5, <1>6 DEF InTrie
  <2>2. trie[a] \in Account /\ getDeletedStateObject(e, a) = newObject(trie[a])
    BY <1>1, <2>1 DEF getDeletedStateObject
  <2>3. /\ Acc(e)[a] = Seen(newObject(trie[a]))
        /\ Origs(e)[a] = OrigOf(newObject(trie[a]))
    BY <2>2, AccAt
  <2> DEFINE x == trie[a]
  <2>4. /\ OrigOf(newObject(x)) = x.slot
        /\ Seen(newObject(x)) = [nonce |-> x.nonce, balance |-> x.balance, code |-> x.code,
                 slot |-> x.slot, te |-> x.te, suicided |-> FALSE]
    BY <2>2, NewObject
  <2> QED
    BY Solver, <2>3, <2>4
<1>7. Unwritten(e)
  BY <1>6 DEF Unwritten
<1>8. Tidy(View(e), e.trie, e.pending)
  BY <1>1, <1>5, <1>6, ViewFields DEF Tidy
<1> QED
  BY <1>1, <1>4, <1>5, <1>7, <1>8 DEF e

\* The state of the next block shows what Finalise left.
LEMMA Committed ==
  ASSUME NEW d, Core(d), Tidy(View(d), d.trie, d.pending)
  PROVE  /\ rootOf(Finalise(d)) \in [Addr -> Account \cup {None}]
         /\ Settles(d, Commit(d))
<1> DEFINE f == Finalise(d)
           r == rootOf(f)
           e == Commit(d)
<1>1. /\ Core(f) /\ Settles(d, f) /\ \A a \in Addr \ f.pending : Acc(f)[a] = InTrie(f.trie, a)
  BY Finalised
<1>2. e = New(r)
  BY DEF Commit
<1> HIDE DEF f, e
<1>3. ASSUME NEW a \in Addr
      PROVE  r[a] \in Account \cup {None} /\ InTrie(r, a) = Acc(f)[a]
  <2>1. CASE a \notin f.pending
    <3>1. r[a] = f.trie[a]
      BY <2>1 DEF rootOf
    <3> QED
      BY <1>1, <2>1, <3>1 DEF Core, InTrie
  <2>2. CASE a \in f.pending
    <3> DEFINE o == f.objs[a]
    <3>1. Coherent(o) /\ o # None /\ Acc(f)[a] = Seen(o)
      <4>1. o # None /\ Coherent(o)
        BY <1>1, <2>2 DEF Core, ObjsOK
      <4>2. getDeletedStateObject(f, a) = o
        BY <4>1 DEF getDeletedStateObject
      <4> QED
        BY <4>1, <4>2, AccAt
    <3>2. r[a] = IF o.deleted THEN None ELSE encoded(o)
      BY <2>2 DEF rootOf
    <3> HIDE DEF o, r
    <3>3. CASE o.deleted
      BY Solver, <3>1, <3>2, <3>3, SeenOf DEF InTrie
    <3>4. CASE ~o.deleted
      <4>1. r[a] = encoded(o)
        BY <3>2, <3>4
      <4>2. Seen(o) # None
        BY <3>1, <3>4, SeenOf
      <4>3. ~Seen(o).suicided
        BY <1>1, <3>1, <4>2 DEF Settles
      <4>4. encoded(o) \in Account /\ Seen(newObject(encoded(o))) = Seen(o)
        BY <3>1, <3>4, <4>3, EncodedObject
      <4>5. encoded(o) # None
        BY <4>4, StateDBAssumption
      <4> QED
        BY <3>1, <4>1, <4>4, <4>5 DEF InTrie
    <3> QED
      BY <3>3, <3>4
  <2> QED
    BY <2>1, <2>2
<1>4. r \in [Addr -> Account \cup {None}]
  BY <1>3 DEF rootOf
<1> HIDE DEF r
<1>5. \A a \in Addr : Acc(e)[a] = Acc(f)[a]
  BY <1>2, <1>3, <1>4, Fresh
<1>6. Settles(d, e)
  BY <1>1, <1>5 DEF Settles
<1> QED
  BY <1>4, <1>6 DEF r, f, e

(***************************************************************************)
(* The operations of a call.                                               *)
(***************************************************************************)

\* Doing nothing keeps everything,
LEMMA KeepsSelf == ASSUME NEW d, Core(d) PROVE Keeps(d, d)
BY ReachesSelf DEF Keeps

\* and so do two operations that do.
LEMMA KeepsTrans == ASSUME NEW d, NEW e, NEW f, Keeps(d, e), Keeps(e, f) PROVE Keeps(d, f)
BY ReachesTrans DEF Keeps

\* An account spares itself,
LEMMA SparesSelf == ASSUME NEW u PROVE Spares(u, u)
BY DEF Spares

\* and two operations that spare the accounts spare them together.
LEMMA SparesTrans == ASSUME NEW u, NEW v, NEW w, Spares(u, v), Spares(v, w) PROVE Spares(u, w)
<1>1. Blank # None
  BY BlankObject
<1> QED
  BY <1>1 DEF Spares

\* Soundness, from the fields of a database.
LEMMA SoundFields ==
  ASSUME NEW d
  PROVE  SoundNow(d) <=>
           /\ \A a \in Addr :
                /\ Acc(d)[a] # None /\ Acc(d)[a].suicided => d.dirties[a] > 0
                /\ Acc(d)[a] # None /\ d.dirties[a] = 0 => Acc(d)[a].slot = Origs(d)[a]
                /\ a \notin d.pending /\ d.dirties[a] = 0 => Acc(d)[a] = InTrie(d.trie, a)
           /\ Covers(Cleared(View(d)), d.refund)
BY Solver, ViewFields DEF SoundNow, Sound, Tidy, Backed

\* The cleared slots, read off the accounts and the origins.
LEMMA ClearedFields ==
  ASSUME NEW d
  PROVE  Cleared(View(d)) = {a \in Addr : Acc(d)[a] # None /\ Origs(d)[a] # 0 /\ Acc(d)[a].slot = 0}
BY ViewFields DEF Cleared

\* Fewer slots, or a larger counter.
LEMMA CoversLess ==
  ASSUME NEW S, NEW T, T \subseteq S, NEW r \in Nat, NEW q \in Nat, r <= q, Covers(S, r)
  PROVE  Covers(T, q)
<1>1. PICK m \in Nat : AtMost(S, m) /\ ClearRefund * m <= r
  BY DEF Covers
<1>2. AtMost(T, m)
  BY <1>1 DEF AtMost
<1>3. ClearRefund \in Nat
  BY FramesAssumption
<1>4. ClearRefund * m \in Nat
  BY Solver, <1>3
<1>5. ClearRefund * m <= q
  BY Solver, <1>1, <1>4
<1> QED
  BY <1>2, <1>5 DEF Covers

\* A counter or the access list changes.
LEMMA KeepsBook ==
  ASSUME NEW d, NEW e, Core(d), Bookkept(d, e), e.refund >= d.refund,
         \A a \in Addr : d.al.idx[a] # None => e.al.idx[a] # None
  PROVE  Keeps(d, e)
<1>1. Core(e) /\ Reaches(d, e) /\ Acc(e) = Acc(d) /\ Origs(e) = Origs(d) /\ e.dirties = d.dirties
  BY DEF Bookkept
<1>2. e.trie = d.trie /\ e.pending = d.pending
  BY <1>1 DEF Reaches, SameRest
<1>3. Cleared(View(e)) = Cleared(View(d))
  BY <1>1, ClearedFields
<1>4. SoundNow(d) => SoundNow(e)
  <2>1. d.refund \in Nat /\ e.refund \in Nat /\ ClearRefund \in Nat
    BY <1>1, FramesAssumption DEF Core, CountsOK
  <2>3. Covers(Cleared(View(d)), d.refund) => Covers(Cleared(View(e)), e.refund)
    BY <1>3, <2>1, CoversLess
  <2> QED
    BY <1>1, <1>2, <2>3, SoundFields
<1> QED
  BY <1>1, <1>4 DEF Keeps

\* Warming an address keeps the accounts.
LEMMA KeepsWarmed == ASSUME NEW d, NEW e, Core(d), Warmed(d, e) PROVE Keeps(d, e)
<1>1. d.refund \in Nat
  BY DEF Core, CountsOK
<1> QED
  BY Solver, <1>1, KeepsBook DEF Warmed

\* An account that is absent has no slot in the trie.
LEMMA OrigNone ==
  ASSUME NEW d, NEW a \in Addr, Acc(d)[a] = None PROVE Origs(d)[a] = 0
BY AccAt DEF OrigOf

\* An account changes, but not its slot.
LEMMA KeepsChanged ==
  ASSUME NEW d, NEW e, Core(d), Core(e), NEW a \in Addr, NEW s, s # None, Changed(d, e, a, s),
         s.slot = Found(Acc(d)[a]).slot, e.dirties[a] > 0 \/ (s.suicided <=> Found(Acc(d)[a]).suicided)
  PROVE  Keeps(d, e)
<1>1. /\ Reaches(d, e) /\ SameCounts(d, e) /\ Noted(d, e, a)
      /\ Acc(e) = [Acc(d) EXCEPT ![a] = s] /\ Origs(e) = Origs(d)
  BY DEF Changed
<1>2. e.trie = d.trie /\ e.pending = d.pending /\ e.refund = d.refund /\ e.al = d.al
  BY <1>1 DEF Reaches, SameRest, SameCounts
<1>3. Acc(e)[a] = s /\ \A b \in Addr : b # a => Acc(e)[b] = Acc(d)[b]
  BY <1>1 DEF Acc
<1>4. Blank # None /\ Blank.slot = 0 /\ ~Blank.suicided
  BY BlankObject
<1>5. Cleared(View(e)) = Cleared(View(d))
  <2>1. Acc(d)[a] = None => Origs(d)[a] = 0
    BY OrigNone
  <2>2. Acc(d)[a] # None => s.slot = Acc(d)[a].slot
    BY DEF Found
  <2>3. /\ Cleared(View(d)) = {b \in Addr : Acc(d)[b] # None /\ Origs(d)[b] # 0 /\ Acc(d)[b].slot = 0}
        /\ Cleared(View(e)) = {b \in Addr : Acc(e)[b] # None /\ Origs(e)[b] # 0 /\ Acc(e)[b].slot = 0}
    BY ClearedFields
  <2>4. a \in Cleared(View(e)) <=> a \in Cleared(View(d))
    BY <1>1, <1>3, <2>1, <2>2, <2>3
  <2>5. \A b \in Addr : b # a => (b \in Cleared(View(e)) <=> b \in Cleared(View(d)))
    BY <1>1, <1>3, <2>3
  <2> QED
    BY <2>3, <2>4, <2>5
<1>6. /\ \A b \in Addr : b # a => e.dirties[b] = d.dirties[b]
      /\ e.dirties[a] \in Nat /\ d.dirties[a] \in Nat /\ e.dirties[a] >= d.dirties[a]
      /\ \/ e.dirties[a] > 0 \/ s = Acc(d)[a]
         \/ a \in d.pending /\ Acc(d)[a] = None /\ s = Blank
  BY <1>1, <1>3 DEF Noted, Core, CountsOK
<1>7. SoundNow(d) => SoundNow(e)
  <2> SUFFICES ASSUME SoundNow(d) PROVE SoundNow(e)
    OBVIOUS
  <2>1. /\ s.suicided => e.dirties[a] > 0
        /\ e.dirties[a] = 0 => s.slot = Origs(d)[a]
        /\ a \notin d.pending /\ e.dirties[a] = 0 => s = InTrie(d.trie, a)
    <3>1. CASE e.dirties[a] > 0
      BY Solver, <1>6, <3>1
    <3>2. CASE e.dirties[a] = 0 /\ s = Acc(d)[a]
      <4>1. d.dirties[a] = 0
        BY Solver, <1>6, <3>2
      <4> QED
        BY <3>2, <4>1, SoundFields
    <3>3. CASE e.dirties[a] = 0 /\ a \in d.pending /\ Acc(d)[a] = None /\ s = Blank
      BY <1>4, <3>3, OrigNone
    <3> QED
      BY Solver, <1>6, <3>1, <3>2, <3>3
  <2>2. ASSUME NEW b \in Addr
        PROVE  /\ Acc(e)[b] # None /\ Acc(e)[b].suicided => e.dirties[b] > 0
               /\ Acc(e)[b] # None /\ e.dirties[b] = 0 => Acc(e)[b].slot = Origs(e)[b]
               /\ b \notin e.pending /\ e.dirties[b] = 0 => Acc(e)[b] = InTrie(e.trie, b)
    <3>1. CASE b = a
      BY <1>1, <1>2, <1>3, <2>1, <3>1
    <3>2. CASE b # a
      BY <1>1, <1>2, <1>3, <1>6, <3>2, SoundFields
    <3> QED
      BY <3>1, <3>2
  <2>3. Covers(Cleared(View(e)), e.refund)
    BY <1>2, <1>5, SoundFields
  <2> QED
    BY <2>2, <2>3, SoundFields
<1>8. \A b \in Addr : Acc(d)[b] # None => Acc(e)[b] # None
  BY <1>3
<1> QED
  BY <1>1, <1>2, <1>7, <1>8 DEF Keeps

\* Multiplication by a natural number is monotonic.
LEMMA MulMono ==
  ASSUME NEW c \in Nat, NEW m \in Nat, NEW n \in Nat, m <= n PROVE c * m <= c * n
<1>1. PICK k \in Nat : n = m + k
  <2>1. n - m \in Nat /\ n = m + (n - m)
    BY Solver
  <2> QED
    BY <2>1
<1>2. c * (m + k) = c * m + c * k
  BY Solver
<1>3. c * m \in Nat /\ c * k \in Nat
  BY Solver
<1> QED
  BY Solver, <1>1, <1>2, <1>3

\* One slot more, or one fewer.
LEMMA MulStep ==
  ASSUME NEW c \in Nat, NEW m \in Nat
  PROVE  c * m \in Nat /\ c * (m + 1) = c * m + c /\ c * (m - 1) = c * m - c
BY Solver

\* A balance changes.
LEMMA PaidKeeps ==
  ASSUME NEW d, NEW e, Core(d), Core(e), NEW a \in Addr, Paid(d, e, a)
  PROVE  /\ Keeps(d, e) /\ SameCounts(d, e) /\ Acc(e)[a] # None
         /\ \A b \in Addr : b # a => Acc(e)[b] = Acc(d)[b]
         /\ Acc(e)[a].te = Found(Acc(d)[a]).te
<1>1. PICK n \in Int : Changed(d, e, a, [Found(Acc(d)[a]) EXCEPT !.balance = n])
  BY DEF Paid
<1>2. PICK f : f = Found(Acc(d)[a])
  OBVIOUS
<1>3. f \in SeenAccount
  BY <1>2, FoundSeen
<1>4. PICK s : s = [f EXCEPT !.balance = n]
  OBVIOUS
<1>5. s \in SeenAccount /\ s.slot = f.slot /\ s.te = f.te /\ s.suicided = f.suicided
  BY <1>3, <1>4 DEF SeenAccount
<1>6. s # None
  BY <1>5, StateDBAssumption DEF SeenAccount
<1>7. Changed(d, e, a, s)
  BY <1>1, <1>2, <1>4
<1>8. Keeps(d, e)
  BY <1>2, <1>5, <1>6, <1>7, KeepsChanged
<1>9. Acc(e) = [Acc(d) EXCEPT ![a] = s] /\ SameCounts(d, e)
  BY <1>7 DEF Changed
<1>10. Acc(e)[a] = s /\ \A b \in Addr : b # a => Acc(e)[b] = Acc(d)[b]
  BY <1>9 DEF Acc
<1> QED
  BY <1>2, <1>5, <1>6, <1>8, <1>9, <1>10

\* Transfer moves coins only.
Moved(d, e, from, to) ==
  /\ Keeps(d, e) /\ SameCounts(d, e) /\ Acc(e)[to] # None
  /\ \A b \in Addr \ {from, to} : Acc(e)[b] = Acc(d)[b]
  /\ \A b \in Addr : Found(Acc(e)[b]).te = Found(Acc(d)[b]).te

\* Transfer, and that one of nothing spares the accounts.
LEMMA Transferred ==
  ASSUME NEW d, Core(d), NEW from \in Addr, NEW to \in Addr, NEW n \in Int
  PROVE  LET e == Transfer(d, from, to, n)
         IN  /\ Core(e) /\ Moved(d, e, from, to)
             /\ n = 0 /\ Acc(d)[from] # None => Spares(Acc(d), Acc(e))
<1> DEFINE x == SubBalance(d, from, n)
           e == Transfer(d, from, to, n)
<1>1. /\ Core(x) /\ Paid(d, x, from)
      /\ n = 0 => Changed(d, x, from, Found(Acc(d)[from]))
  BY BalanceSubbed
<1>2. e = AddBalance(x, to, n)
  BY DEF Transfer
<1> HIDE DEF x, e
<1>3. /\ Core(e) /\ Paid(x, e, to)
      /\ n = 0 => Changed(x, e, to, Found(Acc(x)[to]))
  BY <1>1, <1>2, BalanceAdded
<1>4. /\ Keeps(d, x) /\ SameCounts(d, x) /\ Acc(x)[from] # None
      /\ \A b \in Addr : b # from => Acc(x)[b] = Acc(d)[b]
      /\ Acc(x)[from].te = Found(Acc(d)[from]).te
  BY <1>1, PaidKeeps
<1>5. /\ Keeps(x, e) /\ SameCounts(x, e) /\ Acc(e)[to] # None
      /\ \A b \in Addr : b # to => Acc(e)[b] = Acc(x)[b]
      /\ Acc(e)[to].te = Found(Acc(x)[to]).te
  BY <1>1, <1>3, PaidKeeps
<1>6. Keeps(d, e) /\ SameCounts(d, e)
  BY <1>4, <1>5, KeepsTrans DEF SameCounts
<1>7. \A b \in Addr \ {from, to} : Acc(e)[b] = Acc(d)[b]
  BY <1>4, <1>5
<1>8. \A b \in Addr : Found(Acc(x)[b]).te = Found(Acc(d)[b]).te
  BY <1>4 DEF Found
<1>9. \A b \in Addr : Found(Acc(e)[b]).te = Found(Acc(x)[b]).te
  BY <1>5 DEF Found
<1>10. Moved(d, e, from, to)
  BY <1>5, <1>6, <1>7, <1>8, <1>9 DEF Moved
<1>11. ASSUME n = 0, Acc(d)[from] # None PROVE Spares(Acc(d), Acc(e))
  <2>1. Acc(x)[from] = Acc(d)[from]
    <3>1. Found(Acc(d)[from]) = Acc(d)[from]
      BY <1>11 DEF Found
    <3>2. Acc(x)[from] = Found(Acc(d)[from])
      BY <1>1, <1>11 DEF Changed, Acc
    <3> QED
      BY <3>1, <3>2
  <2>2. \A b \in Addr : Acc(x)[b] = Acc(d)[b]
    BY <1>4, <2>1
  <2>3. Acc(e)[to] = Found(Acc(x)[to])
    BY <1>3, <1>11 DEF Changed, Acc
  <2>4. \A b \in Addr : Acc(e)[b] = Acc(d)[b] \/ (Acc(d)[b] = None /\ Acc(e)[b] = Blank)
    BY <1>5, <2>2, <2>3 DEF Found
  <2> QED
    BY <2>4 DEF Spares
<1> QED
  BY <1>3, <1>10, <1>11 DEF e

\* The setters that EVMFrames calls.
LEMMA NonceKeeps ==
  ASSUME NEW d, Core(d), NEW a \in Addr, NEW n \in Nat
  PROVE  LET e == SetNonce(d, a, n)
         IN  /\ Keeps(d, e) /\ SameCounts(d, e) /\ Acc(e)[a] # None /\ e.dirties[a] > 0
             /\ Acc(e) = [Acc(d) EXCEPT ![a] = [Found(Acc(d)[a]) EXCEPT !.nonce = n]]
<1> DEFINE e == SetNonce(d, a, n)
<1>1. Core(e) /\ e.dirties[a] > 0 /\ Changed(d, e, a, [Found(Acc(d)[a]) EXCEPT !.nonce = n])
  BY NonceSet
<1> HIDE DEF e
<1>2. PICK f : f = Found(Acc(d)[a])
  OBVIOUS
<1>3. f \in SeenAccount
  BY <1>2, FoundSeen
<1>4. PICK s : s = [f EXCEPT !.nonce = n]
  OBVIOUS
<1>5. s \in SeenAccount /\ s.slot = f.slot /\ s.suicided = f.suicided
  BY <1>3, <1>4 DEF SeenAccount
<1>6. s # None
  BY <1>5, StateDBAssumption DEF SeenAccount
<1>7. Changed(d, e, a, s)
  BY <1>1, <1>2, <1>4
<1>8. Keeps(d, e)
  BY <1>1, <1>2, <1>5, <1>6, <1>7, KeepsChanged
<1>9. SameCounts(d, e) /\ Acc(e)[a] # None
  BY <1>6, <1>7 DEF Changed, Acc
<1>10. Acc(e) = [Acc(d) EXCEPT ![a] = [Found(Acc(d)[a]) EXCEPT !.nonce = n]]
  BY <1>1 DEF Changed
<1> QED
  BY <1>1, <1>8, <1>9, <1>10 DEF e

\* Each operation of a database, as a step that keeps it sound.
LEMMA CodeKeeps ==
  ASSUME NEW d, Core(d), NEW a \in Addr
  PROVE  LET e == SetCode(d, a)
         IN  /\ Keeps(d, e) /\ SameCounts(d, e)
             /\ Acc(e) = [Acc(d) EXCEPT ![a] = [Found(Acc(d)[a]) EXCEPT !.code = TRUE]]
<1> DEFINE e == SetCode(d, a)
<1>1. Core(e) /\ e.dirties[a] > 0 /\ Changed(d, e, a, [Found(Acc(d)[a]) EXCEPT !.code = TRUE])
  BY CodeSet
<1> HIDE DEF e
<1>2. PICK f, m : f = Found(Acc(d)[a]) /\ m = TRUE /\ m \in BOOLEAN
  OBVIOUS
<1>3. f \in SeenAccount
  BY <1>2, FoundSeen
<1>4. PICK s : s = [f EXCEPT !.code = m]
  OBVIOUS
<1>5. s \in SeenAccount /\ s.slot = f.slot
  BY <1>2, <1>3, <1>4 DEF SeenAccount
<1>6. s # None
  BY <1>5, StateDBAssumption DEF SeenAccount
<1>7. Changed(d, e, a, s)
  BY <1>1, <1>2, <1>4
<1>8. Keeps(d, e)
  BY <1>1, <1>2, <1>5, <1>6, <1>7, KeepsChanged
<1>9. SameCounts(d, e)
  BY <1>7 DEF Changed, Acc
<1>10. Acc(e) = [Acc(d) EXCEPT ![a] = [Found(Acc(d)[a]) EXCEPT !.code = TRUE]]
  BY <1>1 DEF Changed
<1> QED
  BY <1>8, <1>9, <1>10 DEF e

\* A TeWaka entry is written.
LEMMA TeWakaKeeps ==
  ASSUME NEW d, Core(d), NEW a \in Addr, NEW x \in Blob
  PROVE  LET e == SetTeWakaState(d, a, x)
         IN  /\ Keeps(d, e) /\ Acc(e)[a] # None /\ Acc(e)[a].te = x
             /\ \A b \in Addr : b # a => Acc(e)[b] = Acc(d)[b]
<1> DEFINE e == SetTeWakaState(d, a, x)
<1>1. Core(e) /\ e.dirties[a] > 0 /\ Changed(d, e, a, [Found(Acc(d)[a]) EXCEPT !.te = x])
  BY TeWakaSet
<1> HIDE DEF e
<1>2. PICK f : f = Found(Acc(d)[a])
  OBVIOUS
<1>3. f \in SeenAccount
  BY <1>2, FoundSeen
<1>4. PICK s : s = [f EXCEPT !.te = x]
  OBVIOUS
<1>5. s \in SeenAccount /\ s.slot = f.slot /\ s.te = x
  BY <1>3, <1>4 DEF SeenAccount
<1>6. s # None
  BY <1>5, StateDBAssumption DEF SeenAccount
<1>7. Changed(d, e, a, s)
  BY <1>1, <1>2, <1>4
<1>8. Keeps(d, e)
  BY <1>1, <1>2, <1>5, <1>6, <1>7, KeepsChanged
<1>9. Acc(e)[a] = s /\ \A b \in Addr : b # a => Acc(e)[b] = Acc(d)[b]
  BY <1>7 DEF Changed, Acc
<1> QED
  BY <1>5, <1>6, <1>8, <1>9 DEF e

\* An account destroys itself.
LEMMA SuicideKeeps ==
  ASSUME NEW d, Core(d), NEW a \in Addr PROVE Keeps(d, Suicide(d, a))
<1> DEFINE e == Suicide(d, a)
<1>1. Core(e) /\ (Acc(d)[a] = None => e = d)
  BY SuicideSet
<1>2. CASE Acc(d)[a] = None
  BY <1>1, <1>2, KeepsSelf
<1>3. CASE Acc(d)[a] # None
  <2>1. Changed(d, e, a, Marked(Acc(d)[a])) /\ e.dirties[a] > 0
    BY <1>3, SuicideSet
  <2> HIDE DEF e
  <2>2. PICK f, m : f = Acc(d)[a] /\ m = TRUE /\ m \in BOOLEAN
    OBVIOUS
  <2>3. f \in SeenAccount /\ f = Found(Acc(d)[a])
    BY <1>3, <2>2, FoundSeen DEF Found
  <2>4. PICK s : s = [f EXCEPT !.suicided = m, !.balance = 0]
    OBVIOUS
  <2>5. s \in SeenAccount /\ s.slot = f.slot
    <3>1. PICK t : t = [f EXCEPT !.suicided = m]
      OBVIOUS
    <3>2. t \in SeenAccount /\ t.slot = f.slot
      BY <2>2, <2>3, <3>1 DEF SeenAccount
    <3>3. s = [t EXCEPT !.balance = 0]
      BY <2>4, <3>1
    <3> QED
      BY Solver, <3>2, <3>3 DEF SeenAccount
  <2>6. s # None
    BY <2>5, StateDBAssumption DEF SeenAccount
  <2>7. Marked(Acc(d)[a]) = s
    BY <2>2, <2>4 DEF Marked, marks
  <2>8. Keeps(d, e)
    BY <1>1, <2>1, <2>3, <2>5, <2>6, <2>7, KeepsChanged
  <2> QED
    BY <2>8 DEF e
<1> QED
  BY <1>2, <1>3

\* A log is added.
LEMMA LogKeeps ==
  ASSUME NEW d, Core(d)
  PROVE  LET e == AddLog(d) IN Keeps(d, e) /\ Acc(e) = Acc(d)
<1> DEFINE e == AddLog(d)
<1>1. Bookkept(d, e) /\ e.al = d.al /\ e.refund = d.refund
  BY LogAdded
<1> HIDE DEF e
<1>2. d.refund \in Nat
  BY DEF Core, CountsOK
<1>3. Keeps(d, e)
  BY Solver, <1>1, <1>2, KeepsBook
<1> QED
  BY <1>1, <1>3 DEF Bookkept, e

\* The account changes, its slot not.
LEMMA MadeKeeps ==
  ASSUME NEW d, Core(d), NEW a \in Addr, Acc(d)[a] = None
  PROVE  LET e == CreateAccount(d, a)
         IN  Keeps(d, e) /\ SameCounts(d, e) /\ Acc(e) = [Acc(d) EXCEPT ![a] = Blank]
<1> DEFINE e == CreateAccount(d, a)
<1>1. Core(e) /\ Changed(d, e, a, Blank)
  BY AccountCreated
<1> HIDE DEF e
<1>2. Found(Acc(d)[a]) = Blank
  BY DEF Found
<1>3. Keeps(d, e)
  BY <1>1, <1>2, BlankObject, KeepsChanged
<1> QED
  BY <1>1, <1>3 DEF Changed, e

\* An account is found or created.
LEMMA AcquiredKeeps ==
  ASSUME NEW d, Core(d), NEW a \in Addr
  PROVE  LET e == GetOrNewStateObject(d, a)
         IN  /\ Keeps(d, e) /\ SameCounts(d, e) /\ Acc(e)[a] = Found(Acc(d)[a])
             /\ \A b \in Addr : b # a => Acc(e)[b] = Acc(d)[b]
<1> DEFINE e == GetOrNewStateObject(d, a)
<1>1. Core(e) /\ Changed(d, e, a, Found(Acc(d)[a]))
  BY Acquired
<1> HIDE DEF e
<1>2. Found(Acc(d)[a]) # None
  BY FoundSeen
<1>3. Keeps(d, e)
  BY <1>1, <1>2, KeepsChanged
<1> QED
  BY <1>1, <1>3 DEF Changed, Acc, e

\* A balance is added to; adding nothing changes nothing that is seen.
LEMMA BalanceKeeps ==
  ASSUME NEW d, Core(d), NEW a \in Addr, NEW n \in Int
  PROVE  LET e == AddBalance(d, a, n)
         IN  /\ Keeps(d, e) /\ SameCounts(d, e) /\ Acc(e)[a] # None
             /\ n = 0 => Spares(Acc(d), Acc(e))
<1> DEFINE e == AddBalance(d, a, n)
<1>1. Core(e) /\ Paid(d, e, a) /\ (n = 0 => Changed(d, e, a, Found(Acc(d)[a])))
  BY BalanceAdded
<1> HIDE DEF e
<1>2. /\ Keeps(d, e) /\ SameCounts(d, e) /\ Acc(e)[a] # None
      /\ \A b \in Addr : b # a => Acc(e)[b] = Acc(d)[b]
  BY Solver, <1>1, PaidKeeps
<1>3. ASSUME n = 0 PROVE Spares(Acc(d), Acc(e))
  <2>1. Acc(e)[a] = Found(Acc(d)[a])
    BY <1>1, <1>3 DEF Changed, Acc
  <2> QED
    BY <1>2, <2>1 DEF Found, Spares
<1> QED
  BY <1>2, <1>3 DEF e

\* An account that is made anew gets a nonce at once: Finalise will look at it.
LEMMA BornKeeps ==
  ASSUME NEW d, Core(d), NEW a \in Addr
  PROVE  LET e == SetNonce(CreateAccount(d, a), a, 1)
         IN  Keeps(d, e) /\ SameCounts(d, e) /\ Acc(e)[a] # None
<1> DEFINE x == CreateAccount(d, a)
           e == SetNonce(x, a, 1)
<1>1. Core(x) /\ \E b \in Int : Remade(d, x, a, [Blank EXCEPT !.balance = b])
  BY AccountCreated
<1> HIDE DEF x
<1>2. /\ Core(e) /\ e.dirties[a] > 0 /\ Changed(x, e, a, [Found(Acc(x)[a]) EXCEPT !.nonce = 1])
  BY <1>1, NonceSet
<1>3. Keeps(x, e) /\ SameCounts(x, e) /\ Acc(e)[a] # None
  BY <1>1, NonceKeeps
<1> HIDE DEF e
<1>4. PICK b \in Int : Remade(d, x, a, [Blank EXCEPT !.balance = b])
  BY <1>1
<1>5. Reaches(d, e) /\ SameCounts(d, e)
  BY <1>2, <1>3, <1>4, ReachesTrans DEF Remade, Keeps, SameCounts
<1>6. /\ e.trie = d.trie /\ e.pending = d.pending /\ e.refund = d.refund /\ e.al = d.al
  BY <1>5 DEF Reaches, SameRest, SameCounts
<1>7. Origs(e) = Origs(x) /\ Origs(x) = [Origs(d) EXCEPT ![a] = 0]
  BY <1>2, <1>4 DEF Changed, Remade
<1>8. /\ Origs(e)[a] = 0
      /\ \A c \in Addr : c # a => Origs(e)[c] = Origs(d)[c] /\ e.dirties[c] = d.dirties[c]
  BY <1>2, <1>4, <1>7 DEF Changed, Noted, Remade, Origs
<1>9. \A c \in Addr : c # a => Acc(e)[c] = Acc(d)[c]
  BY <1>2, <1>4 DEF Changed, Remade, Acc
<1>10. SoundNow(d) => SoundNow(e)
  <2> SUFFICES ASSUME SoundNow(d) PROVE SoundNow(e)
    OBVIOUS
  <2>1. ASSUME NEW c \in Addr
        PROVE  /\ Acc(e)[c] # None /\ Acc(e)[c].suicided => e.dirties[c] > 0
               /\ Acc(e)[c] # None /\ e.dirties[c] = 0 => Acc(e)[c].slot = Origs(e)[c]
               /\ c \notin e.pending /\ e.dirties[c] = 0 => Acc(e)[c] = InTrie(e.trie, c)
    <3>1. CASE c = a
      BY Solver, <1>2, <3>1
    <3>2. CASE c # a
      BY <1>6, <1>8, <1>9, <3>2, SoundFields
    <3> QED
      BY <3>1, <3>2
  <2>2. Cleared(View(e)) \subseteq Cleared(View(d))
    BY Solver, <1>8, <1>9, ClearedFields
  <2>3. Covers(Cleared(View(e)), e.refund)
    <3>1. d.refund \in Nat /\ d.refund <= d.refund
      BY Solver DEF Core, CountsOK
    <3> QED
      BY <1>6, <2>2, <3>1, CoversLess, SoundFields
  <2> QED
    BY <2>1, <2>3, SoundFields
<1>11. \A c \in Addr : Acc(d)[c] # None => Acc(e)[c] # None
  BY <1>3, <1>9
<1>12. Keeps(d, e)
  BY <1>2, <1>5, <1>6, <1>10, <1>11 DEF Keeps
<1> QED
  BY <1>3, <1>5, <1>12 DEF e, x

\* A slot that is counted has earned its refund.
LEMMA CoversPays ==
  ASSUME NEW S, NEW r \in Nat, Covers(S, r), NEW a \in S PROVE ClearRefund <= r
<1>1. PICK m \in Nat : AtMost(S, m) /\ ClearRefund * m <= r
  BY DEF Covers
<1>2. m >= 1
  BY Solver, <1>1 DEF AtMost
<1>3. ClearRefund \in Nat
  BY FramesAssumption
<1>4. ClearRefund * 1 <= ClearRefund * m
  BY <1>2, <1>3, MulMono
<1>5. ClearRefund * m \in Nat /\ ClearRefund * 1 = ClearRefund
  BY Solver, <1>3, MulStep
<1> QED
  BY Solver, <1>1, <1>3, <1>4, <1>5

\* A refund pays for one more cleared slot.
LEMMA CoversMore ==
  ASSUME NEW S, NEW r \in Nat, Covers(S, r), NEW a, NEW q \in Nat, q >= r + ClearRefund
  PROVE  Covers(S \cup {a}, q)
<1>1. PICK m \in Nat : AtMost(S, m) /\ ClearRefund * m <= r
  BY DEF Covers
<1>2. PICK f : \A b \in S : \E i \in 1 .. m : f[i] = b
  BY <1>1 DEF AtMost
<1>3. PICK g : g = [i \in 1 .. m + 1 |-> IF i = m + 1 THEN a ELSE f[i]]
  OBVIOUS
<1>4. g[m + 1] = a /\ m + 1 \in 1 .. m + 1 /\ \A i \in 1 .. m : i \in 1 .. m + 1 /\ g[i] = f[i]
  BY Solver, <1>3
<1>5. AtMost(S \cup {a}, m + 1)
  BY Solver, <1>2, <1>4 DEF AtMost
<1>6. ClearRefund \in Nat
  BY FramesAssumption
<1>7. ClearRefund * m \in Nat /\ ClearRefund * (m + 1) = ClearRefund * m + ClearRefund
  BY <1>6, MulStep
<1>8. ClearRefund * (m + 1) <= q /\ m + 1 \in Nat
  BY Solver, <1>1, <1>6, <1>7
<1> QED
  BY <1>5, <1>8 DEF Covers

\* The last one takes the place of the one that goes.
LEMMA CoversDrop ==
  ASSUME NEW S, NEW r \in Nat, Covers(S, r), NEW a \in S, NEW q \in Nat, q >= r - ClearRefund
  PROVE  Covers(S \ {a}, q)
<1>1. PICK m \in Nat : AtMost(S, m) /\ ClearRefund * m <= r
  BY DEF Covers
<1>2. PICK f : \A b \in S : \E i \in 1 .. m : f[i] = b
  BY <1>1 DEF AtMost
<1>3. PICK k \in 1 .. m : f[k] = a
  BY <1>2
<1>4. PICK n \in Nat : m = n + 1
  <2>1. m - 1 \in Nat /\ m = (m - 1) + 1
    BY Solver, <1>3
  <2> QED
    BY <2>1
<1>5. PICK g : g = [i \in 1 .. n |-> IF i = k THEN f[m] ELSE f[i]]
  OBVIOUS
<1>6. ASSUME NEW b \in S \ {a} PROVE \E i \in 1 .. n : g[i] = b
  <2>1. PICK i \in 1 .. m : f[i] = b
    BY <1>2
  <2>2. i # k
    BY <1>3, <2>1
  <2>3. CASE i = m
    <3>1. k \in 1 .. n
      BY Solver, <1>4, <2>2, <2>3
    <3>2. g[k] = b
      BY <1>5, <2>1, <2>3, <3>1
    <3> QED
      BY <3>1, <3>2
  <2>4. CASE i # m
    <3>1. i \in 1 .. n
      BY Solver, <1>4, <2>4
    <3>2. g[i] = b
      BY <1>5, <2>1, <2>2, <3>1
    <3> QED
      BY <3>1, <3>2
  <2> QED
    BY <2>3, <2>4
<1>7. AtMost(S \ {a}, n)
  BY <1>6 DEF AtMost
<1>8. ClearRefund \in Nat
  BY FramesAssumption
<1>9. ClearRefund * n \in Nat /\ ClearRefund * m = ClearRefund * n + ClearRefund
  BY <1>4, <1>8, MulStep
<1>10. ClearRefund * n <= q
  BY Solver, <1>1, <1>8, <1>9
<1> QED
  BY <1>7, <1>10 DEF Covers

\* From d to e the counter moves by at least n.
Earned(d, e, n) == Bookkept(d, e) /\ e.al = d.al /\ e.refund >= d.refund + n

\* Nothing is earned by doing nothing.
LEMMA EarnedSelf == ASSUME NEW d, Core(d) PROVE Earned(d, d, 0)
<1>1. d.refund \in Nat
  BY DEF Core, CountsOK
<1> QED
  BY Solver, <1>1, ReachesSelf DEF Earned, Bookkept

\* A larger counter pays for what a smaller one paid for.
LEMMA EarnedMore ==
  ASSUME NEW d, Core(d), NEW e, NEW n \in Int, Earned(d, e, n), NEW m \in Nat
  PROVE  Earned(d, AddRefund(e, m), n)
<1>1. Core(e) /\ d.refund \in Nat /\ e.refund \in Nat
  BY DEF Earned, Bookkept, Core, CountsOK
<1>2. /\ Bookkept(e, AddRefund(e, m)) /\ AddRefund(e, m).al = e.al
      /\ AddRefund(e, m).refund = e.refund + m
  BY <1>1, RefundAdded
<1>3. Bookkept(d, AddRefund(e, m))
  BY <1>2, ReachesTrans DEF Earned, Bookkept
<1> QED
  BY Solver, <1>1, <1>2, <1>3 DEF Earned

\* What SSTORE adds to the number of cleared slots.
change01(org, cur, v) ==
  IF org = 0 THEN 0 ELSE (IF v = 0 THEN 1 ELSE 0) - (IF cur = 0 THEN 1 ELSE 0)

\* The gas of a store moves the refund by what it clears.
LEMMA GasCounted ==
  ASSUME NEW d, Core(d), SoundNow(d), NEW a \in Addr, Acc(d)[a] # None, NEW v \in Word
  PROVE  Earned(d, gasSStore(d, a, v), ClearRefund * change01(Origs(d)[a], Acc(d)[a].slot, v))
<1> DEFINE o == getDeletedStateObject(d, a)
           cur == GetState(o)
           org == GetCommittedState(o)
           e == IF org = 0 THEN d
                ELSE IF cur = 0 THEN SubRefund(d, ClearRefund)
                ELSE IF v = 0 THEN AddRefund(d, ClearRefund) ELSE d
           s == gasSStore(d, a, v)
<1>1. ~o.deleted /\ Coherent(o)
  BY Solver, AccAt, ObjectOf, SeenNone, SeenOf
<1>2. Acc(d)[a].slot = cur /\ Origs(d)[a] = org
  BY Solver, <1>1, AccAt, SeenOf
<1>3. s = IF cur = v THEN d
          ELSE IF org = cur THEN (IF org # 0 /\ v = 0 THEN AddRefund(d, ClearRefund) ELSE d)
          ELSE IF org # v THEN e
          ELSE AddRefund(e, IF org = 0 THEN SetRefund ELSE ResetRefund)
  BY DEF gasSStore
<1> HIDE DEF s, cur, org
<1>4. Core(d) /\ d.refund \in Nat /\ ClearRefund \in Nat /\ SetRefund \in Nat /\ ResetRefund \in Nat
  BY FramesAssumption DEF Core, CountsOK
<1>5. ClearRefund * 0 = 0 /\ ClearRefund * 1 = ClearRefund /\ ClearRefund * (-1) = - ClearRefund
  BY Solver, <1>4
<1>6. Earned(d, d, 0) /\ Earned(d, AddRefund(d, ClearRefund), ClearRefund)
  <2>1. Earned(d, d, 0)
    BY EarnedSelf
  <2> QED
    BY Solver, <1>4, <2>1, RefundAdded DEF Earned
<1>7. ASSUME org # 0, cur = 0 PROVE Earned(d, SubRefund(d, ClearRefund), - ClearRefund)
  <2>1. a \in Cleared(View(d))
    BY <1>2, <1>7, ClearedFields
  <2>2. ClearRefund <= d.refund
    BY <1>4, <2>1, CoversPays, SoundFields
  <2> QED
    BY Solver, <1>4, <2>2, RefundSubbed DEF Earned
<1>8. PICK n : n = ClearRefund * change01(org, cur, v)
  OBVIOUS
<1>9. /\ org = 0 => n = 0
      /\ org # 0 /\ cur = 0 /\ v # 0 => n = - ClearRefund
      /\ org # 0 /\ cur # 0 /\ v = 0 => n = ClearRefund
      /\ org # 0 /\ (cur = 0 <=> v = 0) => n = 0
  <2>1. /\ org = 0 => change01(org, cur, v) = 0
        /\ org # 0 /\ cur = 0 /\ v # 0 => change01(org, cur, v) = -1
        /\ org # 0 /\ cur # 0 /\ v = 0 => change01(org, cur, v) = 1
        /\ org # 0 /\ (cur = 0 <=> v = 0) => change01(org, cur, v) = 0
    BY Solver DEF change01
  <2> QED
    BY <1>5, <1>8, <2>1
<1>10. n \in Int
  BY Solver, <1>4, <1>9
<1>11. cur # v => Earned(d, e, n)
  BY <1>6, <1>7, <1>9
<1> HIDE DEF e
<1>12. Earned(d, s, n)
  <2>1. CASE cur = v \/ org = cur
    BY <1>3, <1>6, <1>9, <2>1
  <2>2. CASE cur # v /\ org # cur /\ org # v
    BY <1>3, <1>11, <2>2
  <2>3. CASE cur # v /\ org # cur /\ org = v
    <3>1. Earned(d, AddRefund(e, SetRefund), n) /\ Earned(d, AddRefund(e, ResetRefund), n)
      BY <1>4, <1>10, <1>11, <2>3, EarnedMore
    <3> QED
      BY <1>3, <2>3, <3>1
  <2> QED
    BY <2>1, <2>2, <2>3
<1> QED
  BY <1>2, <1>8, <1>12 DEF s

\* The counter keeps up with the cleared slots.
LEMMA BackedStep ==
  ASSUME NEW d, Core(d), SoundNow(d), NEW e, Core(e), NEW a \in Addr, NEW n \in {-1, 0, 1},
         e.refund >= d.refund + ClearRefund * n,
         n = 0 => Cleared(View(e)) = Cleared(View(d)),
         n = 1 => a \notin Cleared(View(d)) /\ Cleared(View(e)) = Cleared(View(d)) \cup {a},
         n = -1 => a \in Cleared(View(d)) /\ Cleared(View(e)) = Cleared(View(d)) \ {a}
  PROVE  Covers(Cleared(View(e)), e.refund)
<1>1. PICK S, T : S = Cleared(View(d)) /\ T = Cleared(View(e))
  OBVIOUS
<1>2. ClearRefund \in Nat /\ d.refund \in Nat /\ e.refund \in Nat /\ Covers(S, d.refund)
  BY <1>1, FramesAssumption, SoundFields DEF Core, CountsOK
<1>3. CASE n = 0
  <2>1. d.refund <= e.refund /\ T \subseteq S
    BY Solver, <1>1, <1>2, <1>3
  <2> QED
    BY <1>1, <1>2, <2>1, CoversLess
<1>4. CASE n = 1
  <2>1. e.refund >= d.refund + ClearRefund /\ T = S \cup {a}
    BY Solver, <1>1, <1>2, <1>4
  <2>2. Covers(S \cup {a}, e.refund)
    BY <1>2, <2>1, CoversMore
  <2> QED
    BY <1>1, <2>1, <2>2
<1>5. CASE n = -1
  <2>1. e.refund >= d.refund - ClearRefund /\ T = S \ {a} /\ a \in S
    <3>1. ClearRefund * n = - ClearRefund
      BY Solver, <1>2, <1>5
    <3>2. e.refund >= d.refund - ClearRefund
      BY <1>2, <3>1
    <3> QED
      BY <1>1, <1>5, <3>2
  <2>2. Covers(S \ {a}, e.refund)
    BY <1>2, <2>1, CoversDrop
  <2> QED
    BY <1>1, <2>1, <2>2
<1> QED
  BY <1>3, <1>4, <1>5

\* SSTORE: the key, the refund and the slot.
LEMMA SstoreKeeps ==
  ASSUME NEW d, Core(d), SoundNow(d), NEW a \in Addr, Acc(d)[a] # None, NEW k \in Key, NEW v \in Word
  PROVE  Keeps(d, SetState(gasSStore(AddSlotToAccessList(d, a, k), a, v), a, v))
<1> DEFINE x == AddSlotToAccessList(d, a, k)
           y == gasSStore(x, a, v)
           e == SetState(y, a, v)
<1>1. Warmed(d, x)
  BY KeyAdded
<1> HIDE DEF x
<1>2. Keeps(d, x) /\ Core(x) /\ SoundNow(x) /\ Acc(x) = Acc(d) /\ Origs(x) = Origs(d)
  BY <1>1, KeepsWarmed DEF Keeps, Warmed, Bookkept
<1>3. Earned(x, y, ClearRefund * change01(Origs(x)[a], Acc(x)[a].slot, v))
  BY <1>2, GasCounted
<1> HIDE DEF y
<1>4. /\ Core(y) /\ Reaches(x, y) /\ Acc(y) = Acc(x) /\ Origs(y) = Origs(x) /\ y.al = x.al
      /\ y.dirties = x.dirties
      /\ y.refund >= x.refund + ClearRefund * change01(Origs(x)[a], Acc(x)[a].slot, v)
  BY <1>3 DEF Earned, Bookkept
<1>5. /\ Core(e) /\ Changed(y, e, a, [Found(Acc(y)[a]) EXCEPT !.slot = v])
      /\ e.dirties[a] > 0 \/ Found(Acc(y)[a]).slot = v
  BY <1>4, SlotSet
<1> HIDE DEF e
<1>6. /\ Found(Acc(y)[a]) = Acc(x)[a] /\ Acc(x)[a] \in SeenAccount
  BY <1>2, <1>4, FoundSeen DEF Found
<1>7. PICK s : s = [Acc(x)[a] EXCEPT !.slot = v]
  OBVIOUS
<1>8. s.slot = v /\ s # None /\ (Acc(x)[a].slot = v => s = Acc(x)[a])
  BY <1>6, <1>7, StateDBAssumption DEF SeenAccount
<1>9. Acc(e)[a] = s /\ \A b \in Addr : b # a => Acc(e)[b] = Acc(x)[b]
  BY <1>4, <1>5, <1>6, <1>7 DEF Changed, Acc
<1>10. /\ e.trie = x.trie /\ e.pending = x.pending /\ e.refund = y.refund /\ e.al = x.al
       /\ Reaches(x, e) /\ Origs(e) = Origs(x)
  BY Solver, <1>4, <1>5, ReachesTrans DEF Changed, Reaches, SameRest, SameCounts
<1>11. \A b \in Addr : b # a => e.dirties[b] = x.dirties[b]
  BY <1>4, <1>5 DEF Changed, Noted
<1>12. /\ e.dirties[a] \in Nat /\ x.dirties[a] \in Nat /\ e.dirties[a] >= x.dirties[a]
       /\ e.dirties[a] > 0 \/ s = Acc(x)[a]
  BY <1>2, <1>4, <1>5, <1>6, <1>8 DEF Changed, Noted, Core, CountsOK
<1>13. ASSUME NEW c \in Addr
       PROVE  /\ Acc(e)[c] # None /\ Acc(e)[c].suicided => e.dirties[c] > 0
              /\ Acc(e)[c] # None /\ e.dirties[c] = 0 => Acc(e)[c].slot = Origs(e)[c]
              /\ c \notin e.pending /\ e.dirties[c] = 0 => Acc(e)[c] = InTrie(e.trie, c)
  <2>1. CASE c = a /\ e.dirties[a] > 0
    BY Solver, <1>12, <2>1
  <2>2. CASE c = a /\ e.dirties[a] = 0
    <3>1. x.dirties[a] = 0 /\ Acc(e)[a] = Acc(x)[a]
      BY Solver, <1>9, <1>12, <2>2
    <3> QED
      BY <1>2, <1>10, <2>2, <3>1, SoundFields
  <2>3. CASE c # a
    BY <1>2, <1>9, <1>10, <1>11, <2>3, SoundFields
  <2>4. e.dirties[a] > 0 \/ e.dirties[a] = 0
    BY Solver, <1>12
  <2> QED
    BY <2>1, <2>2, <2>3, <2>4
<1>14. Covers(Cleared(View(e)), e.refund)
  <2> DEFINE n == change01(Origs(x)[a], Acc(x)[a].slot, v)
  <2>1. /\ \A b \in Addr : b # a => (b \in Cleared(View(e)) <=> b \in Cleared(View(x)))
        /\ a \in Cleared(View(x)) <=> Origs(x)[a] # 0 /\ Acc(x)[a].slot = 0
        /\ a \in Cleared(View(e)) <=> Origs(x)[a] # 0 /\ v = 0
        /\ Cleared(View(e)) \subseteq Addr /\ Cleared(View(x)) \subseteq Addr
    BY Solver, <1>2, <1>8, <1>9, <1>10, ClearedFields
  <2>2. /\ n \in {-1, 0, 1}
        /\ n = 0 => (a \in Cleared(View(e)) <=> a \in Cleared(View(x)))
        /\ n = 1 => a \notin Cleared(View(x)) /\ a \in Cleared(View(e))
        /\ n = -1 => a \in Cleared(View(x)) /\ a \notin Cleared(View(e))
    BY Solver, <2>1 DEF change01
  <2>3. e.refund >= x.refund + ClearRefund * n
    BY <1>4, <1>10
  <2> HIDE DEF n
  <2>4. /\ n = 0 => Cleared(View(e)) = Cleared(View(x))
        /\ n = 1 => Cleared(View(e)) = Cleared(View(x)) \cup {a}
        /\ n = -1 => Cleared(View(e)) = Cleared(View(x)) \ {a}
    BY Solver, <2>1, <2>2
  <2> QED
    BY <1>2, <1>5, <2>2, <2>3, <2>4, BackedStep
<1>15. SoundNow(e)
  BY <1>13, <1>14, SoundFields
<1>16. \A b \in Addr : Acc(x)[b] # None => Acc(e)[b] # None
  BY <1>8, <1>9
<1>17. Keeps(x, e)
  BY <1>5, <1>10, <1>15, <1>16 DEF Keeps
<1> QED
  BY <1>2, <1>17, KeepsTrans DEF e, y, x

\* What the getters return.
LEMMA Getters ==
  ASSUME NEW d, Core(d), NEW a \in Addr
  PROVE  /\ GetBalance(d, a) = Found(Acc(d)[a]).balance /\ GetBalance(d, a) \in Int
         /\ GetNonce(d, a) = Found(Acc(d)[a]).nonce /\ GetNonce(d, a) \in Nat
         /\ Exist(d, a) <=> Acc(d)[a] # None
<1>1. Exist(d, a) <=> Acc(d)[a] # None
  BY AccAt DEF Exist
<1>2. Found(Acc(d)[a]) \in SeenAccount
  BY FoundSeen
<1>3. CASE Acc(d)[a] = None
  BY Solver, <1>1, <1>3, BlankObject DEF GetBalance, GetNonce, Found
<1>4. CASE Acc(d)[a] # None
  <2> DEFINE o == getDeletedStateObject(d, a)
  <2>1. Coherent(o) /\ ~o.deleted
    BY Solver, <1>4, AccAt, ObjectOf, SeenNone, SeenOf
  <2>2. Acc(d)[a].balance = o.balance /\ Acc(d)[a].nonce = o.nonce
    BY Solver, <2>1, AccAt, SeenOf
  <2>3. GetBalance(d, a) = o.balance /\ GetNonce(d, a) = o.nonce /\ Found(Acc(d)[a]) = Acc(d)[a]
    BY <1>1, <1>4 DEF GetBalance, GetNonce, Found
  <2> HIDE DEF o
  <2> QED
    BY <1>1, <1>2, <2>2, <2>3 DEF SeenAccount
<1> QED
  BY <1>3, <1>4

\* The operations that Call makes after its snapshot.
LEMMA CallingKeeps ==
  ASSUME NEW d, Core(d), NEW from \in Addr, NEW to \in Addr, NEW n \in Int
  PROVE  LET e == calling(d, from, to, n)
         IN  /\ Keeps(Snapshot(d), e) /\ e.al = d.al
             /\ Acc(d)[to] # None \/ to = TeWaKa => Acc(e)[to] # None
             /\ n = 0 /\ Acc(d)[from] # None => Spares(Acc(d), Acc(e))
<1> DEFINE s == Snapshot(d)
           c == CreateAccount(s, to)
           e == calling(d, from, to, n)
<1>1. Core(s) /\ s.al = d.al /\ Acc(s) = Acc(d)
  BY SnapshotSame DEF SameCounts
<1>2. /\ Acc(d)[to] # None => e = Transfer(s, from, to, n)
      /\ Acc(d)[to] = None /\ to # TeWaKa /\ n = 0 => e = s
      /\ Acc(d)[to] = None /\ (to = TeWaKa \/ n # 0) => e = Transfer(c, from, to, n)
  BY Getters DEF calling
<1> HIDE DEF s, e
<1>3. CASE Acc(d)[to] # None
  <2>1. Moved(s, e, from, to) /\ (n = 0 /\ Acc(s)[from] # None => Spares(Acc(s), Acc(e)))
    BY <1>1, <1>2, <1>3, Transferred
  <2> QED
    BY <1>1, <2>1 DEF Moved, SameCounts, e, s
<1>4. CASE Acc(d)[to] = None /\ to # TeWaKa /\ n = 0
  <2>1. e = s
    BY <1>2, <1>4
  <2>2. Keeps(s, s) /\ Spares(Acc(d), Acc(d))
    BY <1>1, KeepsSelf, SparesSelf
  <2>3. Keeps(s, e) /\ e.al = d.al /\ Spares(Acc(d), Acc(e))
    BY <1>1, <2>1, <2>2
  <2> QED
    BY <1>4, <2>3 DEF e, s
<1>5. CASE Acc(d)[to] = None /\ (to = TeWaKa \/ n # 0)
  <2>1. Keeps(s, c) /\ SameCounts(s, c) /\ Acc(c) = [Acc(s) EXCEPT ![to] = Blank]
    BY <1>1, <1>5, MadeKeeps
  <2>2. Core(c) /\ c.al = s.al
    BY <2>1 DEF Keeps, SameCounts
  <2> HIDE DEF c
  <2>3. Moved(c, e, from, to) /\ (n = 0 /\ Acc(c)[from] # None => Spares(Acc(c), Acc(e)))
    BY <1>2, <1>5, <2>2, Transferred
  <2>4. \A b \in Addr : Acc(c)[b] = Acc(s)[b] \/ (Acc(s)[b] = None /\ Acc(c)[b] = Blank)
    BY <1>1, <1>5, <2>1 DEF Acc
  <2>5. Acc(d)[from] # None => Acc(c)[from] # None
    BY <1>1, <2>1 DEF Keeps
  <2>6. Spares(Acc(d), Acc(c))
    BY <1>1, <2>4 DEF Spares
  <2>7. Keeps(s, e) /\ e.al = d.al
    BY <1>1, <2>1, <2>2, <2>3, KeepsTrans DEF Moved, SameCounts
  <2>8. n = 0 /\ Acc(d)[from] # None => Spares(Acc(d), Acc(e))
    BY <2>3, <2>5, <2>6, SparesTrans
  <2> QED
    BY <2>3, <2>7, <2>8 DEF Moved, e, s
<1> QED
  BY <1>3, <1>4, <1>5

\* A transaction and a creation count in the nonce of the sender.
LEMMA NonceCounts ==
  ASSUME NEW d, Core(d), NEW from \in Addr
  PROVE  LET e == SetNonce(d, from, GetNonce(d, from) + 1)
         IN  Counts(d, e, from) /\ e.al = d.al
<1>1. GetNonce(d, from) = Found(Acc(d)[from]).nonce /\ GetNonce(d, from) + 1 \in Nat
  BY Solver, Getters
<1> QED
  BY Solver, <1>1, NonceKeeps DEF Counts, SameCounts

\* What create does before its snapshot stays when it fails.
LEMMA BumpedKeeps ==
  ASSUME NEW d, Core(d), NEW from \in Addr, NEW to \in Addr
  PROVE  Counts(d, bumped(d, from, to), from) /\ bumped(d, from, to).al.idx[to] # None
<1> DEFINE x == SetNonce(d, from, GetNonce(d, from) + 1)
           e == bumped(d, from, to)
<1>1. Counts(d, x, from)
  BY NonceCounts
<1>2. e = AddAddressToAccessList(x, to)
  BY DEF bumped
<1>3. Core(x)
  BY <1>1 DEF Counts, Keeps
<1> HIDE DEF x, e
<1>4. Warmed(x, e) /\ e.al.idx[to] # None
  BY <1>2, <1>3, AddressAdded
<1>5. Keeps(x, e) /\ Acc(e) = Acc(x) /\ e.refund = x.refund /\ e.logs = x.logs
  BY <1>3, <1>4, KeepsWarmed DEF Warmed, Bookkept
<1>6. Keeps(d, e)
  BY <1>1, <1>5, KeepsTrans DEF Counts
<1> QED
  BY <1>1, <1>4, <1>5, <1>6 DEF Counts, e

\* What create does after its snapshot.
LEMMA CreatingKeeps ==
  ASSUME NEW d, Core(d), NEW from \in Addr, NEW to \in Addr, NEW n \in Int,
         ~Collides(bumped(d, from, to), to)
  PROVE  LET e == creating(d, from, to, n)
             x == bumped(d, from, to)
         IN  Keeps(Snapshot(x), e) /\ e.al = x.al /\ Acc(e)[to] # None
<1> DEFINE x == bumped(d, from, to)
           s == Snapshot(x)
           y == SetNonce(CreateAccount(s, to), to, 1)
           e == creating(d, from, to, n)
<1>1. Core(x)
  BY BumpedKeeps DEF Counts, Keeps
<1>2. e = Transfer(y, from, to, n)
  BY DEF creating
<1> HIDE DEF x, e
<1>3. Core(s) /\ s.al = x.al
  BY <1>1, SnapshotSame DEF SameCounts
<1> HIDE DEF s
<1>4. Keeps(s, y) /\ y.al = s.al
  BY <1>3, BornKeeps DEF SameCounts
<1> HIDE DEF y
<1>5. Core(y)
  BY <1>4 DEF Keeps
<1>6. Moved(y, e, from, to)
  BY <1>2, <1>5, Transferred
<1>7. Keeps(s, e) /\ e.al = x.al /\ Acc(e)[to] # None
  BY <1>3, <1>4, <1>6, KeepsTrans DEF Moved, SameCounts
<1> QED
  BY <1>7 DEF e, s, x

\* The access list of a transaction.
LEMMA WarmedAll ==
  ASSUME NEW d, Core(d), NEW from \in Addr, NEW to \in Addr
  PROVE  LET e == AddAddressToAccessList(d, from)
             f == AddAddressToAccessList(e, to)
         IN  /\ Warmed(d, e) /\ Warmed(d, warmed(e))
             /\ Warmed(d, warmed(f)) /\ warmed(f).al.idx[to] # None
<1> DEFINE e == AddAddressToAccessList(d, from)
           f == AddAddressToAccessList(e, to)
<1>1. Warmed(d, e)
  BY AddressAdded
<1> HIDE DEF e
<1>2. Core(e)
  BY <1>1 DEF Warmed, Bookkept
<1>3. Warmed(e, f) /\ f.al.idx[to] # None
  BY <1>2, AddressAdded
<1> HIDE DEF f
<1>4. Core(f) /\ TeWaKa \in Addr
  BY <1>3, FramesAssumption DEF Warmed, Bookkept
<1>5. Warmed(e, warmed(e)) /\ Warmed(f, warmed(f))
  BY <1>2, <1>4, AddressAdded DEF warmed
<1>6. warmed(f).al.idx[to] # None
  BY <1>3, <1>5 DEF Warmed
<1>7. Warmed(d, warmed(e)) /\ Warmed(d, warmed(f))
  BY <1>1, <1>3, <1>5, WarmedTrans
<1> QED
  BY <1>1, <1>6, <1>7 DEF f, e

\* SELFDESTRUCT.
LEMMA DestroyKeeps ==
  ASSUME NEW d, Core(d), NEW self \in Addr, NEW b \in Addr
  PROVE  Keeps(d, Suicide(AddBalance(AddAddressToAccessList(d, b), b, GetBalance(d, self)), self))
<1> DEFINE x == AddAddressToAccessList(d, b)
           y == AddBalance(x, b, GetBalance(d, self))
<1>1. Warmed(d, x) /\ GetBalance(d, self) \in Int
  BY AddressAdded, Getters
<1> HIDE DEF x
<1>2. Keeps(d, x) /\ Core(x)
  BY <1>1, KeepsWarmed DEF Keeps
<1>3. Keeps(x, y)
  BY <1>1, <1>2, BalanceKeeps
<1> HIDE DEF y
<1>4. Keeps(y, Suicide(y, self))
  BY <1>3, SuicideKeeps DEF Keeps
<1> QED
  BY <1>2, <1>3, <1>4, KeepsTrans DEF y, x

\* A payment of a handler.
LEMMA PayKeeps ==
  ASSUME NEW d, Core(d), NEW from \in Addr, NEW to \in Addr, NEW n \in Int
  PROVE  LET e == AddLog(Transfer(d, from, to, n))
         IN  /\ Keeps(d, e) /\ \A b \in Addr \ {from, to} : Acc(e)[b] = Acc(d)[b]
             /\ \A b \in Addr : Found(Acc(e)[b]).te = Found(Acc(d)[b]).te
<1> DEFINE x == Transfer(d, from, to, n)
           e == AddLog(x)
<1>1. Core(x) /\ Moved(d, x, from, to)
  BY Transferred
<1> HIDE DEF x
<1>2. Keeps(x, e) /\ Acc(e) = Acc(x)
  BY <1>1, LogKeeps
<1> HIDE DEF e
<1> QED
  BY <1>1, <1>2, KeepsTrans DEF Moved, e, x

\* Two credits.
LEMMA CreditsKeep ==
  ASSUME NEW d, Core(d), NEW a \in Addr, NEW b \in Addr, NEW m \in Int, NEW n \in Int
  PROVE  Keeps(d, AddBalance(AddBalance(d, a, m), b, n))
<1> DEFINE x == AddBalance(d, a, m)
<1>1. Keeps(d, x)
  BY BalanceKeeps
<1>2. Core(x)
  BY <1>1 DEF Keeps
<1> HIDE DEF x
<1>3. Keeps(x, AddBalance(x, b, n))
  BY <1>2, BalanceKeeps
<1> QED
  BY <1>1, <1>3, KeepsTrans DEF x

\* The reward of a block, and the sweep of a pool.
LEMMA RewardKeeps ==
  ASSUME NEW d, Core(d)
  PROVE  LET x == AddBalance(d, Coinbase, 1)
             e == Transfer(x, Pool, Sink, GetBalance(x, Pool))
         IN  Keeps(d, x) /\ SameCounts(d, x) /\ Keeps(d, e) /\ SameCounts(d, e)
<1> DEFINE x == AddBalance(d, Coinbase, 1)
           e == Transfer(x, Pool, Sink, GetBalance(x, Pool))
<1>1. Coinbase \in Addr /\ Pool \in Addr /\ Sink \in Addr
  BY FramesAssumption
<1>2. Keeps(d, x) /\ SameCounts(d, x)
  BY Solver, <1>1, BalanceKeeps
<1> HIDE DEF x
<1>3. Core(x) /\ GetBalance(x, Pool) \in Int
  BY <1>1, <1>2, Getters DEF Keeps
<1>4. Moved(x, e, Pool, Sink)
  BY <1>1, <1>3, Transferred
<1> HIDE DEF e
<1>5. Keeps(d, e) /\ SameCounts(d, e)
  BY <1>2, <1>4, KeepsTrans DEF Moved, SameCounts
<1> QED
  BY <1>2, <1>5 DEF e, x

\* Where no slot was written none has earned a refund.
LEMMA UnwrittenSound ==
  ASSUME NEW d, Core(d), Tidy(View(d), d.trie, d.pending), Unwritten(d) PROVE SoundNow(d)
<1>1. Cleared(View(d)) = {}
  BY ClearedFields DEF Unwritten
<1>2. d.refund \in Nat
  BY DEF Core, CountsOK
<1>3. Covers({}, d.refund)
  <2>1. AtMost({}, 0)
    BY DEF AtMost
  <2>2. ClearRefund * 0 = 0
    BY Solver, FramesAssumption
  <2> QED
    BY Solver, <1>2, <2>1, <2>2 DEF Covers
<1> QED
  BY <1>1, <1>3, ViewFields DEF SoundNow, Sound, Backed

\* The state on which a transaction's snapshot is taken.
LEMMA Prepared ==
  ASSUME NEW d, Core(d), SoundNow(d), Idle(d)
  PROVE  LET p == Prepare(d)
         IN  /\ Core(p) /\ SoundNow(p) /\ PastOK(p) /\ p.revs = <<>> /\ Linked(p, Len(p.revs))
             /\ p.journal = <<>> /\ p.past = <<>> /\ p.nextRev = d.nextRev
             /\ World(p) = [World(d) EXCEPT !.al = p.al]
<1> DEFINE p == Prepare(d)
<1>1. /\ Shaped(p) /\ p.trie = d.trie /\ p.objs = d.objs /\ p.pending = d.pending
      /\ p.dirties = d.dirties /\ p.refund = d.refund /\ p.logs = d.logs /\ p.al = NoAccess
      /\ p.journal = d.journal /\ p.revs = d.revs /\ p.past = d.past /\ p.nextRev = d.nextRev
  BY DEF Prepare, Core, Shaped
<1> HIDE DEF p
<1>2. Core(p)
  <2>1. CountsOK(p) /\ ObjsOK(p)
    BY <1>1, EmptyAccess DEF Core, CountsOK, ObjsOK
  <2> QED
    BY <1>1, <2>1 DEF Core
<1>3. Acc(p) = Acc(d) /\ Origs(p) = Origs(d)
  BY <1>1, SameObjects
<1>4. Cleared(View(p)) = Cleared(View(d))
  BY <1>3, ClearedFields
<1>5. SoundNow(p)
  BY <1>1, <1>3, <1>4, SoundFields
<1>6. p.journal = <<>> /\ p.revs = <<>> /\ p.past = <<>> /\ p.refund = 0
  BY <1>1 DEF Idle
<1>7. PastOK(p)
  <2>1. \E S : <<>> \in Seq(S)
    BY Solver
  <2> QED
    BY <1>6, <2>1 DEF PastOK
<1>8. Linked(p, Len(p.revs))
  <2>1. PICK h, known : h = [k \in {0} |-> View(p)] /\ known = [k \in {0} |-> {}]
    OBVIOUS
  <2>2. h[0] = View(p) /\ known[0] = {}
    BY <2>1
  <2>3. Len(p.journal) = 0 /\ Len(p.revs) = 0 /\ (\E S : p.journal \in Seq(S))
    <3>1. Len(<<>>) = 0 /\ \E S : <<>> \in Seq(S)
      BY Solver
    <3> QED
      BY <1>6, <3>1
  <2>4. History(p, h, known)
    BY Solver, <2>2, <2>3 DEF History
  <2>5. Remembers(p, Len(p.revs), h)
    BY Solver, <1>6, <2>2, <2>3, ViewFields DEF Remembers
  <2> QED
    BY <2>4, <2>5 DEF Linked
<1>9. World(p) = [World(d) EXCEPT !.al = p.al]
  <2>1. PICK u, v, w : u = Acc(d) /\ v = d.refund /\ w = d.logs
    OBVIOUS
  <2>2. PICK x, y : x = d.al /\ y = p.al
    OBVIOUS
  <2>3. /\ World(p) = [acc |-> Acc(p), al |-> p.al, refund |-> p.refund, logs |-> p.logs]
        /\ World(d) = [acc |-> Acc(d), al |-> d.al, refund |-> d.refund, logs |-> d.logs]
    BY DEF World, Acc
  <2>4. /\ World(p) = [acc |-> u, al |-> y, refund |-> v, logs |-> w]
        /\ World(d) = [acc |-> u, al |-> x, refund |-> v, logs |-> w]
    BY <1>1, <1>3, <2>1, <2>2, <2>3
  <2> QED
    BY Solver, <2>2, <2>4
<1> QED
  BY <1>1, <1>2, <1>5, <1>6, <1>7, <1>8, <1>9 DEF p

\* What Finalise takes away, as the abstract worlds say it.
LEMMA SettlesIsSettled ==
  ASSUME NEW d, NEW e, Core(d), Settles(d, e)
  PROVE  \E some \in SUBSET F!Empty(World(d)) :
           World(e).acc = F!Settled(World(d), F!Destroyed(World(d)) \cup some)
<1>1. PICK w, u, v : w = World(d) /\ u = Acc(d) /\ v = Acc(e)
  OBVIOUS
<1>2. w.acc = u /\ World(e).acc = v
  BY <1>1 DEF World, Acc
<1>3. PICK some : some = {a \in Addr : v[a] = None /\ u[a] # None /\ ~u[a].suicided}
  OBVIOUS
<1>4. \A a \in Addr : \/ v[a] = u[a] /\ (u[a] # None => ~u[a].suicided)
                      \/ v[a] = None /\ u[a] # None /\ Dead(u[a])
  BY <1>1 DEF Settles
<1>5. some \in SUBSET F!Empty(w)
  BY <1>2, <1>3, <1>4 DEF F!Empty, Dead
<1>6. PICK gone : gone = F!Destroyed(w) \cup some
  OBVIOUS
<1>7. \A a \in Addr : a \in gone <=> u[a] # None /\ (u[a].suicided \/ v[a] = None)
  BY <1>2, <1>3, <1>6 DEF F!Destroyed
<1>8. \A a \in Addr : v[a] = IF a \in gone THEN None ELSE u[a]
  BY <1>4, <1>7
<1>9. v = [a \in Addr |-> v[a]]
  BY <1>1 DEF Acc
<1>10. v = F!Settled(w, gone)
  BY <1>2, <1>8, <1>9 DEF F!Settled
<1> QED
  BY <1>1, <1>2, <1>5, <1>6, <1>10

\* What counts after the access list was extended counts before.
LEMMA WarmCounts ==
  ASSUME NEW d, Core(d), NEW a, Warmed(d, a), NEW from \in Addr, NEW x, Counts(a, x, from)
  PROVE  Counts(d, x, from)
<1>1. Keeps(d, a) /\ Acc(a) = Acc(d) /\ a.refund = d.refund /\ a.logs = d.logs
  BY KeepsWarmed DEF Warmed, Bookkept
<1>2. Keeps(d, x)
  BY <1>1, KeepsTrans DEF Counts
<1> QED
  BY <1>1, <1>2 DEF Counts

\* What Load reads is what the account shows.
LEMMA BytesAre == ASSUME Core(db) PROVE Bytes = BytesOf(db) /\ Bytes \in Blob
<1>1. TeWaKa \in Addr
  BY FramesAssumption
<1>2. Found(Acc(db)[TeWaKa]) \in SeenAccount
  BY <1>1, FoundSeen
<1>3. Bytes = Found(Acc(db)[TeWaKa]).te
  <2>1. CASE Acc(db)[TeWaKa] = None
    BY <1>1, <2>1, Getters, BlankObject DEF Bytes, Found
  <2>2. CASE Acc(db)[TeWaKa] # None
    <3> DEFINE o == getDeletedStateObject(db, TeWaKa)
    <3>1. Coherent(o) /\ ~o.deleted
      BY Solver, <1>1, <2>2, AccAt, ObjectOf, SeenNone, SeenOf
    <3>2. Acc(db)[TeWaKa].te = GetTeWakaState(o)
      BY Solver, <1>1, <3>1, AccAt, SeenOf
    <3>3. Bytes = GetTeWakaState(o)
      BY <1>1, <2>2, Getters DEF Bytes
    <3> HIDE DEF o
    <3> QED
      BY <2>2, <3>2, <3>3 DEF Found
  <2> QED
    BY <2>1, <2>2
<1> QED
  BY <1>2, <1>3 DEF BytesOf, SeenAccount

\* The gas of a call is counted.
LEMMA GasKeeps ==
  ASSUME Core(db), Top.self \in Addr, Acc(db)[Top.self] # None, db.al.idx[Top.self] # None,
         NEW to \in Addr, NEW x, x = gasCall(to)
  PROVE  /\ Keeps(db, x) /\ Core(x) /\ Acc(x) = Acc(db) /\ Spares(Acc(db), Acc(x))
         /\ World(x) = [World(db) EXCEPT !.al = x.al] /\ x.al.idx[to] # None
         /\ Acc(x)[Top.self] # None /\ x.al.idx[Top.self] # None
         /\ Keeps(Snapshot(x), Snapshot(x)) /\ Core(Snapshot(x)) /\ Acc(Snapshot(x)) = Acc(x)
         /\ Snapshot(x).al = x.al
<1>1. Core(db) /\ Top.self \in Addr /\ Acc(db)[Top.self] # None /\ db.al.idx[Top.self] # None
  OBVIOUS
<1>2. Warmed(db, x) /\ x.al.idx[to] # None
  BY <1>1, AddressAdded DEF gasCall
<1>3. /\ Keeps(db, x) /\ Core(x) /\ Acc(x) = Acc(db) /\ x.refund = db.refund /\ x.logs = db.logs
      /\ x.al.idx[Top.self] # None
  <2>1. Keeps(db, x)
    BY <1>1, <1>2, KeepsWarmed
  <2>2. PICK self \in Addr : self = Top.self
    BY <1>1
  <2>3. x.al.idx[self] # None
    BY <1>1, <1>2, <2>2 DEF Warmed
  <2> QED
    BY <1>2, <2>1, <2>2, <2>3 DEF Warmed, Bookkept
<1>4. World(x) = [World(db) EXCEPT !.al = x.al]
  <2>1. /\ World(x) = [acc |-> Acc(x), al |-> x.al, refund |-> x.refund, logs |-> x.logs]
        /\ World(db) = [acc |-> Acc(db), al |-> db.al, refund |-> db.refund, logs |-> db.logs]
    BY DEF World, Acc
  <2> QED
    BY Solver, <1>3, <2>1
<1>5. Core(Snapshot(x)) /\ Acc(Snapshot(x)) = Acc(x) /\ Snapshot(x).al = x.al
  BY <1>3, SnapshotSame DEF SameCounts
<1>6. Keeps(Snapshot(x), Snapshot(x))
  BY <1>5, KeepsSelf
<1>7. Spares(Acc(db), Acc(x)) /\ Acc(x)[Top.self] # None
  BY <1>1, <1>3, SparesSelf
<1> QED
  BY <1>2, <1>3, <1>4, <1>5, <1>6, <1>7

\* Where there is code, there is an account, or the precompiled contract.
LEMMA CodeThere ==
  ASSUME NEW d, Core(d), NEW to \in Addr
  PROVE  /\ codeOf(d, to) \in {"none", "contract", "tewaka"}
         /\ codeOf(d, to) # "none" => Acc(d)[to] # None \/ to = TeWaKa
<1>1. Exist(d, to) <=> Acc(d)[to] # None
  BY Getters
<1> QED
  BY <1>1 DEF codeOf, HasCode

=============================================================================
