---------------------------- MODULE EVMCallsProofs ---------------------------
(***************************************************************************)
(* The inductive invariant of EVMFrames, and the steps of one call.        *)
(*                                                                         *)
(* The revisions are ordered and hold one for every open call (Good).  The *)
(* journal has a history that passes, at every revision, through the world *)
(* its snapshot saved (Live), so that undoing leads back to that world     *)
(* (Base).  What is said of a world holds of the saved ones too: it is     *)
(* sound, its calls have warm accounts, and a static call has spared the   *)
(* accounts since it began (Within).                                       *)
(***************************************************************************)
EXTENDS EVMSound

USE FirstOrder

(***************************************************************************)
(* Sequences.                                                              *)
(***************************************************************************)

\* The first places of a sequence.
LEMMA CutSeq ==
  ASSUME NEW S, NEW s \in Seq(S), NEW n \in 1 .. Len(s)
  PROVE  /\ SubSeq(s, 1, n - 1) \in Seq(S) /\ Len(SubSeq(s, 1, n - 1)) = n - 1
         /\ \A i \in 1 .. n - 1 : SubSeq(s, 1, n - 1)[i] = s[i]
BY Solver

\* A prefix, and a sequence with one more element.
LEMMA Shortened ==
  ASSUME NEW s, (\E S : s \in Seq(S)), NEW n \in 1 .. Len(s)
  PROVE  LET t == SubSeq(s, 1, n - 1)
         IN  /\ Len(t) = n - 1 /\ (\E S : t \in Seq(S)) /\ (n = 1 => t = <<>>)
             /\ \A i \in 1 .. n - 1 : t[i] = s[i]
<1>1. PICK S : s \in Seq(S)
  OBVIOUS
<1>2. /\ SubSeq(s, 1, n - 1) \in Seq(S) /\ Len(SubSeq(s, 1, n - 1)) = n - 1
      /\ \A i \in 1 .. n - 1 : SubSeq(s, 1, n - 1)[i] = s[i]
  BY <1>1, CutSeq
<1>3. n = 1 => SubSeq(s, 1, n - 1) = <<>>
  BY Solver, <1>1
<1> QED
  BY <1>2, <1>3

\* A sequence with one more element.
LEMMA AddedSeq ==
  ASSUME NEW S, NEW s \in Seq(S), NEW x
  PROVE  LET t == Append(s, x)
         IN  /\ Len(s) \in Nat /\ Len(t) = Len(s) + 1 /\ t \in Seq(S \cup {x})
             /\ t[Len(s) + 1] = x /\ \A i \in 1 .. Len(s) : t[i] = s[i]
<1>1. s \in Seq(S \cup {x})
  BY Solver
<1>2. Append(s, x) \in Seq(S \cup {x})
  BY Solver, <1>1
<1> QED
  BY Solver, <1>1, <1>2

\* The same, for a sequence over some set.
LEMMA Lengthened ==
  ASSUME NEW s, (\E S : s \in Seq(S)), NEW x
  PROVE  LET t == Append(s, x)
         IN  /\ Len(s) \in Nat /\ Len(t) = Len(s) + 1 /\ (\E S : t \in Seq(S))
             /\ t[Len(s) + 1] = x /\ \A i \in 1 .. Len(s) : t[i] = s[i]
<1>1. PICK S : s \in Seq(S)
  OBVIOUS
<1>2. LET t == Append(s, x)
      IN  /\ Len(s) \in Nat /\ Len(t) = Len(s) + 1 /\ t \in Seq(S \cup {x})
          /\ t[Len(s) + 1] = x /\ \A i \in 1 .. Len(s) : t[i] = s[i]
  BY Solver, <1>1, AddedSeq
<1> QED
  BY <1>2

\* A sequence without elements is the empty one.
LEMMA NothingLeft == ASSUME NEW s, (\E S : s \in Seq(S)), Len(s) = 0 PROVE s = <<>>
BY Solver

(***************************************************************************)
(* Views and revisions.                                                    *)
(***************************************************************************)

\* The parts of a world.
LEMMA WorldFields ==
  ASSUME NEW d PROVE World(d).acc = Acc(d) /\ World(d).al = d.al
                     /\ World(d).refund = d.refund /\ World(d).logs = d.logs
BY DEF World, Acc

\* What programs can tell is part of the view.
LEMMA WorldIsView == ASSUME NEW d PROVE World(d) = Worldly(View(d))
BY DEF World, Worldly, View, Acc

\* A database with the same objects and counters shows the same.
LEMMA StateSame ==
  ASSUME NEW d, Core(d), NEW e, Shaped(e), SameState(d, e)
  PROVE  /\ Core(e) /\ View(e) = View(d) /\ Known(e) = Known(d)
         /\ Acc(e) = Acc(d) /\ Origs(e) = Origs(d)
<1>1. Core(e)
  BY DEF Core, ObjsOK, CountsOK, SameState, SameCounts
<1>2. Acc(e) = Acc(d) /\ Origs(e) = Origs(d) /\ Known(e) = Known(d)
  BY DEF SameState, Acc, Origs, Known, getDeletedStateObject
<1>3. View(e) = View(d)
  BY <1>2 DEF View, SameState, SameCounts
<1> QED
  BY <1>1, <1>2, <1>3

\* Snapshot records the length of the journal and changes nothing else.
LEMMA SnapshotTaken ==
  ASSUME NEW d, Core(d)
  PROVE  LET e == Snapshot(d)
         IN  /\ Core(e) /\ SameState(d, e) /\ e.journal = d.journal /\ e.nextRev = d.nextRev + 1
             /\ View(e) = View(d) /\ Known(e) = Known(d) /\ Acc(e) = Acc(d) /\ Origs(e) = Origs(d)
             /\ e.revs = Append(d.revs, [id |-> d.nextRev, index |-> Len(d.journal)])
             /\ e.past = Append(d.past, World(d))
<1> DEFINE e == Snapshot(d)
<1>1. /\ Shaped(e) /\ SameState(d, e) /\ e.journal = d.journal /\ e.nextRev = d.nextRev + 1
      /\ e.revs = Append(d.revs, [id |-> d.nextRev, index |-> Len(d.journal)])
      /\ e.past = Append(d.past, World(d))
  BY DEF Core, Shaped, SameState, SameCounts, Snapshot
<1> HIDE DEF e
<1>2. /\ Core(e) /\ View(e) = View(d) /\ Known(e) = Known(d) /\ Acc(e) = Acc(d) /\ Origs(e) = Origs(d)
  BY <1>1, StateSame
<1> QED
  BY <1>1, <1>2 DEF e

\* Dropping revisions changes nothing else.
LEMMA RevisionsDropped ==
  ASSUME NEW d, Core(d), NEW i
  PROVE  LET e == dropRevisions(d, i)
         IN  /\ Core(e) /\ SameState(d, e) /\ e.journal = d.journal /\ e.nextRev = d.nextRev
             /\ View(e) = View(d) /\ Known(e) = Known(d) /\ Acc(e) = Acc(d) /\ Origs(e) = Origs(d)
             /\ e.revs = SubSeq(d.revs, 1, i - 1) /\ e.past = SubSeq(d.past, 1, i - 1)
<1> DEFINE e == dropRevisions(d, i)
<1>1. /\ Shaped(e) /\ SameState(d, e) /\ e.journal = d.journal /\ e.nextRev = d.nextRev
      /\ e.revs = SubSeq(d.revs, 1, i - 1) /\ e.past = SubSeq(d.past, 1, i - 1)
  BY DEF Core, Shaped, SameState, SameCounts, dropRevisions
<1> HIDE DEF e
<1>2. /\ Core(e) /\ View(e) = View(d) /\ Known(e) = Known(d) /\ Acc(e) = Acc(d) /\ Origs(e) = Origs(d)
  BY <1>1, StateSame
<1> QED
  BY <1>1, <1>2 DEF e

\* A journal with a history is a sequence.
LEMMA JournalLen ==
  ASSUME NEW d, NEW h, NEW known, History(d, h, known) PROVE Len(d.journal) \in Nat
BY Solver DEF History

\* A turn of journal.revert leads one view back in the history.
LEMMA UndoneLast ==
  ASSUME NEW d, Core(d), NEW h, NEW known, History(d, h, known), Len(d.journal) > 0
  PROVE  LET e == undoLast(d)
         IN  /\ Core(e) /\ SameRest(d, e) /\ History(e, h, known)
             /\ e.journal = SubSeq(d.journal, 1, Len(d.journal) - 1)
             /\ Len(e.journal) = Len(d.journal) - 1
<1> DEFINE n == Len(d.journal)
           ent == d.journal[n]
           u == undone(d, ent)
           e == undoLast(d)
<1>1. PICK S : d.journal \in Seq(S)
  BY DEF History
<1>2. n \in Nat /\ n \in 1 .. n /\ n - 1 \in Nat
  BY Solver, <1>1
<1>3. /\ View(d) = h[n] /\ known[n] \subseteq Known(d)
      /\ Undoes(d.trie, d.pending, ent, h[n], known[n], h[n - 1], known[n - 1])
  BY <1>2 DEF History
<1>4. /\ Core(u) /\ View(u) = h[n - 1] /\ known[n - 1] \subseteq Known(u)
      /\ SameRest(d, u) /\ u.journal = d.journal
  BY <1>3 DEF Undoes
<1>5. e = [u EXCEPT !.journal = SubSeq(d.journal, 1, n - 1)]
  <2> DEFINE r == restore(d, ent)
             f == counted(r.dirties, ent.dirtied, -1)
  <2>1. u = [r EXCEPT !.dirties = f]
    BY DEF undone
  <2>2. "journal" \in DOMAIN u /\ "dirties" \in DOMAIN u
    BY <1>4 DEF Core, Shaped
  <2>3. e = [r EXCEPT !.journal = SubSeq(r.journal, 1, n - 1), !.dirties = f]
    BY DEF undoLast
  <2> HIDE DEF r, f, u, e
  <2>4. r.journal = d.journal
    BY <1>4, <2>1, <2>2
  <2> QED
    BY <2>1, <2>2, <2>3, <2>4
<1> HIDE DEF u, e, ent
<1>6. /\ Shaped(e) /\ SameState(u, e) /\ SameRest(u, e) /\ e.journal = SubSeq(d.journal, 1, n - 1)
  BY <1>4, <1>5 DEF Core, Shaped, SameState, SameRest, SameCounts
<1>7. Core(e) /\ View(e) = h[n - 1] /\ known[n - 1] \subseteq Known(e)
  BY <1>4, <1>6, StateSame
<1>8. SameRest(d, e)
  BY <1>4, <1>6 DEF SameRest
<1>9. /\ e.journal \in Seq(S) /\ Len(e.journal) = n - 1
      /\ \A k \in 1 .. n - 1 : e.journal[k] = d.journal[k] /\ k \in 1 .. n
  <2>1. PICK m \in Nat : m = n
    BY <1>2
  <2>2. SubSeq(d.journal, 1, m - 1) \in Seq(S) /\ Len(SubSeq(d.journal, 1, m - 1)) = m - 1
    BY Solver, <1>1, <1>2, <2>1
  <2>3. \A k \in 1 .. m - 1 : SubSeq(d.journal, 1, m - 1)[k] = d.journal[k] /\ k \in 1 .. m
    BY Solver, <1>1, <1>2, <2>1
  <2> QED
    BY <1>6, <2>1, <2>2, <2>3
<1>10. History(e, h, known)
  BY <1>7, <1>8, <1>9 DEF History, SameRest
<1> QED
  BY <1>6, <1>7, <1>8, <1>9, <1>10 DEF e

(***************************************************************************)
(* The journal and the snapshots.                                          *)
(***************************************************************************)

\* Operations add to the history and leave the snapshots where they are.
LEMMA LinkedKeeps ==
  ASSUME NEW d, NEW e, NEW n \in Nat, Linked(d, n), Keeps(d, e) PROVE Linked(e, n)
<1>1. Reaches(d, e)
  BY DEF Keeps
<1>2. PICK h, known : History(d, h, known) /\ Remembers(d, n, h)
  BY DEF Linked
<1>3. /\ Len(d.journal) <= Len(e.journal) /\ Len(d.journal) \in Nat
      /\ \E g, l : History(e, g, l) /\ \A k \in 0 .. Len(d.journal) : g[k] = h[k]
  BY <1>1, <1>2, JournalLen DEF Reaches
<1>4. PICK g, l : History(e, g, l) /\ \A k \in 0 .. Len(d.journal) : g[k] = h[k]
  BY <1>3
<1>5. Len(e.journal) \in Nat
  BY <1>4, JournalLen
<1>6. e.revs = d.revs /\ e.past = d.past /\ e.trie = d.trie /\ e.pending = d.pending
  BY <1>1 DEF Reaches, SameRest
<1>7. Remembers(e, n, g)
  <2>1. g[0].refund = 0
    BY Solver, <1>2, <1>3, <1>4 DEF Remembers
  <2>2. ASSUME NEW i \in 1 .. n
        PROVE  /\ e.revs[i].index \in 0 .. Len(e.journal) /\ e.past[i] = Worldly(g[e.revs[i].index])
               /\ Sound(g[e.revs[i].index], e.trie, e.pending)
    <3>1. d.revs[i].index \in 0 .. Len(d.journal) /\ g[d.revs[i].index] = h[d.revs[i].index]
      BY <1>2, <1>4 DEF Remembers
    <3>2. e.revs[i].index \in 0 .. Len(e.journal)
      BY Solver, <1>3, <1>5, <1>6, <3>1
    <3> QED
      BY <1>2, <1>6, <3>1, <3>2 DEF Remembers
  <2>3. \A i, j \in 1 .. n : i < j => e.revs[i].index <= e.revs[j].index
    BY <1>2, <1>6 DEF Remembers
  <2> QED
    BY <2>1, <2>2, <2>3 DEF Remembers
<1> QED
  BY <1>4, <1>7 DEF Linked

\* A snapshot remembers the view of now.
LEMMA LinkedShot ==
  ASSUME NEW d, Core(d), SoundNow(d), PastOK(d), Linked(d, Len(d.revs))
  PROVE  LET e == Snapshot(d)
         IN  /\ PastOK(e) /\ Len(e.revs) = Len(d.revs) + 1 /\ Linked(e, Len(e.revs))
             /\ \A i \in 1 .. Len(d.revs) : e.revs[i] = d.revs[i] /\ e.past[i] = d.past[i]
             /\ e.revs[Len(e.revs)].id = d.nextRev /\ e.past[Len(e.revs)] = World(d)
<1> DEFINE e == Snapshot(d)
           r == [id |-> d.nextRev, index |-> Len(d.journal)]
           n == Len(d.revs)
<1>1. /\ e.revs = Append(d.revs, r) /\ e.past = Append(d.past, World(d)) /\ e.journal = d.journal
      /\ View(e) = View(d) /\ Known(e) = Known(d) /\ e.trie = d.trie /\ e.pending = d.pending
  BY SnapshotTaken DEF SameState
<1>2. r.id = d.nextRev /\ r.index = Len(d.journal)
  OBVIOUS
<1> HIDE DEF e, r
<1>3. /\ n \in Nat /\ Len(e.revs) = n + 1 /\ Len(e.past) = n + 1
      /\ (\E S : e.past \in Seq(S)) /\ (\E S : e.revs \in Seq(S))
      /\ \A i \in 1 .. n : e.revs[i] = d.revs[i] /\ e.past[i] = d.past[i]
      /\ e.revs[n + 1] = r /\ e.past[n + 1] = World(d)
  <2>1. PICK p, q, w : p = d.past /\ q = d.revs /\ w = World(d)
    OBVIOUS
  <2>2. PICK S, T : p \in Seq(S) /\ q \in Seq(T) /\ Len(p) = Len(q)
    BY <2>1 DEF PastOK
  <2>3. LET t == Append(p, w)
        IN  /\ Len(p) \in Nat /\ Len(t) = Len(p) + 1 /\ t \in Seq(S \cup {w})
            /\ t[Len(p) + 1] = w /\ \A i \in 1 .. Len(p) : t[i] = p[i]
    BY Solver, <2>2, AddedSeq
  <2>4. LET t == Append(q, r)
        IN  /\ Len(q) \in Nat /\ Len(t) = Len(q) + 1 /\ t \in Seq(T \cup {r})
            /\ t[Len(q) + 1] = r /\ \A i \in 1 .. Len(q) : t[i] = q[i]
    BY Solver, <2>2, AddedSeq
  <2> QED
    BY <1>1, <2>1, <2>2, <2>3, <2>4
<1>4. PICK h, known : History(d, h, known) /\ Remembers(d, n, h)
  BY DEF Linked
<1>5. History(e, h, known)
  BY <1>1, <1>4 DEF History
<1>6. Len(d.journal) \in Nat /\ h[Len(d.journal)] = View(d)
  BY <1>4, JournalLen DEF History
<1>7. Remembers(e, n + 1, h)
  <2>1. ASSUME NEW i \in 1 .. n + 1
        PROVE  /\ e.revs[i].index \in 0 .. Len(e.journal) /\ e.past[i] = Worldly(h[e.revs[i].index])
               /\ Sound(h[e.revs[i].index], e.trie, e.pending)
    <3>1. CASE i = n + 1
      <4>1. e.revs[i].index = Len(d.journal) /\ e.past[i] = Worldly(View(d))
        BY <1>3, <1>2, <3>1, WorldIsView
      <4>2. Len(d.journal) \in 0 .. Len(d.journal)
        BY Solver, <1>6
      <4> QED
        BY <1>1, <1>6, <4>1, <4>2 DEF SoundNow
    <3>2. CASE i \in 1 .. n
      BY <1>1, <1>3, <1>4, <3>2 DEF Remembers
    <3>3. i = n + 1 \/ i \in 1 .. n
      BY Solver, <1>3
    <3> QED
      BY <3>1, <3>2, <3>3
  <2>2. ASSUME NEW i \in 1 .. n + 1, NEW j \in 1 .. n + 1, i < j
        PROVE  e.revs[i].index <= e.revs[j].index
    <3>1. CASE j = n + 1
      <4>1. e.revs[j].index = Len(e.journal)
        BY <1>1, <1>3, <1>2, <3>1
      <4>2. e.revs[i].index \in 0 .. Len(e.journal)
        BY <2>1
      <4> QED
        BY Solver, <1>1, <1>6, <4>1, <4>2
    <3>2. CASE j \in 1 .. n
      <4>1. i \in 1 .. n
        BY Solver, <1>3, <2>2, <3>2
      <4> QED
        BY <1>3, <1>4, <2>2, <3>2, <4>1 DEF Remembers
    <3> QED
      BY Solver, <1>3, <3>1, <3>2
  <2> QED
    BY <1>4, <2>1, <2>2 DEF Remembers
<1>8. PastOK(e) /\ Linked(e, Len(e.revs))
  BY <1>3, <1>5, <1>7 DEF PastOK, Linked
<1> QED
  BY <1>3, <1>8, <1>2 DEF e

\* An entry above the snapshot is undone.
LEMMA LinkedUndo ==
  ASSUME NEW d, Core(d), PastOK(d), NEW n \in 1 .. Len(d.revs), Linked(d, n),
         Len(d.journal) > d.revs[n].index
  PROVE  LET e == undoLast(d)
         IN  Core(e) /\ SameRest(d, e) /\ Linked(e, n)
<1> DEFINE e == undoLast(d)
<1>1. PICK h, known : History(d, h, known) /\ Remembers(d, n, h)
  BY DEF Linked
<1>2. n \in Nat /\ n \in 1 .. n
  BY Solver DEF PastOK
<1>3. Len(d.journal) \in Nat /\ d.revs[n].index \in Nat
  BY Solver, <1>1, <1>2, JournalLen DEF Remembers
<1>4. Len(d.journal) > 0
  BY Solver, <1>3
<1>5. Core(e) /\ SameRest(d, e) /\ History(e, h, known) /\ Len(e.journal) = Len(d.journal) - 1
  BY <1>1, <1>4, UndoneLast
<1> HIDE DEF e
<1>6. Remembers(e, n, h)
  <2>1. ASSUME NEW i \in 1 .. n PROVE d.revs[i].index \in 0 .. Len(e.journal)
    <3>1. d.revs[i].index \in Nat /\ d.revs[i].index <= d.revs[n].index
      BY Solver, <1>1, <1>2, <1>3 DEF Remembers
    <3> QED
      BY Solver, <1>3, <1>5, <3>1
  <2> QED
    BY <1>1, <1>5, <2>1 DEF Remembers, SameRest
<1> QED
  BY <1>5, <1>6 DEF Linked, e

\* All of them are: the view is the one the snapshot remembers.
LEMMA LinkedBack ==
  ASSUME NEW d, Core(d), PastOK(d), NEW n \in 1 .. Len(d.revs), Linked(d, n),
         Len(d.journal) <= d.revs[n].index
  PROVE  LET e == dropRevisions(d, n)
         IN  /\ Core(e) /\ SoundNow(e) /\ PastOK(e) /\ Len(e.revs) = n - 1 /\ Linked(e, Len(e.revs))
             /\ World(e) = d.past[n] /\ Len(e.journal) = d.revs[n].index
             /\ \A i \in 1 .. n - 1 : e.revs[i] = d.revs[i] /\ e.past[i] = d.past[i]
             /\ n = 1 => e.revs = <<>> /\ e.past = <<>>
             /\ d.revs[n].index = 0 => e.journal = <<>> /\ e.refund = 0
<1> DEFINE e == dropRevisions(d, n)
<1>1. /\ Core(e) /\ View(e) = View(d) /\ Known(e) = Known(d) /\ e.journal = d.journal
      /\ e.trie = d.trie /\ e.pending = d.pending
      /\ e.revs = SubSeq(d.revs, 1, n - 1) /\ e.past = SubSeq(d.past, 1, n - 1)
  BY RevisionsDropped DEF SameState
<1> HIDE DEF e
<1>2. PICK h, known : History(d, h, known) /\ Remembers(d, n, h)
  BY DEF Linked
<1>3. n \in Nat /\ n \in 1 .. n /\ n - 1 \in Nat
  BY Solver DEF PastOK
<1>4. Len(d.journal) \in Nat /\ d.revs[n].index = Len(d.journal)
  BY Solver, <1>2, <1>3, JournalLen DEF Remembers
<1>5. h[Len(d.journal)] = View(d)
  BY <1>2 DEF History
<1>6. World(e) = d.past[n] /\ SoundNow(e)
  <2>1. World(e) = Worldly(View(d))
    BY <1>1, WorldIsView
  <2> QED
    BY <1>1, <1>2, <1>3, <1>4, <1>5, <2>1 DEF Remembers, SoundNow
<1>7. /\ Len(e.revs) = n - 1 /\ Len(e.past) = n - 1
      /\ (\E S : e.past \in Seq(S)) /\ (\E S : e.revs \in Seq(S))
      /\ \A i \in 1 .. n - 1 : e.revs[i] = d.revs[i] /\ e.past[i] = d.past[i]
      /\ n = 1 => e.revs = <<>> /\ e.past = <<>>
  <2>1. PICK p, r : p = d.past /\ r = d.revs
    OBVIOUS
  <2>2. (\E S : p \in Seq(S)) /\ (\E S : r \in Seq(S)) /\ n \in 1 .. Len(p) /\ n \in 1 .. Len(r)
    BY <2>1 DEF PastOK
  <2>3. LET t == SubSeq(p, 1, n - 1)
        IN  /\ Len(t) = n - 1 /\ (\E S : t \in Seq(S)) /\ (n = 1 => t = <<>>)
            /\ \A i \in 1 .. n - 1 : t[i] = p[i]
    BY <2>2, Shortened
  <2>4. LET t == SubSeq(r, 1, n - 1)
        IN  /\ Len(t) = n - 1 /\ (\E S : t \in Seq(S)) /\ (n = 1 => t = <<>>)
            /\ \A i \in 1 .. n - 1 : t[i] = r[i]
    BY <2>2, Shortened
  <2> QED
    BY <1>1, <2>1, <2>3, <2>4
<1>8. History(e, h, known)
  BY <1>1, <1>2 DEF History
<1>9. Remembers(e, n - 1, h)
  <2>1. \A i \in 1 .. n - 1 : i \in 1 .. n
    BY Solver, <1>3
  <2> QED
    BY <1>1, <1>2, <1>7, <2>1 DEF Remembers
<1>10. PastOK(e) /\ Linked(e, Len(e.revs))
  BY <1>7, <1>8, <1>9 DEF PastOK, Linked
<1>11. ASSUME d.revs[n].index = 0 PROVE e.journal = <<>> /\ e.refund = 0
  <2>1. e.journal = <<>>
    <3>1. (\E S : d.journal \in Seq(S))
      BY <1>2 DEF History
    <3> QED
      BY <1>1, <1>4, <1>11, <3>1, NothingLeft
  <2>2. View(e).refund = 0
    BY <1>1, <1>2, <1>4, <1>5, <1>11 DEF Remembers
  <2> QED
    BY <2>1, <2>2 DEF View
<1> QED
  BY <1>1, <1>4, <1>6, <1>7, <1>10, <1>11 DEF e

\* With an empty journal nothing is left of the refund.
LEMMA NothingEarned ==
  ASSUME NEW d, NEW n, Linked(d, n), d.journal = <<>> PROVE d.refund = 0
<1>1. PICK h, known : History(d, h, known) /\ Remembers(d, n, h)
  BY DEF Linked
<1>2. Len(d.journal) = 0
  <2>1. Len(<<>>) = 0
    OBVIOUS
  <2> QED
    BY <2>1
<1>3. h[0] = View(d) /\ h[0].refund = 0
  BY <1>1, <1>2 DEF History, Remembers
<1> QED
  BY Solver, <1>3 DEF View

(***************************************************************************)
(* Revisions and the calls that took them.                                 *)
(***************************************************************************)

\* The revisions are ordered, and below the next one.
Revs(d) ==
  /\ Len(d.revs) \in Nat /\ d.nextRev \in Nat
  /\ \A i \in 1 .. Len(d.revs) : d.revs[i].id \in Nat /\ d.revs[i].id < d.nextRev
  /\ \A i, j \in 1 .. Len(d.revs) : i < j => d.revs[i].id < d.revs[j].id

\* The revision of a snapshot is there.
Held(d, snap) == \E i \in 1 .. Len(d.revs) : d.revs[i].id = snap

Snaps(d, fs) ==
  /\ \A i \in 1 .. Len(fs) : fs[i].snap \in Nat /\ Held(d, fs[i].snap)
  /\ \A i, j \in 1 .. Len(fs) : i < j => fs[i].snap < fs[j].snap

Good(d, fs) == Revs(d) /\ Snaps(d, fs)

Frame ==
  [self: Addr, snap: Nat, ro: BOOLEAN, impl: Blob \cup {None},
   code: {"bought", "applied", "paid", "contract", "create", "tewaka", "halted"}]

\* The transaction is at the bottom, the handlers call nobody, and what is
\* called by a static call is static.
Framed(fs) ==
  /\ fs \in Seq(Frame)
  /\ \A i \in 1 .. Len(fs) :
       /\ i = 1 <=> fs[i].code \in {"bought", "applied", "paid"}
       /\ fs[i].impl # None => i = Len(fs) /\ fs[i].code = "tewaka"
       /\ fs[i].ro => fs[i].code # "create" /\ i # 1
  /\ \A i, j \in 1 .. Len(fs) : i < j /\ fs[i].ro => fs[j].ro

\* The world of a call: its account is there and warm, and a static call has
\* written nothing.
Within(f, was, w) ==
  w.al.idx[f.self] # None /\ w.acc[f.self] # None /\ (f.ro => Spares(was.acc, w.acc))

\* Calls whose snapshot is among the first n are fine in the world w.
Inside(d, fs, n, w) ==
  \A i \in 2 .. Len(fs), k \in 1 .. n : d.revs[k].id = fs[i].snap => Within(fs[i], d.past[k], w)

Insides(d, fs) == \A j \in 1 .. Len(d.revs) : Inside(d, fs, j - 1, d.past[j])

\* The transaction's snapshot comes first, of an empty journal.
Bottom(d, fs) ==
  fs # <<>> => Len(d.revs) >= 1 /\ d.revs[1].id = fs[1].snap /\ d.revs[1].index = 0

Base(d, fs, n) ==
  Core(d) /\ PastOK(d) /\ Linked(d, n) /\ Framed(fs) /\ Bottom(d, fs) /\ Insides(d, fs)

Live(d, fs) ==
  Base(d, fs, Len(d.revs)) /\ SoundNow(d) /\ Inside(d, fs, Len(d.revs), World(d))

SameRun(fs, gs) ==
  /\ Len(gs) = Len(fs)
  /\ \A i \in 1 .. Len(fs) : gs[i].self = fs[i].self /\ gs[i].ro = fs[i].ro /\ gs[i].snap = fs[i].snap

\* The number of open calls.
LEMMA FramesLen == ASSUME NEW fs, Framed(fs) PROVE Len(fs) \in Nat /\ (fs # <<>> => Len(fs) > 0)
BY Solver DEF Framed

\* The number of revisions, which is that of the saved worlds.
LEMMA RevsLen == ASSUME NEW d, PastOK(d) PROVE Len(d.revs) \in Nat /\ Len(d.past) = Len(d.revs)
BY Solver DEF PastOK

\* Calls stay as they are, and the world moves on.
LEMMA LiveWork ==
  ASSUME NEW d, NEW e, NEW fs, NEW gs, Live(d, fs), Keeps(d, e), Framed(gs), SameRun(fs, gs),
         fs # <<>>, fs[Len(fs)].ro => Spares(Acc(d), Acc(e))
  PROVE  Live(e, gs)
<1>1. e.revs = d.revs /\ e.past = d.past /\ Core(e)
  BY DEF Keeps, Reaches, SameRest
<1>2. PastOK(e)
  BY <1>1 DEF Live, Base, PastOK
<1>3. Len(d.revs) \in Nat
  BY RevsLen DEF Live, Base
<1>4. Linked(e, Len(e.revs)) /\ SoundNow(e)
  BY <1>1, <1>3, LinkedKeeps DEF Live, Base, Keeps
<1>5. Len(fs) \in Nat /\ Len(fs) > 0 /\ Framed(fs)
  BY FramesLen DEF Live, Base
<1>6. Bottom(e, gs)
  BY Solver, <1>1, <1>5 DEF Live, Base, Bottom, SameRun
<1>7. ASSUME NEW n, NEW w, Inside(d, fs, n, w) PROVE Inside(e, gs, n, w)
  BY Solver, <1>1, <1>5, <1>7 DEF Inside, Within, SameRun
<1>8. Insides(e, gs)
  BY <1>1, <1>7 DEF Live, Base, Insides
<1>9. ASSUME NEW i \in 2 .. Len(fs), NEW k \in 1 .. Len(d.revs), d.revs[k].id = fs[i].snap
      PROVE  Within(fs[i], d.past[k], World(e))
  <2>1. Within(fs[i], d.past[k], World(d))
    BY <1>9 DEF Live, Inside
  <2>2. fs[i].self \in Addr
    <3>1. fs[i] \in Frame
      BY Solver, <1>5 DEF Framed
    <3> QED
      BY <3>1 DEF Frame
  <2>3. fs[i].ro => fs[Len(fs)].ro
    BY Solver, <1>5 DEF Framed
  <2>4. World(e).al.idx[fs[i].self] # None /\ World(e).acc[fs[i].self] # None
    BY <2>1, <2>2, WorldFields DEF Within, Keeps
  <2>5. fs[i].ro => Spares(d.past[k].acc, World(e).acc)
    <3>1. fs[i].ro => Spares(d.past[k].acc, Acc(d)) /\ Spares(Acc(d), Acc(e))
      BY <2>1, <2>3, WorldFields DEF Within
    <3> QED
      BY <3>1, WorldFields DEF Spares
  <2> QED
    BY <2>4, <2>5 DEF Within
<1>10. Inside(d, fs, Len(d.revs), World(e))
  BY <1>9 DEF Inside
<1>11. Inside(e, gs, Len(e.revs), World(e))
  BY <1>1, <1>7, <1>10
<1> QED
  BY <1>1, <1>2, <1>4, <1>6, <1>8, <1>11 DEF Live, Base

\* A snapshot is taken.
LEMMA LiveShot ==
  ASSUME NEW d, NEW fs, Live(d, fs), \A i \in 1 .. Len(fs) : fs[i].snap # d.nextRev
  PROVE  LET e == Snapshot(d)
         IN  /\ Live(e, fs) /\ Acc(e) = Acc(d) /\ e.al = d.al
             /\ Len(e.revs) = Len(d.revs) + 1
             /\ \A i \in 1 .. Len(d.revs) : e.revs[i] = d.revs[i] /\ e.past[i] = d.past[i]
             /\ e.revs[Len(e.revs)].id = d.nextRev /\ e.past[Len(e.revs)] = World(d)
<1> DEFINE e == Snapshot(d)
           n == Len(d.revs)
<1>1. Core(d) /\ PastOK(d) /\ SoundNow(d) /\ Linked(d, n) /\ n \in Nat
  BY RevsLen DEF Live, Base
<1>2. /\ PastOK(e) /\ Len(e.revs) = n + 1 /\ Linked(e, Len(e.revs))
      /\ \A i \in 1 .. n : e.revs[i] = d.revs[i] /\ e.past[i] = d.past[i]
      /\ e.revs[n + 1].id = d.nextRev /\ e.past[n + 1] = World(d)
  BY <1>1, LinkedShot
<1>3. Core(e) /\ SoundNow(e) /\ Acc(e) = Acc(d) /\ e.al = d.al /\ World(e) = World(d)
  BY <1>1, SnapshotTaken, WorldIsView DEF SameState, SameCounts, SoundNow
<1> HIDE DEF e
<1>4. Bottom(e, fs)
  BY Solver, <1>1, <1>2 DEF Live, Base, Bottom
<1>5. ASSUME NEW m \in 0 .. n, NEW w, Inside(d, fs, m, w) PROVE Inside(e, fs, m, w)
  <2>1. \A k \in 1 .. m : k \in 1 .. n
    BY Solver, <1>1
  <2> QED
    BY <1>2, <1>5, <2>1 DEF Inside
<1>6. Inside(e, fs, n, World(d))
  BY Solver, <1>1, <1>5 DEF Live
<1>7. ASSUME NEW j \in 1 .. Len(e.revs) PROVE Inside(e, fs, j - 1, e.past[j])
  <2>1. CASE j = n + 1
    BY Solver, <1>1, <1>2, <1>6, <2>1
  <2>2. CASE j \in 1 .. n
    <3>1. Inside(d, fs, j - 1, d.past[j]) /\ j - 1 \in 0 .. n
      BY Solver, <1>1, <2>2 DEF Live, Base, Insides
    <3> QED
      BY <1>2, <1>5, <2>2, <3>1
  <2> QED
    BY Solver, <1>1, <1>2, <2>1, <2>2
<1>8. Len(fs) \in Nat
  BY FramesLen DEF Live, Base
<1>9. Inside(e, fs, n + 1, World(e))
  BY Solver, <1>1, <1>2, <1>3, <1>6, <1>8 DEF Inside
<1>10. Live(e, fs)
  BY <1>2, <1>3, <1>4, <1>7, <1>9 DEF Live, Base, Insides
<1> QED
  BY <1>2, <1>3, <1>10 DEF e

\* A call is opened with the last snapshot.
LEMMA LivePush ==
  ASSUME NEW d, NEW fs, Live(d, fs), fs # <<>>, NEW f, Framed(Append(fs, f)), Len(d.revs) > 0,
         d.revs[Len(d.revs)].id = f.snap, Within(f, d.past[Len(d.revs)], World(d)),
         \A k \in 1 .. Len(d.revs) : d.revs[k].id = f.snap => k = Len(d.revs)
  PROVE  Live(d, Append(fs, f))
<1> DEFINE gs == Append(fs, f)
           n == Len(d.revs)
<1>1. n \in Nat /\ Framed(fs) /\ Len(fs) \in Nat /\ Len(fs) > 0
  BY RevsLen, FramesLen DEF Live, Base
<1>2. /\ Len(gs) = Len(fs) + 1 /\ gs[Len(fs) + 1] = f
      /\ \A i \in 1 .. Len(fs) : gs[i] = fs[i]
  BY Solver, <1>1 DEF Framed
<1> HIDE DEF gs
<1>3. Bottom(d, gs)
  <2>1. gs[1] = fs[1]
    BY Solver, <1>1, <1>2
  <2> QED
    BY <2>1 DEF Live, Base, Bottom
<1>4. ASSUME NEW j \in 1 .. n PROVE Inside(d, gs, j - 1, d.past[j])
  <2>1. Inside(d, fs, j - 1, d.past[j])
    BY DEF Live, Base, Insides
  <2>2. ASSUME NEW i \in 2 .. Len(gs), NEW k \in 1 .. j - 1, d.revs[k].id = gs[i].snap
        PROVE  Within(gs[i], d.past[k], d.past[j])
    <3>1. CASE i = Len(fs) + 1
      <4>1. k \in 1 .. n /\ k # n
        BY Solver, <1>1
      <4> QED
        BY <1>2, <2>2, <3>1, <4>1
    <3>2. CASE i \in 2 .. Len(fs)
      BY Solver, <1>1, <1>2, <2>1, <2>2, <3>2 DEF Inside
    <3> QED
      BY Solver, <1>1, <1>2, <3>1, <3>2
  <2> QED
    BY <2>2 DEF Inside
<1>5. ASSUME NEW i \in 2 .. Len(gs), NEW k \in 1 .. n, d.revs[k].id = gs[i].snap
      PROVE  Within(gs[i], d.past[k], World(d))
  <2>1. CASE i = Len(fs) + 1
    BY <1>2, <1>5, <2>1
  <2>2. CASE i \in 2 .. Len(fs)
    BY Solver, <1>1, <1>2, <1>5, <2>2 DEF Live, Inside
  <2> QED
    BY Solver, <1>1, <1>2, <2>1, <2>2
<1>6. Framed(gs)
  BY DEF gs
<1>7. Live(d, gs)
  BY <1>3, <1>4, <1>5, <1>6 DEF Live, Base, Insides, Inside
<1> QED
  BY <1>7 DEF gs

\* Returning from a call, and opening one.
LEMMA FramedPop ==
  ASSUME NEW fs, Framed(fs), fs # <<>>
  PROVE  LET gs == SubSeq(fs, 1, Len(fs) - 1)
         IN  /\ Framed(gs) /\ Len(gs) = Len(fs) - 1 /\ \A i \in 1 .. Len(fs) - 1 : gs[i] = fs[i]
             /\ \A i \in 1 .. Len(gs) : gs[i].impl = None
<1> DEFINE gs == SubSeq(fs, 1, Len(fs) - 1)
<1>1. fs \in Seq(Frame) /\ Len(fs) \in Nat /\ Len(fs) > 0
  BY FramesLen DEF Framed
<1>2. gs \in Seq(Frame) /\ Len(gs) = Len(fs) - 1 /\ \A i \in 1 .. Len(fs) - 1 : gs[i] = fs[i]
  <2>1. PICK n : n = Len(fs)
    OBVIOUS
  <2>2. n \in 1 .. Len(fs)
    BY Solver, <1>1, <2>1
  <2> QED
    BY <1>1, <2>1, <2>2, CutSeq
<1>3. \A i \in 1 .. Len(fs) - 1 : gs[i] = fs[i] /\ i \in 1 .. Len(fs) /\ i # Len(fs)
  BY Solver, <1>1, <1>2
<1> HIDE DEF gs
<1>4. \A i \in 1 .. Len(gs) : gs[i].impl = None
  BY Solver, <1>1, <1>2, <1>3 DEF Framed
<1>5. \A i \in 1 .. Len(gs) : /\ i = 1 <=> gs[i].code \in {"bought", "applied", "paid"}
                              /\ gs[i].ro => gs[i].code # "create" /\ i # 1
  BY Solver, <1>1, <1>2, <1>3 DEF Framed
<1>6. \A i, j \in 1 .. Len(gs) : i < j /\ gs[i].ro => gs[j].ro
  BY <1>1, <1>2, <1>3 DEF Framed
<1>7. Framed(gs)
  BY <1>2, <1>4, <1>5, <1>6 DEF Framed
<1> QED
  BY <1>2, <1>3, <1>4, <1>7 DEF gs

\* A call succeeds.
LEMMA LivePop ==
  ASSUME NEW d, NEW fs, Live(d, fs), Len(fs) > 1
  PROVE  Live(d, SubSeq(fs, 1, Len(fs) - 1))
<1> DEFINE gs == SubSeq(fs, 1, Len(fs) - 1)
<1>1. Framed(fs) /\ Len(fs) \in Nat /\ fs # <<>>
  BY Solver, FramesLen DEF Live, Base
<1>2. Framed(gs) /\ Len(gs) = Len(fs) - 1 /\ \A i \in 1 .. Len(fs) - 1 : gs[i] = fs[i]
  BY <1>1, FramedPop
<1> HIDE DEF gs
<1>3. ASSUME NEW n, NEW w, Inside(d, fs, n, w) PROVE Inside(d, gs, n, w)
  <2>1. \A i \in 2 .. Len(gs) : i \in 2 .. Len(fs) /\ gs[i] = fs[i]
    BY Solver, <1>1, <1>2
  <2> QED
    BY <1>3, <2>1 DEF Inside
<1>4. Insides(d, gs) /\ Inside(d, gs, Len(d.revs), World(d))
  BY <1>3 DEF Live, Base, Insides
<1>5. Bottom(d, gs)
  <2>1. gs[1] = fs[1]
    BY Solver, <1>1, <1>2
  <2> QED
    BY <1>1, <2>1 DEF Live, Base, Bottom
<1>6. Live(d, gs)
  BY <1>2, <1>4, <1>5 DEF Live, Base
<1> QED
  BY <1>6 DEF gs

\* A call fails: the snapshots up to its own are enough to go back.
LEMMA BaseFail ==
  ASSUME NEW d, NEW fs, Live(d, fs), NEW n \in 1 .. Len(d.revs) PROVE Base(d, fs, n)
<1>1. Len(d.revs) \in Nat
  BY RevsLen DEF Live, Base
<1>2. PICK h, known : History(d, h, known) /\ Remembers(d, Len(d.revs), h)
  BY DEF Live, Base, Linked
<1>3. Remembers(d, n, h)
  <2>1. \A i \in 1 .. n : i \in 1 .. Len(d.revs)
    BY Solver, <1>1
  <2> QED
    BY <1>2, <2>1 DEF Remembers
<1> QED
  BY <1>2, <1>3 DEF Live, Base, Linked

\* Undoing one entry above a snapshot.
LEMMA BaseUndo ==
  ASSUME NEW d, NEW fs, NEW n \in 1 .. Len(d.revs), Base(d, fs, n), Len(d.journal) > d.revs[n].index
  PROVE  LET e == undoLast(d) IN Base(e, fs, n) /\ SameRest(d, e)
<1> DEFINE e == undoLast(d)
<1>1. Core(e) /\ SameRest(d, e) /\ Linked(e, n)
  BY LinkedUndo DEF Base
<1> HIDE DEF e
<1>2. e.revs = d.revs /\ e.past = d.past
  BY <1>1 DEF SameRest
<1>3. PastOK(e) /\ Bottom(e, fs) /\ Insides(e, fs)
  BY <1>2 DEF Base, PastOK, Bottom, Insides, Inside
<1> QED
  BY <1>1, <1>3 DEF Base, e

\* The call that failed is closed.
LEMMA LiveBack ==
  ASSUME NEW d, NEW fs, NEW n \in 1 .. Len(d.revs), Base(d, fs, n), Good(d, fs), fs # <<>>,
         d.revs[n].id = fs[Len(fs)].snap, Len(d.journal) <= d.revs[n].index
  PROVE  LET e == dropRevisions(d, n)
         IN  /\ Core(e) /\ SoundNow(e) /\ World(e) = d.past[n]
             /\ Len(fs) = 1 => /\ e.journal = <<>> /\ e.revs = <<>> /\ e.past = <<>> /\ e.refund = 0
             /\ Len(fs) # 1 => Live(e, SubSeq(fs, 1, Len(fs) - 1))
<1> DEFINE e == dropRevisions(d, n)
           gs == SubSeq(fs, 1, Len(fs) - 1)
<1>1. /\ Core(e) /\ SoundNow(e) /\ PastOK(e) /\ Len(e.revs) = n - 1 /\ Linked(e, Len(e.revs))
      /\ World(e) = d.past[n]
      /\ \A i \in 1 .. n - 1 : e.revs[i] = d.revs[i] /\ e.past[i] = d.past[i]
      /\ n = 1 => e.revs = <<>> /\ e.past = <<>>
      /\ d.revs[n].index = 0 => e.journal = <<>> /\ e.refund = 0
  BY Solver, LinkedBack DEF Base
<1> HIDE DEF e
<1>2. Framed(fs) /\ Len(fs) \in Nat /\ Len(fs) > 0 /\ Len(d.revs) \in Nat /\ n \in Nat
  BY Solver, FramesLen, RevsLen DEF Base
<1>3. Framed(gs) /\ Len(gs) = Len(fs) - 1 /\ \A i \in 1 .. Len(fs) - 1 : gs[i] = fs[i]
  BY <1>2, FramedPop
<1> HIDE DEF gs
<1>4. d.revs[1].id = fs[1].snap /\ d.revs[1].index = 0
  BY DEF Base, Bottom
<1>5. /\ \A i \in 1 .. Len(d.revs) : d.revs[i].id \in Nat
      /\ \A i, j \in 1 .. Len(d.revs) : i < j => d.revs[i].id < d.revs[j].id
  BY DEF Good, Revs
<1>6. ASSUME Len(fs) = 1 PROVE n = 1
  <2>1. 1 \in 1 .. Len(d.revs) /\ (n # 1 => 1 < n)
    BY Solver, <1>2
  <2> QED
    BY Solver, <1>4, <1>5, <1>6, <2>1
<1>7. ASSUME Len(fs) # 1 PROVE Live(e, gs)
  <2>1. fs[1].snap < fs[Len(fs)].snap /\ fs[1].snap \in Nat /\ fs[Len(fs)].snap \in Nat
    <3>1. 1 \in 1 .. Len(fs) /\ Len(fs) \in 1 .. Len(fs) /\ 1 < Len(fs)
      <4>1. PICK m \in Nat : m = Len(fs) /\ m > 0 /\ m # 1
        BY <1>2, <1>7
      <4>2. 1 \in 1 .. m /\ m \in 1 .. m /\ 1 < m
        BY Solver, <4>1
      <4> QED
        BY <4>1, <4>2
    <3>2. /\ \A i \in 1 .. Len(fs) : fs[i].snap \in Nat
          /\ \A i, j \in 1 .. Len(fs) : i < j => fs[i].snap < fs[j].snap
      BY DEF Good, Snaps
    <3> QED
      BY <3>1, <3>2
  <2>2. n - 1 >= 1
    BY Solver, <1>2, <1>4, <2>1
  <2>3. Bottom(e, gs)
    BY Solver, <1>1, <1>2, <1>3, <1>4, <1>7, <2>2 DEF Bottom
  <2>4. ASSUME NEW m \in 0 .. n - 1, NEW w, Inside(d, fs, m, w) PROVE Inside(e, gs, m, w)
    <3>1. \A i \in 2 .. Len(gs) : i \in 2 .. Len(fs) /\ gs[i] = fs[i]
      BY Solver, <1>2, <1>3
    <3>2. \A k \in 1 .. m : e.revs[k] = d.revs[k] /\ e.past[k] = d.past[k]
      BY Solver, <1>1, <1>2
    <3> QED
      BY <2>4, <3>1, <3>2 DEF Inside
  <2>5. ASSUME NEW j \in 1 .. n - 1 PROVE Inside(e, gs, j - 1, e.past[j])
    <3>1. Inside(d, fs, j - 1, d.past[j]) /\ j - 1 \in 0 .. n - 1
      BY Solver, <1>2 DEF Base, Insides
    <3> QED
      BY <1>1, <2>4, <3>1
  <2>6. Inside(e, gs, n - 1, World(e))
    <3>1. Inside(d, fs, n - 1, d.past[n]) /\ n - 1 \in 0 .. n - 1
      BY Solver, <1>2 DEF Base, Insides
    <3> QED
      BY <1>1, <2>4, <3>1
  <2> QED
    BY <1>1, <1>3, <2>3, <2>5, <2>6 DEF Live, Base, Insides
<1> QED
  BY <1>1, <1>4, <1>6, <1>7 DEF e, gs

\* g may take the place of f, the frame of the n-th call.
Alike(f, g, n) ==
  /\ g \in Frame /\ g.self = f.self /\ g.ro = f.ro /\ g.snap = f.snap
  /\ n = 1 <=> g.code \in {"bought", "applied", "paid"}
  /\ g.impl # None => g.code = "tewaka"
  /\ g.ro => g.code # "create"

Retopped(fs, g) == [fs EXCEPT ![Len(fs)] = g]

\* The innermost call changes what it runs or what it has loaded.
LEMMA FramedTop ==
  ASSUME NEW fs, Framed(fs), fs # <<>>, NEW g, Alike(fs[Len(fs)], g, Len(fs)),
         NEW gs, gs = Retopped(fs, g)
  PROVE  Framed(gs) /\ SameRun(fs, gs) /\ gs[Len(gs)] = g
<1>1. PICK n \in Nat : n = Len(fs) /\ n > 0 /\ n \in 1 .. n
  BY Solver, FramesLen
<1>2. gs = [fs EXCEPT ![n] = g] /\ Alike(fs[n], g, n)
  BY <1>1 DEF Retopped
<1>3. fs \in Seq(Frame)
  BY DEF Framed
<1>4. gs \in Seq(Frame) /\ Len(gs) = n /\ gs[n] = g /\ \A i \in 1 .. n : i # n => gs[i] = fs[i]
  BY Solver, <1>1, <1>2, <1>3 DEF Alike
<1>5. \A i \in 1 .. n : gs[i].self = fs[i].self /\ gs[i].ro = fs[i].ro /\ gs[i].snap = fs[i].snap
  BY <1>1, <1>2, <1>4 DEF Alike
<1>6. ASSUME NEW i \in 1 .. n
      PROVE  /\ i = 1 <=> gs[i].code \in {"bought", "applied", "paid"}
             /\ gs[i].impl # None => i = n /\ gs[i].code = "tewaka"
             /\ gs[i].ro => gs[i].code # "create" /\ i # 1
  <2>1. CASE i = n
    <3>1. fs[n].ro => n # 1
      BY <1>1 DEF Framed
    <3> QED
      BY <1>1, <1>2, <1>4, <2>1, <3>1 DEF Alike
  <2>2. CASE i # n
    BY Solver, <1>1, <1>4, <2>2 DEF Framed
  <2> QED
    BY <2>1, <2>2
<1>7. \A i, j \in 1 .. n : i < j /\ gs[i].ro => gs[j].ro
  BY Solver, <1>1, <1>5 DEF Framed
<1>8. Framed(gs)
  BY Solver, <1>4, <1>6, <1>7 DEF Framed
<1> QED
  BY <1>1, <1>2, <1>4, <1>5, <1>8 DEF SameRun

\* A handler does not call, and a static call only calls static ones.
LEMMA FramedPush ==
  ASSUME NEW fs, Framed(fs), fs # <<>>, NEW f \in Frame, f.impl = None, fs[Len(fs)].impl = None,
         f.code \notin {"bought", "applied", "paid"}, f.ro => f.code # "create",
         fs[Len(fs)].ro => f.ro
  PROVE  Framed(Append(fs, f))
<1>1. PICK n \in Nat : n = Len(fs) /\ n > 0 /\ n \in 1 .. n /\ n + 1 # 1
  BY Solver, FramesLen
<1>2. PICK gs : gs = Append(fs, f)
  OBVIOUS
<1>3. fs \in Seq(Frame)
  BY DEF Framed
<1>4. gs \in Seq(Frame) /\ Len(gs) = n + 1 /\ gs[n + 1] = f /\ \A i \in 1 .. n : gs[i] = fs[i]
  BY Solver, <1>1, <1>2, <1>3
<1>5. ASSUME NEW i \in 1 .. n + 1
      PROVE  /\ i = 1 <=> gs[i].code \in {"bought", "applied", "paid"}
             /\ gs[i].impl # None => i = n + 1 /\ gs[i].code = "tewaka"
             /\ gs[i].ro => gs[i].code # "create" /\ i # 1
  <2>1. CASE i = n + 1
    BY <1>1, <1>4, <2>1
  <2>2. CASE i \in 1 .. n
    <3>1. fs[i].impl = None
      BY <1>1, <2>2 DEF Framed
    <3> QED
      BY <1>1, <1>4, <2>2, <3>1 DEF Framed
  <2> QED
    BY Solver, <1>1, <2>1, <2>2
<1>6. ASSUME NEW i \in 1 .. n + 1, NEW j \in 1 .. n + 1, i < j, gs[i].ro PROVE gs[j].ro
  <2>1. i \in 1 .. n /\ gs[i] = fs[i]
    BY Solver, <1>1, <1>4, <1>6
  <2>2. fs[i].ro => fs[n].ro
    BY Solver, <1>1, <2>1 DEF Framed
  <2>3. CASE j = n + 1
    BY <1>1, <1>4, <1>6, <2>1, <2>2, <2>3
  <2>4. CASE j \in 1 .. n
    BY <1>1, <1>4, <1>6, <2>1, <2>4 DEF Framed
  <2> QED
    BY Solver, <1>1, <2>3, <2>4
<1> QED
  BY <1>2, <1>4, <1>5, <1>6 DEF Framed

\* Calls are the same calls as themselves.
LEMMA SameRunSelf == ASSUME NEW fs PROVE SameRun(fs, fs)
BY DEF SameRun

(***************************************************************************)
(* The saved worlds.                                                       *)
(***************************************************************************)

SavedIn(d, fs) == [i \in 1 .. Len(fs) |-> d.past[searchRevision(d, fs[i].snap)]]

\* There is one saved world per open call.
LEMMA SavedLen ==
  ASSUME NEW d, NEW fs, Framed(fs)
  PROVE  /\ Len(SavedIn(d, fs)) = Len(fs) /\ (fs # <<>> => SavedIn(d, fs) # <<>>)
         /\ SavedIn(d, fs) \in Seq({SavedIn(d, fs)[i] : i \in 1 .. Len(fs)})
<1>1. PICK n \in Nat : n = Len(fs) /\ (fs # <<>> => n > 0)
  BY FramesLen
<1>2. PICK s : s = SavedIn(d, fs)
  OBVIOUS
<1>3. s = [i \in 1 .. n |-> s[i]]
  BY <1>1, <1>2 DEF SavedIn
<1>4. s \in Seq({s[i] : i \in 1 .. n}) /\ Len(s) = n
  BY Solver, <1>1, <1>3
<1>5. n > 0 => s # <<>>
  BY Solver, <1>1, <1>4
<1> QED
  BY <1>1, <1>2, <1>4, <1>5

\* The binary search finds a revision that is there.
LEMMA SearchHits ==
  ASSUME NEW d, Revs(d), NEW snap \in Nat, Held(d, snap)
  PROVE  /\ searchRevision(d, snap) \in 1 .. Len(d.revs)
         /\ d.revs[searchRevision(d, snap)].id = snap
<1>1. PICK k \in 1 .. Len(d.revs) : d.revs[k].id = snap
  BY DEF Held
<1>2. Len(d.revs) \in Nat
  BY DEF Revs
<1>3. \A i \in 1 .. Len(d.revs) : d.revs[i].id \in Nat
  BY DEF Revs
<1> DEFINE First(i) == /\ i <= Len(d.revs) => d.revs[i].id >= snap
                       /\ \A j \in 1 .. i - 1 : d.revs[j].id < snap
           c == CHOOSE i \in 1 .. Len(d.revs) + 1 : First(i)
<1>4. First(k) /\ k \in 1 .. Len(d.revs) + 1
  <2>1. \A j \in 1 .. k - 1 : j \in 1 .. Len(d.revs) /\ j < k
    BY Solver, <1>2
  <2>2. \A j \in 1 .. k - 1 : d.revs[j].id < snap
    BY <1>1, <2>1 DEF Revs
  <2> QED
    BY Solver, <1>1, <1>2, <2>2
<1>5. First(c) /\ c \in 1 .. Len(d.revs) + 1
  BY <1>4
<1>6. c = searchRevision(d, snap)
  BY DEF searchRevision
<1> HIDE DEF c
<1>7. ~(k < c)
  BY Solver, <1>1, <1>2, <1>3, <1>5
<1>8. ~(c < k)
  BY Solver, <1>1, <1>2, <1>3, <1>5 DEF Revs
<1>9. c = k
  BY Solver, <1>2, <1>5, <1>7, <1>8
<1> QED
  BY <1>1, <1>6, <1>9

\* The revision of a call, and no other, is found.
LEMMA SavedAt ==
  ASSUME NEW d, NEW fs, Good(d, fs), NEW i \in 1 .. Len(fs), NEW k \in 1 .. Len(d.revs),
         d.revs[k].id = fs[i].snap
  PROVE  SavedIn(d, fs)[i] = d.past[k]
<1> DEFINE j == searchRevision(d, fs[i].snap)
<1>1. Revs(d) /\ fs[i].snap \in Nat /\ Held(d, fs[i].snap)
  BY DEF Good, Snaps
<1>2. j \in 1 .. Len(d.revs) /\ d.revs[j].id = fs[i].snap
  BY <1>1, SearchHits
<1>3. SavedIn(d, fs)[i] = d.past[j]
  BY DEF SavedIn
<1> HIDE DEF j
<1>4. j = k
  <2>1. PICK m \in Nat : m = Len(d.revs)
    BY <1>1 DEF Revs
  <2>2. j \in 1 .. m /\ k \in 1 .. m
    BY <1>2, <2>1
  <2>3. j < k \/ j = k \/ k < j
    BY Solver, <2>1, <2>2
  <2>4. ~(j < k) /\ ~(k < j)
    BY Solver, <1>1, <1>2, <2>1, <2>2 DEF Revs
  <2> QED
    BY <2>3, <2>4
<1> QED
  BY <1>3, <1>4

\* A call that works on the database leaves the saved worlds alone.
LEMMA SavedWork ==
  ASSUME NEW d, NEW e, NEW fs, NEW gs, e.revs = d.revs, e.past = d.past, SameRun(fs, gs)
  PROVE  SavedIn(e, gs) = SavedIn(d, fs)
<1>1. \A s : searchRevision(e, s) = searchRevision(d, s)
  BY DEF searchRevision
<1> QED
  BY <1>1 DEF SavedIn, SameRun

\* The first m calls have their snapshots among the first n, before and after.
SamePlaces(d, e, fs, gs, m, n) ==
  /\ Len(gs) \in Nat /\ Len(fs) \in Nat /\ m <= Len(fs) /\ m <= Len(gs)
  /\ n <= Len(d.revs) /\ n <= Len(e.revs)
  /\ \A i \in 1 .. m : gs[i].snap = fs[i].snap
  /\ \A k \in 1 .. n : e.revs[k] = d.revs[k] /\ e.past[k] = d.past[k]
  /\ \A i \in 1 .. m : \E k \in 1 .. n : d.revs[k].id = fs[i].snap

\* Calls whose revisions stay in place have the saved worlds they had.
LEMMA SavedSame ==
  ASSUME NEW d, NEW e, NEW fs, NEW gs, Good(d, fs), Good(e, gs), NEW m \in Nat, NEW n \in Nat,
         SamePlaces(d, e, fs, gs, m, n)
  PROVE  \A i \in 1 .. m : SavedIn(e, gs)[i] = SavedIn(d, fs)[i]
<1> SUFFICES ASSUME NEW i \in 1 .. m PROVE SavedIn(e, gs)[i] = SavedIn(d, fs)[i]
  OBVIOUS
<1>1. PICK k \in 1 .. n : d.revs[k].id = fs[i].snap
  BY DEF SamePlaces
<1>2. e.revs[k].id = gs[i].snap
  BY <1>1 DEF SamePlaces
<1>3. i \in 1 .. Len(fs) /\ i \in 1 .. Len(gs) /\ k \in 1 .. Len(d.revs) /\ k \in 1 .. Len(e.revs)
  <2>1. Len(d.revs) \in Nat /\ Len(e.revs) \in Nat
    BY DEF Good, Revs
  <2> QED
    BY Solver, <2>1 DEF SamePlaces
<1>4. SavedIn(e, gs)[i] = e.past[k]
  BY Solver, <1>2, <1>3, SavedAt
<1>5. SavedIn(d, fs)[i] = d.past[k]
  BY Solver, <1>1, <1>3, SavedAt
<1>6. e.past[k] = d.past[k]
  BY DEF SamePlaces
<1> QED
  BY <1>4, <1>5, <1>6

\* A sequence that grew by one is an Append.
LEMMA SeqGrown ==
  ASSUME NEW s, NEW t, (\E S : s \in Seq(S)), (\E S : t \in Seq(S)), Len(t) = Len(s) + 1,
         \A i \in 1 .. Len(s) : t[i] = s[i]
  PROVE  t = Append(s, t[Len(t)])
<1>1. PICK S : s \in Seq(S)
  OBVIOUS
<1>2. PICK T : t \in Seq(T)
  OBVIOUS
<1>3. PICK w : w = t[Len(t)]
  OBVIOUS
<1>4. s \in Seq(S \cup T) /\ t \in Seq(S \cup T) /\ w \in S \cup T /\ Len(s) \in Nat
  BY Solver, <1>1, <1>2, <1>3
<1>5. /\ Append(s, w) \in Seq(S \cup T) /\ Len(Append(s, w)) = Len(s) + 1
      /\ Append(s, w)[Len(s) + 1] = w /\ \A i \in 1 .. Len(s) : Append(s, w)[i] = s[i]
  BY Solver, <1>4
<1>6. \A i \in 1 .. Len(t) : t[i] = Append(s, w)[i]
  <2> SUFFICES ASSUME NEW i \in 1 .. Len(t) PROVE t[i] = Append(s, w)[i]
    OBVIOUS
  <2>1. i \in 1 .. Len(s) \/ i = Len(s) + 1
    BY Solver, <1>4
  <2> QED
    BY <1>3, <1>5, <2>1
<1>7. t = Append(s, w)
  <2>1. \A p, q \in Seq(S \cup T) : Len(p) = Len(q) /\ (\A i \in 1 .. Len(p) : p[i] = q[i]) => p = q
    BY Solver
  <2> QED
    BY <1>4, <1>5, <1>6, <2>1
<1> QED
  BY <1>3, <1>7

\* A sequence that lost its last element is a SubSeq.
LEMMA SeqShrunk ==
  ASSUME NEW s, NEW t, (\E S : s \in Seq(S)), (\E S : t \in Seq(S)), Len(s) > 0, Len(t) = Len(s) - 1,
         \A i \in 1 .. Len(t) : t[i] = s[i]
  PROVE  t = SubSeq(s, 1, Len(s) - 1)
<1>1. PICK S : s \in Seq(S)
  OBVIOUS
<1>2. PICK T : t \in Seq(T)
  OBVIOUS
<1>3. PICK n \in Nat : n = Len(s) /\ n > 0
  BY Solver, <1>1
<1>4. s \in Seq(S \cup T) /\ t \in Seq(S \cup T) /\ n \in 1 .. Len(s)
  BY Solver, <1>1, <1>2, <1>3
<1>5. /\ SubSeq(s, 1, n - 1) \in Seq(S \cup T) /\ Len(SubSeq(s, 1, n - 1)) = n - 1
      /\ \A i \in 1 .. n - 1 : SubSeq(s, 1, n - 1)[i] = s[i]
  BY <1>4, CutSeq
<1>6. t = SubSeq(s, 1, n - 1)
  <2>1. \A p, q \in Seq(S \cup T) : Len(p) = Len(q) /\ (\A i \in 1 .. Len(p) : p[i] = q[i]) => p = q
    BY Solver
  <2> QED
    BY <1>3, <1>4, <1>5, <2>1
<1> QED
  BY <1>3, <1>6

(***************************************************************************)
(* What happens to revisions and calls.                                    *)
(***************************************************************************)

\* An operation without snapshot keeps the revisions of the calls.
LEMMA GoodWork ==
  ASSUME NEW d, NEW e, NEW fs, NEW gs, Good(d, fs), e.revs = d.revs, e.nextRev = d.nextRev,
         SameRun(fs, gs)
  PROVE  Good(e, gs)
BY Solver DEF Good, Revs, Snaps, Held, SameRun

\* A snapshot is taken.
LEMMA GoodShot ==
  ASSUME NEW d, NEW e, NEW fs, Good(d, fs), Len(e.revs) = Len(d.revs) + 1,
         e.nextRev = d.nextRev + 1, e.revs[Len(d.revs) + 1].id = d.nextRev,
         \A i \in 1 .. Len(d.revs) : e.revs[i] = d.revs[i]
  PROVE  Good(e, fs)
<1>1. PICK n, r \in Nat : n = Len(d.revs) /\ r = d.nextRev
  BY DEF Good, Revs
<1>2. Len(e.revs) = n + 1 /\ e.nextRev = r + 1 /\ e.revs[n + 1].id = r
  BY <1>1
<1>3. /\ \A i \in 1 .. n : e.revs[i].id \in Nat /\ e.revs[i].id < r
      /\ \A i, j \in 1 .. n : i < j => e.revs[i].id < e.revs[j].id
  BY <1>1 DEF Good, Revs
<1>4. n + 1 \in Nat /\ r + 1 \in Nat /\ \A i \in 1 .. n + 1 : i \in 1 .. n \/ i = n + 1
  BY Solver, <1>1
<1>5. Revs(e)
  <2>1. ASSUME NEW i \in 1 .. n + 1 PROVE e.revs[i].id \in Nat /\ e.revs[i].id < r + 1
    <3>1. PICK x : x = e.revs[i].id
      OBVIOUS
    <3>2. x \in Nat /\ (x < r \/ x = r)
      BY <1>1, <1>2, <1>3, <1>4, <3>1
    <3> QED
      BY Solver, <1>1, <3>1, <3>2
  <2>2. ASSUME NEW i \in 1 .. n + 1, NEW j \in 1 .. n + 1, i < j PROVE e.revs[i].id < e.revs[j].id
    <3>1. i \in 1 .. n
      BY Solver, <1>1, <2>2
    <3> QED
      BY <1>2, <1>3, <1>4, <2>2, <3>1
  <2> QED
    BY <1>2, <1>4, <2>1, <2>2 DEF Revs
<1>6. \A x : Held(d, x) => Held(e, x)
  BY Solver, <1>1, <1>2 DEF Held
<1> QED
  BY <1>5, <1>6 DEF Good, Snaps

\* A call is opened with the newest revision.
LEMMA GoodPush ==
  ASSUME NEW d, NEW fs, NEW f, NEW gs, Good(d, fs), Held(d, f.snap), f.snap \in Nat,
         Len(fs) \in Nat, Len(gs) = Len(fs) + 1, gs[Len(fs) + 1] = f,
         \A i \in 1 .. Len(fs) : gs[i] = fs[i] /\ fs[i].snap < f.snap
  PROVE  Good(d, gs)
<1>1. \A i \in 1 .. Len(gs) : i \in 1 .. Len(fs) \/ i = Len(fs) + 1
  BY Solver
<1>2. \A i \in 1 .. Len(gs) : gs[i].snap \in Nat /\ Held(d, gs[i].snap)
  BY <1>1 DEF Good, Snaps
<1>3. ASSUME NEW i \in 1 .. Len(gs), NEW j \in 1 .. Len(gs), i < j PROVE gs[i].snap < gs[j].snap
  <2>1. i \in 1 .. Len(fs)
    BY Solver, <1>3
  <2>2. j \in 1 .. Len(fs) => fs[i].snap < fs[j].snap
    BY <1>3, <2>1 DEF Good, Snaps
  <2> QED
    BY <1>1, <2>1, <2>2
<1> QED
  BY <1>2, <1>3 DEF Good, Snaps

\* The innermost call is closed, and only the first n revisions are left.
LEMMA GoodPop ==
  ASSUME NEW d, NEW e, NEW fs, NEW gs, NEW m \in Nat, NEW n \in Nat, Good(d, fs),
         SamePlaces(d, e, fs, gs, m, n), Len(gs) = m, Len(e.revs) = n, e.nextRev = d.nextRev
  PROVE  Good(e, gs)
<1>1. \A k \in 1 .. n : k \in 1 .. Len(d.revs) /\ e.revs[k] = d.revs[k]
  <2>1. PICK r : r = Len(d.revs) /\ r \in Nat /\ n <= r
    BY DEF SamePlaces, Good, Revs
  <2>2. \A k \in 1 .. n : k \in 1 .. r
    BY Solver, <2>1
  <2> QED
    BY <2>1, <2>2 DEF SamePlaces
<1>2. Revs(e)
  BY <1>1 DEF Good, Revs
<1>3. \A i \in 1 .. m : i \in 1 .. Len(fs) /\ gs[i].snap = fs[i].snap
  BY Solver DEF SamePlaces
<1>4. \A i \in 1 .. m : gs[i].snap \in Nat /\ Held(e, gs[i].snap)
  <2>1. \A i \in 1 .. m : fs[i].snap \in Nat
    BY <1>3 DEF Good, Snaps
  <2>2. ASSUME NEW i \in 1 .. m PROVE \E k \in 1 .. n : e.revs[k].id = fs[i].snap
    <3>1. PICK k \in 1 .. n : d.revs[k].id = fs[i].snap
      BY DEF SamePlaces
    <3> QED
      BY <1>1, <3>1
  <2> QED
    BY <1>3, <2>1, <2>2 DEF Held
<1>5. \A i, j \in 1 .. m : i < j => fs[i].snap < fs[j].snap
  BY <1>3 DEF Good, Snaps
<1> QED
  BY <1>2, <1>3, <1>4, <1>5 DEF Good, Snaps

\* A transaction begins.
LEMMA GoodFirst ==
  ASSUME NEW d, NEW fs, NEW r \in Nat, Len(d.revs) = 1, d.revs[1].id = r, d.nextRev = r + 1,
         Len(fs) = 1, fs[1].snap = r
  PROVE  Good(d, fs)
<1>1. \A i \in 1 .. 1 : i = 1
  BY Solver
<1>2. Revs(d) /\ Held(d, r)
  BY Solver, <1>1 DEF Revs, Held
<1> QED
  BY Solver, <1>1, <1>2 DEF Good, Snaps

\* Between transactions there are no revisions and no calls.
LEMMA GoodNone ==
  ASSUME NEW d, d.revs = <<>>, d.nextRev \in Nat PROVE Good(d, <<>>)
<1>1. Len(<<>>) = 0 /\ \A i \in 1 .. 0 : FALSE
  BY Solver
<1> QED
  BY <1>1 DEF Good, Revs, Snaps

(***************************************************************************)
(* The inductive invariant.                                                *)
(***************************************************************************)

\* The cache maps an encoding to itself.
CacheOK == cache \in [Blob -> Blob \cup {None}] /\ \A b \in Blob : cache[b] \in {None, b}

\* What the innermost call has loaded is what the state holds.
Loaded(d, fs) == fs[Len(fs)].impl # None => fs[Len(fs)].impl = BytesOf(d)

\* While a call is undone, undo is the place of its revision.
Undoing == undo # None => /\ frames # <<>> /\ undo \in 1 .. Len(db.revs)
                          /\ db.revs[undo].id = Top.snap

IInv ==
  /\ Good(db, frames) /\ Undoing /\ (closing => frames = <<>> /\ undo = None)
  /\ CacheOK
  /\ undo # None => Base(db, frames, undo)
  /\ undo = None /\ frames # <<>> => Live(db, frames) /\ Loaded(db, frames)
  /\ frames = <<>> => Core(db) /\ SoundNow(db) /\ (~closing => Idle(db))

\* A step of the abstract worlds, or none.
Maps == F!Next \/ UNCHANGED F!fvars

\* The refinement mapping, in terms of SavedIn.
LEMMA SavedNow ==
  /\ Framed(frames) => savedOf = SavedIn(db, frames)
  /\ Framed(frames') => savedOf' = SavedIn(db', frames')
<1>1. ASSUME Framed(frames) PROVE savedOf = SavedIn(db, frames)
  <2>1. DOMAIN frames = 1 .. Len(frames)
    BY Solver, <1>1 DEF Framed
  <2> QED
    BY <2>1 DEF savedOf, Saved, SavedIn
<1>2. ASSUME Framed(frames') PROVE savedOf' = SavedIn(db', frames')
  <2>1. DOMAIN frames' = 1 .. Len(frames')
    BY Solver, <1>2 DEF Framed
  <2> QED
    BY <2>1 DEF savedOf, Saved, SavedIn
<1> QED
  BY <1>1, <1>2

\* What holds while a call runs.
LEMMA RunFacts ==
  ASSUME IInv, undo = None, frames # <<>>
  PROVE  /\ Live(db, frames) /\ Loaded(db, frames) /\ Core(db) /\ SoundNow(db) /\ Framed(frames)
         /\ Good(db, frames) /\ ~closing /\ CacheOK
         /\ Len(frames) \in Nat /\ Len(frames) > 0 /\ Top \in Frame
         /\ Len(frames) > 1 => Acc(db)[Top.self] # None /\ db.al.idx[Top.self] # None
<1>1. /\ Live(db, frames) /\ Loaded(db, frames) /\ Core(db) /\ SoundNow(db) /\ Framed(frames)
      /\ Good(db, frames) /\ ~closing /\ CacheOK
  BY DEF IInv, Live, Base
<1>2. PICK n \in Nat : n = Len(frames) /\ n > 0 /\ n \in 1 .. n
  BY Solver, <1>1, FramesLen
<1>3. Top \in Frame
  BY Solver, <1>1, <1>2 DEF Framed, Top
<1>4. ASSUME n > 1 PROVE Acc(db)[Top.self] # None /\ db.al.idx[Top.self] # None
  <2>1. PICK k \in 1 .. Len(db.revs) : db.revs[k].id = frames[n].snap
    BY <1>1, <1>2 DEF Good, Snaps, Held
  <2>2. n \in 2 .. Len(frames)
    BY Solver, <1>2, <1>4
  <2>3. Within(frames[n], db.past[k], World(db))
    BY <1>1, <2>1, <2>2 DEF Live, Inside
  <2> QED
    BY <1>2, <2>3, WorldFields DEF Within, Top
<1> QED
  BY <1>1, <1>2, <1>3, <1>4

\* A step of a call that takes no snapshot is a change of the world.
LEMMA WorkMoves ==
  ASSUME IInv, undo = None, frames # <<>>, undo' = None, closing' = closing,
         Keeps(db, db'), Framed(frames'), SameRun(frames, frames'),
         Top.ro => Spares(Acc(db), Acc(db')), CacheOK', Loaded(db', frames')
  PROVE  IInv' /\ Maps
<1>1. /\ Live(db, frames) /\ Framed(frames) /\ ~closing /\ Len(frames) \in Nat /\ Len(frames) > 0
      /\ Good(db, frames)
  BY RunFacts
<1>2. Live(db', frames')
  BY <1>1, LiveWork DEF Top
<1>3. frames' # <<>>
  <2>1. Len(frames') > 0
    BY <1>1 DEF SameRun
  <2> QED
    BY Solver, <2>1
<1>4. db'.revs = db.revs /\ db'.past = db.past /\ db'.nextRev = db.nextRev
  BY DEF Keeps, Reaches, SameRest
<1>5. Good(db', frames')
  BY <1>1, <1>4, GoodWork
<1>6. IInv'
  BY <1>1, <1>2, <1>3, <1>5 DEF IInv, Undoing
<1>7. savedOf' = savedOf /\ savedOf # <<>>
  <2>1. SavedIn(db', frames') = SavedIn(db, frames)
    BY Solver, <1>4, SavedWork
  <2>2. SavedIn(db, frames) # <<>>
    BY <1>1, SavedLen
  <2> QED
    BY <1>1, <2>1, <2>2, SavedNow
<1>8. F!Change
  BY <1>1, <1>7 DEF F!Change, F!OK
<1> QED
  BY <1>6, <1>8 DEF Maps, F!Next

\* Neither calls nor the cache change.
LEMMA ChangeMoves ==
  ASSUME IInv, undo = None, frames # <<>>, UNCHANGED <<undo, closing, frames, cache>>,
         Keeps(db, db'), Top.ro => Spares(Acc(db), Acc(db')),
         Top.impl # None => BytesOf(db') = BytesOf(db)
  PROVE  IInv' /\ Maps
<1>1. Framed(frames') /\ SameRun(frames, frames') /\ CacheOK'
  BY RunFacts, SameRunSelf DEF CacheOK
<1>2. Loaded(db', frames')
  BY RunFacts DEF Loaded, Top
<1> QED
  BY <1>1, <1>2, WorkMoves

\* A snapshot is taken of x.
LEMMA Shot ==
  ASSUME IInv, undo = None, frames # <<>>, undo' = None, closing' = closing,
         NEW x, Keeps(db, x), Keeps(Snapshot(x), db'), NEW gs, Framed(gs), SameRun(frames, gs),
         Top.ro => Spares(Acc(db), Acc(x)), Top.ro => Spares(Acc(x), Acc(db'))
  PROVE  /\ Live(db', gs) /\ Good(db', gs) /\ ~closing /\ Len(db'.revs) > 0 /\ Len(gs) > 0 /\ Len(gs) \in Nat
         /\ gs # <<>> /\ Len(db'.revs) \in Nat
         /\ db'.revs[Len(db'.revs)].id = db.nextRev /\ db'.past[Len(db'.revs)] = World(x)
         /\ db'.nextRev = db.nextRev + 1
         /\ Len(db'.revs) = Len(db.revs) + 1
         /\ \A k \in 1 .. Len(db.revs) : db'.revs[k] = db.revs[k] /\ db'.past[k] = db.past[k]
<1> DEFINE s == Snapshot(x)
<1>1. /\ Live(db, frames) /\ Framed(frames) /\ ~closing /\ Len(frames) \in Nat /\ Len(frames) > 0
      /\ Good(db, frames)
  BY RunFacts
<1>2. x.revs = db.revs /\ x.past = db.past /\ x.nextRev = db.nextRev
  BY DEF Keeps, Reaches, SameRest
<1>3. Live(x, gs)
  BY <1>1, LiveWork DEF Top
<1>4. \A i \in 1 .. Len(gs) : gs[i].snap # x.nextRev
  <2>1. \A i \in 1 .. Len(frames) : frames[i].snap # db.nextRev
    <3> SUFFICES ASSUME NEW i \in 1 .. Len(frames) PROVE frames[i].snap # db.nextRev
      OBVIOUS
    <3>1. PICK k \in 1 .. Len(db.revs) : db.revs[k].id = frames[i].snap
      BY <1>1 DEF Good, Snaps, Held
    <3>2. frames[i].snap < db.nextRev /\ frames[i].snap \in Nat /\ db.nextRev \in Nat
      BY <1>1, <3>1 DEF Good, Snaps, Revs
    <3> QED
      BY Solver, <3>2
  <2> QED
    BY <1>2, <2>1 DEF SameRun
<1>5. /\ Live(s, gs) /\ Acc(s) = Acc(x) /\ Len(s.revs) = Len(x.revs) + 1
      /\ \A i \in 1 .. Len(x.revs) : s.revs[i] = x.revs[i] /\ s.past[i] = x.past[i]
      /\ s.revs[Len(s.revs)].id = x.nextRev /\ s.past[Len(s.revs)] = World(x)
  BY <1>3, <1>4, LiveShot
<1>6. s.nextRev = db.nextRev + 1
  BY <1>2, SnapshotTaken DEF Keeps
<1> HIDE DEF s
<1>7. db'.revs = s.revs /\ db'.past = s.past /\ db'.nextRev = s.nextRev
  BY DEF Keeps, Reaches, SameRest, s
<1>8. Len(gs) = Len(frames) /\ gs[Len(gs)].ro = Top.ro /\ gs # <<>>
  <2>1. Len(gs) = Len(frames) /\ Len(frames) \in 1 .. Len(frames)
    BY Solver, <1>1 DEF SameRun
  <2>2. gs[Len(gs)].ro = Top.ro
    BY <2>1 DEF SameRun, Top
  <2>3. gs # <<>>
    BY Solver, <1>1, <2>1
  <2> QED
    BY <2>1, <2>2, <2>3
<1>9. Live(db', gs)
  <2>1. SameRun(gs, gs)
    BY SameRunSelf
  <2>2. Keeps(s, db') /\ (gs[Len(gs)].ro => Spares(Acc(s), Acc(db')))
    BY <1>5, <1>8 DEF s
  <2> QED
    BY <1>5, <1>8, <2>1, <2>2, LiveWork
<1>10. Len(db.revs) \in Nat
  BY <1>1, RevsLen DEF Live, Base
<1>11. Good(db', gs)
  <2>1. Good(db, gs)
    BY <1>1, GoodWork
  <2> QED
    BY Solver, <1>2, <1>5, <1>6, <1>7, <2>1, GoodShot
<1> QED
  BY Solver, <1>1, <1>2, <1>5, <1>6, <1>7, <1>8, <1>9, <1>10, <1>11

\* A snapshot is taken and no call is opened.
LEMMA StayMoves ==
  ASSUME IInv, undo = None, frames # <<>>, undo' = None, closing' = closing,
         NEW x, Keeps(db, x), Keeps(Snapshot(x), db'), Framed(frames'), SameRun(frames, frames'),
         Top.ro => Spares(Acc(db), Acc(x)), Top.ro => Spares(Acc(x), Acc(db')),
         CacheOK', Loaded(db', frames')
  PROVE  IInv' /\ Maps
<1>1. /\ Live(db', frames') /\ ~closing /\ Len(frames') > 0 /\ Len(frames') \in Nat /\ frames' # <<>>
      /\ Good(db', frames') /\ Len(db'.revs) = Len(db.revs) + 1 /\ Len(db'.revs) \in Nat
      /\ \A k \in 1 .. Len(db.revs) : db'.revs[k] = db.revs[k] /\ db'.past[k] = db.past[k]
  BY Shot
<1>2. IInv'
  BY <1>1 DEF IInv, Undoing
<1>3. savedOf' = savedOf /\ savedOf # <<>>
  <2>1. Good(db, frames) /\ Good(db', frames') /\ Framed(frames)
    BY <1>1, RunFacts
  <2>2. PICK m \in Nat : m = Len(frames) /\ m = Len(frames')
    BY <1>1 DEF SameRun
  <2>3. PICK n \in Nat : n = Len(db.revs)
    BY <2>1 DEF Good, Revs
  <2>4. \A i \in 1 .. m : \E k \in 1 .. n : db.revs[k].id = frames[i].snap
    BY <2>1, <2>2, <2>3 DEF Good, Snaps, Held
  <2>5. \A i \in 1 .. m : SavedIn(db', frames')[i] = SavedIn(db, frames)[i]
    <3>0. n <= Len(db'.revs)
      BY Solver, <1>1, <2>3
    <3>1. SamePlaces(db, db', frames, frames', m, n)
      BY Solver, <1>1, <2>2, <2>3, <2>4, <3>0 DEF SamePlaces, SameRun
    <3> QED
      BY Solver, <2>1, <3>1, SavedSame
  <2>6. SavedIn(db', frames') = SavedIn(db, frames)
    BY <2>2, <2>5 DEF SavedIn
  <2>7. SavedIn(db, frames) # <<>>
    BY <2>1, SavedLen
  <2> QED
    BY <2>1, <2>6, <2>7, SavedNow
<1>4. F!Change
  BY <1>1, <1>3 DEF F!Change, F!OK
<1> QED
  BY <1>2, <1>4 DEF Maps, F!Next

\* A snapshot is taken and a call is opened with it.
LEMMA PushMoves ==
  ASSUME IInv, undo = None, frames # <<>>, undo' = None, closing' = closing,
         NEW x, Keeps(db, x), Keeps(Snapshot(x), db'), NEW gs, Framed(gs), SameRun(frames, gs),
         Top.ro => Spares(Acc(db), Acc(x)), Top.ro => Spares(Acc(x), Acc(db')), CacheOK',
         NEW f, frames' = Append(gs, f), Framed(frames'), f.snap = db.nextRev, f.impl = None,
         Within(f, World(x), World(db'))
  PROVE  /\ IInv' /\ F!OK /\ savedOf # <<>> /\ Len(savedOf') = Len(savedOf) + 1
         /\ savedOf'[Len(savedOf')] = World(x) /\ savedOf' = Append(savedOf, World(x))
         /\ worldOf = World(db)
<1>1. /\ Live(db', gs) /\ ~closing /\ Len(db'.revs) > 0 /\ Len(gs) > 0 /\ Len(gs) \in Nat /\ gs # <<>>
      /\ db'.revs[Len(db'.revs)].id = db.nextRev /\ db'.past[Len(db'.revs)] = World(x)
      /\ Len(db'.revs) = Len(db.revs) + 1 /\ Len(db'.revs) \in Nat
      /\ \A k \in 1 .. Len(db.revs) : db'.revs[k] = db.revs[k] /\ db'.past[k] = db.past[k]
  BY Shot
<1>2. Good(db, frames) /\ Good(db', gs) /\ Framed(frames) /\ db.nextRev \in Nat
  <2>1. Good(db', gs)
    BY Shot
  <2> QED
    BY <2>1, RunFacts DEF Good, Revs
<1>3. PICK p \in Nat : p = Len(db'.revs) /\ p > 0 /\ p \in 1 .. p
  BY Solver, <1>1
<1>4. \A k \in 1 .. p : db'.revs[k].id = f.snap => k = p
  <2>1. /\ db'.revs[p].id = f.snap /\ db.nextRev \in Nat
        /\ \A i, j \in 1 .. p : i < j => db'.revs[i].id < db'.revs[j].id
    BY <1>1, <1>2, <1>3 DEF Good, Revs
  <2> SUFFICES ASSUME NEW k \in 1 .. p, k # p PROVE db'.revs[k].id # f.snap
    OBVIOUS
  <2>2. db'.revs[k].id < db'.revs[p].id
    BY Solver, <1>3, <2>1
  <2> QED
    BY Solver, <2>1, <2>2
<1>5. Live(db', frames')
  BY <1>1, <1>3, <1>4, LivePush
<1>6. PICK m \in Nat : m = Len(frames) /\ m = Len(gs) /\ Len(frames') = m + 1
  BY Solver, <1>1 DEF SameRun, Framed
<1>7. frames'[m + 1] = f /\ frames' # <<>> /\ \A i \in 1 .. m : frames'[i] = gs[i]
  BY Solver, <1>6 DEF Framed
<1>8. Loaded(db', frames')
  BY <1>6, <1>7 DEF Loaded
<1>9. Good(db', frames')
  <2>1. \A i \in 1 .. Len(frames) : frames[i].snap < f.snap
    BY <1>2 DEF Good, Revs, Snaps, Held
  <2>2. Held(db', f.snap)
    BY <1>1, <1>3 DEF Held
  <2>3. \A i \in 1 .. m : gs[i].snap < f.snap
    BY <1>6, <2>1 DEF SameRun
  <2>4. PICK e, fs : e = db' /\ fs = frames'
    OBVIOUS
  <2>5. Good(e, fs)
    <3>1. /\ Good(e, gs) /\ Held(e, f.snap) /\ f.snap \in Nat /\ Len(gs) \in Nat /\ Len(fs) = Len(gs) + 1
          /\ fs[Len(gs) + 1] = f /\ \A i \in 1 .. Len(gs) : fs[i] = gs[i] /\ gs[i].snap < f.snap
      BY <1>2, <1>6, <1>7, <2>2, <2>3, <2>4
    <3> QED
      BY <3>1, GoodPush
  <2> QED
    BY <2>4, <2>5
<1>10. IInv'
  BY <1>1, <1>5, <1>7, <1>8, <1>9 DEF IInv, Undoing
<1>11. SavedIn(db', frames')[m + 1] = World(x)
  <2>1. PICK i \in 1 .. Len(frames') : i = m + 1
    BY Solver, <1>6
  <2>2. PICK e, fs : e = db' /\ fs = frames'
    OBVIOUS
  <2>3. /\ Good(e, fs) /\ i \in 1 .. Len(fs) /\ p \in 1 .. Len(e.revs)
        /\ e.revs[p].id = fs[i].snap /\ e.past[p] = World(x)
    BY <1>1, <1>3, <1>7, <1>9, <2>1, <2>2
  <2>4. SavedIn(e, fs)[i] = e.past[p]
    BY Solver, <2>3, SavedAt
  <2> QED
    BY <2>1, <2>2, <2>3, <2>4
<1>12. \A i \in 1 .. m : SavedIn(db', frames')[i] = SavedIn(db, frames)[i]
  <2>1. PICK n \in Nat : n = Len(db.revs) /\ n <= Len(db'.revs) /\ n <= Len(db.revs)
    <3>1. PICK n \in Nat : n = Len(db.revs)
      BY <1>2 DEF Good, Revs
    <3>2. n <= n + 1 /\ n <= n
      BY Solver
    <3> QED
      BY <1>1, <3>1, <3>2
  <2>2. \A i \in 1 .. m : \E k \in 1 .. n : db.revs[k].id = frames[i].snap
    BY <1>2, <1>6, <2>1 DEF Good, Snaps, Held
  <2>3. SamePlaces(db, db', frames, frames', m, n)
    BY Solver, <1>1, <1>6, <1>7, <2>1, <2>2 DEF SamePlaces, SameRun
  <2> QED
    BY Solver, <1>2, <1>9, <2>3, SavedSame
<1>13. PICK s, t : s = SavedIn(db, frames) /\ t = SavedIn(db', frames')
  OBVIOUS
<1>14. /\ Len(s) = m /\ Len(t) = m + 1 /\ (\E S : s \in Seq(S)) /\ (\E S : t \in Seq(S)) /\ s # <<>>
  BY <1>2, <1>6, <1>13, SavedLen
<1>15. t = Append(s, t[Len(t)])
  BY <1>12, <1>13, <1>14, SeqGrown
<1>16. s = savedOf /\ t = savedOf'
  BY <1>2, <1>13, SavedNow
<1>17. /\ savedOf # <<>> /\ Len(savedOf') = Len(savedOf) + 1
       /\ savedOf'[Len(savedOf')] = World(x) /\ savedOf' = Append(savedOf, World(x))
  BY <1>11, <1>13, <1>14, <1>15, <1>16
<1>18. F!OK /\ worldOf = World(db)
  BY <1>1 DEF F!OK, worldOf
<1> QED
  BY <1>10, <1>17, <1>18

\* The abstract step when only the access list, and perhaps a nonce, has moved.
LEMMA CallMaps ==
  ASSUME NEW x, World(x) = [World(db) EXCEPT !.al = x.al], worldOf = World(db),
         F!OK, savedOf # <<>>, Len(savedOf') = Len(savedOf) + 1,
         savedOf'[Len(savedOf')] = World(x), savedOf' = Append(savedOf, World(x))
  PROVE  Maps
<1>1. World(x) = [worldOf EXCEPT !.al = savedOf'[Len(savedOf')].al]
  BY WorldFields
<1>2. F!Call
  BY <1>1 DEF F!Call
<1> QED
  BY <1>2 DEF Maps, F!Next

\* A creation counts in the nonce and opens a call.
LEMMA CreateMaps ==
  ASSUME NEW x, Core(db), NEW from \in Addr, Counts(db, x, from), worldOf = World(db),
         F!OK, savedOf # <<>>, Len(savedOf') = Len(savedOf) + 1,
         savedOf'[Len(savedOf')] = World(x), savedOf' = Append(savedOf, World(x))
  PROVE  Maps
<1>1. PICK w, u : w = World(x) /\ u = World(db)
  OBVIOUS
<1>2. /\ w.acc = [u.acc EXCEPT ![from] = w.acc[from]]
      /\ u.acc[from] # None => w.acc[from] = [u.acc[from] EXCEPT !.nonce = @ + 1]
  <2>1. PICK g : g = [Found(Acc(db)[from]) EXCEPT !.nonce = Found(Acc(db)[from]).nonce + 1]
    OBVIOUS
  <2>2. Acc(x) = [Acc(db) EXCEPT ![from] = g]
    BY <2>1 DEF Counts
  <2>3. Acc(x)[from] = g
    BY <2>2 DEF Acc
  <2>4. Acc(db)[from] # None => g = [Acc(db)[from] EXCEPT !.nonce = @ + 1]
    BY <2>1 DEF Found
  <2> QED
    BY <1>1, <2>2, <2>3, <2>4, WorldFields
<1>3. w = [u EXCEPT !.acc[from] = w.acc[from], !.al = w.al]
  <2>1. w = [acc |-> w.acc, al |-> w.al, refund |-> u.refund, logs |-> u.logs]
    BY <1>1, WorldFields DEF World, Counts
  <2>2. u = [acc |-> u.acc, al |-> u.al, refund |-> u.refund, logs |-> u.logs]
    BY <1>1 DEF World
  <2>3. PICK y, al : y = w.acc[from] /\ al = w.al
    OBVIOUS
  <2>4. PICK a, b, c, r : a = u.acc /\ b = u.al /\ c = u.refund /\ r = u.logs
    OBVIOUS
  <2>5. u = [acc |-> a, al |-> b, refund |-> c, logs |-> r]
    BY <2>2, <2>4
  <2>6. [u EXCEPT !.acc[from] = y, !.al = al]
          = [acc |-> [a EXCEPT ![from] = y], al |-> al, refund |-> c, logs |-> r]
    <3>1. PICK v : v = [acc |-> [a EXCEPT ![from] = y], al |-> b, refund |-> c, logs |-> r]
      OBVIOUS
    <3>2. [u EXCEPT !.acc[from] = y] = v
      BY Solver, <2>5, <3>1
    <3>3. [u EXCEPT !.acc[from] = y, !.al = al] = [v EXCEPT !.al = al]
      BY <3>2
    <3> QED
      BY Solver, <3>1, <3>3
  <2> QED
    BY <1>2, <2>1, <2>3, <2>4, <2>6
<1>4. F!Create
  BY <1>1, <1>2, <1>3 DEF F!Create
<1> QED
  BY <1>4 DEF Maps, F!Next

\* What the invariant says of the call that runs.
LEMMA TopFacts ==
  ASSUME IInv, undo = None, frames # <<>>
  PROVE  /\ Top.code \in {"bought", "applied", "paid"} <=> Len(frames) = 1
         /\ Top.impl # None => Top.code = "tewaka"
         /\ Top.ro => Top.code # "create" /\ Len(frames) > 1
         /\ Top.self \in Addr /\ Top.impl \in Blob \cup {None} /\ Top.ro \in BOOLEAN /\ Top.snap \in Nat
<1>1. Framed(frames) /\ Top \in Frame
  BY RunFacts
<1>2. PICK n \in Nat : n = Len(frames) /\ n > 0 /\ n \in 1 .. n
  BY Solver, RunFacts
<1>3. /\ n = 1 <=> Top.code \in {"bought", "applied", "paid"}
      /\ Top.impl # None => Top.code = "tewaka"
      /\ Top.ro => Top.code # "create" /\ n # 1
  BY <1>1, <1>2 DEF Framed, Top
<1>4. Top.self \in Addr /\ Top.impl \in Blob \cup {None} /\ Top.ro \in BOOLEAN /\ Top.snap \in Nat
  BY <1>1 DEF Frame
<1> QED
  BY Solver, <1>2, <1>3, <1>4

\* A program has an account that is warm.
LEMMA ProgramFacts ==
  ASSUME IInv, Program
  PROVE  /\ undo = None /\ frames # <<>> /\ Core(db) /\ SoundNow(db)
         /\ Len(frames) > 1 /\ Len(frames) \in Nat /\ Len(frames) # 1
         /\ Top.impl = None /\ Top.self \in Addr /\ Acc(db)[Top.self] # None
         /\ db.al.idx[Top.self] # None
<1>1. undo = None /\ frames # <<>> /\ Top.code \in {"contract", "create"}
  BY DEF Program, Running
<1>2. Len(frames) # 1 /\ Top.impl = None /\ Top.self \in Addr
  BY <1>1, TopFacts
<1>3. Len(frames) \in Nat /\ Len(frames) > 0 /\ Core(db) /\ SoundNow(db)
  BY <1>1, RunFacts
<1>4. Len(frames) > 1
  <2>1. \A n \in Nat : n > 0 /\ n # 1 => n > 1
    BY Solver
  <2> QED
    BY <1>2, <1>3, <2>1
<1>5. Acc(db)[Top.self] # None /\ db.al.idx[Top.self] # None
  BY <1>1, <1>4, RunFacts
<1> QED
  BY <1>1, <1>2, <1>3, <1>4, <1>5

\* The frame at the top is replaced by one of the same call.
LEMMA TopSet ==
  ASSUME IInv, undo = None, frames # <<>>, NEW g, Alike(Top, g, Len(frames)),
         NEW gs, gs = [frames EXCEPT ![Len(frames)] = g]
  PROVE  Framed(gs) /\ SameRun(frames, gs) /\ gs[Len(gs)] = g
<1>1. Framed(frames)
  BY RunFacts
<1>2. gs = Retopped(frames, g) /\ Alike(frames[Len(frames)], g, Len(frames))
  BY DEF Retopped, Top
<1> QED
  BY <1>1, <1>2, FramedTop

\* A step that changes only the call that runs.
LEMMA TopMoves ==
  ASSUME IInv, undo = None, frames # <<>>, undo' = None, closing' = closing,
         Keeps(db, db'), Top.ro => Spares(Acc(db), Acc(db')), CacheOK',
         NEW g, Alike(Top, g, Len(frames)), frames' = [frames EXCEPT ![Len(frames)] = g],
         g.impl # None => g.impl = BytesOf(db')
  PROVE  IInv' /\ Maps
<1>1. PICK gs : gs = frames'
  OBVIOUS
<1>2. gs = [frames EXCEPT ![Len(frames)] = g]
  BY <1>1
<1>3. Framed(gs) /\ SameRun(frames, gs) /\ gs[Len(gs)] = g
  BY <1>2, TopSet
<1>4. Framed(frames') /\ SameRun(frames, frames') /\ frames'[Len(frames')] = g
  BY <1>1, <1>3
<1>5. Loaded(db', frames')
  BY <1>4 DEF Loaded
<1> QED
  BY <1>4, <1>5, WorkMoves

\* A TeWaka handler runs: it is not at the bottom.
LEMMA HandlerFacts ==
  ASSUME IInv, Running("tewaka")
  PROVE  /\ undo = None /\ frames # <<>> /\ Core(db) /\ CacheOK /\ Top \in Frame
         /\ Top.code = "tewaka" /\ Len(frames) # 1 /\ TeWaKa \in Addr
<1>1. undo = None /\ frames # <<>> /\ Top.code = "tewaka"
  BY DEF Running
<1>2. Len(frames) # 1
  BY <1>1, TopFacts
<1>3. Core(db) /\ CacheOK /\ Top \in Frame
  BY <1>1, RunFacts
<1> QED
  BY <1>1, <1>2, <1>3, FramesAssumption

\* A handler that loads or edits its copy of the state is still the same call.
LEMMA HandlerHolds ==
  ASSUME IInv, Running("tewaka"), NEW b \in Blob, NEW g, g = [Top EXCEPT !.impl = b]
  PROVE  Alike(Top, g, Len(frames)) /\ g.impl = b
<1>1. Top \in Frame /\ Top.code = "tewaka" /\ Len(frames) # 1
  BY HandlerFacts
<1>2. /\ g \in Frame /\ g.self = Top.self /\ g.ro = Top.ro /\ g.snap = Top.snap
      /\ g.code = "tewaka" /\ g.impl = b
  BY <1>1 DEF Frame
<1> QED
  BY <1>1, <1>2 DEF Alike

\* The transaction at the bottom goes on to its next stage.
LEMMA StageSet ==
  ASSUME IInv, undo = None, frames # <<>>, Top.code \in {"bought", "applied", "paid"},
         NEW c \in {"applied", "paid"}, NEW g, g = [Top EXCEPT !.code = c]
  PROVE  /\ Len(frames) = 1 /\ Alike(Top, g, Len(frames)) /\ g.impl = None /\ ~Top.ro
         /\ [frames EXCEPT ![1].code = c] = [frames EXCEPT ![Len(frames)] = g]
         /\ g.self = Top.self /\ g.ro = Top.ro /\ Top.self \in Addr
<1>1. Len(frames) = 1 /\ Top \in Frame /\ Top.impl = None
  BY TopFacts, RunFacts
<1>2. ~Top.ro
  <2>1. PICK n : n = Len(frames)
    OBVIOUS
  <2>2. Top.ro => n > 1
    BY <2>1, TopFacts
  <2> QED
    BY Solver, <1>1, <2>1, <2>2
<1>3. /\ g \in Frame /\ g.self = Top.self /\ g.ro = Top.ro /\ g.snap = Top.snap
      /\ g.code = c /\ g.impl = None /\ Top.self \in Addr
  BY <1>1 DEF Frame
<1>4. Alike(Top, g, Len(frames))
  BY <1>1, <1>3 DEF Alike
<1>5. [frames EXCEPT ![1].code = c] = [frames EXCEPT ![Len(frames)] = g]
  BY <1>1 DEF Top
<1> QED
  BY <1>1, <1>2, <1>3, <1>4, <1>5

\* A program calls code: the world that is saved is x's, and e is the callee's.
LEMMA EnterMoves ==
  ASSUME IInv, Program, closing' = closing,
         NEW e, NEW self \in Addr, NEW code \in {"none", "contract", "tewaka", "create"},
         NEW ro \in BOOLEAN, enter(e, db.nextRev, self, code, ro),
         NEW x, Keeps(db, x), Keeps(Snapshot(x), e),
         Top.ro => Spares(Acc(db), Acc(x)) /\ Spares(Acc(x), Acc(e)) /\ ro,
         code = "create" => ~ro,
         code # "none" => e.al.idx[self] # None /\ Acc(e)[self] # None /\ (ro => Spares(Acc(x), Acc(e))),
         World(x) = [World(db) EXCEPT !.al = x.al] \/ \E from \in Addr : Counts(db, x, from)
  PROVE  IInv' /\ Maps
<1>1. /\ db' = e /\ UNCHANGED <<undo, cache>>
      /\ frames' = IF code = "none" THEN frames ELSE Append(frames, frame(self, code, db.nextRev, ro))
  BY DEF enter
<1>2. /\ undo = None /\ frames # <<>> /\ Core(db) /\ Top.impl = None /\ undo' = None
  BY <1>1, ProgramFacts
<1>3. Framed(frames) /\ SameRun(frames, frames) /\ CacheOK /\ Good(db, frames) /\ Top \in Frame
  BY <1>2, RunFacts, SameRunSelf
<1>4. CacheOK'
  BY <1>1, <1>3 DEF CacheOK
<1>5. Top.ro => Spares(Acc(db), Acc(x)) /\ Spares(Acc(x), Acc(db'))
  BY <1>1
<1>6. Keeps(Snapshot(x), db')
  BY <1>1
<1>7. CASE code = "none"
  <2>1. frames' = frames
    BY <1>1, <1>7
  <2>2. Framed(frames') /\ SameRun(frames, frames') /\ Loaded(db', frames')
    BY <1>2, <1>3, <2>1 DEF Loaded, Top
  <2> QED
    BY <1>2, <1>4, <1>5, <1>6, <2>2, StayMoves
<1>8. CASE code # "none"
  <2>1. PICK f : f = frame(self, code, db.nextRev, ro)
    OBVIOUS
  <2>2. db.nextRev \in Nat
    BY <1>3 DEF Good, Revs
  <2>3. /\ f \in Frame /\ f.snap = db.nextRev /\ f.impl = None /\ f.self = self /\ f.ro = ro
        /\ f.code = code
    BY <1>8, <2>1, <2>2 DEF frame, Frame
  <2>4. PICK fs : fs = frames
    OBVIOUS
  <2>5. /\ Framed(fs) /\ fs # <<>> /\ fs[Len(fs)].impl = None /\ (fs[Len(fs)].ro => f.ro)
        /\ f.code \notin {"bought", "applied", "paid"} /\ (f.ro => f.code # "create")
    BY <1>2, <1>3, <2>3, <2>4 DEF Top
  <2>6. Framed(Append(fs, f))
    BY <2>3, <2>5, FramedPush
  <2>7. frames' = Append(frames, f) /\ Framed(frames')
    BY <1>1, <1>8, <2>1, <2>4, <2>6
  <2>8. Within(f, World(x), World(db'))
    BY <1>1, <1>8, <2>3, WorldFields DEF Within
  <2>9. /\ IInv' /\ F!OK /\ savedOf # <<>> /\ Len(savedOf') = Len(savedOf) + 1
        /\ savedOf'[Len(savedOf')] = World(x) /\ savedOf' = Append(savedOf, World(x))
        /\ worldOf = World(db)
    BY <1>2, <1>3, <1>4, <1>5, <1>6, <2>3, <2>7, <2>8, PushMoves
  <2>10. CASE World(x) = [World(db) EXCEPT !.al = x.al]
    BY <2>9, <2>10, CallMaps
  <2>11. CASE \E from \in Addr : Counts(db, x, from)
    BY <1>2, <2>9, <2>11, CreateMaps
  <2> QED
    BY <2>10, <2>11
<1> QED
  BY <1>7, <1>8

\* The message's first call.
LEMMA FirstMoves ==
  ASSUME IInv, Running("bought"), closing' = closing, UNCHANGED <<undo, cache>>,
         NEW x, Counts(db, x, Top.self), Keeps(Snapshot(x), db'),
         NEW to \in Addr, NEW code \in {"none", "contract", "tewaka", "create"},
         code # "none" => db'.al.idx[to] # None /\ Acc(db')[to] # None,
         NEW base, base = [frames EXCEPT ![1].code = "applied"],
         frames' = IF code = "none" THEN base ELSE Append(base, frame(to, code, x.nextRev, FALSE))
  PROVE  IInv' /\ Maps
<1>1. /\ undo = None /\ frames # <<>> /\ Top.code = "bought" /\ undo' = None
  BY DEF Running
<1>2. Core(db) /\ CacheOK /\ Good(db, frames)
  BY <1>1, RunFacts
<1>3. CacheOK'
  BY <1>2 DEF CacheOK
<1>4. PICK g : g = [Top EXCEPT !.code = "applied"]
  OBVIOUS
<1>5. /\ Alike(Top, g, Len(frames)) /\ g.impl = None /\ ~Top.ro /\ Top.self \in Addr /\ g.ro = Top.ro
      /\ base = [frames EXCEPT ![Len(frames)] = g]
  BY <1>1, <1>4, StageSet
<1>6. Framed(base) /\ SameRun(frames, base) /\ base[Len(base)] = g
  BY <1>1, <1>5, TopSet
<1>7. Keeps(db, x)
  BY DEF Counts
<1>8. x.nextRev = db.nextRev /\ db.nextRev \in Nat
  BY <1>2, <1>7 DEF Keeps, Reaches, SameRest, Good, Revs
<1>9. CASE code = "none"
  <2>1. frames' = base
    BY <1>9
  <2>2. Framed(frames') /\ SameRun(frames, frames') /\ Loaded(db', frames')
    BY <1>5, <1>6, <2>1 DEF Loaded
  <2> QED
    BY <1>1, <1>3, <1>5, <1>7, <2>2, StayMoves
<1>10. CASE code # "none"
  <2>1. PICK f : f = frame(to, code, db.nextRev, FALSE)
    OBVIOUS
  <2>2. /\ f \in Frame /\ f.snap = db.nextRev /\ f.impl = None /\ f.self = to /\ ~f.ro
        /\ f.code = code
    BY <1>8, <1>10, <2>1 DEF frame, Frame
  <2>3. base # <<>>
    <3>1. Len(frames) > 0 /\ Len(base) = Len(frames)
      BY <1>1, <1>6, RunFacts DEF SameRun
    <3> QED
      BY Solver, <3>1
  <2>4. /\ base[Len(base)].impl = None /\ (base[Len(base)].ro => f.ro)
        /\ f.code \notin {"bought", "applied", "paid"} /\ (f.ro => f.code # "create")
    BY <1>5, <1>6, <2>2
  <2>5. Framed(Append(base, f))
    BY <1>6, <2>2, <2>3, <2>4, FramedPush
  <2>6. frames' = Append(base, f) /\ Framed(frames')
    BY <1>8, <1>10, <2>1, <2>5
  <2>7. Within(f, World(x), World(db'))
    BY <1>10, <2>2, WorldFields DEF Within
  <2>8. /\ IInv' /\ F!OK /\ savedOf # <<>> /\ Len(savedOf') = Len(savedOf) + 1
        /\ savedOf'[Len(savedOf')] = World(x) /\ savedOf' = Append(savedOf, World(x))
        /\ worldOf = World(db)
    <3>1. Top.ro => Spares(Acc(db), Acc(x)) /\ Spares(Acc(x), Acc(db'))
      BY <1>5
    <3>2. Framed(base) /\ SameRun(frames, base) /\ f.snap = db.nextRev /\ f.impl = None
      BY <1>6, <2>2
    <3> QED
      BY <1>1, <1>3, <1>7, <2>6, <2>7, <3>1, <3>2, PushMoves
  <2> QED
    BY <1>2, <1>5, <2>8, CreateMaps
<1> QED
  BY <1>9, <1>10

\* The innermost call is closed: the worlds of the others stay.
LEMMA PopSaved ==
  ASSUME Good(db, frames), Framed(frames), frames # <<>>, frames' = Pop,
         NEW n \in Nat, n <= Len(db.revs), Len(db'.revs) = n, db'.nextRev = db.nextRev,
         \A k \in 1 .. n : db'.revs[k] = db.revs[k] /\ db'.past[k] = db.past[k],
         \A i \in 1 .. Len(frames) - 1 : \E k \in 1 .. n : db.revs[k].id = frames[i].snap
  PROVE  /\ Good(db', frames') /\ Framed(frames')
         /\ Len(frames') = Len(frames) - 1 /\ Len(frames) \in Nat
         /\ (Len(frames) = 1 => frames' = <<>>) /\ (Len(frames) # 1 => frames' # <<>>)
         /\ \A i \in 1 .. Len(frames') : frames'[i].impl = None
         /\ Len(savedOf) = Len(frames) /\ savedOf' = F!Front(savedOf)
<1>1. PICK m \in Nat : m + 1 = Len(frames)
  <2>1. Len(frames) \in Nat /\ Len(frames) > 0
    BY FramesLen
  <2>2. Len(frames) - 1 \in Nat /\ (Len(frames) - 1) + 1 = Len(frames)
    BY Solver, <2>1
  <2> QED
    BY <2>2
<1>2. PICK fs, gs, d, e : fs = frames /\ gs = frames' /\ d = db /\ e = db'
  OBVIOUS
<1>3. gs = SubSeq(fs, 1, Len(fs) - 1) /\ Framed(fs) /\ fs # <<>>
  BY <1>2 DEF Pop
<1>4. /\ Framed(gs) /\ Len(gs) = Len(fs) - 1 /\ (\A i \in 1 .. Len(fs) - 1 : gs[i] = fs[i])
      /\ \A i \in 1 .. Len(gs) : gs[i].impl = None
  BY <1>3, FramedPop
<1>5. Len(gs) = m /\ Len(fs) = m + 1
  BY Solver, <1>1, <1>2, <1>4
<1>6. (m = 0 => gs = <<>>) /\ (m # 0 => gs # <<>>)
  BY Solver, <1>4, <1>5 DEF Framed
<1>7. SamePlaces(d, e, fs, gs, m, n)
  <2>1. Len(gs) \in Nat /\ Len(fs) \in Nat /\ m <= Len(fs) /\ m <= Len(gs)
    BY Solver, <1>5
  <2>2. \A i \in 1 .. m : gs[i] = fs[i]
    BY <1>4, <1>5
  <2>3. /\ n <= Len(d.revs) /\ n <= Len(e.revs)
        /\ \A k \in 1 .. n : e.revs[k] = d.revs[k] /\ e.past[k] = d.past[k]
    BY Solver, <1>2
  <2>4. \A i \in 1 .. m : \E k \in 1 .. n : d.revs[k].id = fs[i].snap
    <3>1. \A i \in 1 .. m : i \in 1 .. Len(frames) - 1
      BY Solver, <1>1
    <3> QED
      BY <1>2, <3>1
  <2> QED
    BY <2>1, <2>2, <2>3, <2>4 DEF SamePlaces
<1>8. Good(d, fs) /\ Good(e, gs)
  <2>1. Good(d, fs) /\ Len(e.revs) = n /\ e.nextRev = d.nextRev
    BY <1>2
  <2> QED
    BY <1>5, <1>7, <2>1, GoodPop
<1>9. \A i \in 1 .. m : SavedIn(e, gs)[i] = SavedIn(d, fs)[i]
  BY Solver, <1>7, <1>8, SavedSame
<1>10. PICK s, t : s = SavedIn(d, fs) /\ t = SavedIn(e, gs)
  OBVIOUS
<1>11. Len(s) = m + 1 /\ Len(t) = m /\ (\E S : s \in Seq(S)) /\ (\E S : t \in Seq(S))
  BY <1>3, <1>4, <1>5, <1>10, SavedLen
<1>12. Len(s) > 0 /\ Len(t) = Len(s) - 1 /\ \A i \in 1 .. Len(t) : t[i] = s[i]
  BY Solver, <1>9, <1>10, <1>11
<1>13. t = SubSeq(s, 1, Len(s) - 1)
  BY <1>11, <1>12, SeqShrunk
<1>14. Framed(frames') /\ savedOf = s /\ savedOf' = t
  BY <1>2, <1>4, <1>10, SavedNow
<1>15. savedOf' = F!Front(savedOf) /\ Len(savedOf) = Len(frames)
  BY <1>1, <1>11, <1>13, <1>14 DEF F!Front
<1>16. Len(frames') = Len(frames) - 1 /\ Len(frames) \in Nat /\ (Len(frames) = 1 <=> m = 0)
  BY Solver, <1>1, <1>2, <1>5
<1> QED
  BY <1>2, <1>4, <1>6, <1>8, <1>14, <1>15, <1>16

\* A call that fails finds its revision.
LEMMA FailMoves == ASSUME IInv, RevertToSnapshot PROVE IInv' /\ Maps
<1>1. /\ undo = None /\ frames # <<>> /\ undo' = searchRevision(db, Top.snap)
      /\ UNCHANGED <<db, frames, cache, closing>>
  BY DEF RevertToSnapshot, NoStep
<1>2. /\ Live(db, frames) /\ Good(db, frames) /\ CacheOK /\ ~closing /\ Framed(frames)
      /\ Len(frames) \in Nat /\ Len(frames) > 0
  BY <1>1, RunFacts
<1>3. PICK m \in Nat : m = Len(frames) /\ m > 0
  BY <1>2
<1>4. m \in 1 .. Len(frames)
  BY Solver, <1>3
<1>5. Revs(db) /\ Top.snap \in Nat /\ Held(db, Top.snap)
  BY <1>2, <1>3, <1>4 DEF Good, Snaps, Top
<1>6. PICK i : i = undo'
  OBVIOUS
<1>7. i \in 1 .. Len(db.revs) /\ db.revs[i].id = Top.snap
  BY <1>1, <1>5, <1>6, SearchHits
<1>8. i # None
  BY Solver, <1>7, StateDBAssumption
<1>9. Base(db, frames, i)
  BY <1>2, <1>7, BaseFail
<1>10. IInv'
  BY <1>1, <1>2, <1>6, <1>7, <1>8, <1>9 DEF IInv, Undoing, Top, CacheOK
<1>11. SavedIn(db, frames)[m] = db.past[i]
  BY Solver, <1>2, <1>3, <1>4, <1>7, SavedAt DEF Top
<1>12. savedOf = SavedIn(db, frames) /\ savedOf' = savedOf
  BY <1>1, <1>2, SavedNow
<1>13. Len(savedOf) = m /\ savedOf # <<>>
  BY <1>1, <1>2, <1>3, <1>12, SavedLen
<1>14. worldOf' = db.past[i]
  BY <1>1, <1>6, <1>8 DEF worldOf
<1>15. F!Fail
  BY <1>1, <1>2, <1>6, <1>8, <1>11, <1>12, <1>13, <1>14 DEF F!Fail
<1> QED
  BY <1>10, <1>15 DEF Maps, F!Next

\* What the invariant says while the journal is undone.
LEMMA UndoingFacts ==
  ASSUME IInv, undo # None
  PROVE  /\ Base(db, frames, undo) /\ Framed(frames) /\ Good(db, frames) /\ frames # <<>>
         /\ undo \in 1 .. Len(db.revs) /\ db.revs[undo].id = Top.snap
         /\ ~closing /\ CacheOK /\ Len(frames) \in Nat /\ Len(frames) > 0 /\ Len(db.revs) \in Nat
<1>1. Base(db, frames, undo) /\ Framed(frames) /\ CacheOK /\ PastOK(db)
  BY DEF IInv, Base
<1>2. Good(db, frames) /\ Undoing /\ ~closing
  BY DEF IInv
<1> QED
  BY <1>1, <1>2, FramesLen, RevsLen DEF Undoing

\* Undoing an entry is no step of Frames.
LEMMA RevertMoves == ASSUME IInv, revert PROVE IInv' /\ Maps
<1>1. /\ undo # None /\ Len(db.journal) > db.revs[undo].index /\ db' = undoLast(db)
      /\ UNCHANGED <<frames, undo, cache, closing>>
  BY DEF revert, NoStep
<1>2. /\ Base(db, frames, undo) /\ Framed(frames) /\ frames # <<>> /\ undo \in 1 .. Len(db.revs)
      /\ CacheOK /\ Good(db, frames) /\ db.revs[undo].id = Top.snap /\ ~closing
  BY <1>1, UndoingFacts
<1>3. Base(db', frames, undo) /\ SameRest(db, db')
  BY <1>1, <1>2, BaseUndo
<1>4. db'.revs = db.revs /\ db'.past = db.past /\ db'.nextRev = db.nextRev
  BY <1>3 DEF SameRest
<1>5. IInv'
  <2>1. Good(db', frames)
    BY <1>2, <1>4, GoodWork, SameRunSelf
  <2> QED
    BY <1>1, <1>2, <1>3, <1>4, <2>1 DEF IInv, Undoing, Top, CacheOK
<1>6. SavedIn(db', frames) = SavedIn(db, frames)
  BY Solver, <1>4, SavedWork, SameRunSelf
<1>7. savedOf' = savedOf
  BY <1>1, <1>2, <1>6, SavedNow
<1>8. worldOf' = worldOf
  BY <1>1, <1>4 DEF worldOf
<1>9. UNCHANGED F!fvars
  BY <1>1, <1>7, <1>8 DEF F!fvars
<1> QED
  BY <1>5, <1>9 DEF Maps

\* When the journal is back at its revision, the world is the saved one.
LEMMA RevertedMoves == ASSUME IInv, reverted PROVE IInv' /\ Maps
<1>1. /\ undo # None /\ Len(db.journal) <= db.revs[undo].index /\ db' = dropRevisions(db, undo)
      /\ frames' = Pop /\ undo' = None /\ UNCHANGED <<cache, closing>>
  BY DEF reverted, NoStep
<1>2. /\ Base(db, frames, undo) /\ Framed(frames) /\ Good(db, frames) /\ frames # <<>>
      /\ undo \in 1 .. Len(db.revs) /\ db.revs[undo].id = Top.snap
      /\ ~closing /\ CacheOK /\ Len(frames) \in Nat /\ Len(frames) > 0 /\ Len(db.revs) \in Nat
  BY <1>1, UndoingFacts
<1>3. PICK n \in Nat : n + 1 = undo
  <2>1. undo - 1 \in Nat /\ (undo - 1) + 1 = undo
    BY Solver, <1>2
  <2> QED
    BY <2>1
<1>4. /\ Core(db') /\ SoundNow(db') /\ World(db') = db.past[undo]
      /\ Len(frames) = 1 => db'.journal = <<>> /\ db'.revs = <<>> /\ db'.past = <<>> /\ db'.refund = 0
      /\ Len(frames) # 1 => Live(db', frames')
  BY Solver, <1>1, <1>2, LiveBack DEF Top, Pop
<1>5. PICK revs, past : revs = db.revs /\ past = db.past
  OBVIOUS
<1>6. /\ (\E S : revs \in Seq(S)) /\ (\E S : past \in Seq(S)) /\ Len(past) = Len(revs)
      /\ undo \in 1 .. Len(revs) /\ undo \in 1 .. Len(past)
  BY <1>2, <1>5 DEF Base, PastOK
<1>7. /\ db'.revs = SubSeq(revs, 1, undo - 1) /\ db'.past = SubSeq(past, 1, undo - 1)
      /\ db'.nextRev = db.nextRev
  BY <1>1, <1>2, <1>5, RevisionsDropped DEF Base
<1>8. /\ Len(db'.revs) = undo - 1
      /\ (\A k \in 1 .. undo - 1 : db'.revs[k] = revs[k]) /\ (\A k \in 1 .. undo - 1 : db'.past[k] = past[k])
  BY Solver, <1>6, <1>7, Shortened
<1>9. undo - 1 = n /\ n <= Len(db.revs)
  BY Solver, <1>2, <1>3
<1>10. /\ n <= Len(db.revs) /\ Len(db'.revs) = n
       /\ \A k \in 1 .. n : db'.revs[k] = db.revs[k] /\ db'.past[k] = db.past[k]
  BY <1>5, <1>8, <1>9
<1>11. \A i \in 1 .. Len(frames) - 1 : \E k \in 1 .. n : db.revs[k].id = frames[i].snap
  <2> SUFFICES ASSUME NEW i \in 1 .. Len(frames) - 1
               PROVE  \E k \in 1 .. n : db.revs[k].id = frames[i].snap
    OBVIOUS
  <2>1. i \in 1 .. Len(frames) /\ Len(frames) \in 1 .. Len(frames) /\ i < Len(frames)
    BY Solver, <1>2
  <2>2. PICK k \in 1 .. Len(db.revs) : db.revs[k].id = frames[i].snap
    BY <1>2, <2>1 DEF Good, Snaps, Held
  <2>3. /\ frames[i].snap < frames[Len(frames)].snap
        /\ frames[i].snap \in Nat /\ frames[Len(frames)].snap \in Nat
    BY <1>2, <2>1 DEF Good, Snaps
  <2>4. db.revs[k].id < db.revs[undo].id /\ db.revs[k].id \in Nat /\ db.revs[undo].id \in Nat
    BY <1>2, <2>2, <2>3 DEF Top
  <2>5. ~ (undo < k)
    <3>1. undo < k => db.revs[undo].id < db.revs[k].id
      BY <1>2, <2>2 DEF Good, Revs
    <3> QED
      BY Solver, <2>4, <3>1
  <2>6. k # undo
    BY Solver, <2>4
  <2>7. k < n + 1
    BY Solver, <1>2, <1>3, <2>2, <2>5, <2>6
  <2>8. k \in 1 .. n
    BY Solver, <2>2, <2>7, <1>2
  <2> QED
    BY <2>2, <2>8
<1>12. /\ Good(db', frames') /\ Framed(frames') /\ Len(frames') = Len(frames) - 1 /\ Len(frames) \in Nat
       /\ (Len(frames) = 1 => frames' = <<>>) /\ (Len(frames) # 1 => frames' # <<>>)
       /\ (\A i \in 1 .. Len(frames') : frames'[i].impl = None)
       /\ savedOf' = F!Front(savedOf)
  BY <1>1, <1>2, <1>7, <1>10, <1>11, PopSaved
<1>13. frames' # <<>> => Live(db', frames') /\ Loaded(db', frames')
  <2>1. HAVE frames' # <<>>
  <2>2. Len(frames) # 1 /\ Len(frames') \in Nat /\ Len(frames') > 0
    BY <1>12, <2>1, FramesLen
  <2>3. frames'[Len(frames')].impl = None
    BY Solver, <1>12, <2>2
  <2> QED
    BY <1>4, <2>2, <2>3 DEF Loaded
<1>14. frames' = <<>> => Core(db') /\ SoundNow(db') /\ Idle(db')
  BY <1>4, <1>12 DEF Idle
<1>15. IInv'
  BY <1>1, <1>2, <1>12, <1>13, <1>14 DEF IInv, Undoing, CacheOK
<1>16. worldOf = db.past[undo] /\ worldOf' = World(db')
  BY <1>1 DEF worldOf
<1>17. F!Failed
  BY <1>1, <1>2, <1>4, <1>12, <1>16 DEF F!Failed
<1> QED
  BY <1>15, <1>17 DEF Maps, F!Next

\* No world is saved when no call is open.
LEMMA NoneSaved == (frames = <<>> => savedOf = <<>>) /\ (frames' = <<>> => savedOf' = <<>>)
<1>1. frames = <<>> => savedOf = <<>>
  BY Solver DEF savedOf
<1>2. frames' = <<>> => savedOf' = <<>>
  BY Solver DEF savedOf
<1> QED
  BY <1>1, <1>2

\* Nothing is open: the facts about the state alone.
LEMMA RestFacts ==
  ASSUME IInv, frames = <<>>
  PROVE  /\ Core(db) /\ SoundNow(db) /\ (~closing => Idle(db)) /\ CacheOK /\ undo = None
         /\ db.nextRev \in Nat /\ savedOf = <<>> /\ worldOf = World(db)
<1>1. undo = None
  BY DEF IInv, Undoing
<1>2. savedOf = <<>> /\ worldOf = World(db)
  BY <1>1, NoneSaved DEF worldOf
<1> QED
  BY <1>1, <1>2 DEF IInv, Good, Revs

\* A step that changes nothing.
LEMMA StutterMoves == ASSUME IInv, UNCHANGED vars PROVE IInv' /\ Maps
<1>1. UNCHANGED <<db, frames, undo, cache, closing>>
  BY DEF vars
<1>2. IInv'
  BY <1>1 DEF IInv, Undoing, Top, CacheOK
<1>3. UNCHANGED F!fvars
  BY <1>1 DEF F!fvars, worldOf, savedOf, Saved
<1> QED
  BY <1>2, <1>3 DEF Maps

(***************************************************************************)
(* The steps of a call, given what they do to the database.                *)
(***************************************************************************)

\* A call returns: its revision stays in the list.
LEMMA ReturnMoves ==
  ASSUME IInv, succeed, NEW a \in Addr, Keeps(db, db'), Top.ro => Spares(Acc(db), Acc(db')),
         \/ db' = db
         \/ SameCounts(db, db') /\ Acc(db') = [Acc(db) EXCEPT ![a] = [Found(Acc(db)[a]) EXCEPT !.code = TRUE]]
  PROVE  IInv' /\ Maps
<1>1. /\ undo = None /\ Len(frames) > 1 /\ frames' = Pop /\ UNCHANGED <<undo, cache, closing>>
      /\ db' = IF Top.code = "create" THEN SetCode(db, Top.self) ELSE db
  BY DEF succeed, NoStep
<1>2. frames # <<>>
  BY Solver, <1>1
<1>3. /\ Live(db, frames) /\ Core(db) /\ Framed(frames) /\ Good(db, frames) /\ CacheOK /\ ~closing
      /\ Len(frames) \in Nat /\ Acc(db)[Top.self] # None /\ Top.self \in Addr
      /\ (Top.ro => Top.code # "create")
  BY <1>1, <1>2, RunFacts, TopFacts
<1>4. Live(db', frames)
  BY <1>2, <1>3, LiveWork, SameRunSelf DEF Top
<1>5. Live(db', frames')
  BY <1>1, <1>4, LivePop DEF Pop
<1>6. db'.revs = db.revs /\ db'.past = db.past /\ db'.nextRev = db.nextRev
  BY DEF Keeps, Reaches, SameRest
<1>7. PICK n \in Nat : n = Len(db.revs)
  BY <1>3 DEF Good, Revs
<1>8. /\ n <= Len(db.revs) /\ Len(db'.revs) = n
       /\ (\A k \in 1 .. n : db'.revs[k] = db.revs[k] /\ db'.past[k] = db.past[k])
       /\ \A i \in 1 .. Len(frames) - 1 : \E k \in 1 .. n : db.revs[k].id = frames[i].snap
  <2>1. \A i \in 1 .. Len(frames) - 1 : i \in 1 .. Len(frames)
    BY Solver, <1>3
  <2> QED
    BY Solver, <1>3, <1>6, <1>7, <2>1 DEF Good, Snaps, Held
<1>9. /\ Framed(frames') /\ Len(frames') = Len(frames) - 1 /\ (Len(frames) # 1 => frames' # <<>>)
       /\ (\A i \in 1 .. Len(frames') : frames'[i].impl = None)
       /\ Len(savedOf) = Len(frames) /\ savedOf' = F!Front(savedOf) /\ Good(db', frames')
  BY <1>1, <1>2, <1>3, <1>6, <1>8, PopSaved
<1>10. PICK m \in Nat : m = Len(frames) /\ m > 1
  BY <1>1, <1>3
<1>11. frames' # <<>> /\ Len(frames') \in 1 .. Len(frames')
  BY Solver, <1>9, <1>10
<1>12. Loaded(db', frames')
  BY <1>9, <1>11 DEF Loaded
<1>13. IInv'
  BY <1>1, <1>3, <1>5, <1>9, <1>11, <1>12 DEF IInv, Undoing, CacheOK
<1>14. Len(savedOf) > 1 /\ F!OK /\ worldOf = World(db) /\ worldOf' = World(db')
  BY <1>1, <1>3, <1>9 DEF F!OK, worldOf
<1>15. PICK u, w : u = World(db) /\ w = World(db')
  OBVIOUS
<1>16. \/ w = u
       \/ /\ w = [u EXCEPT !.acc[a] = w.acc[a]]
          /\ u.acc[a] # None => w.acc[a] = [u.acc[a] EXCEPT !.code = TRUE]
  <2>1. CASE db' = db
    BY <1>15, <2>1
  <2>2. CASE /\ SameCounts(db, db')
             /\ Acc(db') = [Acc(db) EXCEPT ![a] = [Found(Acc(db)[a]) EXCEPT !.code = TRUE]]
    <3>1. PICK g : g = [Found(Acc(db)[a]) EXCEPT !.code = TRUE]
      OBVIOUS
    <3>2. Acc(db') = [Acc(db) EXCEPT ![a] = g]
      BY <2>2, <3>1
    <3>3. Acc(db')[a] = g
      BY <3>2 DEF Acc
    <3>4. /\ u = [acc |-> Acc(db), al |-> db.al, refund |-> db.refund, logs |-> db.logs]
          /\ w = [acc |-> Acc(db'), al |-> db'.al, refund |-> db'.refund, logs |-> db'.logs]
      BY <1>15 DEF World, Acc
    <3>5. w = [u EXCEPT !.acc = Acc(db')] /\ u.acc = Acc(db) /\ w.acc = Acc(db')
      <4>1. PICK p, q, x, y, z : p = Acc(db) /\ q = Acc(db') /\ x = db.al /\ y = db.refund /\ z = db.logs
        OBVIOUS
      <4>2. db'.al = x /\ db'.refund = y /\ db'.logs = z
        BY <2>2, <4>1 DEF SameCounts
      <4>3. u = [acc |-> p, al |-> x, refund |-> y, logs |-> z] /\ w = [acc |-> q, al |-> x, refund |-> y, logs |-> z]
        BY <3>4, <4>1, <4>2
      <4>4. w = [u EXCEPT !.acc = q] /\ u.acc = p /\ w.acc = q
        BY Solver, <4>3
      <4> QED
        BY <4>1, <4>4
    <3>6. PICK x : x = w.acc[a]
      OBVIOUS
    <3>7. w = [u EXCEPT !.acc[a] = x]
      BY Solver, <3>2, <3>3, <3>5, <3>6
    <3>8. u.acc[a] # None => x = [u.acc[a] EXCEPT !.code = TRUE]
      BY <3>1, <3>3, <3>5, <3>6 DEF Found
    <3> QED
      BY <3>6, <3>7, <3>8
  <2> QED
    BY <2>1, <2>2
<1>17. F!Return
  BY <1>9, <1>14, <1>15, <1>16 DEF F!Return
<1> QED
  BY <1>13, <1>17 DEF Maps, F!Next

\* A transaction begins: p is the database that Prepare leaves.
LEMMA OpenMoves ==
  ASSUME IInv, NEW from \in Senders, NEW fee \in Fees, commitTransaction(from, fee),
         NEW p, Core(p), SoundNow(p), PastOK(p), p.revs = <<>>, Linked(p, Len(p.revs)),
         p.journal = <<>>, p.past = <<>>, p.nextRev = db.nextRev,
         World(p) = [World(db) EXCEPT !.al = p.al],
         NEW s, s = Snapshot(p), Keeps(s, db')
  PROVE  IInv' /\ Maps
<1>1. /\ frames = <<>> /\ ~closing /\ UNCHANGED <<undo, cache, closing>>
      /\ frames' = <<frame(from, "bought", db.nextRev, FALSE)>>
  BY DEF commitTransaction
<1>2. /\ Core(db) /\ SoundNow(db) /\ Idle(db) /\ CacheOK /\ undo = None
      /\ db.nextRev \in Nat /\ savedOf = <<>> /\ worldOf = World(db)
  BY <1>1, RestFacts
<1>3. /\ PastOK(s) /\ Len(s.revs) = Len(p.revs) + 1 /\ Linked(s, Len(s.revs))
      /\ s.revs[Len(s.revs)].id = p.nextRev /\ s.past[Len(s.revs)] = World(p)
  BY LinkedShot
<1>4. /\ s.revs = Append(p.revs, [id |-> p.nextRev, index |-> Len(p.journal)])
      /\ s.nextRev = p.nextRev + 1
  BY SnapshotTaken
<1>5. Core(s) /\ SoundNow(s)
  BY SnapshotTaken DEF SameState, SoundNow
<1>6. Len(s.revs) = 1 /\ s.revs[1].id = db.nextRev /\ s.revs[1].index = 0 /\ s.past[1] = World(p)
  <2>1. Len(<<>>) = 0
    OBVIOUS
  <2>2. Len(s.revs) = 1
    BY Solver, <1>3, <2>1
  <2>3. PICK r : r = [id |-> p.nextRev, index |-> Len(p.journal)]
    OBVIOUS
  <2>4. s.revs = Append(<<>>, r) /\ r.index = 0
    BY <1>4, <2>1, <2>3
  <2>5. Append(<<>>, r)[1] = r
    BY Solver
  <2> QED
    BY <1>3, <2>2, <2>4, <2>5
<1>7. from \in Addr /\ fee \in Int
  BY Solver, FramesAssumption
<1>8. /\ Core(db') /\ SoundNow(db') /\ db'.revs = s.revs /\ db'.past = s.past
       /\ db'.nextRev = s.nextRev
  BY <1>5 DEF Keeps, Reaches, SameRest
<1>9. PICK one \in Nat : one = 1
  OBVIOUS
<1>10. Linked(db', one) /\ Len(db'.revs) = one /\ PastOK(db')
  <2>1. Linked(s, one)
    BY <1>3, <1>6, <1>9
  <2>2. Linked(db', one)
    BY <2>1, LinkedKeeps
  <2> QED
    BY <1>3, <1>6, <1>8, <1>9, <2>2 DEF PastOK
<1>11. PICK f : f = frame(from, "bought", db.nextRev, FALSE)
  OBVIOUS
<1>12. /\ f \in Frame /\ f.code = "bought" /\ f.impl = None /\ ~f.ro /\ f.snap = db.nextRev
  BY <1>2, <1>7, <1>11 DEF frame, Frame
<1>13. frames' = <<f>> /\ Len(frames') = 1 /\ frames'[1] = f /\ frames' \in Seq(Frame) /\ frames' # <<>>
  <2>1. <<f>> \in Seq(Frame) /\ Len(<<f>>) = 1 /\ <<f>>[1] = f /\ <<f>> # <<>>
    BY Solver, <1>12
  <2>2. frames' = <<f>>
    BY <1>1, <1>11
  <2> QED
    BY <2>1, <2>2
<1>14. Framed(frames')
  <2>1. PICK gs : gs = frames'
    OBVIOUS
  <2>2. gs \in Seq(Frame) /\ gs[1] = f /\ \A i \in 1 .. Len(gs) : i = 1
    BY Solver, <1>13, <2>1
  <2>3. /\ \A i \in 1 .. Len(gs) :
            /\ i = 1 <=> gs[i].code \in {"bought", "applied", "paid"}
            /\ gs[i].impl # None => i = Len(gs) /\ gs[i].code = "tewaka"
            /\ gs[i].ro => gs[i].code # "create" /\ i # 1
        /\ \A i, j \in 1 .. Len(gs) : i < j /\ gs[i].ro => gs[j].ro
    BY <1>12, <2>2
  <2>4. Framed(gs)
    BY <2>2, <2>3 DEF Framed
  <2> QED
    BY <2>1, <2>4
<1>15. Bottom(db', frames')
  BY Solver, <1>6, <1>8, <1>12, <1>13 DEF Bottom
<1>16. Insides(db', frames') /\ Inside(db', frames', Len(db'.revs), World(db'))
  BY Solver, <1>13 DEF Insides, Inside
<1>17. Live(db', frames')
  BY <1>8, <1>10, <1>14, <1>15, <1>16 DEF Live, Base
<1>18. Loaded(db', frames')
  BY <1>12, <1>13 DEF Loaded
<1>19. Good(db', frames')
  BY Solver, <1>2, <1>4, <1>6, <1>8, <1>12, <1>13, GoodFirst
<1>20. IInv'
  BY <1>1, <1>2, <1>13, <1>17, <1>18, <1>19 DEF IInv, Undoing, CacheOK
<1>21. PICK t : t = SavedIn(db', frames')
  OBVIOUS
<1>22. t[1] = World(p)
  <2>1. 1 \in 1 .. Len(frames') /\ 1 \in 1 .. Len(db'.revs)
    BY Solver, <1>9, <1>10, <1>13
  <2>2. db'.revs[1].id = frames'[1].snap /\ db'.past[1] = World(p)
    BY <1>6, <1>8, <1>12, <1>13
  <2> QED
    BY Solver, <1>19, <1>21, <2>1, <2>2, SavedAt
<1>23. Len(t) = 1 /\ \E S : t \in Seq(S)
  <2>1. PICK e, gs : e = db' /\ gs = frames'
    OBVIOUS
  <2>2. Framed(gs) /\ t = SavedIn(e, gs) /\ Len(gs) = 1
    BY <1>13, <1>14, <1>21, <2>1
  <2>3. Len(SavedIn(e, gs)) = Len(gs) /\ \E S : SavedIn(e, gs) \in Seq(S)
    BY <2>2, SavedLen
  <2> QED
    BY <2>2, <2>3
<1>24. t = <<World(p)>>
  <2>1. PICK S : t \in Seq(S)
    BY <1>23
  <2>2. t = <<t[1]>>
    BY Solver, <1>23, <2>1
  <2> QED
    BY <1>22, <2>2
<1>25. savedOf' = t
  BY <1>14, <1>21, SavedNow
<1>26. PICK w, v : w = World(db) /\ v = World(p)
  OBVIOUS
<1>27. v = [w EXCEPT !.al = v.al]
  BY <1>26, WorldFields
<1>28. F!Begin
  <2>1. F!OK
    BY <1>1, <1>2 DEF F!OK
  <2>2. savedOf' = <<v>> /\ Len(savedOf') = 1 /\ savedOf'[1] = v /\ worldOf = w
    BY <1>2, <1>23, <1>24, <1>25, <1>26
  <2> QED
    BY <1>2, <1>27, <2>1, <2>2 DEF F!Begin
<1> QED
  BY <1>20, <1>28 DEF Maps, F!Next

\* Accounts move, the counters do not.
LEMMA OnlyAccounts ==
  ASSUME NEW d, NEW e, SameCounts(d, e) PROVE World(e) = [World(d) EXCEPT !.acc = World(e).acc]
<1>1. PICK p, q, x, y, z : p = Acc(d) /\ q = Acc(e) /\ x = d.al /\ y = d.refund /\ z = d.logs
  OBVIOUS
<1>2. /\ World(d) = [acc |-> Acc(d), al |-> d.al, refund |-> d.refund, logs |-> d.logs]
      /\ World(e) = [acc |-> Acc(e), al |-> e.al, refund |-> e.refund, logs |-> e.logs]
  BY DEF World, Acc
<1>3. /\ World(d) = [acc |-> p, al |-> x, refund |-> y, logs |-> z]
      /\ World(e) = [acc |-> q, al |-> x, refund |-> y, logs |-> z]
  BY <1>1, <1>2 DEF SameCounts
<1> QED
  BY Solver, <1>3

\* The end of a block pays into accounts.
LEMMA PayoutMoves ==
  ASSUME IInv, NEW sweeps \in BOOLEAN, Finalize(sweeps), Keeps(db, db'), SameCounts(db, db')
  PROVE  IInv' /\ Maps
<1>1. /\ frames = <<>> /\ ~closing /\ closing' /\ UNCHANGED <<frames, undo, cache>>
  BY DEF Finalize
<1>2. Core(db) /\ SoundNow(db) /\ CacheOK /\ undo = None /\ savedOf = <<>> /\ worldOf = World(db)
  BY <1>1, RestFacts
<1>3. Core(db') /\ SoundNow(db') /\ Good(db', frames)
  <2>1. Good(db, frames) /\ db'.revs = db.revs /\ db'.nextRev = db.nextRev
    BY DEF IInv, Keeps, Reaches, SameRest
  <2> QED
    BY <1>2, <2>1, GoodWork, SameRunSelf DEF Keeps
<1>4. IInv'
  BY <1>1, <1>2, <1>3 DEF IInv, Undoing, CacheOK
<1>5. savedOf' = <<>> /\ worldOf' = World(db')
  BY <1>1, <1>2, NoneSaved DEF worldOf
<1>6. World(db') = [World(db) EXCEPT !.acc = World(db').acc]
  BY OnlyAccounts
<1>7. F!Reward
  BY <1>1, <1>2, <1>5, <1>6 DEF F!Reward
<1> QED
  BY <1>4, <1>7 DEF Maps, F!Next

\* The transaction is closed: some of the empty accounts go.
LEMMA CloseMoves ==
  ASSUME IInv, applyTransaction, Core(db'), SoundNow(db'), db'.journal = <<>>, db'.revs = <<>>,
         db'.past = <<>>, db'.al = db.al, db'.logs = db.logs, db'.nextRev = db.nextRev,
         db'.refund = IF db.journal = <<>> THEN db.refund ELSE 0,
         NEW some \in SUBSET F!Empty(World(db)),
         World(db').acc = F!Settled(World(db), F!Destroyed(World(db)) \cup some)
  PROVE  IInv' /\ Maps
<1>1. /\ undo = None /\ frames # <<>> /\ Top.code = "paid" /\ frames' = <<>>
      /\ UNCHANGED <<undo, cache, closing>>
  BY DEF applyTransaction, Running, NoStep
<1>2. /\ Live(db, frames) /\ Core(db) /\ SoundNow(db) /\ Framed(frames) /\ ~closing /\ CacheOK
      /\ Good(db, frames)
  BY <1>1, RunFacts
<1>3. Len(frames) = 1
  BY <1>1, TopFacts
<1>4. db'.refund = 0
  <2>1. db.journal = <<>> => db.refund = 0
    BY <1>2, NothingEarned DEF Live, Base
  <2> QED
    BY <2>1
<1>5. IInv'
  <2>1. Good(db', <<>>)
    BY <1>2, GoodNone DEF Good, Revs
  <2> QED
    BY <1>1, <1>2, <1>4, <2>1 DEF IInv, Undoing, CacheOK, Idle
<1>6. /\ worldOf = World(db) /\ worldOf' = World(db') /\ savedOf' = <<>> /\ F!OK
      /\ Len(savedOf) = 1
  <2>1. savedOf = SavedIn(db, frames) /\ savedOf' = <<>>
    BY <1>1, <1>2, SavedNow, NoneSaved
  <2>2. Len(savedOf) = 1
    BY <1>2, <1>3, <2>1, SavedLen
  <2> QED
    BY <1>1, <1>2, <2>1, <2>2 DEF worldOf, F!OK
<1>7. PICK w, v, s : /\ w = World(db) /\ v = World(db')
                      /\ s = F!Settled(World(db), F!Destroyed(World(db)) \cup some)
  OBVIOUS
<1>8. v = [w EXCEPT !.acc = s, !.refund = 0]
  <2>1. PICK p, x, y, z : p = Acc(db) /\ x = db.al /\ y = db.refund /\ z = db.logs
    OBVIOUS
  <2>2. /\ w = [acc |-> Acc(db), al |-> db.al, refund |-> db.refund, logs |-> db.logs]
        /\ v = [acc |-> Acc(db'), al |-> db'.al, refund |-> db'.refund, logs |-> db'.logs]
    BY <1>7 DEF World, Acc
  <2>3. Acc(db') = s
    <3>1. World(db').acc = s
      BY <1>7
    <3> QED
      BY <3>1 DEF World, Acc
  <2>4. w = [acc |-> p, al |-> x, refund |-> y, logs |-> z] /\ v = [acc |-> s, al |-> x, refund |-> 0, logs |-> z]
    BY <1>4, <2>1, <2>2, <2>3
  <2>5. PICK r : r = 0
    OBVIOUS
  <2>6. v = [acc |-> s, al |-> x, refund |-> r, logs |-> z]
    BY <2>4, <2>5
  <2>7. PICK t : t = [w EXCEPT !.acc = s]
    OBVIOUS
  <2>8. t = [acc |-> s, al |-> x, refund |-> y, logs |-> z]
    BY <2>4, <2>7
  <2>9. v = [t EXCEPT !.refund = r]
    BY Solver, <2>6, <2>8
  <2> QED
    BY <2>5, <2>7, <2>9
<1>9. F!Finish
  <2>1. /\ worldOf' = [worldOf EXCEPT !.acc = F!Settled(worldOf, F!Destroyed(worldOf) \cup some), !.refund = 0]
        /\ some \in SUBSET F!Empty(worldOf)
    BY <1>6, <1>7, <1>8
  <2> QED
    BY <1>6, <2>1 DEF F!Finish
<1> QED
  BY <1>5, <1>9 DEF Maps, F!Next

\* A program halts, and its account may be destroyed.
LEMMA HaltMoves ==
  ASSUME IInv, Program, ~Top.ro, cache' = cache, closing' = closing, undo' = undo,
         frames' = [frames EXCEPT ![Len(frames)].code = "halted"], Keeps(db, db')
  PROVE  IInv' /\ Maps
<1>1. /\ undo = None /\ frames # <<>> /\ Core(db) /\ Top.self \in Addr /\ Top.impl = None
      /\ Len(frames) > 1 /\ Len(frames) \in Nat
  BY ProgramFacts
<1>2. Framed(frames) /\ CacheOK /\ Top \in Frame
  BY <1>1, RunFacts
<1>3. PICK g : g = [Top EXCEPT !.code = "halted"]
  OBVIOUS
<1>4. /\ g \in Frame /\ g.self = Top.self /\ g.ro = Top.ro /\ g.snap = Top.snap /\ g.impl = Top.impl
      /\ g.code = "halted"
  BY <1>2, <1>3 DEF Frame
<1>5. frames' = [frames EXCEPT ![Len(frames)] = g]
  BY <1>3 DEF Top
<1>6. Framed(frames') /\ SameRun(frames, frames') /\ frames'[Len(frames')] = g
  <2>1. Alike(Top, g, Len(frames))
    <3>1. Len(frames) # 1
      BY ProgramFacts
    <3>2. g.code \notin {"bought", "applied", "paid", "create"}
      BY <1>4
    <3> QED
      BY <1>1, <1>4, <3>1, <3>2 DEF Alike
  <2>2. PICK gs : gs = frames'
    OBVIOUS
  <2>3. gs = [frames EXCEPT ![Len(frames)] = g]
    BY <1>5, <2>2
  <2>4. Framed(gs) /\ SameRun(frames, gs) /\ gs[Len(gs)] = g
    BY <1>1, <2>1, <2>3, TopSet
  <2> QED
    BY <2>2, <2>4
<1>7. Loaded(db', frames') /\ CacheOK'
  BY <1>1, <1>2, <1>4, <1>6 DEF Loaded, CacheOK
<1> QED
  BY <1>1, <1>6, <1>7, WorkMoves

\* A handler has loaded or saved the lists that its account shows.
LEMMA HandlerMoves ==
  ASSUME IInv, Running("tewaka"), undo' = undo, closing' = closing, NEW b \in Blob,
         frames' = [frames EXCEPT ![Len(frames)].impl = b], cache' = [cache EXCEPT ![b] = b],
         Keeps(db, db'), Spares(Acc(db), Acc(db')), BytesOf(db') = b
  PROVE  IInv' /\ Maps
<1>1. undo = None /\ frames # <<>> /\ CacheOK
  BY HandlerFacts
<1>2. CacheOK'
  BY <1>1 DEF CacheOK
<1>3. PICK g : g = [Top EXCEPT !.impl = b]
  OBVIOUS
<1>4. Alike(Top, g, Len(frames)) /\ g.impl = b
  BY <1>3, HandlerHolds
<1>5. frames' = [frames EXCEPT ![Len(frames)] = g]
  BY <1>3 DEF Top
<1> QED
  BY <1>1, <1>2, <1>4, <1>5, TopMoves

\* The transaction at the bottom goes on without a call.
LEMMA StageMoves ==
  ASSUME IInv, undo = None, frames # <<>>, Top.code \in {"bought", "applied", "paid"},
         NEW c \in {"applied", "paid"}, frames' = [frames EXCEPT ![1].code = c],
         undo' = undo, cache' = cache, closing' = closing, Keeps(db, db')
  PROVE  IInv' /\ Maps
<1>1. PICK g : g = [Top EXCEPT !.code = c]
  OBVIOUS
<1>2. /\ Alike(Top, g, Len(frames)) /\ g.impl = None /\ ~Top.ro
      /\ frames' = [frames EXCEPT ![Len(frames)] = g]
  BY <1>1, StageSet
<1>3. CacheOK'
  BY RunFacts DEF CacheOK
<1> QED
  BY <1>2, <1>3, TopMoves

\* The database is well formed throughout.
LEMMA IInvCore == ASSUME IInv PROVE Core(db)
<1>1. CASE undo # None
  BY <1>1 DEF IInv, Base
<1>2. CASE undo = None /\ frames # <<>>
  BY <1>2 DEF IInv, Live, Base
<1>3. CASE frames = <<>>
  BY <1>3 DEF IInv
<1> QED
  BY <1>1, <1>2, <1>3

\* What the invariant implies.
LEMMA IInvRefund == ASSUME IInv PROVE RefundNotNegative
<1>1. db.refund \in Nat
  BY IInvCore DEF Core, CountsOK
<1> QED
  BY Solver, <1>1 DEF RefundNotNegative

\* The account that runs is in the access list.
LEMMA IInvSelf == ASSUME IInv PROVE SelfInAccessList
BY ProgramFacts DEF SelfInAccessList

\* A static call has changed no account that handlers do not pay.
LEMMA IInvStatic == ASSUME IInv PROVE StaticCallsReadOnly
<1> SUFFICES ASSUME NEW i \in DOMAIN frames, undo = None, frames[i].ro, NEW a \in Addr \ Payable
             PROVE  LET was == Saved(frames[i].snap).acc[a]
                        is == Seen(getDeletedStateObject(db, a))
                    IN  is = was \/ (was = None /\ is = Blank)
  BY DEF StaticCallsReadOnly, Payable, Blank
<1>1. frames # <<>>
  BY Solver
<1>2. Live(db, frames) /\ Framed(frames) /\ Good(db, frames) /\ Len(frames) \in Nat
  BY <1>1, RunFacts
<1>3. i \in 1 .. Len(frames)
  BY Solver, <1>2 DEF Framed
<1>4. i # 1
  BY <1>2, <1>3 DEF Framed
<1>5. i \in 2 .. Len(frames)
  BY Solver, <1>2, <1>3, <1>4
<1>6. PICK k : k = searchRevision(db, frames[i].snap)
  OBVIOUS
<1>7. k \in 1 .. Len(db.revs) /\ db.revs[k].id = frames[i].snap
  BY <1>2, <1>3, <1>6, SearchHits DEF Good, Snaps
<1>8. Within(frames[i], db.past[k], World(db))
  BY <1>2, <1>5, <1>7 DEF Live, Inside
<1>9. Spares(db.past[k].acc, Acc(db))
  BY <1>8, WorldFields DEF Within
<1>10. Saved(frames[i].snap) = db.past[k] /\ Acc(db)[a] = Seen(getDeletedStateObject(db, a))
  BY <1>6 DEF Acc, Saved
<1> QED
  BY <1>9, <1>10 DEF Spares

\* The snapshot of every open call has its revision.
LEMMA IInvRevisions == ASSUME IInv PROVE RevisionFound
<1> SUFFICES ASSUME NEW i \in DOMAIN frames
             PROVE  LET j == searchRevision(db, frames[i].snap)
                    IN  j <= Len(db.revs) /\ db.revs[j].id = frames[i].snap
  BY DEF RevisionFound
<1>1. Good(db, frames) /\ Framed(frames)
  <2>1. CASE undo # None
    BY <2>1 DEF IInv, Base
  <2>2. CASE undo = None
    BY Solver, <2>2, RunFacts
  <2> QED
    BY <2>1, <2>2
<1>2. i \in 1 .. Len(frames)
  BY Solver, <1>1 DEF Framed
<1>3. PICK j : j = searchRevision(db, frames[i].snap)
  OBVIOUS
<1>4. j \in 1 .. Len(db.revs) /\ db.revs[j].id = frames[i].snap /\ Len(db.revs) \in Nat
  BY <1>1, <1>2, <1>3, SearchHits DEF Good, Snaps, Revs
<1> QED
  BY Solver, <1>3, <1>4

=============================================================================
