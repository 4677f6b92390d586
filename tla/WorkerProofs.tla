---------------------------- MODULE WorkerProofs ----------------------------
(***************************************************************************)
(* Proofs about Worker, for any transactions, stakes, thresholds and       *)
(* bounds.                                                                 *)
(*                                                                         *)
(* Two facts make the invariants of the run inductive.  The head never     *)
(* gets shorter, so that no number waiting in headCh is above it and       *)
(* clearPending, which goes by such a number, spares every task that is    *)
(* young enough for the head.  And mainLoop has nothing in hand between    *)
(* two events, which is when it counts new transactions.                   *)
(***************************************************************************)
EXTENDS Worker, TLAPS

Txs == SUBSET (Tx \cup {None})
Label == [txs : Txs, paid : BOOLEAN, work : Nat, stake : Nat]
Task == [parent : Seq(Label), txs : Txs, paid : BOOLEAN]

ChainTyped == head \in Seq(Label) /\ headCh \in Seq(Nat)
MinerTyped ==
  /\ miner \in [canStart : BOOLEAN, shouldStart : BOOLEAN, listening : BOOLEAN, starting : BOOLEAN]
  /\ running \in BOOLEAN /\ startCh \in BOOLEAN
LoopTyped ==
  /\ loop \in [pc : {"select", "send"}, noempty : BOOLEAN, armed : BOOLEAN]
  /\ newTxs \in BOOLEAN
Pc == {"select", "prepared", "local", "remote", "adjustLocal", "adjustRemote", "full"}
Main == [pc : Pc, noempty : BOOLEAN, task : Task, local : SUBSET Tx, remote : SUBSET Tx]
MainTyped ==
  /\ main \in Main
  /\ pool \in SUBSET Tx
SealTyped ==
  /\ prev \in Task /\ pendingTasks \in SUBSET Task
  /\ sealing \in SUBSET [task : Task, factor : Nat, stopped : BOOLEAN]

Typed == ChainTyped /\ MinerTyped /\ LoopTyped /\ MainTyped /\ SealTyped

\* No number in headCh is above the head.
HeadsSeen == \A i \in DOMAIN headCh : headCh[i] <= Len(head)

\* Between two events mainLoop has nothing in hand, and only then are there
\* new transactions.
MainIdle == /\ main.pc = "select" => main = Idle
            /\ newTxs => main.pc = "select"

Tasks == OneSearch /\ HeadsSeen /\ ResultHasTask

IInv == Typed /\ Tasks /\ SyncPauses /\ MainIdle /\ ResubmitFindsIdle

-----------------------------------------------------------------------------

\* The factor is a natural number, 0 included.
LEMMA FactorNat == ASSUME NEW a \in Nat PROVE MakeFactorForMine(a) \in Nat
<1>1. a \div Million \in Nat
  BY WorkerAssumption
<1>2. \A x \in Nat : x * x * x \in Nat
  OBVIOUS
<1> QED
  BY <1>1, <1>2 DEF MakeFactorForMine

\* The difficulty to be met is a natural number.
LEMMA EffectiveNat == ASSUME NEW x \in Nat PROVE effective(x) \in Nat
<1>1. CASE x = 0
  BY <1>1, WorkerAssumption DEF effective
<1>2. CASE x # 0
  <2>1. Difficulty \div x \in Nat
    BY <1>2, WorkerAssumption
  <2> QED
    BY <1>2, <2>1, WorkerAssumption DEF effective
<1> QED
  BY <1>1, <1>2

\* The stake at a block is a natural number.
LEMMA StakeNat == ASSUME NEW b \in Seq(Label) PROVE StakeAt(b) \in Nat
<1>1. CASE b = <<>>
  BY <1>1 DEF StakeAt
<1>2. CASE b # <<>>
  <2>1. b[Len(b)] \in Label
    BY <1>2
  <2> QED
    BY <1>2, <2>1 DEF StakeAt, Label
<1> QED
  BY <1>1, <1>2

\* What seals a task is a block, one above the task's parent.
LEMMA SealBlock ==
  ASSUME NEW t \in Task, NEW x \in Nat
  PROVE  seal(t, x) \in Seq(Label) /\ Len(seal(t, x)) = Len(t.parent) + 1
<1>1. t.parent \in Seq(Label) /\ t.txs \in Txs /\ t.paid \in BOOLEAN
  BY DEF Task
<1>2. [txs |-> t.txs, paid |-> t.paid, work |-> effective(x), stake |-> StakeAt(t.parent)] \in Label
  BY <1>1, EffectiveNat, StakeNat DEF Label
<1> QED
  BY <1>1, <1>2 DEF seal

\* The parent of a block is a block.
LEMMA ParentBlock == ASSUME NEW b \in Seq(Label) PROVE Parent(b) \in Seq(Label)
<1>1. CASE b = <<>>
  BY <1>1 DEF Parent
<1>2. CASE b # <<>>
  BY <1>2 DEF Parent
<1> QED
  BY <1>1, <1>2

\* mainLoop starts without a task.
LEMMA IdleTyped ==
  /\ NoTask \in Task
  /\ Idle \in Main
  /\ Idle.pc = "select"
<1>1. NoTask \in Task
  BY DEF NoTask, Task, Txs
<1>2. "select" \in Pc
  BY DEF Pc
<1> QED
  BY <1>1, <1>2 DEF Idle, Main

-----------------------------------------------------------------------------

\* A block that is written leaves the chain typed, its head no shorter, and the
\* numbers in headCh at most the head's.
LEMMA WriteBlock ==
  ASSUME ChainTyped, HeadsSeen, NEW b \in Seq(Label), Len(b) > 0, writeBlockWithState(b)
  PROVE  ChainTyped' /\ HeadsSeen' /\ Len(head') >= Len(head)
<1>1. PICK canonical \in reorg(b) :
        /\ head' = IF canonical THEN b ELSE head
        /\ headCh' = IF canonical THEN Append(headCh, Len(b)) ELSE headCh
  BY DEF writeBlockWithState
<1>2. CASE canonical
  <2>1. Len(b) >= Len(head)
    <3>1. CASE Len(b) # Len(head)
      <4>1. reorg(b) = {Len(b) > Len(head)}
        BY <3>1 DEF reorg
      <4>2. Len(b) > Len(head)
        BY <4>1, <1>2
      <4> QED
        BY <4>2 DEF ChainTyped
    <3>2. CASE Len(b) = Len(head)
      BY <3>2 DEF ChainTyped
    <3> QED
      BY <3>1, <3>2
  <2>2. head' = b /\ headCh' = Append(headCh, Len(b))
    BY <1>1, <1>2
  <2>3. Len(b) \in Nat
    OBVIOUS
  <2>4. ChainTyped'
    BY <2>2, <2>3 DEF ChainTyped
  <2>5. HeadsSeen'
    <3> SUFFICES ASSUME NEW i \in DOMAIN headCh'
                 PROVE  headCh'[i] <= Len(head')
      BY DEF HeadsSeen
    <3>1. CASE i \in DOMAIN headCh
      BY <3>1, <2>1, <2>2 DEF ChainTyped, HeadsSeen
    <3>2. CASE i \notin DOMAIN headCh
      BY <3>2, <2>2 DEF ChainTyped
    <3> QED
      BY <3>1, <3>2
  <2> QED
    BY <2>1, <2>2, <2>4, <2>5
<1>3. CASE ~canonical
  <2>1. head' = head /\ headCh' = headCh
    BY <1>1, <1>3
  <2> QED
    BY <2>1 DEF ChainTyped, HeadsSeen
<1> QED
  BY <1>2, <1>3

\* clearPending with the number of a head that was seen keeps the tasks of the
\* searches that are young enough.
LEMMA ClearPending ==
  ASSUME Typed, Tasks, NEW n \in Nat, n <= Len(head), clearPending(n),
         UNCHANGED <<head, prev, sealing>>
  PROVE  SealTyped' /\ OneSearch' /\ ResultHasTask'
<1>1. SealTyped'
  BY DEF Typed, SealTyped, clearPending
<1>2. OneSearch'
  BY DEF Tasks, OneSearch
<1>3. ResultHasTask'
  <2> SUFFICES ASSUME NEW s \in sealing, number(s.task) + StaleThreshold > Len(head)
               PROVE  s.task \in pendingTasks'
    BY DEF ResultHasTask, number
  <2>1. s.task \in pendingTasks
    BY DEF Tasks, ResultHasTask
  <2>2. s.task \in Task
    BY DEF Typed, SealTyped
  <2>3. number(s.task) \in Nat
    BY <2>2 DEF Task, number
  <2>4. Len(head) \in Nat
    BY DEF Typed, ChainTyped
  <2>5. number(s.task) + StaleThreshold > n
    BY <2>3, <2>4, WorkerAssumption
  <2> QED
    BY <2>1, <2>5 DEF clearPending
<1> QED
  BY <1>1, <1>2, <1>3

\* The stop of a search changes nothing else of it.
LEMMA Stopped ==
  ASSUME NEW s \in [task : Task, factor : Nat, stopped : BOOLEAN]
  PROVE  /\ interruptSealing(s) \in [task : Task, factor : Nat, stopped : BOOLEAN]
         /\ interruptSealing(s).task = s.task /\ interruptSealing(s).stopped
BY DEF interruptSealing

\* A task that is handed over is the one searched for, and pending.
LEMMA TakeTask ==
  ASSUME Typed, Tasks, NEW t \in Task, takeTask(t), UNCHANGED head
  PROVE  SealTyped' /\ OneSearch' /\ ResultHasTask'
<1>1. CASE t = prev
  <2>1. UNCHANGED <<prev, pendingTasks, sealing>>
    BY <1>1 DEF takeTask
  <2> QED
    BY <2>1 DEF Typed, SealTyped, Tasks, OneSearch, ResultHasTask
<1>2. CASE t # prev
  <2> DEFINE x == MakeFactorForMine(IF t.paid THEN StakeAt(head) ELSE 0)
             new == [task |-> t, factor |-> x, stopped |-> FALSE]
  <2>1. x \in Nat
    BY FactorNat, StakeNat DEF Typed, ChainTyped
  <2>2. PICK late \in SUBSET sealing :
          sealing' = {interruptSealing(s) : s \in late} \cup {new}
    BY <1>2 DEF takeTask
  <2>3. prev' = t /\ pendingTasks' = pendingTasks \cup {t}
    BY <1>2 DEF takeTask
  <2>4. /\ new \in [task : Task, factor : Nat, stopped : BOOLEAN]
        /\ new.task = t
    BY <2>1
  <2> HIDE DEF x, new
  <2>5. ASSUME NEW s \in sealing'
        PROVE  \/ s = new
               \/ \E r \in sealing : s = interruptSealing(r)
    BY <2>2, <2>5
  <2>6. \A r \in sealing : r \in [task : Task, factor : Nat, stopped : BOOLEAN]
    BY DEF Typed, SealTyped
  <2>7. SealTyped'
    <3>1. sealing' \in SUBSET [task : Task, factor : Nat, stopped : BOOLEAN]
      BY <2>4, <2>5, <2>6, Stopped
    <3> QED
      BY <3>1, <2>3 DEF Typed, SealTyped
  <2>8. OneSearch'
    BY <2>3, <2>4, <2>5, <2>6, Stopped DEF OneSearch
  <2>9. ResultHasTask'
    <3> SUFFICES ASSUME NEW s \in sealing', number(s.task) + StaleThreshold > Len(head)
                 PROVE  s.task \in pendingTasks'
      BY DEF ResultHasTask, number
    <3>1. CASE s = new
      BY <3>1, <2>3, <2>4
    <3>2. CASE s # new
      <4>1. PICK r \in sealing : s = interruptSealing(r)
        BY <3>2, <2>5
      <4>2. s.task = r.task
        BY <4>1, <2>6, Stopped
      <4> QED
        BY <4>2, <2>3 DEF Tasks, ResultHasTask
    <3> QED
      BY <3>1, <3>2
  <2> QED
    BY <2>7, <2>8, <2>9
<1> QED
  BY <1>1, <1>2

\* The same for commit, which does nothing when mining is stopped.
LEMMA Commit ==
  ASSUME Typed, Tasks, NEW t \in Task, commit(t), UNCHANGED head
  PROVE  SealTyped' /\ OneSearch' /\ ResultHasTask'
<1>1. CASE running
  BY <1>1, TakeTask DEF commit
<1>2. CASE ~running
  <2>1. UNCHANGED <<prev, pendingTasks, sealing>>
    BY <1>2 DEF commit
  <2> QED
    BY <2>1 DEF Typed, SealTyped, Tasks, OneSearch, ResultHasTask
<1> QED
  BY <1>1, <1>2

-----------------------------------------------------------------------------

\* What a step leaves alone when it does not touch the variables.
LEMMA Untouched ==
  ASSUME IInv
  PROVE  /\ UNCHANGED <<head, headCh>> => ChainTyped' /\ HeadsSeen'
         /\ UNCHANGED <<head, prev, pendingTasks, sealing>> =>
              SealTyped' /\ OneSearch' /\ ResultHasTask'
         /\ UNCHANGED <<miner, running, startCh>> => MinerTyped' /\ SyncPauses'
         /\ UNCHANGED <<miner, running>> => SyncPauses'
         /\ UNCHANGED <<loop, newTxs>> => LoopTyped'
         /\ UNCHANGED <<main, pool>> => MainTyped'
         /\ UNCHANGED <<main, newTxs>> => MainIdle'
         /\ UNCHANGED interrupt => ResubmitFindsIdle'
<1>1. UNCHANGED <<head, headCh>> => ChainTyped' /\ HeadsSeen'
  BY DEF IInv, Typed, Tasks, ChainTyped, HeadsSeen
<1>2. UNCHANGED <<head, prev, pendingTasks, sealing>> =>
        SealTyped' /\ OneSearch' /\ ResultHasTask'
  BY DEF IInv, Typed, Tasks, SealTyped, OneSearch, ResultHasTask
<1>3. /\ UNCHANGED <<miner, running, startCh>> => MinerTyped' /\ SyncPauses'
      /\ UNCHANGED <<miner, running>> => SyncPauses'
  BY DEF IInv, Typed, MinerTyped, SyncPauses
<1>4. UNCHANGED <<loop, newTxs>> => LoopTyped'
  BY DEF IInv, Typed, LoopTyped
<1>5. /\ UNCHANGED <<main, pool>> => MainTyped'
      /\ UNCHANGED <<main, newTxs>> => MainIdle'
  BY DEF IInv, Typed, MainTyped, MainIdle
<1>6. UNCHANGED interrupt => ResubmitFindsIdle'
  BY DEF IInv, ResubmitFindsIdle
<1> QED
  BY <1>1, <1>2, <1>3, <1>4, <1>5, <1>6

\* The conjuncts of the invariant after a step.
LEMMA Whole ==
  ASSUME ChainTyped', HeadsSeen', SealTyped', OneSearch', ResultHasTask', MinerTyped', SyncPauses',
         LoopTyped', MainTyped', MainIdle', ResubmitFindsIdle'
  PROVE  IInv'
BY DEF IInv, Typed, Tasks

\* Miner.update keeps the invariant: it stops the worker before it forbids
\* mining, and starts it only when mining is allowed.
LEMMA MinerStep ==
  ASSUME IInv, Start \/ Stop \/ startSent \/ StartEvent \/ \E done \in BOOLEAN : SyncEnds(done)
  PROVE  IInv'
<1> DEFINE M == [canStart : BOOLEAN, shouldStart : BOOLEAN, listening : BOOLEAN, starting : BOOLEAN]
<1>1. UNCHANGED <<head, headCh, loop, newTxs, interrupt, main, pool, prev, pendingTasks, sealing>>
  BY DEF Start, Stop, startSent, StartEvent, SyncEnds, updating
<1>2. miner \in M /\ running \in BOOLEAN /\ startCh \in BOOLEAN /\ (~miner.canStart => ~running)
  BY DEF IInv, Typed, MinerTyped, SyncPauses
<1>3. ASSUME NEW m \in M, m.canStart, start(m)
      PROVE  MinerTyped' /\ SyncPauses'
  BY <1>2, <1>3 DEF start, MinerTyped, SyncPauses
<1>4. MinerTyped' /\ SyncPauses'
  <2>1. CASE Start
    <3> DEFINE m == [miner EXCEPT !.shouldStart = TRUE]
    <3>1. m \in M /\ m.canStart = miner.canStart
      BY <1>2
    <3>2. CASE miner.canStart
      <4>1. start(m)
        BY <2>1, <3>2 DEF Start
      <4> HIDE DEF m
      <4> QED
        BY <4>1, <3>1, <3>2, <1>3
    <3>3. CASE ~miner.canStart
      <4>1. miner' = m /\ UNCHANGED <<running, startCh>>
        BY <2>1, <3>3 DEF Start
      <4> HIDE DEF m
      <4> QED
        BY <4>1, <3>1, <3>3, <1>2 DEF MinerTyped, SyncPauses
    <3> QED
      BY <3>2, <3>3
  <2>2. CASE Stop
    BY <2>2, <1>2 DEF Stop, MinerTyped, SyncPauses
  <2>3. CASE startSent
    BY <2>3, <1>2 DEF startSent, MinerTyped, SyncPauses
  <2>4. CASE StartEvent
    BY <2>4, <1>2 DEF StartEvent, MinerTyped, SyncPauses
  <2>5. ASSUME NEW done \in BOOLEAN, SyncEnds(done)
        PROVE  MinerTyped' /\ SyncPauses'
    <3> DEFINE m == [miner EXCEPT !.canStart = TRUE, !.listening = ~done]
    <3>1. m \in M /\ m.canStart
      BY <1>2
    <3>2. start(m) \/ (miner' = m /\ UNCHANGED <<running, startCh>>)
      BY <2>5 DEF SyncEnds
    <3> HIDE DEF m
    <3> QED
      BY <3>1, <3>2, <1>2, <1>3 DEF MinerTyped, SyncPauses
  <2> QED
    BY <2>1, <2>2, <2>3, <2>4, <2>5
<1> QED
  BY <1>1, <1>4, Untouched, Whole

\* A block of another miner keeps the invariant.
LEMMA ImportStep ==
  ASSUME IInv, NEW parent \in {head, Parent(head)}, NEW stake \in Stakes, insertChain(parent, stake)
  PROVE  IInv' /\ Len(head') >= Len(head)
<1> DEFINE l == [txs |-> {}, paid |-> FALSE, work |-> Difficulty, stake |-> stake]
           b == Append(parent, l)
<1>1. parent \in Seq(Label)
  BY ParentBlock DEF IInv, Typed, ChainTyped
<1>2. l \in Label
  BY WorkerAssumption DEF Label, Txs
<1>3. writeBlockWithState(b)
  BY DEF insertChain
<1> HIDE DEF l
<1>4. b \in Seq(Label) /\ Len(b) > 0
  BY <1>1, <1>2
<1> HIDE DEF b
<1>5. ChainTyped' /\ HeadsSeen' /\ Len(head') >= Len(head)
  BY <1>3, <1>4, WriteBlock DEF IInv, Typed, Tasks
<1>6. UNCHANGED <<miner, running, startCh, loop, newTxs, interrupt, main, pool, prev,
                  pendingTasks, sealing>>
  BY DEF insertChain
<1>7. SealTyped' /\ OneSearch'
  BY <1>6 DEF IInv, Typed, Tasks, SealTyped, OneSearch
<1>8. ResultHasTask'
  <2> SUFFICES ASSUME NEW s \in sealing, number(s.task) + StaleThreshold > Len(head')
               PROVE  s.task \in pendingTasks
    BY <1>6 DEF ResultHasTask, number
  <2>1. number(s.task) \in Nat
    <3>1. s.task \in Task
      BY DEF IInv, Typed, SealTyped
    <3> QED
      BY <3>1 DEF Task, number
  <2>2. Len(head) \in Nat /\ Len(head') \in Nat
    BY <1>5 DEF IInv, Typed, ChainTyped
  <2>3. number(s.task) + StaleThreshold > Len(head)
    BY <2>1, <2>2, <1>5, WorkerAssumption
  <2> QED
    BY <2>3 DEF IInv, Tasks, ResultHasTask
<1> QED
  BY <1>5, <1>6, <1>7, <1>8, Untouched, Whole

\* resultLoop keeps it as well.
LEMMA SearchStep ==
  ASSUME IInv, NEW s \in sealing, resultLoop(s)
  PROVE  IInv' /\ Len(head') >= Len(head)
<1>1. s.task \in Task /\ s.factor \in Nat
  BY DEF IInv, Typed, SealTyped
<1>2. s.task.parent \in Seq(Label)
  BY <1>1 DEF Task
<1>3. UNCHANGED <<miner, running, startCh, loop, newTxs, interrupt, main, pool, prev, pendingTasks>>
  BY DEF resultLoop
<1>4. ChainTyped' /\ HeadsSeen' /\ Len(head') >= Len(head)
  <2>1. CASE s.task \in pendingTasks
    <3> DEFINE b == seal(s.task, s.factor)
    <3>1. writeBlockWithState(b)
      BY <2>1 DEF resultLoop
    <3>2. b \in Seq(Label) /\ Len(b) = Len(s.task.parent) + 1
      BY <1>1, SealBlock
    <3>3. Len(s.task.parent) \in Nat
      BY <1>2
    <3>4. Len(b) > 0
      BY <3>2, <3>3
    <3> HIDE DEF b
    <3> QED
      BY <3>1, <3>2, <3>4, WriteBlock DEF IInv, Typed, Tasks
  <2>2. CASE s.task \notin pendingTasks
    <3>1. UNCHANGED <<head, headCh>>
      BY <2>2 DEF resultLoop
    <3>2. Len(head) \in Nat
      BY DEF IInv, Typed, ChainTyped
    <3> QED
      BY <3>1, <3>2, Untouched
  <2> QED
    BY <2>1, <2>2
<1>5. sealing' \subseteq sealing
  BY DEF resultLoop
<1>6. SealTyped' /\ OneSearch'
  BY <1>3, <1>5 DEF IInv, Typed, Tasks, SealTyped, OneSearch
<1>7. ResultHasTask'
  <2> SUFFICES ASSUME NEW r \in sealing', number(r.task) + StaleThreshold > Len(head')
               PROVE  r.task \in pendingTasks
    BY <1>3 DEF ResultHasTask, number
  <2>1. r \in sealing
    BY <1>5
  <2>2. number(r.task) \in Nat
    <3>1. r.task \in Task
      BY <2>1 DEF IInv, Typed, SealTyped
    <3> QED
      BY <3>1 DEF Task, number
  <2>3. Len(head) \in Nat /\ Len(head') \in Nat
    BY <1>4 DEF IInv, Typed, ChainTyped
  <2>4. number(r.task) + StaleThreshold > Len(head)
    BY <2>2, <2>3, <1>4, WorkerAssumption
  <2> QED
    BY <2>1, <2>4 DEF IInv, Tasks, ResultHasTask
<1> QED
  BY <1>3, <1>4, <1>6, <1>7, Untouched, Whole

\* newWorkLoop keeps the invariant: a resubmission, which needs new
\* transactions, finds mainLoop idle.
LEMMA LoopStep == ASSUME IInv, newWorkLoop PROVE IInv'
<1>1. UNCHANGED <<head, miner, running, newTxs, main, pool, prev, sealing>>
  BY DEF newWorkLoop, onStart, onHead, onTimer, onAdjust
<1>2. loop \in [pc : {"select", "send"}, noempty : BOOLEAN, armed : BOOLEAN] /\ newTxs \in BOOLEAN
  BY DEF IInv, Typed, LoopTyped
<1>3. ASSUME NEW noempty \in BOOLEAN, NEW signal, request(noempty, signal)
      PROVE  LoopTyped'
  <2>1. loop' = [pc |-> "send", noempty |-> noempty, armed |-> FALSE]
    BY <1>3 DEF request
  <2> QED
    BY <2>1, <1>1, <1>2 DEF LoopTyped
<1>4. ASSUME NEW noempty \in BOOLEAN, request(noempty, "newHead")
      PROVE  ResubmitFindsIdle'
  BY <1>4 DEF request, ResubmitFindsIdle, None
<1>5. CASE onStart
  <2>1. clearPending(Len(head)) /\ request(FALSE, "newHead")
    BY <1>5 DEF onStart
  <2>2. Len(head) \in Nat /\ Len(head) <= Len(head)
    BY DEF IInv, Typed, ChainTyped
  <2>3. SealTyped' /\ OneSearch' /\ ResultHasTask'
    BY <1>1, <2>1, <2>2, ClearPending DEF IInv
  <2>4. headCh' = headCh /\ startCh' = FALSE
    BY <1>5 DEF onStart
  <2>5. MinerTyped'
    BY <1>1, <2>4 DEF IInv, Typed, MinerTyped
  <2>6. LoopTyped' /\ ResubmitFindsIdle'
    BY <2>1, <1>3, <1>4
  <2> QED
    BY <1>1, <2>3, <2>4, <2>5, <2>6, Untouched, Whole
<1>6. CASE onHead
  <2>1. /\ headCh # <<>> /\ headCh' = Tail(headCh) /\ startCh' = startCh
        /\ clearPending(Head(headCh)) /\ request(FALSE, "newHead")
    BY <1>6 DEF onHead
  <2>2. headCh \in Seq(Nat) /\ head \in Seq(Label) /\ \A i \in DOMAIN headCh : headCh[i] <= Len(head)
    BY DEF IInv, Typed, Tasks, ChainTyped, HeadsSeen
  <2>3. Head(headCh) \in Nat /\ Head(headCh) <= Len(head)
    BY <2>1, <2>2
  <2>4. SealTyped' /\ OneSearch' /\ ResultHasTask'
    BY <1>1, <2>1, <2>3, ClearPending DEF IInv
  <2>5. ChainTyped'
    BY <1>1, <2>1, <2>2 DEF ChainTyped
  <2>6. HeadsSeen'
    <3>1. \A i \in DOMAIN Tail(headCh) : Tail(headCh)[i] = headCh[i + 1] /\ i + 1 \in DOMAIN headCh
      BY <2>1, <2>2
    <3> QED
      BY <1>1, <2>1, <2>2, <3>1 DEF HeadsSeen
  <2>7. LoopTyped' /\ ResubmitFindsIdle'
    BY <2>1, <1>3, <1>4
  <2> QED
    BY <1>1, <2>1, <2>4, <2>5, <2>6, <2>7, Untouched, Whole
<1>7. CASE onTimer
  <2>1. UNCHANGED <<headCh, startCh, pendingTasks>>
    BY <1>7 DEF onTimer
  <2>2. LoopTyped' /\ ResubmitFindsIdle'
    <3>1. CASE loop' = [loop EXCEPT !.armed = FALSE] /\ UNCHANGED interrupt
      <4>1. LoopTyped'
        BY <3>1, <1>1, <1>2 DEF LoopTyped
      <4> QED
        BY <4>1, <3>1, Untouched
    <3>2. CASE newTxs /\ request(TRUE, "resubmit")
      <4>1. main = Idle
        BY <3>2 DEF IInv, MainIdle
      <4>2. interrupt' = None
        BY <3>2, <4>1 DEF request
      <4> QED
        BY <3>2, <4>2, <1>3 DEF ResubmitFindsIdle, None
    <3> QED
      BY <1>7, <3>1, <3>2 DEF onTimer
  <2> QED
    BY <1>1, <2>1, <2>2, Untouched, Whole
<1>8. CASE onAdjust
  <2>1. UNCHANGED <<headCh, startCh, pendingTasks, loop, interrupt>>
    BY <1>8 DEF onAdjust
  <2> QED
    BY <1>1, <2>1, Untouched, Whole
<1> QED
  BY <1>5, <1>6, <1>7, <1>8 DEF newWorkLoop

\* The pool's events keep the invariant: they are handled while mainLoop is idle.
LEMMA TxsStep == ASSUME IInv, NEW tx \in Tx, onTxs(tx) PROVE IInv'
<1>1. /\ UNCHANGED <<head, headCh, miner, running, startCh, loop, interrupt, main, prev,
                     pendingTasks, sealing>>
      /\ main.pc = "select" /\ pool' = pool \cup {tx} /\ newTxs' = TRUE
  BY DEF onTxs
<1>2. LoopTyped' /\ MainTyped' /\ MainIdle'
  BY <1>1 DEF IInv, Typed, LoopTyped, MainTyped, MainIdle
<1> QED
  BY <1>1, <1>2, Untouched, Whole

\* What mainLoop does with a request in hand: there are no new transactions.
LEMMA MainBusy ==
  ASSUME IInv, main.pc # "select", newTxs' = newTxs, pool' = pool, main' \in Main,
         main'.pc = "select" => main' = Idle
  PROVE  MainTyped' /\ MainIdle'
BY DEF IInv, Typed, LoopTyped, MainTyped, MainIdle

\* A step of commitTransactions.
LEMMA MainStep ==
  ASSUME IInv, main.pc # "select", NEW m \in Main, m.pc # "select" \/ m = Idle, mainStep(m)
  PROVE  IInv'
<1>1. /\ UNCHANGED <<head, headCh, miner, running, startCh, loop, newTxs, pool, prev,
                     pendingTasks, sealing>>
      /\ main' = m /\ interrupt' \in {None, interrupt}
  BY DEF mainStep
<1>2. MainTyped' /\ MainIdle'
  BY <1>1, MainBusy
<1>3. ResubmitFindsIdle'
  BY <1>1 DEF IInv, ResubmitFindsIdle, None
<1> QED
  BY <1>1, <1>2, <1>3, Untouched, Whole

\* mainLoop keeps the invariant.
LEMMA MainLoopStep == ASSUME IInv, mainLoop PROVE IInv'
<1>1. main \in Main /\ pool \in SUBSET Tx
  BY DEF IInv, Typed, MainTyped
<1>2. ASSUME NEW pc \in Pc PROVE [main EXCEPT !.pc = pc] \in Main /\ [main EXCEPT !.pc = pc].pc = pc
  BY <1>1 DEF Main
<1>3. Idle \in Main /\ Idle.pc = "select"
  BY IdleTyped
<1>4. CASE commitNewWork
  <2> DEFINE t == [parent |-> head, txs |-> {}, paid |-> running]
  <2>1. /\ UNCHANGED <<head, headCh, miner, running, startCh, pool, prev, pendingTasks, sealing>>
        /\ main' = [pc |-> "prepared", noempty |-> loop.noempty, local |-> {}, remote |-> {}, task |-> t]
        /\ loop' = [loop EXCEPT !.pc = "select", !.armed = TRUE, !.noempty = FALSE]
        /\ newTxs' = FALSE /\ interrupt' = None
    BY <1>4 DEF commitNewWork
  <2>2. t \in Task
    BY DEF IInv, Typed, ChainTyped, MinerTyped, Task, Txs
  <2> HIDE DEF t
  <2>3. loop \in [pc : {"select", "send"}, noempty : BOOLEAN, armed : BOOLEAN]
    BY DEF IInv, Typed, LoopTyped
  <2>4. LoopTyped'
    BY <2>1, <2>3 DEF LoopTyped
  <2>5. main' \in Main /\ main'.pc = "prepared"
    BY <2>1, <2>2, <2>3 DEF Main, Pc
  <2>6. MainTyped' /\ MainIdle'
    BY <2>1, <2>5, <1>1 DEF MainTyped, MainIdle
  <2>7. ResubmitFindsIdle'
    BY <2>1 DEF ResubmitFindsIdle, None
  <2> QED
    BY <2>1, <2>4, <2>6, <2>7, Untouched, Whole
<1>5. CASE fill
  <2> DEFINE pending == pool \ Included(head)
             pc == IF pending \cap Local # {} THEN "local" ELSE "remote"
             m == [main EXCEPT !.pc = pc, !.noempty = FALSE,
                               !.local = pending \cap Local, !.remote = pending \ Local]
  <2>1. /\ UNCHANGED <<head, headCh, miner, running, startCh, loop, newTxs, pool>>
        /\ main.pc = "prepared"
        /\ main' = Idle \/ main' = m
        /\ interrupt' \in {None, interrupt}
    BY <1>5 DEF fill
  <2>2. pc \in Pc /\ pc # "select"
    BY DEF Pc
  <2>3. pending \cap Local \in SUBSET Tx /\ pending \ Local \in SUBSET Tx
    BY <1>1
  <2> HIDE DEF pending, pc
  <2>4. m \in Main /\ m.pc # "select"
    BY <2>2, <2>3, <1>1 DEF Main
  <2> HIDE DEF m
  <2>5. MainTyped' /\ MainIdle'
    BY <2>1, <2>4, <1>3, MainBusy
  <2>6. SealTyped' /\ OneSearch' /\ ResultHasTask'
    <3>1. CASE main.noempty
      <4>1. UNCHANGED <<prev, pendingTasks, sealing>>
        BY <1>5, <3>1 DEF fill
      <4> QED
        BY <4>1, <2>1, Untouched
    <3>2. CASE ~main.noempty
      <4>1. commit(main.task)
        BY <1>5, <3>2 DEF fill
      <4>2. main.task \in Task
        BY <1>1 DEF Main
      <4> QED
        BY <4>1, <4>2, <2>1, Commit DEF IInv
    <3> QED
      BY <3>1, <3>2
  <2>7. ResubmitFindsIdle'
    BY <2>1 DEF IInv, ResubmitFindsIdle, None
  <2> QED
    BY <2>1, <2>5, <2>6, <2>7, Untouched, Whole
<1>6. CASE interrupted
  <2> DEFINE pc == IF main.pc = "local" THEN "adjustLocal" ELSE "adjustRemote"
  <2>1. main.pc # "select" /\ (mainStep(Idle) \/ mainStep([main EXCEPT !.pc = pc]))
    BY <1>6 DEF interrupted
  <2>2. pc \in Pc /\ pc # "select"
    BY DEF Pc
  <2> HIDE DEF pc
  <2> QED
    BY <2>1, <2>2, <1>2, <1>3, MainStep
<1>7. CASE committed
  <2>1. /\ main.pc # "select"
        /\ \/ mainStep([main EXCEPT !.pc = "adjustLocal"])
           \/ mainStep([main EXCEPT !.pc = "adjustRemote"])
    BY <1>7 DEF committed
  <2>2. "adjustLocal" \in Pc /\ "adjustRemote" \in Pc
    BY DEF Pc
  <2> QED
    BY <2>1, <2>2, <1>2, MainStep
<1>8. CASE adjust
  <2> DEFINE pc == IF main.pc = "adjustLocal" /\ main.remote # {} THEN "remote" ELSE "full"
  <2>1. main.pc # "select" /\ mainStep([main EXCEPT !.pc = pc])
    BY <1>8 DEF adjust
  <2>2. pc \in Pc /\ pc # "select"
    BY DEF Pc
  <2> HIDE DEF pc
  <2> QED
    BY <2>1, <2>2, <1>2, MainStep
<1>9. CASE commitFull
  <2>1. /\ UNCHANGED <<head, headCh, miner, running, startCh, loop, newTxs, pool>>
        /\ main.pc = "full" /\ main' = Idle /\ interrupt' = None /\ commit(main.task)
    BY <1>9 DEF commitFull
  <2>2. main.task \in Task
    BY <1>1 DEF Main
  <2>3. SealTyped' /\ OneSearch' /\ ResultHasTask'
    BY <2>1, <2>2, Commit DEF IInv
  <2>4. MainTyped' /\ MainIdle'
    BY <2>1, <1>3, MainBusy
  <2>5. ResubmitFindsIdle'
    BY <2>1 DEF ResubmitFindsIdle, None
  <2> QED
    BY <2>1, <2>3, <2>4, <2>5, Untouched, Whole
<1>10. ASSUME NEW tx \in Tx, commitTransaction(tx) PROVE IInv'
  <2> DEFINE txs == IF tx \in Included(main.task.parent) THEN main.task.txs ELSE main.task.txs \cup {tx}
             m == [main EXCEPT !.local = @ \ {tx}, !.remote = @ \ {tx}, !.task.txs = txs]
  <2>1. main.pc # "select" /\ mainStep(m)
    BY <1>10 DEF commitTransaction
  <2>2. main.task \in Task
    BY <1>1 DEF Main
  <2>3. txs \in Txs
    BY <2>2 DEF Task, Txs
  <2> HIDE DEF txs
  <2>4. m = [main EXCEPT !.local = main.local \ {tx}, !.remote = main.remote \ {tx},
                         !.task = [main.task EXCEPT !.txs = txs]]
    BY <1>1 DEF Main
  <2>5. [main.task EXCEPT !.txs = txs] \in Task
    BY <2>2, <2>3 DEF Task
  <2> HIDE DEF m
  <2>6. m \in Main /\ m.pc = main.pc
    BY <1>1, <2>4, <2>5 DEF Main
  <2> QED
    BY <2>1, <2>6, MainStep
<1> QED
  BY <1>4, <1>5, <1>6, <1>7, <1>8, <1>9, <1>10 DEF mainLoop

-----------------------------------------------------------------------------

\* Mining starts in a state of the invariant.
LEMMA InitIInv == ASSUME Init PROVE IInv
<1>1. ChainTyped /\ HeadsSeen
  BY DEF Init, ChainTyped, HeadsSeen
<1>2. MinerTyped /\ LoopTyped /\ SyncPauses
  BY DEF Init, MinerTyped, LoopTyped, SyncPauses
<1>3. MainTyped /\ MainIdle /\ ResubmitFindsIdle
  BY IdleTyped DEF Init, MainTyped, MainIdle, ResubmitFindsIdle, None
<1>4. SealTyped /\ OneSearch /\ ResultHasTask
  BY IdleTyped DEF Init, SealTyped, OneSearch, ResultHasTask
<1> QED
  BY <1>1, <1>2, <1>3, <1>4 DEF IInv, Typed, Tasks

\* Every step keeps the invariant, and the head never gets shorter.
LEMMA NextIInv == ASSUME IInv, [Next]_vars PROVE IInv' /\ Len(head') >= Len(head)
<1>1. Len(head) \in Nat
  BY DEF IInv, Typed, ChainTyped
<1>2. CASE Start \/ Stop \/ startSent \/ StartEvent \/ \E done \in BOOLEAN : SyncEnds(done)
  <2>1. head' = head
    BY <1>2 DEF Start, Stop, startSent, StartEvent, SyncEnds, updating
  <2> QED
    BY <1>1, <1>2, <2>1, MinerStep
<1>3. CASE \E parent \in {head, Parent(head)}, stake \in Stakes : insertChain(parent, stake)
  BY <1>3, ImportStep
<1>4. CASE \E tx \in Tx : onTxs(tx)
  <2>1. head' = head
    BY <1>4 DEF onTxs
  <2> QED
    BY <1>1, <1>4, <2>1, TxsStep
<1>5. CASE newWorkLoop
  <2>1. head' = head
    BY <1>5 DEF newWorkLoop, onStart, onHead, onTimer, onAdjust
  <2> QED
    BY <1>1, <1>5, <2>1, LoopStep
<1>6. CASE mainLoop
  <2>1. head' = head
    BY <1>6 DEF mainLoop, commitNewWork, fill, interrupted, committed, adjust, commitFull,
                commitTransaction, mainStep
  <2> QED
    BY <1>1, <1>6, <2>1, MainLoopStep
<1>7. CASE Search
  BY <1>7, SearchStep DEF Search
<1>8. CASE UNCHANGED vars
  BY <1>1, <1>8, Untouched, Whole DEF vars
<1> QED
  BY <1>2, <1>3, <1>4, <1>5, <1>6, <1>7, <1>8 DEF Next

LEMMA AlwaysIInv == Spec => []IInv
<1>1. Init => IInv
  BY InitIInv
<1>2. IInv /\ [Next]_vars => IInv'
  BY NextIInv
<1> QED
  BY <1>1, <1>2, PTL DEF Spec

\* taskLoop has stopped every search but that for its latest task.
THEOREM SearchesStopped == Spec => []OneSearch
<1>1. IInv => OneSearch
  BY DEF IInv, Tasks
<1> QED
  BY <1>1, AlwaysIInv, PTL

\* A search that is young enough for the head still finds its task pending, in
\* whatever order heads, requests and results meet.
THEOREM ResultsKept == Spec => []ResultHasTask
<1>1. IInv => ResultHasTask
  BY DEF IInv, Tasks
<1> QED
  BY <1>1, AlwaysIInv, PTL

\* Mining is paused by every sync that update listens to.
THEOREM MiningPaused == Spec => []SyncPauses
<1>1. IInv => SyncPauses
  BY DEF IInv
<1> QED
  BY <1>1, AlwaysIInv, PTL

\* A resubmission never interrupts the execution of transactions: the third
\* case of commitTransactions is not reached.
THEOREM ResubmissionsIdle == Spec => []ResubmitFindsIdle
<1>1. IInv => ResubmitFindsIdle
  BY DEF IInv
<1> QED
  BY <1>1, AlwaysIInv, PTL

=============================================================================
