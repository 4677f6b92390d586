------------------------------- MODULE Worker -------------------------------
(***************************************************************************)
(* The miner: five goroutines and the channels between them                *)
(* (miner/worker.go, miner/miner.go, consensus/ethash/sealer.go).          *)
(*                                                                         *)
(*   Miner.update   starts and stops the worker, also around a sync        *)
(*   newWorkLoop    asks for new work on a start, a new head or a timer    *)
(*   mainLoop       builds blocks on the head and hands them over as tasks *)
(*   taskLoop       has the latest task sealed                             *)
(*   resultLoop     writes the blocks that were sealed                     *)
(*                                                                         *)
(* A block is the sequence of the labels of its ancestors and itself, so   *)
(* that genesis is <<>>.  All blocks have the same difficulty: the total   *)
(* difficulty is the length.  label.stake is what the miner has staked     *)
(* after the block, and label.work the difficulty that its hash meets.     *)
(***************************************************************************)
EXTENDS Integers, Sequences, FiniteSets

CONSTANTS Tx, Local,              \* transactions, and those of local accounts
          Stakes, Million,        \* stakes of the miner, and the unit of the factor
          Difficulty, MinimumDifficulty,
          StaleThreshold, ResubmitAdjustChanSize,
          MaxHeight,              \* bound on the chain
          MaxEvents,              \* bound on commands, syncs, imports and transactions
          MoreTxs,                \* bound on transactions beyond MaxEvents
          MaxLate                 \* bound on stopped searches that still find a nonce

ASSUME WorkerAssumption ==
  /\ StaleThreshold \in Nat \ {0} /\ ResubmitAdjustChanSize \in Nat
  /\ Local \subseteq Tx /\ Stakes \subseteq Nat /\ Million \in Nat \ {0}
  /\ Difficulty \in Nat \ {0} /\ MinimumDifficulty \in Nat \ {0}

VARIABLES head,     \* the head of the chain
          headCh,   \* numbers of the new heads that newWorkLoop has not seen
          miner,    \* Miner.update
          running, startCh,
          loop,     \* newWorkLoop
          newTxs,   \* transactions arrived since the last request
          interrupt,\* of the request that mainLoop works on
          main,     \* mainLoop
          adjusts,  \* messages in resubmitAdjustCh
          pool,     \* transactions of the pool
          prev,    \* taskLoop
          pendingTasks, sealing,
          events    \* of the bound, those that happened

vars == <<head, headCh, miner, running, startCh, loop, newTxs, interrupt, main, adjusts, pool,
          prev, pendingTasks, sealing, events>>

None == "none"

Parent(b) == IF b = <<>> THEN b ELSE SubSeq(b, 1, Len(b) - 1)
StakeAt(b) == IF b = <<>> THEN 0 ELSE b[Len(b)].stake
Included(b) == UNION {b[i].txs : i \in DOMAIN b}

(***************************************************************************)
(* The stake factor and the seal.  A factor of 0 is nil.                   *)
(***************************************************************************)
MakeFactorForMine(amount) == (amount \div Million) * (amount \div Million) * (amount \div Million)

\* The difficulty that mine, makeWork and verifySeal compute.
effective(factor) ==
  IF factor = 0 THEN Difficulty
  ELSE IF Difficulty \div factor = 0 THEN MinimumDifficulty ELSE Difficulty \div factor

verifySeal(label, factor) == label.work >= effective(factor)

\* A task is known by its seal hash: all of a block but the nonce.
seal(task, factor) ==
  Append(task.parent, [txs |-> task.txs, paid |-> task.paid,
                       work |-> effective(factor), stake |-> StakeAt(task.parent)])

number(task) == Len(task.parent) + 1

NoTask == [parent |-> <<>>, txs |-> {None}, paid |-> FALSE]

\* mainLoop between two events.
Idle == [pc |-> "select", noempty |-> FALSE, task |-> NoTask, local |-> {}, remote |-> {}]

(***************************************************************************)
(* The chain.                                                              *)
(***************************************************************************)
\* Blocks of the same weight: the local miner's is preferred.
reorg(b) ==
  IF Len(b) # Len(head) THEN {Len(b) > Len(head)}
  ELSE IF head[Len(b)].paid THEN {FALSE}
  ELSE IF b[Len(b)].paid THEN {TRUE} ELSE BOOLEAN

writeBlockWithState(b) ==
  \E canonical \in reorg(b) :
    /\ head' = IF canonical THEN b ELSE head
    /\ headCh' = IF canonical THEN Append(headCh, Len(b)) ELSE headCh

\* A block of another miner arrives, on the head or beside it.
insertChain(parent, stake) ==
  LET b == Append(parent, [txs |-> {}, paid |-> FALSE, work |-> Difficulty, stake |-> stake])
  IN  /\ events < MaxEvents /\ Len(parent) < MaxHeight /\ b # head
      /\ writeBlockWithState(b)
      /\ events' = events + 1
      /\ UNCHANGED <<miner, running, startCh, loop, newTxs, interrupt, main, adjusts, pool, prev,
                     pendingTasks, sealing>>

(***************************************************************************)
(* Miner.update.                                                           *)
(***************************************************************************)
updating == ~miner.starting /\ UNCHANGED <<head, headCh, loop, newTxs, interrupt, main, adjusts, pool,
                                           prev, pendingTasks, sealing>>

\* worker.start: the flag, then a message for newWorkLoop, which may have to wait.
start(m) ==
  /\ running' = TRUE /\ startCh' = TRUE
  /\ miner' = [m EXCEPT !.starting = startCh]

\* The user starts mining, sync or not.
StartAlways ==
  /\ updating /\ events < MaxEvents
  /\ start([miner EXCEPT !.shouldStart = TRUE])
  /\ events' = events + 1

Start ==
  /\ updating /\ events < MaxEvents
  /\ IF miner.canStart THEN start([miner EXCEPT !.shouldStart = TRUE])
     ELSE miner' = [miner EXCEPT !.shouldStart = TRUE] /\ UNCHANGED <<running, startCh>>
  /\ events' = events + 1

Stop ==
  /\ updating /\ (running \/ miner.shouldStart) /\ events < MaxEvents
  /\ running' = FALSE /\ miner' = [miner EXCEPT !.shouldStart = FALSE]
  /\ events' = events + 1 /\ UNCHANGED startCh

startSent ==
  /\ miner.starting /\ ~startCh
  /\ startCh' = TRUE /\ miner' = [miner EXCEPT !.starting = FALSE]
  /\ UNCHANGED <<head, headCh, running, loop, newTxs, interrupt, main, adjusts, pool, prev,
                 pendingTasks, sealing, events>>

StartEvent ==
  /\ updating /\ miner.listening /\ events < MaxEvents
  /\ running' = FALSE
  /\ miner' = [miner EXCEPT !.canStart = FALSE, !.shouldStart = @ \/ running]
  /\ events' = events + 1 /\ UNCHANGED startCh

\* After the first sync that succeeds, syncs are no longer listened to.
SyncEnds(done) ==
  LET m == [miner EXCEPT !.canStart = TRUE, !.listening = ~done]
  IN  /\ updating /\ miner.listening /\ ~miner.canStart
      /\ IF miner.shouldStart THEN start(m) ELSE miner' = m /\ UNCHANGED <<running, startCh>>
      /\ UNCHANGED events

(***************************************************************************)
(* newWorkLoop.                                                            *)
(***************************************************************************)
\* Tasks are cleared one block too early.
clearPendingEarly(n) == pendingTasks' = {t \in pendingTasks : number(t) + StaleThreshold > n + 1}

clearPending(n) == pendingTasks' = {t \in pendingTasks : number(t) + StaleThreshold > n}

\* commit interrupts the request before, unless mainLoop is done with it, and
\* waits for mainLoop to take this one.
request(noempty, signal) ==
  /\ interrupt' = IF main = Idle THEN None ELSE signal
  /\ loop' = [pc |-> "send", noempty |-> noempty, armed |-> FALSE]

onStart ==
  /\ loop.pc = "select" /\ startCh
  /\ startCh' = FALSE
  /\ clearPending(Len(head)) /\ request(FALSE, "newHead")
  /\ UNCHANGED <<head, headCh, miner, running, newTxs, main, adjusts, pool, prev, sealing, events>>

\* A new head cleans up, but no work is asked for.
onHeadNoWork ==
  /\ loop.pc = "select" /\ headCh # <<>>
  /\ headCh' = Tail(headCh)
  /\ clearPending(Head(headCh)) /\ UNCHANGED <<loop, interrupt>>
  /\ UNCHANGED <<head, miner, running, startCh, newTxs, main, adjusts, pool, prev, sealing, events>>

onHead ==
  /\ loop.pc = "select" /\ headCh # <<>>
  /\ headCh' = Tail(headCh)
  /\ clearPending(Head(headCh)) /\ request(FALSE, "newHead")
  /\ UNCHANGED <<head, miner, running, startCh, newTxs, main, adjusts, pool, prev, sealing, events>>

\* Without new transactions the timer is set again; when mining is stopped it is not.
onTimer ==
  /\ loop.pc = "select" /\ loop.armed
  /\ \/ ~running /\ loop' = [loop EXCEPT !.armed = FALSE] /\ UNCHANGED interrupt
     \/ running /\ newTxs /\ request(TRUE, "resubmit")
  /\ UNCHANGED <<head, headCh, miner, running, startCh, newTxs, main, adjusts, pool, prev,
                 pendingTasks, sealing, events>>

onAdjust ==
  /\ loop.pc = "select" /\ adjusts > 0
  /\ adjusts' = adjusts - 1
  /\ UNCHANGED <<head, headCh, miner, running, startCh, loop, newTxs, interrupt, main, pool, prev,
                 pendingTasks, sealing, events>>

(***************************************************************************)
(* mainLoop and taskLoop.                                                  *)
(***************************************************************************)
\* The request is taken, and newWorkLoop sets its timer again.  commitNewWork
\* takes the head as parent; the coinbase is set if mining runs.
commitNewWork ==
  /\ loop.pc = "send" /\ main.pc = "select"
  /\ main' = [pc |-> "prepared", noempty |-> loop.noempty, local |-> {}, remote |-> {},
              task |-> [parent |-> head, txs |-> {}, paid |-> running]]
  /\ loop' = [loop EXCEPT !.pc = "select", !.armed = TRUE, !.noempty = FALSE] /\ newTxs' = FALSE /\ interrupt' = None
  /\ UNCHANGED <<head, headCh, miner, running, startCh, adjusts, pool, prev,
                 pendingTasks, sealing, events>>

\* The search for the task before goes on.
interruptNone(s) == s

\* interrupt closes the stop channel of the search for the task before.
interruptSealing(s) == [s EXCEPT !.stopped = TRUE]

\* taskLoop takes a task from mainLoop, but not the same work again.  The factor
\* is that of the stake at the head of this moment (Seal).  A search that is stopped ends, or has found its nonce already.
takeTask(task) ==
  LET factor == MakeFactorForMine(IF task.paid THEN StakeAt(head) ELSE 0)
  IN  IF task = prev THEN UNCHANGED <<prev, pendingTasks, sealing>>
      ELSE /\ prev' = task
           /\ pendingTasks' = pendingTasks \cup {task}
           /\ \E late \in {ss \in SUBSET sealing : Cardinality(ss) <= MaxLate} :
                sealing' = {interruptSealing(s) : s \in late}
                             \cup {[task |-> task, factor |-> factor, stopped |-> FALSE]}

\* commit hands the block over as a task, if mining runs.
commit(task) == IF running THEN takeTask(task) ELSE UNCHANGED <<prev, pendingTasks, sealing>>

\* An empty block at once, unless this is a resubmission; then the pending
\* transactions, those of local accounts first.
fill ==
  LET pending == pool \ Included(head)
  IN  /\ main.pc = "prepared"
      /\ IF main.noempty THEN UNCHANGED <<prev, pendingTasks, sealing>> ELSE commit(main.task)
      /\ main' = IF pending = {} THEN Idle
                 ELSE [main EXCEPT !.pc = IF pending \cap Local # {} THEN "local" ELSE "remote",
                                   !.noempty = FALSE,
                                   !.local = pending \cap Local, !.remote = pending \ Local]
      /\ interrupt' = IF pending = {} THEN None ELSE interrupt
      /\ UNCHANGED <<head, headCh, miner, running, startCh, loop, newTxs, adjusts, pool, events>>

mainStep(m) ==
  /\ main' = m /\ interrupt' = IF m = Idle THEN None ELSE interrupt
  /\ UNCHANGED <<head, headCh, miner, running, startCh, loop, newTxs, pool, prev,
                 pendingTasks, sealing, events>>

\* commitTransactions, between two transactions: a new head drops the work.
interrupted ==
  /\ main.pc \in {"local", "remote"} /\ interrupt # None /\ UNCHANGED adjusts
  /\ mainStep(IF interrupt = "newHead" THEN Idle
              ELSE [main EXCEPT !.pc = IF @ = "local" THEN "adjustLocal" ELSE "adjustRemote"])

\* A transaction that the parent's state has seen already is skipped.
commitTransaction(tx) ==
  /\ interrupt = None /\ UNCHANGED adjusts
  /\ \/ main.pc = "local" /\ tx \in main.local
     \/ main.pc = "remote" /\ tx \in main.remote
  /\ mainStep([main EXCEPT !.local = @ \ {tx}, !.remote = @ \ {tx},
                           !.task.txs = IF tx \in Included(main.task.parent) THEN @ ELSE @ \cup {tx}])

committed ==
  /\ interrupt = None /\ UNCHANGED adjusts
  /\ \/ main.pc = "local" /\ main.local = {} /\ mainStep([main EXCEPT !.pc = "adjustLocal"])
     \/ main.pc = "remote" /\ main.remote = {} /\ mainStep([main EXCEPT !.pc = "adjustRemote"])

\* The feedback channel has room.
adjustRoom == adjusts < ResubmitAdjustChanSize

\* The feedback for newWorkLoop waits for room in the channel.
adjust ==
  /\ main.pc \in {"adjustLocal", "adjustRemote"} /\ adjustRoom
  /\ adjusts' = adjusts + 1
  /\ mainStep([main EXCEPT !.pc = IF @ = "adjustLocal" /\ main.remote # {} THEN "remote" ELSE "full"])

\* The full block.
commitFull ==
  /\ main.pc = "full"
  /\ commit(main.task)
  /\ main' = Idle /\ interrupt' = None
  /\ UNCHANGED <<head, headCh, miner, running, startCh, loop, newTxs, adjusts, pool, events>>

\* Events are counted while mainLoop works on a request.
onTxsAnytime(tx) ==
  /\ events < MaxEvents + MoreTxs
  /\ pool' = pool \cup {tx} /\ newTxs' = TRUE
  /\ events' = events + 1
  /\ UNCHANGED <<head, headCh, miner, running, startCh, loop, interrupt, main, adjusts, prev,
                 pendingTasks, sealing>>

\* An event of the pool: a transaction is new to it, or replaces another.
onTxs(tx) ==
  /\ events < MaxEvents + MoreTxs /\ main.pc = "select"
  /\ pool' = pool \cup {tx} /\ newTxs' = TRUE
  /\ events' = events + 1
  /\ UNCHANGED <<head, headCh, miner, running, startCh, loop, interrupt, main, adjusts, prev,
                 pendingTasks, sealing>>

(***************************************************************************)
(* The search and resultLoop.                                              *)
(***************************************************************************)
\* A nonce is found, perhaps by a search that was stopped meanwhile, and
\* resultLoop writes the block if it has the task.
resultLoop(s) ==
  /\ s \in sealing /\ number(s.task) <= MaxHeight
  /\ sealing' = sealing \ {s}
  /\ IF s.task \in pendingTasks THEN writeBlockWithState(seal(s.task, s.factor))
     ELSE UNCHANGED <<head, headCh>>
  /\ UNCHANGED <<miner, running, startCh, loop, newTxs, interrupt, main, adjusts, pool, prev,
                 pendingTasks, events>>

(***************************************************************************)
(* Mining has just been started, for the first time, on an idle worker.    *)
(***************************************************************************)
Init ==
  /\ head = <<>> /\ headCh = <<>>
  /\ miner = [canStart |-> TRUE, shouldStart |-> TRUE, listening |-> TRUE, starting |-> FALSE]
  /\ running = TRUE /\ startCh = TRUE
  /\ loop = [pc |-> "select", noempty |-> FALSE, armed |-> FALSE]
  /\ newTxs = FALSE /\ interrupt = None
  /\ main = Idle
  /\ adjusts = 0 /\ pool = {}
  /\ prev = NoTask /\ pendingTasks = {} /\ sealing = {}
  /\ events = 0

newWorkLoop == onStart \/ onHead \/ onTimer \/ onAdjust
mainLoop ==
  \/ commitNewWork \/ fill \/ interrupted \/ committed \/ adjust \/ commitFull
  \/ \E tx \in Tx : commitTransaction(tx)
Search == \E s \in sealing : resultLoop(s)

Next ==
  \/ Start \/ Stop \/ startSent \/ StartEvent \/ \E done \in BOOLEAN : SyncEnds(done)
  \/ \E parent \in {head, Parent(head)}, stake \in Stakes : insertChain(parent, stake)
  \/ \E tx \in Tx : onTxs(tx)
  \/ newWorkLoop \/ mainLoop \/ Search

\* Goroutines are scheduled, and a search that is not stopped finds a nonce.
Fairness ==
  /\ WF_vars(startSent) /\ WF_vars(newWorkLoop) /\ WF_vars(mainLoop) /\ WF_vars(Search)

Spec == Init /\ [][Next]_vars

FairSpec == Spec /\ Fairness

(***************************************************************************)
(* Properties.                                                             *)
(***************************************************************************)

\* One search at a time: taskLoop has stopped every search but that for its
\* latest task, however fast tasks follow on each other.
OneSearch == \A s \in sealing : ~s.stopped => s.task = prev

\* A block that is sealed, and is not too old for the head, finds its task: its
\* work is not thrown away (clearPending, resultLoop).
ResultHasTask ==
  \A s \in sealing : number(s.task) + StaleThreshold > Len(head) => s.task \in pendingTasks

\* Mining pauses while a sync that update listens to is going on.
SyncPauses == ~miner.canStart => ~running

\* A resubmission never interrupts the execution of transactions, the third of
\* the cases that commitTransactions provides for: new transactions are counted
\* by mainLoop, when it is idle, and forgotten when it takes a request.
ResubmitFindsIdle == interrupt # "resubmit"

\* While mining runs, every head is worked on until a block is found: the chain
\* grows, up to the bound of the model.  The condition on the feedback channel
\* is needed: once it is full, mainLoop waits for newWorkLoop to read it while
\* newWorkLoop waits for mainLoop to take its request.
MiningGoesOn ==
  <>[]running /\ []adjustRoom => <>(Len(head) = MaxHeight)

\* The block at the head meets the difficulty that a node verifying it on top
\* of its parent asks for, when it is our own (verifySeal).
OwnHeadVerifies ==
  head # <<>> /\ head[Len(head)].paid =>
    verifySeal(head[Len(head)], MakeFactorForMine(StakeAt(Parent(head))))
=============================================================================
