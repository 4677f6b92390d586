---------------------------- MODULE TeWakaChain ----------------------------
(***************************************************************************)
(* The used items of the bridge on a network of nodes.  Within a block     *)
(* they are part of the state that the header's root commits to; every     *)
(* DumpHeight blocks ShiftItems moves them to the czz-record table of the  *)
(* node's database, which is no part of any state: it is written by every  *)
(* Finalize, of a block that is imported, of one that is rejected, of one  *)
(* on a side branch and of one that is only being assembled, and it        *)
(* survives a crash that takes the newest states with it.                  *)
(*                                                                         *)
(* A block is what its header commits to: the claim it contains (a convert *)
(* or a confirm of a side chain transaction), whether the claim was paid   *)
(* (the receipt) and the used items after it (the root).  A chain is the   *)
(* sequence of its blocks; the empty one is the genesis block.  Claims are *)
(* taken to pass verification, and every block to have the same            *)
(* difficulty, so that total difficulty is length.                         *)
(***************************************************************************)
EXTENDS Integers, Sequences

CONSTANTS
    Node, Claim,
    None,           \* a block without a claim
    DumpHeight,
    MaxHeight,      \* bound on the length of a chain
    MaxWork,        \* bound on the blocks a node assembles
    MaxCrashes      \* bound on the crashes of all nodes

VARIABLES
    records,        \* of each node: the czz-record table
    states,         \* the chains whose state the node can build on
    saved,          \* those of them whose state is on disk
    head,           \* CurrentBlock
    current,        \* worker.current once its transactions have run, or Genesis
    tasks,          \* pendingTasks: assembled, not sealed yet
    made,           \* the sealed blocks, which may reach anyone at any time
    rejected,       \* history: <<node, chain>> that insertChain refused
    work,           \* how often each node has assembled a block
    crashes         \* how often nodes have crashed

vars == <<records, states, saved, head, current, tasks, made, rejected, work, crashes>>

Block == [claim : Claim \cup {None}, paid : BOOLEAN, used : SUBSET Claim]
Chain == Seq(Block)
Genesis == << >>

Parent(chain) == SubSeq(chain, 1, Len(chain) - 1)
Last(chain) == chain[Len(chain)]
IsPrefix(p, chain) == Len(p) <= Len(chain) /\ p = SubSeq(chain, 1, Len(p))

-----------------------------------------------------------------------------
(* What running a block on a parent state does on a node *)

UsedItems(chain) == IF chain = Genesis THEN {} ELSE Last(chain).used

\* Variant for comparison: the record table is not asked.
HasItemInState(n, parent, c) == c \in UsedItems(parent)

HasItem(n, parent, c) == c \in UsedItems(parent) \cup records[n]

Pays(n, parent, c) == c # None /\ ~HasItem(n, parent, c)

\* TeWakaImpl.UsedItems when Finalize is called for block b.
UsedBefore(parent, b) == UsedItems(parent) \cup {d \in {b.claim} : b.paid}

IsDump(parent) == (Len(parent) + 1) % DumpHeight = 0

\* The block that comes out of running claim c on the parent's state: the claim
\* is looked up now, what Finalize leaves in the state follows.
Execute(n, parent, c) ==
    LET paid == Pays(n, parent, c)
    IN  [claim |-> c, paid |-> paid,
         used |-> IF IsDump(parent) THEN {} ELSE UsedItems(parent) \cup {d \in {c} : paid}]

\* Variant for comparison: the table gets what the parent had, without the
\* claim of the block.
ShiftItemsEarly(n, parent, b) ==
    records' = [records EXCEPT ![n] = @ \cup (IF IsDump(parent) THEN UsedItems(parent) ELSE {})]

\* What Finalize of block b does to the node's table.
ShiftItems(n, parent, b) ==
    records' = [records EXCEPT ![n] =
                  @ \cup (IF IsDump(parent) THEN UsedBefore(parent, b) ELSE {})]

\* writeBlockWithState: the longer chain is the head, of two equal ones either.
chooseHead(n, chain) ==
    \/ /\ Len(chain) >= Len(head[n])
       /\ head' = [head EXCEPT ![n] = chain]
    \/ /\ Len(chain) <= Len(head[n])
       /\ UNCHANGED head

-----------------------------------------------------------------------------

\* commitNewWork up to its commit: the transactions run on the head's state.  It
\* happens for every new head and again whenever work is resubmitted; work that
\* a new head interrupts is dropped without a commit.
commitNewWork(n, c) ==
    /\ work[n] < MaxWork
    /\ Len(head[n]) < MaxHeight
    /\ current' = [current EXCEPT ![n] = Append(head[n], Execute(n, head[n], c))]
    /\ work' = [work EXCEPT ![n] = @ + 1]
    /\ UNCHANGED <<records, states, saved, head, tasks, made, rejected, crashes>>

\* worker.commit: FinalizeAndAssemble on a Copy of the pending state.  Imports may
\* have changed the head and the table since.  The block goes to the sealer only
\* if the miner is running.
commit(n) ==
    LET chain == current[n]
    IN  /\ chain # Genesis
        /\ ShiftItems(n, Parent(chain), Last(chain))
        /\ \/ tasks' = [tasks EXCEPT ![n] = @ \cup {chain}]
           \/ UNCHANGED tasks
        /\ current' = [current EXCEPT ![n] = Genesis]
        /\ UNCHANGED <<states, saved, head, made, rejected, work, crashes>>

\* resultLoop: a sealed block is written with the state it was assembled with.
resultLoop(n, chain) ==
    /\ chain \in tasks[n]
    /\ tasks' = [tasks EXCEPT ![n] = @ \ {chain}]
    /\ IF chain \in states[n]
         THEN UNCHANGED <<states, head, made>>
         ELSE /\ states' = [states EXCEPT ![n] = @ \cup {chain}]
              /\ chooseHead(n, chain)
              /\ made' = made \cup {chain}
    /\ UNCHANGED <<records, saved, current, rejected, work, crashes>>

\* insertChain: Process, then ValidateState compares receipts and root.
insertChain(n, chain) ==
    LET parent == Parent(chain)
        b == Execute(n, parent, Last(chain).claim)
    IN  /\ chain \in made \ states[n]
        /\ parent \in states[n]
        /\ ShiftItems(n, parent, b)
        /\ IF b = Last(chain)
             THEN /\ states' = [states EXCEPT ![n] = @ \cup {chain}]
                  /\ chooseHead(n, chain)
                  /\ UNCHANGED rejected
             ELSE /\ rejected' = rejected \cup {<<n, chain>>}
                  /\ UNCHANGED <<states, head>>
        /\ UNCHANGED <<saved, current, tasks, made, work, crashes>>

\* The same for a block whose state the node has, which it has not lost in a
\* crash but may have left behind: it is not run again.
writeKnownBlock(n, chain) ==
    /\ chain \in made \cap states[n]
    /\ Len(chain) > Len(head[n])
    /\ head' = [head EXCEPT ![n] = chain]
    /\ UNCHANGED <<records, states, saved, current, tasks, made, rejected, work, crashes>>

\* triedb.Commit: of some canonical states, at intervals and at a clean stop,
\* or of every state on an archive node.
saveState(n, chain) ==
    /\ chain \in states[n] \ saved[n]
    /\ saved' = [saved EXCEPT ![n] = @ \cup {chain}]
    /\ UNCHANGED <<records, states, head, current, tasks, made, rejected, work, crashes>>

\* Variant for comparison: the head stays where it was.
restartAtHead(n) ==
    /\ crashes < MaxCrashes
    /\ states' = [states EXCEPT ![n] = saved[n]]
    /\ current' = [current EXCEPT ![n] = Genesis]
    /\ tasks' = [tasks EXCEPT ![n] = {}]
    /\ crashes' = crashes + 1
    /\ UNCHANGED <<records, saved, head, made, rejected, work>>

\* A crash, and NewBlockChain after it: the head goes back to a block whose
\* state is on disk, the last one or, with snapshots, one below the disk layer.
restart(n) ==
    /\ crashes < MaxCrashes
    /\ states' = [states EXCEPT ![n] = saved[n]]
    /\ \E chain \in saved[n] :
         /\ IsPrefix(chain, head[n])
         /\ head' = [head EXCEPT ![n] = chain]
    /\ current' = [current EXCEPT ![n] = Genesis]
    /\ tasks' = [tasks EXCEPT ![n] = {}]
    /\ crashes' = crashes + 1
    /\ UNCHANGED <<records, saved, made, rejected, work>>

Init ==
    /\ records = [n \in Node |-> {}]
    /\ states = [n \in Node |-> {Genesis}]
    /\ saved = [n \in Node |-> {Genesis}]
    /\ head = [n \in Node |-> Genesis]
    /\ current = [n \in Node |-> Genesis]
    /\ tasks = [n \in Node |-> {}]
    /\ made = {}
    /\ rejected = {}
    /\ work = [n \in Node |-> 0]
    /\ crashes = 0

Next ==
    \E n \in Node :
      \/ \E c \in Claim \cup {None} : commitNewWork(n, c)
      \/ commit(n)
      \/ \E chain \in tasks[n] : resultLoop(n, chain)
      \/ \E chain \in made : insertChain(n, chain)
      \/ \E chain \in made : writeKnownBlock(n, chain)
      \/ \E chain \in states[n] : saveState(n, chain)
      \/ restart(n)

Spec == Init /\ [][Next]_vars

-----------------------------------------------------------------------------

ASSUME ChainAssumption ==
    /\ None \notin Claim
    /\ DumpHeight \in Nat \ {0} /\ MaxHeight \in Nat /\ MaxWork \in Nat /\ MaxCrashes \in Nat

-----------------------------------------------------------------------------
(* Properties *)

Paid(chain) == {chain[i].claim : i \in {j \in DOMAIN chain : chain[j].paid}}

\* The types of the state: what a node builds on it can build on from disk or
\* from memory, and its head is among it.
TypeOK ==
    /\ records \in [Node -> SUBSET Claim]
    /\ states \in [Node -> SUBSET Chain]
    /\ saved \in [Node -> SUBSET Chain]
    /\ head \in [Node -> Chain]
    /\ current \in [Node -> Chain]
    /\ tasks \in [Node -> SUBSET Chain]
    /\ made \subseteq Chain
    /\ rejected \subseteq Node \X Chain
    /\ work \in [Node -> Nat]
    /\ crashes \in Nat
    /\ \A n \in Node : saved[n] \subseteq states[n] /\ head[n] \in states[n]

\* No chain that a node accepts pays a claim twice, whatever it has assembled,
\* imported, refused, reorganised or lost in a crash before.
PaidOnce ==
    \A n \in Node : \A chain \in states[n] :
      \A i, j \in DOMAIN chain :
        chain[i].paid /\ chain[j].paid /\ chain[i].claim = chain[j].claim => i = j

\* A claim that a chain has paid is known to every node that may build on the
\* chain: from the state, or from the node's own record table.
PaidRemembered ==
    \A n \in Node : \A chain \in states[n] : Paid(chain) \subseteq UsedItems(chain) \cup records[n]

\* Nodes never part over a claim that the chain itself has paid before: when a
\* node refuses a block of another, its claim is new to the block's chain.
NoSplitOverPaidClaim ==
    \A r \in rejected : Last(r[2]).claim \notin Paid(Parent(r[2]))

\* A block that a node made by the rules passes the validation of every other
\* node that can build on its parent.
ValidBlocksPass == rejected = {}

\* Finalizing a copy of the pending state has no effect on any other state: what
\* HasItem answers on the states a node holds stays as it is when work is
\* assembled.
CopiesIndependent ==
    [][\A n \in Node : commit(n) =>
         \A chain \in states[n], c \in Claim :
           HasItem(n, chain, c)' = HasItem(n, chain, c)]_vars

=============================================================================
