------------------------- MODULE TeWakaChainProofs -------------------------
(***************************************************************************)
(* For any number of nodes, claims and blocks and any DumpHeight: no chain *)
(* that a node holds pays a claim twice, and nodes never part over a claim *)
(* that the chain has paid.  Neither is inductive.  A node pays only once  *)
(* because what a chain paid is in the chain's used items or in the node's *)
(* own table (Known); that has to hold of the blocks being sealed as well, *)
(* which enter the chain without being run again.  And two nodes agree     *)
(* about a claim paid before because a sealed block with such a claim is   *)
(* the one that every node would make (Settled).                           *)
(***************************************************************************)
EXTENDS TeWakaChain, TLAPS

Once(chain) ==
    \A i, j \in DOMAIN chain :
      chain[i].paid /\ chain[j].paid /\ chain[i].claim = chain[j].claim => i = j

Known(n, chain) == Paid(chain) \subseteq UsedItems(chain) \cup records[n]

Unpaid(parent, c) ==
    [claim |-> c, paid |-> FALSE,
     used |-> IF IsDump(parent) THEN {} ELSE UsedItems(parent)]

Settled(chain) ==
    /\ chain # Genesis
    /\ Last(chain).claim \in Paid(Parent(chain)) =>
         Last(chain) = Unpaid(Parent(chain), Last(chain).claim)

\* Work whose transactions have run: it pays once and settled its claim, its
\* parent is known, and the state it will be finalized to follows from both.
Assembled(n, chain) ==
    /\ Once(chain)
    /\ Settled(chain)
    /\ Known(n, Parent(chain))
    /\ Last(chain).paid => Last(chain).claim \in Claim
    /\ Last(chain).used = IF IsDump(Parent(chain)) THEN {} ELSE UsedBefore(Parent(chain), Last(chain))

ChainInv ==
    /\ TypeOK
    /\ \A n \in Node : current[n] # Genesis => Assembled(n, current[n])
    /\ \A n \in Node : \A chain \in states[n] \cup tasks[n] : Once(chain) /\ Known(n, chain)
    /\ \A n \in Node : \A chain \in tasks[n] : Settled(chain)
    /\ \A chain \in made : Settled(chain)
    /\ NoSplitOverPaidClaim

-----------------------------------------------------------------------------

\* A chain is taken apart the way commit puts it together.
LEMMA AppendParts ==
    ASSUME NEW parent \in Chain, NEW b \in Block
    PROVE  /\ Append(parent, b) \in Chain
           /\ Append(parent, b) # Genesis
           /\ Parent(Append(parent, b)) = parent
           /\ Last(Append(parent, b)) = b
           /\ Len(Append(parent, b)) = Len(parent) + 1
           /\ \A i \in 1..Len(parent) : Append(parent, b)[i] = parent[i]
           /\ Append(parent, b)[Len(parent) + 1] = b
  <1>1. /\ Append(parent, b) \in Seq(Block)
        /\ Len(Append(parent, b)) = Len(parent) + 1
        /\ \A i \in 1..Len(parent) : Append(parent, b)[i] = parent[i]
        /\ Append(parent, b)[Len(parent) + 1] = b
        /\ Len(parent) \in Nat
    BY DEF Chain
  <1>2. Append(parent, b) # << >>
    BY <1>1
  <1>3. SubSeq(Append(parent, b), 1, Len(parent)) = parent
    BY DEF Chain
  <1> QED
    BY <1>1, <1>2, <1>3 DEF Chain, Genesis, Parent, Last

\* A chain with a block is its parent and its last block.
LEMMA ChainParts ==
    ASSUME NEW chain \in Chain, chain # Genesis
    PROVE  /\ Parent(chain) \in Chain
           /\ Last(chain) \in Block
           /\ chain = Append(Parent(chain), Last(chain))
  <1>1. Len(chain) \in Nat /\ Len(chain) # 0
    BY DEF Chain, Genesis
  <1>2. Last(chain) \in Block
    BY <1>1 DEF Chain, Last
  <1>3. Parent(chain) \in Seq(Block) /\ Len(Parent(chain)) = Len(chain) - 1
    BY <1>1 DEF Chain, Parent
  <1>4. \A i \in 1..(Len(chain) - 1) : Parent(chain)[i] = chain[i]
    BY <1>1 DEF Chain, Parent
  <1>5. chain = Append(Parent(chain), Last(chain))
    BY <1>1, <1>2, <1>3, <1>4 DEF Chain, Last
  <1> QED
    BY <1>2, <1>3, <1>5 DEF Chain

\* Running a block leaves one more chain that is well-formed.
LEMMA ExecuteType ==
    ASSUME TypeOK, NEW n \in Node, NEW parent \in Chain, NEW c \in Claim \cup {None}
    PROVE  /\ UsedItems(parent) \in SUBSET Claim
           /\ Execute(n, parent, c) \in Block
           /\ Execute(n, parent, c).claim = c
           /\ Execute(n, parent, c).paid = Pays(n, parent, c)
           /\ Execute(n, parent, c).used =
                IF IsDump(parent) THEN {} ELSE UsedBefore(parent, Execute(n, parent, c))
  <1>1. UsedItems(parent) \in SUBSET Claim
    <2>1. CASE parent = Genesis
      BY <2>1 DEF UsedItems
    <2>2. CASE parent # Genesis
      BY <2>2, ChainParts DEF UsedItems, Block
    <2> QED BY <2>1, <2>2
  <1>2. Pays(n, parent, c) \in BOOLEAN /\ {d \in {c} : Pays(n, parent, c)} \in SUBSET Claim
    BY DEF Pays, HasItem
  <1> HIDE DEF Pays, UsedItems
  <1>3. Execute(n, parent, c) \in Block
    BY <1>1, <1>2 DEF Execute, Block
  <1>4. /\ Execute(n, parent, c).claim = c
        /\ Execute(n, parent, c).paid = Pays(n, parent, c)
        /\ Execute(n, parent, c).used =
             IF IsDump(parent) THEN {} ELSE UsedItems(parent) \cup {d \in {c} : Pays(n, parent, c)}
    BY DEF Execute
  <1>5. UsedBefore(parent, Execute(n, parent, c))
          = UsedItems(parent) \cup {d \in {c} : Pays(n, parent, c)}
    BY <1>4 DEF UsedBefore
  <1> QED BY <1>1, <1>3, <1>4, <1>5

\* What is in use before the dump is what was and the claim if it is paid.
LEMMA UsedBeforeType ==
    ASSUME NEW parent \in Chain, NEW b \in Block, b.paid => b.claim \in Claim
    PROVE  UsedItems(parent) \in SUBSET Claim /\ UsedBefore(parent, b) \in SUBSET Claim
  <1>1. UsedItems(parent) \in SUBSET Claim
    <2>1. CASE parent = Genesis
      BY <2>1 DEF UsedItems
    <2>2. CASE parent # Genesis
      BY <2>2, ChainParts DEF UsedItems, Block
    <2> QED BY <2>1, <2>2
  <1> QED BY <1>1 DEF UsedBefore

\* The table of a node only grows, and only by claims.
LEMMA ShiftType ==
    ASSUME TypeOK, NEW n \in Node, NEW parent \in Chain, NEW b \in Block,
           b.paid => b.claim \in Claim, ShiftItems(n, parent, b)
    PROVE  /\ records' \in [Node -> SUBSET Claim]
           /\ \A m \in Node : records[m] \subseteq records'[m]
           /\ IsDump(parent) => UsedBefore(parent, b) \subseteq records'[n]
  <1>1. UsedBefore(parent, b) \in SUBSET Claim
    BY UsedBeforeType
  <1> HIDE DEF UsedBefore
  <1> QED BY <1>1 DEF ShiftItems, TypeOK

\* What a longer chain has paid.
LEMMA PaidAppend ==
    ASSUME NEW parent \in Chain, NEW b \in Block
    PROVE  Paid(Append(parent, b)) = Paid(parent) \cup {c \in {b.claim} : b.paid}
  <1> DEFINE s == Append(parent, b)
  <1>1. /\ s \in Seq(Block) /\ Len(s) = Len(parent) + 1 /\ Len(parent) \in Nat
        /\ s[Len(parent) + 1] = b
        /\ \A i \in 1..Len(parent) : s[i] = parent[i]
    BY AppendParts DEF Chain
  <1>2. DOMAIN s = 1..(Len(parent) + 1) /\ DOMAIN parent = 1..Len(parent)
    BY <1>1 DEF Chain
  <1> HIDE DEF s
  <1>3. Paid(s) = Paid(parent) \cup {c \in {b.claim} : b.paid}
    BY <1>1, <1>2 DEF Paid
  <1> QED BY <1>3 DEF s

\* A node that does not pay a claim makes the block that says so.
LEMMA UnpaidIsRun ==
    ASSUME TypeOK, NEW n \in Node, NEW parent \in Chain, NEW c \in Claim \cup {None},
           ~Pays(n, parent, c)
    PROVE  Execute(n, parent, c) = Unpaid(parent, c)
  <1>1. Pays(n, parent, c) = FALSE
    BY DEF Pays, HasItem
  <1>2. UsedItems(parent) \cup {d \in {c} : Pays(n, parent, c)} = UsedItems(parent)
    BY <1>1
  <1> QED BY <1>1, <1>2, Zenon DEF Execute, Unpaid

\* Running a block on a chain that pays once and that the node knows.
LEMMA Run ==
    ASSUME TypeOK, NEW n \in Node, NEW parent \in Chain, NEW c \in Claim \cup {None},
           Once(parent), Known(n, parent),
           NEW chain, chain = Append(parent, Execute(n, parent, c))
    PROVE  /\ chain \in Chain /\ Parent(chain) = parent /\ Last(chain) = Execute(n, parent, c)
           /\ Assembled(n, chain)
  <1> DEFINE b == Execute(n, parent, c)
  <1>1. b \in Block /\ b.claim = c /\ b.paid = Pays(n, parent, c)
        /\ b.used = IF IsDump(parent) THEN {} ELSE UsedBefore(parent, b)
    BY ExecuteType
  <1>a. chain = Append(parent, b)
    OBVIOUS
  <1> HIDE DEF b
  <1>2. /\ chain \in Chain /\ chain # Genesis /\ Parent(chain) = parent /\ Last(chain) = b
        /\ Len(chain) = Len(parent) + 1
        /\ \A i \in 1..Len(parent) : chain[i] = parent[i]
        /\ chain[Len(parent) + 1] = b
    BY <1>1, <1>a, AppendParts
  <1>3. c \in Paid(parent) => ~Pays(n, parent, c)
    BY DEF Known, Pays, HasItem
  <1>4. Once(chain)
    <2>1. DOMAIN chain = 1..(Len(parent) + 1) /\ DOMAIN parent = 1..Len(parent) /\ Len(parent) \in Nat
      BY <1>2 DEF Chain
    <2>2. \A i \in 1..Len(parent) : parent[i].paid => parent[i].claim \in Paid(parent)
      BY <2>1 DEF Paid
    <2> SUFFICES ASSUME NEW i \in DOMAIN chain, NEW j \in DOMAIN chain,
                        chain[i].paid, chain[j].paid, chain[i].claim = chain[j].claim
                 PROVE  i = j
      BY DEF Once
    <2>3. CASE i \in 1..Len(parent) /\ j \in 1..Len(parent)
      BY <2>1, <2>3, <1>2 DEF Once
    <2>4. CASE i = Len(parent) + 1 /\ j \in 1..Len(parent)
      BY <2>1, <2>2, <2>4, <1>1, <1>2, <1>3
    <2>5. CASE j = Len(parent) + 1 /\ i \in 1..Len(parent)
      BY <2>1, <2>2, <2>5, <1>1, <1>2, <1>3
    <2> QED BY <2>1, <2>3, <2>4, <2>5
  <1>5. Settled(chain)
    <2>1. c \in Paid(parent) => b = Unpaid(parent, c)
      BY <1>3, UnpaidIsRun DEF b
    <2> QED BY <1>1, <1>2, <2>1 DEF Settled
  <1>6. b.paid => b.claim \in Claim
    BY <1>1 DEF Pays
  <1>7. Assembled(n, chain)
    BY <1>1, <1>2, <1>4, <1>5, <1>6 DEF Assembled
  <1> QED BY <1>2, <1>7 DEF b

\* Finalizing a block that has been run makes the node know what its chain paid,
\* whatever else was written to the table since.
LEMMA Finish ==
    ASSUME TypeOK, NEW n \in Node, NEW chain \in Chain, Assembled(n, chain),
           ShiftItems(n, Parent(chain), Last(chain))
    PROVE  /\ records' \in [Node -> SUBSET Claim]
           /\ \A m \in Node : records[m] \subseteq records'[m]
           /\ Paid(chain) \subseteq UsedItems(chain) \cup records'[n]
  <1> DEFINE parent == Parent(chain)
             b == Last(chain)
  <1>1. /\ chain # Genesis /\ parent \in Chain /\ b \in Block /\ chain = Append(parent, b)
        /\ Known(n, parent) /\ (b.paid => b.claim \in Claim)
        /\ b.used = IF IsDump(parent) THEN {} ELSE UsedBefore(parent, b)
    BY ChainParts DEF Assembled, Settled
  <1>2. UsedItems(chain) = b.used
    BY <1>1 DEF UsedItems
  <1> HIDE DEF parent, b
  <1>3. /\ records' \in [Node -> SUBSET Claim]
        /\ \A m \in Node : records[m] \subseteq records'[m]
        /\ IsDump(parent) => UsedBefore(parent, b) \subseteq records'[n]
    BY <1>1, ShiftType DEF parent, b
  <1>4. Paid(chain) \subseteq UsedBefore(parent, b) \cup records[n]
    BY <1>1, PaidAppend DEF Known, UsedBefore
  <1> QED BY <1>1, <1>2, <1>3, <1>4

-----------------------------------------------------------------------------

\* Types and facts about the parts of the invariant that a step needs.
LEMMA ChooseHeadFacts ==
    ASSUME TypeOK, NEW n \in Node, NEW chain \in Chain,
           states' = [states EXCEPT ![n] = @ \cup {chain}], chooseHead(n, chain),
           UNCHANGED saved
    PROVE  /\ states' \in [Node -> SUBSET Chain]
           /\ head' \in [Node -> Chain]
           /\ \A m \in Node : saved'[m] \subseteq states'[m] /\ head'[m] \in states'[m]
  <1>1. states' \in [Node -> SUBSET Chain]
    BY DEF TypeOK
  <1>2. head' = head \/ head' = [head EXCEPT ![n] = chain]
    BY DEF chooseHead
  <1>3. head' \in [Node -> Chain]
    BY <1>2 DEF TypeOK
  <1>4. \A m \in Node : saved'[m] \subseteq states'[m] /\ head'[m] \in states'[m]
    BY <1>2 DEF TypeOK
  <1> QED BY <1>1, <1>3, <1>4

\* Work under way stays assembled while tables grow.
LEMMA StillAssembled ==
    ASSUME NEW n \in Node, NEW chain, Assembled(n, chain), records[n] \subseteq records'[n]
    PROVE  Assembled(n, chain)'
  BY DEF Assembled, Once, Settled, Known, Unpaid

\* commitNewWork keeps the invariant.
LEMMA NewWorkStep ==
    ASSUME ChainInv, NEW n \in Node, NEW c \in Claim \cup {None}, commitNewWork(n, c)
    PROVE  ChainInv'
  <1> DEFINE parent == head[n]
             new == Append(parent, Execute(n, parent, c))
  <1>0. TypeOK
    BY DEF ChainInv
  <1>1. parent \in Chain /\ Once(parent) /\ Known(n, parent)
    BY DEF ChainInv, TypeOK
  <1>2. /\ current' = [current EXCEPT ![n] = new] /\ work' = [work EXCEPT ![n] = @ + 1]
        /\ UNCHANGED <<records, states, saved, head, tasks, made, rejected, crashes>>
    BY DEF commitNewWork
  <1> HIDE DEF parent
  <1>3. new \in Chain /\ Assembled(n, new)
    BY <1>0, <1>1, Run
  <1> HIDE DEF new
  <1>4. TypeOK'
    <2>1. work' \in [Node -> Nat] /\ current' \in [Node -> Chain]
      BY <1>0, <1>2, <1>3 DEF TypeOK
    <2> QED BY <1>0, <1>2, <2>1 DEF TypeOK
  <1>5. \A m \in Node : current'[m] # Genesis => Assembled(m, current'[m])
    BY <1>0, <1>2, <1>3 DEF ChainInv, TypeOK
  <1>6. \A m \in Node : current'[m] # Genesis => Assembled(m, current[m])' 
    BY <1>2, <1>5, StillAssembled
  <1> QED BY <1>2, <1>4, <1>6 DEF ChainInv, Known, NoSplitOverPaidClaim

\* commit keeps the invariant.
LEMMA CommitStep ==
    ASSUME ChainInv, NEW n \in Node, commit(n)
    PROVE  ChainInv'
  <1> DEFINE new == current[n]
  <1>0. TypeOK
    BY DEF ChainInv
  <1>1. new \in Chain /\ Assembled(n, new) /\ ShiftItems(n, Parent(new), Last(new))
    BY DEF ChainInv, TypeOK, commit
  <1>2. /\ tasks' = tasks \/ tasks' = [tasks EXCEPT ![n] = @ \cup {new}]
        /\ current' = [current EXCEPT ![n] = Genesis]
        /\ UNCHANGED <<states, saved, head, made, rejected, work, crashes>>
    BY DEF commit
  <1> HIDE DEF new
  <1>3. /\ records' \in [Node -> SUBSET Claim] /\ \A m \in Node : records[m] \subseteq records'[m]
        /\ Paid(new) \subseteq UsedItems(new) \cup records'[n]
    BY <1>0, <1>1, Finish
  <1>4. Once(new) /\ Settled(new)
    BY <1>1 DEF Assembled
  <1>5. tasks' \in [Node -> SUBSET Chain]
    BY <1>0, <1>1, <1>2 DEF TypeOK
  <1>6. /\ current' \in [Node -> Chain]
        /\ \A m \in Node : current'[m] # Genesis => current'[m] = current[m]
    BY <1>0, <1>2 DEF TypeOK, Genesis, Chain
  <1>7. TypeOK'
    BY <1>0, <1>2, <1>3, <1>5, <1>6 DEF TypeOK
  <1>8. \A m \in Node : \A chain \in tasks'[m] :
          chain \in tasks[m] \/ (m = n /\ chain = new)
    BY <1>0, <1>2 DEF TypeOK
  <1>9. \A m \in Node : \A chain \in states'[m] \cup tasks'[m] :
          Once(chain) /\ Paid(chain) \subseteq UsedItems(chain) \cup records'[m]
    BY <1>2, <1>3, <1>4, <1>8 DEF ChainInv, Known
  <1>10. \A m \in Node : \A chain \in tasks'[m] : Settled(chain)
    BY <1>4, <1>8 DEF ChainInv
  <1>11. \A m \in Node : current'[m] # Genesis => Assembled(m, current[m])'
    BY <1>3, <1>6, StillAssembled DEF ChainInv
  <1> QED BY <1>2, <1>7, <1>9, <1>10, <1>11 DEF ChainInv, Known, NoSplitOverPaidClaim

\* resultLoop keeps the invariant: what it writes was known when assembled.
LEMMA ResultStep ==
    ASSUME ChainInv, NEW n \in Node, NEW chain \in tasks[n], resultLoop(n, chain)
    PROVE  ChainInv'
  <1>0. TypeOK /\ chain \in Chain
    BY DEF ChainInv, TypeOK
  <1>1. tasks' = [tasks EXCEPT ![n] = @ \ {chain}]
        /\ UNCHANGED <<records, saved, current, rejected, work, crashes>>
    BY DEF resultLoop
  <1>2. tasks' \in [Node -> SUBSET Chain] /\ \A m \in Node : tasks'[m] \subseteq tasks[m]
    BY <1>0, <1>1 DEF TypeOK
  <1>a. \A m \in Node : current'[m] # Genesis => Assembled(m, current[m])'
    BY <1>1, StillAssembled DEF ChainInv
  <1>3. CASE UNCHANGED <<states, head, made>>
    <2>1. TypeOK'
      BY <1>0, <1>1, <1>2, <1>3 DEF TypeOK
    <2> QED BY <1>1, <1>2, <1>3, <1>a, <2>1 DEF ChainInv, Known, NoSplitOverPaidClaim
  <1>4. CASE /\ states' = [states EXCEPT ![n] = @ \cup {chain}]
             /\ chooseHead(n, chain)
             /\ made' = made \cup {chain}
    <2>1. TypeOK'
      BY <1>0, <1>1, <1>2, <1>4, ChooseHeadFacts DEF TypeOK
    <2>2. \A m \in Node : states'[m] \subseteq states[m] \cup tasks[m]
      BY <1>0, <1>4 DEF TypeOK
    <2>3. \A m \in Node : \A s \in states'[m] \cup tasks'[m] : Once(s) /\ Known(m, s)
      BY <1>2, <2>2 DEF ChainInv
    <2> QED BY <1>1, <1>2, <1>4, <1>a, <2>1, <2>3 DEF ChainInv, Known, NoSplitOverPaidClaim
  <1> QED BY <1>3, <1>4 DEF resultLoop

\* insertChain keeps the invariant: a block it accepts is one the node would
\* have made, and one it refuses has no claim that its chain has paid.
LEMMA InsertStep ==
    ASSUME ChainInv, NEW n \in Node, NEW chain \in made, insertChain(n, chain)
    PROVE  ChainInv'
  <1> DEFINE parent == Parent(chain)
             c == Last(chain).claim
  <1>0. TypeOK /\ chain \in Chain /\ Settled(chain)
    BY DEF ChainInv, TypeOK
  <1>1. chain # Genesis /\ parent \in Chain /\ Last(chain) \in Block
        /\ chain = Append(parent, Last(chain))
    BY <1>0, ChainParts DEF Settled
  <1>2. c \in Claim \cup {None}
    BY <1>1 DEF Block
  <1>3. /\ parent \in states[n] /\ ShiftItems(n, parent, Execute(n, parent, c))
        /\ UNCHANGED <<saved, current, tasks, made, work, crashes>>
    BY DEF insertChain
  <1>4. Once(parent) /\ Known(n, parent)
    BY <1>3 DEF ChainInv
  <1> DEFINE run == Append(parent, Execute(n, parent, c))
  <1>b. run \in Chain /\ Parent(run) = parent /\ Last(run) = Execute(n, parent, c) /\ Assembled(n, run)
    <2> HIDE DEF parent, c
    <2> QED BY <1>0, <1>1, <1>2, <1>4, Run
  <1>5. records' \in [Node -> SUBSET Claim] /\ (\A m \in Node : records[m] \subseteq records'[m])
        /\ Paid(run) \subseteq UsedItems(run) \cup records'[n]
    <2>1. ShiftItems(n, Parent(run), Last(run))
      BY <1>3, <1>b
    <2> HIDE DEF run
    <2> QED BY <1>0, <1>b, <2>1, Finish
  <1>a. \A m \in Node : current'[m] # Genesis => Assembled(m, current[m])'
    BY <1>3, <1>5, StillAssembled DEF ChainInv
  <1>6. CASE /\ Execute(n, parent, c) = Last(chain)
             /\ states' = [states EXCEPT ![n] = @ \cup {chain}]
             /\ chooseHead(n, chain)
             /\ UNCHANGED rejected
    <2>1. chain = run
      BY <1>1, <1>6
    <2> HIDE DEF parent, c, run
    <2>2. Once(chain) /\ Paid(chain) \subseteq UsedItems(chain) \cup records'[n]
      BY <1>5, <1>b, <2>1 DEF Assembled
    <2>3. TypeOK'
      BY <1>0, <1>3, <1>5, <1>6, ChooseHeadFacts DEF TypeOK
    <2>4. \A m \in Node : \A s \in states'[m] : s \in states[m] \/ (m = n /\ s = chain)
      BY <1>0, <1>6 DEF TypeOK
    <2>5. \A m \in Node : \A s \in states'[m] \cup tasks'[m] :
            Once(s) /\ Paid(s) \subseteq UsedItems(s) \cup records'[m]
      BY <1>3, <1>5, <2>2, <2>4 DEF ChainInv, Known
    <2> QED BY <1>3, <1>6, <1>a, <2>3, <2>5 DEF ChainInv, Known, NoSplitOverPaidClaim
  <1>7. CASE /\ Execute(n, parent, c) # Last(chain)
             /\ rejected' = rejected \cup {<<n, chain>>}
             /\ UNCHANGED <<states, head>>
    <2>1. c \notin Paid(parent)
      <3> SUFFICES ASSUME c \in Paid(parent)
                   PROVE  Execute(n, parent, c) = Last(chain)
        BY <1>7
      <3>1. ~Pays(n, parent, c)
        BY <1>4 DEF Known, Pays, HasItem
      <3>2. Last(chain) = Unpaid(parent, c)
        BY <1>0 DEF Settled
      <3> HIDE DEF parent, c
      <3> QED BY <1>0, <1>1, <1>2, <3>1, <3>2, UnpaidIsRun
    <2>2. NoSplitOverPaidClaim'
      <3>1. \A r \in rejected' : r \in rejected \/ r = <<n, chain>>
        BY <1>7
      <3> QED BY <3>1, <2>1 DEF ChainInv, NoSplitOverPaidClaim
    <2> HIDE DEF parent, c, run
    <2>3. TypeOK'
      BY <1>0, <1>3, <1>5, <1>7 DEF TypeOK
    <2> QED BY <1>3, <1>5, <1>7, <1>a, <2>2, <2>3 DEF ChainInv, Known
  <1> QED BY <1>6, <1>7 DEF insertChain

\* Every step keeps the invariant; saving, crashing and restarting only ever
\* shrink what a node holds and never touch its table.
LEMMA ChainStep ==
    ASSUME ChainInv, [Next]_vars
    PROVE  ChainInv'
  <1>0. TypeOK
    BY DEF ChainInv
  <1>1. ASSUME NEW n \in Node, NEW chain \in states[n], saveState(n, chain)
        PROVE  ChainInv'
    <2>1. /\ UNCHANGED <<records, states, head, current, tasks, made, rejected, work, crashes>>
          /\ saved' = [saved EXCEPT ![n] = @ \cup {chain}]
      BY <1>1 DEF saveState
    <2>2. TypeOK'
      BY <1>0, <2>1 DEF TypeOK
    <2>3. \A m \in Node : current'[m] # Genesis => Assembled(m, current[m])'
      BY <2>1, StillAssembled DEF ChainInv
    <2> QED BY <2>1, <2>2, <2>3 DEF ChainInv, Known, NoSplitOverPaidClaim
  <1>2. ASSUME NEW n \in Node, restart(n)
        PROVE  ChainInv'
    <2>1. /\ UNCHANGED <<records, saved, made, rejected, work>>
          /\ states' = [states EXCEPT ![n] = saved[n]]
          /\ current' = [current EXCEPT ![n] = Genesis]
          /\ tasks' = [tasks EXCEPT ![n] = {}]
          /\ crashes' = crashes + 1
      BY <1>2 DEF restart
    <2>2. PICK chain \in saved[n] : head' = [head EXCEPT ![n] = chain]
      BY <1>2 DEF restart
    <2>3. /\ states' \in [Node -> SUBSET Chain] /\ tasks' \in [Node -> SUBSET Chain]
          /\ \A m \in Node : states'[m] \subseteq states[m] /\ tasks'[m] \subseteq tasks[m]
      BY <1>0, <2>1 DEF TypeOK
    <2>4. head' \in [Node -> Chain]
          /\ \A m \in Node : saved'[m] \subseteq states'[m] /\ head'[m] \in states'[m]
      BY <1>0, <2>1, <2>2 DEF TypeOK
    <2>5. /\ current' \in [Node -> Chain]
          /\ \A m \in Node : current'[m] # Genesis => current'[m] = current[m]
      BY <1>0, <2>1 DEF TypeOK, Genesis, Chain
    <2>6. TypeOK'
      BY <1>0, <2>1, <2>3, <2>4, <2>5 DEF TypeOK
    <2>7. \A m \in Node : current'[m] # Genesis => Assembled(m, current[m])'
      BY <2>1, <2>5, StillAssembled DEF ChainInv
    <2> QED BY <2>1, <2>3, <2>6, <2>7 DEF ChainInv, Known, NoSplitOverPaidClaim
  <1>3. ASSUME NEW n \in Node, NEW chain \in made, writeKnownBlock(n, chain)
        PROVE  ChainInv'
    <2>1. /\ UNCHANGED <<records, states, saved, current, tasks, made, rejected, work, crashes>>
          /\ head' = [head EXCEPT ![n] = chain] /\ chain \in states[n]
      BY <1>3 DEF writeKnownBlock
    <2>2. TypeOK'
      BY <1>0, <2>1 DEF TypeOK
    <2>3. \A m \in Node : current'[m] # Genesis => Assembled(m, current[m])'
      BY <2>1, StillAssembled DEF ChainInv
    <2> QED BY <2>1, <2>2, <2>3 DEF ChainInv, Known, NoSplitOverPaidClaim
  <1>4. ASSUME UNCHANGED vars
        PROVE  ChainInv'
    <2>1. TypeOK'
      BY <1>0, <1>4 DEF TypeOK, vars
    <2>2. \A m \in Node : current'[m] # Genesis => Assembled(m, current[m])'
      BY <1>4, StillAssembled DEF ChainInv, vars
    <2> QED BY <1>4, <2>1, <2>2 DEF ChainInv, Known, NoSplitOverPaidClaim, vars
  <1> QED BY <1>1, <1>2, <1>3, <1>4, NewWorkStep, CommitStep, ResultStep, InsertStep DEF Next

\* The invariant holds of the genesis block alone.
LEMMA ChainInit == Init => ChainInv
  <1> SUFFICES ASSUME Init PROVE ChainInv
    OBVIOUS
  <1>1. Genesis \in Chain /\ DOMAIN Genesis = {}
    BY DEF Genesis, Chain
  <1>2. TypeOK
    BY <1>1 DEF Init, TypeOK
  <1>3. Once(Genesis) /\ Paid(Genesis) = {}
    BY <1>1 DEF Once, Paid
  <1> QED BY <1>2, <1>3 DEF Init, ChainInv, Known, NoSplitOverPaidClaim

-----------------------------------------------------------------------------

\* The inductive invariant of commitNewWork, commit, resultLoop, insertChain and restart.
THEOREM ChainInvariant == Spec => []ChainInv
  BY ChainInit, ChainStep, PTL DEF Spec

\* The state of every node keeps its types.
THEOREM ChainTypeCorrect == Spec => []TypeOK
  <1>1. ChainInv => TypeOK
    BY DEF ChainInv
  <1> QED BY <1>1, ChainInvariant, PTL

\* No chain that insertChain or resultLoop gives a node pays a claim twice.
THEOREM PaysOnce == Spec => []PaidOnce
  <1>1. ChainInv => PaidOnce
    BY DEF ChainInv, PaidOnce, Once
  <1> QED BY <1>1, ChainInvariant, PTL

\* HasItem, asked on a chain the node holds, knows every claim it has paid.
THEOREM PaidIsRemembered == Spec => []PaidRemembered
  <1>1. ChainInv => PaidRemembered
    BY DEF ChainInv, PaidRemembered, Known
  <1> QED BY <1>1, ChainInvariant, PTL

\* ValidateState never fails for a claim that the block's chain has paid.
THEOREM NoSplitOverPaid == Spec => []NoSplitOverPaidClaim
  <1>1. ChainInv => NoSplitOverPaidClaim
    BY DEF ChainInv
  <1> QED BY <1>1, ChainInvariant, PTL

=============================================================================
