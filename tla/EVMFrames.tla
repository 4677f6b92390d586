------------------------------ MODULE EVMFrames ------------------------------
(***************************************************************************)
(* Transactions of a block run on a StateDB: nested calls, each with its   *)
(* snapshot (core/vm/evm.go, core/state_transition.go), as the miner runs  *)
(* them (miner/worker.go).  frames is the stack of open calls, the         *)
(* transaction at its bottom.  undo is the progress of RevertToSnapshot.   *)
(* cache is the pledge cache, from hashes of encodings to what was decoded *)
(* (core/vm/te_waka_impl.go).                                              *)
(***************************************************************************)
EXTENDS StateDB

CONSTANTS TeWaKa,     \* the precompiled contract
          Coinbase,   \* who is paid for the block
          Pool, Sink, \* a pool of the bridge and where it is swept to
          Genesis,    \* the account trie of the first block's parent
          Payments,   \* <<from, to, amount>> that a TeWaka handler may move
          ClearRefund, SetRefund, ResetRefund,  \* of SSTORE
          Senders,    \* accounts that sign transactions
          Fees,       \* what a transaction may pay for its gas
          MaxDepth,   \* bound on open calls
          MaxOps,     \* bound on operations, where a transaction counts twice
          MaxBlocks   \* bound on blocks

ASSUME FramesAssumption ==
  /\ {TeWaKa, Coinbase, Pool, Sink} \cup Senders \subseteq Addr
  /\ Genesis \in [Addr -> Account \cup {None}]
  /\ \A p \in Payments : p[1] \in Addr /\ p[2] \in Addr /\ p[3] \in Nat
  /\ ClearRefund \in Nat /\ SetRefund \in Nat /\ ResetRefund \in Nat
  /\ Fees \subseteq Nat

VARIABLES db, frames, undo, cache, closing, ops, blocks

vars == <<db, frames, undo, cache, closing, ops, blocks>>

Top == frames[Len(frames)]
Pop == SubSeq(frames, 1, Len(frames) - 1)

\* code is what runs: a contract, the TeWaka handlers, or nothing any more.
frame(self, code, snap, ro) ==
  [self |-> self, code |-> code, snap |-> snap, ro |-> ro, impl |-> None]

\* Init code runs like a contract; its result is stored when it succeeds.
Running(code) == undo = None /\ frames # <<>> /\ Top.code = code
Program == Running("contract") \/ Running("create")

Step == ops < MaxOps /\ ops' = ops + 1 /\ UNCHANGED <<closing, blocks>>
NoStep == UNCHANGED <<closing, ops, blocks>>

Init ==
  /\ db = New(Genesis)
  /\ frames = <<>> /\ undo = None /\ cache = [b \in Blob |-> None]
  /\ closing = FALSE /\ ops = 0 /\ blocks = 0

\* evm.Call, from the snapshot to the start of the callee's code.
calling(d, from, to, n) ==
  LET s == Snapshot(d)
  IN  IF Exist(d, to) THEN Transfer(s, from, to, n)
      ELSE IF to # TeWaKa /\ n = 0 THEN s
      ELSE Transfer(CreateAccount(s, to), from, to, n)

codeOf(d, a) == IF a = TeWaKa THEN "tewaka" ELSE IF HasCode(d, a) THEN "contract" ELSE "none"

\* An account without code has nothing to run: the call is over.
enter(d, snap, self, code, ro) ==
  /\ db' = d
  /\ frames' = IF code = "none" THEN frames ELSE Append(frames, frame(self, code, snap, ro))
  /\ UNCHANGED <<undo, cache>>

(***************************************************************************)
(* Transactions.                                                           *)
(***************************************************************************)

\* Prepare, the worker's snapshot, and preCheck with buyGas.
commitTransaction(from, fee) ==
  LET d == Snapshot(Prepare(db))
  IN  /\ undo = None /\ frames = <<>> /\ ~closing /\ ops + 2 <= MaxOps
      /\ ~HasCode(db, from) /\ GetBalance(db, from) >= fee
      /\ db' = SubBalance(d, from, fee)
      /\ frames' = <<frame(from, "bought", db.nextRev, FALSE)>>
      /\ ops' = ops + 2 /\ UNCHANGED <<undo, cache, closing, blocks>>

\* PrepareAccessList ends with the precompiled contracts.
warmed(d) == AddAddressToAccessList(d, TeWaKa)

\* The message is applied: access list, nonce, and the first call.
transitionCall(to, n) ==
  LET from == Top.self
      a == warmed(AddAddressToAccessList(AddAddressToAccessList(db, from), to))
      d == SetNonce(a, from, GetNonce(a, from) + 1)
  IN  /\ Running("bought") /\ NoStep
      /\ n <= GetBalance(db, from)
      /\ db' = calling(d, from, to, n)
      /\ frames' = LET base == [frames EXCEPT ![1].code = "applied"]
                   IN  IF codeOf(d, to) = "none" THEN base
                       ELSE Append(base, frame(to, codeOf(d, to), d.nextRev, FALSE))
      /\ UNCHANGED <<undo, cache>>

\* evm.create, after the checks that leave the state alone: first the nonce of
\* the creator and the access list.
bumped(d, from, to) == AddAddressToAccessList(SetNonce(d, from, GetNonce(d, from) + 1), to)

Collides(d, a) == GetNonce(d, a) # 0 \/ HasCode(d, a)

creating(d, from, to, n) ==
  LET e == bumped(d, from, to)
  IN  IF Collides(e, to) THEN e
      ELSE Transfer(SetNonce(CreateAccount(Snapshot(e), to), to, 1), from, to, n)

transitionCreate(to, n) ==
  LET from == Top.self
      d == warmed(AddAddressToAccessList(db, from))
  IN  /\ Running("bought") /\ NoStep
      /\ to \notin {from, TeWaKa} /\ n <= GetBalance(db, from)
      /\ db' = creating(d, from, to, n)
      /\ frames' = LET base == [frames EXCEPT ![1].code = "applied"]
                   IN  IF Collides(bumped(d, from, to), to) THEN base
                       ELSE Append(base, frame(to, "create", d.nextRev, FALSE))
      /\ UNCHANGED <<undo, cache>>

\* refundGas and the tip, once the first call is over.
refundGas(rest) ==
  /\ Running("applied")
  /\ db' = AddBalance(AddBalance(db, Top.self, rest), Coinbase, 1 - rest)
  /\ frames' = [frames EXCEPT ![1].code = "paid"]
  /\ UNCHANGED <<undo, cache>> /\ NoStep

\* Finalise(true) closes the transaction.
applyTransaction ==
  /\ Running("paid")
  /\ db' = Finalise(db)
  /\ frames' = <<>>
  /\ UNCHANGED <<undo, cache>> /\ NoStep

(***************************************************************************)
(* Calls of a running program.                                             *)
(***************************************************************************)
\* The gas of a call is counted, but the callee is not warmed.
gasCallCold(to) == db

\* The gas of a call is counted first, which warms the callee.
gasCall(to) == AddAddressToAccessList(db, to)

\* A call inside a static one that may write again.
CallWritable(to, n) ==
  /\ Program /\ Step /\ Len(frames) < MaxDepth
  /\ Top.ro => n = 0
  /\ n <= GetBalance(db, Top.self)
  /\ enter(calling(gasCall(to), Top.self, to, n), db.nextRev, to, codeOf(db, to), FALSE)

Call(to, n) ==
  /\ Program /\ Step /\ Len(frames) < MaxDepth
  /\ Top.ro => n = 0
  /\ n <= GetBalance(db, Top.self)
  /\ enter(calling(gasCall(to), Top.self, to, n), db.nextRev, to, codeOf(db, to), Top.ro)

\* CallCode without a value, and DelegateCall: other code, the same account.
DelegateCall(to) ==
  /\ Program /\ Step /\ Len(frames) < MaxDepth
  /\ enter(Snapshot(gasCall(to)), db.nextRev, Top.self, codeOf(db, to), Top.ro)

StaticCall(to) ==
  /\ Program /\ Step /\ Len(frames) < MaxDepth
  /\ enter(AddBalance(Snapshot(gasCall(to)), to, 0), db.nextRev, to, codeOf(db, to), TRUE)

Create(to, n) ==
  /\ Program /\ Step /\ Len(frames) < MaxDepth /\ ~Top.ro
  /\ to \notin {Top.self, TeWaKa} /\ n <= GetBalance(db, Top.self)
  /\ enter(creating(db, Top.self, to, n), db.nextRev, to,
           IF Collides(bumped(db, Top.self, to), to) THEN "none" ELSE "create", FALSE)

(***************************************************************************)
(* What a running program changes.                                         *)
(***************************************************************************)
\* Steps that change nothing, as the second reading of a key, are left out.
change(d) == d # db /\ db' = d /\ Step /\ UNCHANGED <<frames, undo, cache>>

\* A slot that is cleared for the first time earns nothing.
gasSStoreUnpaid(d, self, v) ==
  LET o == getDeletedStateObject(d, self)
      current == GetState(o)
      original == GetCommittedState(o)
      cleared == IF original = 0 THEN d
                 ELSE IF current = 0 THEN SubRefund(d, ClearRefund)
                 ELSE IF v = 0 THEN AddRefund(d, ClearRefund) ELSE d
  IN  IF current = v \/ original = current THEN d
      ELSE IF original # v THEN cleared
      ELSE AddRefund(cleared, IF original = 0 THEN SetRefund ELSE ResetRefund)

\* The refund for a slot whose value changes, against the value it had when the
\* transaction started.
gasSStore(d, self, v) ==
  LET o == getDeletedStateObject(d, self)
      current == GetState(o)
      original == GetCommittedState(o)
      cleared == IF original = 0 THEN d
                 ELSE IF current = 0 THEN SubRefund(d, ClearRefund)
                 ELSE IF v = 0 THEN AddRefund(d, ClearRefund) ELSE d
  IN  IF current = v THEN d
      ELSE IF original = current THEN (IF original # 0 /\ v = 0 THEN AddRefund(d, ClearRefund) ELSE d)
      ELSE IF original # v THEN cleared
      ELSE AddRefund(cleared, IF original = 0 THEN SetRefund ELSE ResetRefund)

opSstore(k, v) ==
  /\ Program /\ ~Top.ro
  /\ change(SetState(gasSStore(AddSlotToAccessList(db, Top.self, k), Top.self, v), Top.self, v))

opSload(k) == Program /\ change(AddSlotToAccessList(db, Top.self, k))

opLog == Program /\ ~Top.ro /\ change(AddLog(db))

opSuicide(b) ==
  /\ Program /\ ~Top.ro /\ Step
  /\ db' = Suicide(AddBalance(gasCall(b), b, GetBalance(db, Top.self)), Top.self)
  /\ frames' = [frames EXCEPT ![Len(frames)].code = "halted"]
  /\ UNCHANGED <<undo, cache>>

(***************************************************************************)
(* The TeWaka handlers: load the lists, move coins, save the lists.        *)
(***************************************************************************)
Bytes ==
  IF Exist(db, TeWaKa) THEN GetTeWakaState(getDeletedStateObject(db, TeWaKa)) ELSE NoBlob

\* A cache that is not keyed by what the state holds returns another entry.
LoadAny ==
  /\ Running("tewaka") /\ Top.impl = None /\ Bytes # NoBlob
  /\ \E impl \in ({Bytes} \cup {cache[b] : b \in Blob}) \ {None} :
       /\ frames' = [frames EXCEPT ![Len(frames)].impl = impl]
       /\ cache' = [cache EXCEPT ![impl] = impl]
  /\ db' = GetOrNewStateObject(db, TeWaKa)
  /\ NoStep /\ UNCHANGED undo

\* A hit returns what is cached under the hash of the bytes.  The cache holds 20
\* entries, of the states of all branches: the entry may be gone, and the bytes
\* are decoded.  GetTeWakaState reads through GetOrNewStateObject.  Without bytes
\* Load returns an error, and the call fails.
Load ==
  /\ Running("tewaka") /\ Top.impl = None /\ Bytes # NoBlob
  /\ \E impl \in {Bytes, cache[Bytes]} \ {None} :
       /\ frames' = [frames EXCEPT ![Len(frames)].impl = impl]
       /\ cache' = [cache EXCEPT ![Bytes] = impl]
  /\ db' = GetOrNewStateObject(db, TeWaKa)
  /\ NoStep /\ UNCHANGED undo

Save(b) ==
  /\ Running("tewaka") /\ Top.impl # None
  /\ db' = SetTeWakaState(db, TeWaKa, b)
  /\ frames' = [frames EXCEPT ![Len(frames)].impl = b]
  /\ cache' = [cache EXCEPT ![b] = b]
  /\ Step /\ UNCHANGED undo

pay(from, to, n) ==
  /\ Running("tewaka") /\ GetBalance(db, from) >= n
  /\ change(AddLog(Transfer(db, from, to, n)))

(***************************************************************************)
(* The end of a call.                                                      *)
(***************************************************************************)
succeed ==
  /\ undo = None /\ Len(frames) > 1
  /\ db' = IF Top.code = "create" THEN SetCode(db, Top.self) ELSE db
  /\ frames' = Pop
  /\ UNCHANGED <<undo, cache>> /\ NoStep

\* A frame that failed, or a message that is not accepted after gas was bought.
RevertToSnapshot ==
  /\ undo = None /\ frames # <<>> /\ Top.code \notin {"halted", "applied", "paid"}
  /\ LET i == searchRevision(db, Top.snap)
     IN  /\ i <= Len(db.revs) /\ db.revs[i].id = Top.snap
         /\ undo' = i
  /\ UNCHANGED <<db, frames, cache>> /\ NoStep

revert ==
  /\ undo # None /\ Len(db.journal) > db.revs[undo].index
  /\ db' = undoLast(db)
  /\ UNCHANGED <<frames, undo, cache>> /\ NoStep

\* One revision too many is dropped, that of the caller.
revertedOneMore ==
  /\ undo # None /\ Len(db.journal) <= db.revs[undo].index
  /\ db' = dropRevisions(db, undo - 1)
  /\ frames' = Pop /\ undo' = None
  /\ UNCHANGED cache /\ NoStep

reverted ==
  /\ undo # None /\ Len(db.journal) <= db.revs[undo].index
  /\ db' = dropRevisions(db, undo)
  /\ frames' = Pop /\ undo' = None
  /\ UNCHANGED cache /\ NoStep

\* Finalize: the reward, and at some heights the sweep of a pool, which may
\* hold nothing.
Finalize(sweeps) ==
  LET d == AddBalance(db, Coinbase, 1)
  IN  /\ undo = None /\ frames = <<>> /\ ~closing /\ blocks < MaxBlocks
      /\ \/ ~sweeps /\ db' = d
         \/ sweeps /\ db' = Transfer(d, Pool, Sink, GetBalance(d, Pool))
      /\ closing' = TRUE /\ blocks' = blocks + 1
      /\ UNCHANGED <<frames, undo, cache, ops>>

\* IntermediateRoot, Commit, and the state of the next block.
commit ==
  /\ closing
  /\ db' = Commit(db) /\ closing' = FALSE
  /\ UNCHANGED <<frames, undo, cache, ops, blocks>>

Next ==
  \/ \E from \in Senders, fee \in Fees : commitTransaction(from, fee)
  \/ \E to \in Addr, n \in 0 .. 1 :
       transitionCall(to, n) \/ transitionCreate(to, n) \/ Call(to, n) \/ Create(to, n)
  \/ \E to \in Addr : DelegateCall(to) \/ StaticCall(to) \/ opSuicide(to)
  \/ \E sweeps \in BOOLEAN : Finalize(sweeps)
  \/ commit
  \/ \E rest \in 0 .. 1 : refundGas(rest)
  \/ \E k \in Key : opSload(k) \/ \E v \in Word : opSstore(k, v)
  \/ opLog \/ Load
  \/ \E b \in Blob : b # NoBlob /\ Save(b)
  \/ \E p \in Payments : pay(p[1], p[2], p[3])
  \/ applyTransaction \/ succeed \/ RevertToSnapshot \/ revert \/ reverted

Spec == Init /\ [][Next]_vars

(***************************************************************************)
(* Properties.                                                             *)
(***************************************************************************)

\* What was seen when a snapshot was taken.
Saved(snap) == db.past[searchRevision(db, snap)]

\* The abstract world: from the moment a call fails, what it will be put back
\* to.
worldOf == IF undo = None THEN World(db) ELSE db.past[undo]
savedOf == [i \in DOMAIN frames |-> Saved(frames[i].snap)]

F == INSTANCE Frames WITH world <- worldOf, saved <- savedOf, failing <- (undo # None),
                         ending <- closing

\* The journal, the caches and the dirty sets implement nested calls on whole
\* worlds: a failed call or transaction leaves what was there before it
\* (RevertToSnapshot), a finished transaction removes what destroyed itself
\* and nothing but empty accounts (Finalise), and the tries of a block hold
\* all that its transactions left (IntermediateRoot, Commit).
CallsRestore == F!Spec

\* RevertToSnapshot finds the snapshot of every open call: it never panics,
\* although calls that succeeded leave their snapshots behind.
RevisionFound ==
  \A i \in DOMAIN frames :
    LET j == searchRevision(db, frames[i].snap)
    IN  j <= Len(db.revs) /\ db.revs[j].id = frames[i].snap

\* The refund counter never goes below zero, however writes and failed calls
\* interleave: SubRefund does not panic.
RefundNotNegative == db.refund >= 0

\* A running program's own account is in the access list, whatever inner calls
\* added and took back: SSTORE does not meet its "impossible case".
SelfInAccessList == Program => db.al.idx[Top.self] # None

\* The lists that a TeWaka handler works on are those of the state it runs on,
\* whatever other calls, undone or not, have put in the shared cache (Load).
LoadFaithful ==
  undo = None /\ frames # <<>> /\ Top.impl # None => Top.impl = Bytes

\* While a static call is open, no account differs from what it was when the
\* call began, except that it may have come into being empty, and except for
\* what the TeWaka handlers write: a precompiled contract is not told that the
\* call is static (StaticCall, RunPrecompiledContract).
StaticCallsReadOnly ==
  \A i \in DOMAIN frames : undo = None /\ frames[i].ro =>
    LET before == Saved(frames[i].snap)
    IN  \A a \in Addr \ ({TeWaKa} \cup {p[1] : p \in Payments} \cup {p[2] : p \in Payments}) :
          LET was == before.acc[a]
              is == Seen(getDeletedStateObject(db, a))
          IN  is = was \/ (was = None /\ is = Seen(newObject(EmptyAccount)))
=============================================================================
