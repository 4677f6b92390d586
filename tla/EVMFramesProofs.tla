--------------------------- MODULE EVMFramesProofs ---------------------------
(***************************************************************************)
(* The theorems about calls, for any accounts, values, payments and        *)
(* bounds.  Every action preserves the inductive invariant IInv and is a   *)
(* step of Frames or a stutter (Maps); the invariants that the model is    *)
(* checked for follow from IInv.                                           *)
(***************************************************************************)
EXTENDS EVMSoundProofs, EVMCallsProofs

USE FirstOrder

\* The instructions and the payments of a handler.
LEMMA SloadMoves == ASSUME IInv, NEW k \in Key, opSload(k) PROVE IInv' /\ Maps
<1>1. /\ Program /\ db' = AddSlotToAccessList(db, Top.self, k)
      /\ UNCHANGED <<undo, closing, frames, cache>>
  BY DEF opSload, change, Step
<1>2. /\ undo = None /\ frames # <<>> /\ Core(db) /\ Top.self \in Addr /\ Top.impl = None
  BY <1>1, ProgramFacts
<1>3. Warmed(db, db')
  BY <1>1, <1>2, KeyAdded
<1>4. Keeps(db, db') /\ Spares(Acc(db), Acc(db'))
  BY <1>2, <1>3, KeepsWarmed, SparesSelf DEF Warmed, Bookkept
<1> QED
  BY <1>1, <1>2, <1>4, ChangeMoves

\* SSTORE, with what it adds to and takes from the refund counter.
LEMMA SstoreMoves ==
  ASSUME IInv, NEW k \in Key, NEW v \in Word, opSstore(k, v) PROVE IInv' /\ Maps
<1>1. /\ Program /\ ~Top.ro
      /\ db' = SetState(gasSStore(AddSlotToAccessList(db, Top.self, k), Top.self, v), Top.self, v)
      /\ UNCHANGED <<undo, closing, frames, cache>>
  BY DEF opSstore, change, Step
<1>2. /\ undo = None /\ frames # <<>> /\ Core(db) /\ SoundNow(db) /\ Top.self \in Addr /\ Top.impl = None
      /\ Acc(db)[Top.self] # None
  BY <1>1, ProgramFacts
<1>3. Keeps(db, db')
  BY <1>1, <1>2, SstoreKeeps
<1> QED
  BY <1>1, <1>2, <1>3, ChangeMoves

\* LOG.
LEMMA LogMoves == ASSUME IInv, opLog PROVE IInv' /\ Maps
<1>1. Program /\ ~Top.ro /\ db' = AddLog(db) /\ UNCHANGED <<undo, closing, frames, cache>>
  BY DEF opLog, change, Step
<1>2. /\ undo = None /\ frames # <<>> /\ Core(db) /\ Top.impl = None
  BY <1>1, ProgramFacts
<1>3. Keeps(db, db')
  BY <1>1, <1>2, LogKeeps
<1> QED
  BY <1>1, <1>2, <1>3, ChangeMoves

\* A payment of a TeWaka handler, with its log.
LEMMA PayMoves ==
  ASSUME IInv, NEW p \in Payments, pay(p[1], p[2], p[3]) PROVE IInv' /\ Maps
<1>1. PICK from, to, n : from = p[1] /\ to = p[2] /\ n = p[3]
  OBVIOUS
<1>2. /\ undo = None /\ frames # <<>> /\ db' = AddLog(Transfer(db, from, to, n))
      /\ UNCHANGED <<undo, closing, frames, cache>>
  BY <1>1 DEF pay, change, Step, Running
<1>3. from \in Addr /\ to \in Addr /\ n \in Int /\ from \in Payable /\ to \in Payable /\ TeWaKa \in Addr
  BY Solver, <1>1, FramesAssumption DEF Payable
<1>4. Core(db)
  BY <1>2, RunFacts
<1>5. /\ Keeps(db, db') /\ \A b \in Addr \ {from, to} : Acc(db')[b] = Acc(db)[b]
      /\ \A b \in Addr : Found(Acc(db')[b]).te = Found(Acc(db)[b]).te
  BY Solver, <1>2, <1>3, <1>4, PayKeeps
<1>6. Spares(Acc(db), Acc(db')) /\ BytesOf(db') = BytesOf(db)
  BY <1>3, <1>5 DEF Spares, BytesOf
<1> QED
  BY <1>2, <1>5, <1>6, ChangeMoves

\* SELFDESTRUCT.
LEMMA SuicideMoves == ASSUME IInv, NEW b \in Addr, opSuicide(b) PROVE IInv' /\ Maps
<1>1. /\ Program /\ ~Top.ro /\ cache' = cache /\ closing' = closing /\ undo' = undo
      /\ db' = Suicide(AddBalance(AddAddressToAccessList(db, b), b, GetBalance(db, Top.self)), Top.self)
      /\ frames' = [frames EXCEPT ![Len(frames)].code = "halted"]
  BY DEF opSuicide, Step, gasCall
<1>2. Core(db) /\ Top.self \in Addr
  BY <1>1, ProgramFacts
<1>3. Keeps(db, db')
  BY <1>1, <1>2, DestroyKeeps
<1> QED
  BY <1>1, <1>3, HaltMoves

\* Load and Save: the lists of a handler are what its account shows.
LEMMA LoadMoves == ASSUME IInv, Load PROVE IInv' /\ Maps
<1>1. /\ Running("tewaka") /\ undo' = undo /\ closing' = closing
      /\ db' = GetOrNewStateObject(db, TeWaKa)
  BY DEF Load, NoStep
<1>2. PICK impl \in {Bytes, cache[Bytes]} \ {None} :
         /\ frames' = [frames EXCEPT ![Len(frames)].impl = impl]
         /\ cache' = [cache EXCEPT ![Bytes] = impl]
  BY DEF Load
<1>3. Core(db) /\ CacheOK /\ TeWaKa \in Addr
  BY <1>1, HandlerFacts
<1>4. Bytes \in Blob /\ Bytes = BytesOf(db)
  BY <1>3, BytesAre
<1>5. impl = Bytes
  BY <1>2, <1>3, <1>4 DEF CacheOK
<1>6. /\ Keeps(db, db') /\ Acc(db')[TeWaKa] = Found(Acc(db)[TeWaKa])
      /\ \A b \in Addr : b # TeWaKa => Acc(db')[b] = Acc(db)[b]
  BY <1>1, <1>3, AcquiredKeeps
<1>7. Spares(Acc(db), Acc(db'))
  BY <1>6 DEF Spares, Payable
<1>8. BytesOf(db') = BytesOf(db)
  BY <1>3, <1>6, FoundSeen DEF BytesOf, Found
<1>9. impl \in Blob /\ BytesOf(db') = impl /\ cache' = [cache EXCEPT ![impl] = impl]
  BY <1>2, <1>4, <1>5, <1>8
<1> QED
  BY <1>1, <1>2, <1>6, <1>7, <1>9, HandlerMoves

\* A handler writes its copy of the state back.
LEMMA SaveMoves == ASSUME IInv, NEW b \in Blob, Save(b) PROVE IInv' /\ Maps
<1>1. /\ Running("tewaka") /\ undo' = undo /\ closing' = closing
      /\ db' = SetTeWakaState(db, TeWaKa, b)
      /\ frames' = [frames EXCEPT ![Len(frames)].impl = b]
      /\ cache' = [cache EXCEPT ![b] = b]
  BY DEF Save, Step
<1>2. Core(db) /\ TeWaKa \in Addr
  BY <1>1, HandlerFacts
<1>3. /\ Keeps(db, db') /\ Acc(db')[TeWaKa] # None /\ Acc(db')[TeWaKa].te = b
      /\ \A a \in Addr : a # TeWaKa => Acc(db')[a] = Acc(db)[a]
  BY Solver, <1>1, <1>2, TeWakaKeeps
<1>4. Spares(Acc(db), Acc(db')) /\ BytesOf(db') = b
  BY <1>3 DEF Spares, Payable, BytesOf, Found
<1> QED
  BY <1>1, <1>3, <1>4, HandlerMoves

\* The refund of gas, at the end of the transaction.
LEMMA RefundMoves == ASSUME IInv, NEW rest \in 0 .. 1, refundGas(rest) PROVE IInv' /\ Maps
<1>1. /\ Running("applied") /\ cache' = cache /\ closing' = closing /\ undo' = undo
      /\ db' = AddBalance(AddBalance(db, Top.self, rest), Coinbase, 1 - rest)
      /\ frames' = [frames EXCEPT ![1].code = "paid"]
  BY DEF refundGas, NoStep
<1>2. undo = None /\ frames # <<>> /\ Top.code = "applied" /\ Coinbase \in Addr
  BY <1>1, FramesAssumption DEF Running
<1>3. Core(db) /\ Top.self \in Addr
  BY <1>2, RunFacts, TopFacts
<1>4. Keeps(db, db')
  BY Solver, <1>1, <1>2, <1>3, CreditsKeep
<1> QED
  BY <1>1, <1>2, <1>4, StageMoves

\* The calls.
LEMMA CallMoves ==
  ASSUME IInv, NEW to \in Addr, NEW n \in 0 .. 1, Call(to, n) PROVE IInv' /\ Maps
<1>1. PICK x, e : x = gasCall(to) /\ e = calling(x, Top.self, to, n)
  OBVIOUS
<1>2. /\ Program /\ closing' = closing /\ (Top.ro => n = 0)
      /\ enter(e, db.nextRev, to, codeOf(db, to), Top.ro)
  BY <1>1 DEF Call, Step
<1>3. /\ Keeps(db, x) /\ Core(x) /\ Acc(x) = Acc(db) /\ Spares(Acc(db), Acc(x))
      /\ World(x) = [World(db) EXCEPT !.al = x.al] /\ x.al.idx[to] # None /\ Acc(x)[Top.self] # None
  <2>1. Core(db) /\ Top.self \in Addr /\ Acc(db)[Top.self] # None /\ db.al.idx[Top.self] # None
    BY <1>2, ProgramFacts
  <2> QED
    BY <1>1, <2>1, GasKeeps
<1>4. undo = None /\ frames # <<>> /\ Core(db) /\ Top.self \in Addr
  BY <1>2, ProgramFacts
<1>5. Top.ro \in BOOLEAN
  BY <1>4, TopFacts
<1>6. /\ Keeps(Snapshot(x), e) /\ e.al = x.al
      /\ Acc(x)[to] # None \/ to = TeWaKa => Acc(e)[to] # None
      /\ n = 0 /\ Acc(x)[Top.self] # None => Spares(Acc(x), Acc(e))
  BY Solver, <1>1, <1>3, <1>4, CallingKeeps
<1>7. PICK code, ro : code = codeOf(db, to) /\ ro = Top.ro
  OBVIOUS
<1>8. /\ code \in {"none", "contract", "tewaka", "create"} /\ code # "create" /\ ro \in BOOLEAN
      /\ (code # "none" => e.al.idx[to] # None /\ Acc(e)[to] # None)
      /\ enter(e, db.nextRev, to, code, ro)
  BY Solver, <1>2, <1>3, <1>4, <1>5, <1>6, <1>7, CodeThere
<1>9. ro => Spares(Acc(x), Acc(e))
  BY <1>2, <1>3, <1>6, <1>7
<1>10. Top.ro => Spares(Acc(db), Acc(x)) /\ Spares(Acc(x), Acc(e)) /\ ro
  BY <1>3, <1>7, <1>9
<1> QED
  BY Solver, <1>2, <1>3, <1>6, <1>8, <1>9, <1>10, EnterMoves

\* DELEGATECALL runs the code of another account as its caller.
LEMMA DelegateMoves ==
  ASSUME IInv, NEW to \in Addr, DelegateCall(to) PROVE IInv' /\ Maps
<1>1. PICK x, e, code, ro : x = gasCall(to) /\ e = Snapshot(x) /\ code = codeOf(db, to) /\ ro = Top.ro
  OBVIOUS
<1>2. Program /\ closing' = closing /\ enter(e, db.nextRev, Top.self, code, ro)
  BY <1>1 DEF DelegateCall, Step
<1>3. /\ Keeps(db, x) /\ Spares(Acc(db), Acc(x)) /\ Acc(x)[Top.self] # None
      /\ World(x) = [World(db) EXCEPT !.al = x.al] /\ x.al.idx[Top.self] # None
      /\ Keeps(Snapshot(x), e) /\ Acc(e) = Acc(x) /\ e.al = x.al
  <2>1. Core(db) /\ Top.self \in Addr /\ Acc(db)[Top.self] # None /\ db.al.idx[Top.self] # None
    BY <1>2, ProgramFacts
  <2> QED
    BY <1>1, <2>1, GasKeeps
<1>4. undo = None /\ frames # <<>> /\ Core(db) /\ Top.self \in Addr
  BY <1>2, ProgramFacts
<1>5. ro \in BOOLEAN /\ code \in {"none", "contract", "tewaka", "create"} /\ code # "create"
  BY <1>1, <1>4, TopFacts, CodeThere
<1>6. Spares(Acc(x), Acc(e)) /\ e.al.idx[Top.self] # None /\ Acc(e)[Top.self] # None
  BY <1>3, SparesSelf
<1> QED
  BY Solver, <1>1, <1>2, <1>3, <1>4, <1>5, <1>6, EnterMoves

\* STATICCALL touches the callee and forbids writes.
LEMMA StaticMoves ==
  ASSUME IInv, NEW to \in Addr, StaticCall(to) PROVE IInv' /\ Maps
<1>1. PICK x, s, e, code, ro :
        x = gasCall(to) /\ s = Snapshot(x) /\ e = AddBalance(s, to, 0) /\ code = codeOf(db, to) /\ ro = TRUE
  OBVIOUS
<1>2. Program /\ closing' = closing /\ enter(e, db.nextRev, to, code, ro)
  BY <1>1 DEF StaticCall, Step
<1>3. /\ Keeps(db, x) /\ Spares(Acc(db), Acc(x)) /\ x.al.idx[to] # None
      /\ World(x) = [World(db) EXCEPT !.al = x.al] /\ Core(s) /\ Acc(s) = Acc(x) /\ s.al = x.al
  <2>1. Core(db) /\ Top.self \in Addr /\ Acc(db)[Top.self] # None /\ db.al.idx[Top.self] # None
    BY <1>2, ProgramFacts
  <2> QED
    BY <1>1, <2>1, GasKeeps
<1>4. undo = None /\ frames # <<>> /\ Core(db) /\ Top.self \in Addr
  BY <1>2, ProgramFacts
<1>5. ro \in BOOLEAN /\ ro /\ code \in {"none", "contract", "tewaka", "create"} /\ code # "create"
  BY <1>1, <1>4, CodeThere
<1>6. Keeps(Snapshot(x), e) /\ SameCounts(s, e) /\ Acc(e)[to] # None /\ Spares(Acc(s), Acc(e))
  <2>1. PICK z \in Int : z = 0
    BY Solver
  <2> QED
    BY Solver, <1>1, <1>3, <2>1, BalanceKeeps
<1>7. Spares(Acc(x), Acc(e)) /\ e.al.idx[to] # None
  BY <1>3, <1>6 DEF SameCounts
<1> QED
  BY <1>2, <1>3, <1>5, <1>6, <1>7, EnterMoves

\* A creation: a collision fails before the snapshot.
LEMMA CreateMoves ==
  ASSUME IInv, NEW to \in Addr, NEW n \in 0 .. 1, Create(to, n) PROVE IInv' /\ Maps
<1>1. PICK x, e : x = bumped(db, Top.self, to) /\ e = creating(db, Top.self, to, n)
  OBVIOUS
<1>2. /\ Program /\ closing' = closing /\ ~Top.ro
      /\ enter(e, db.nextRev, to, IF Collides(x, to) THEN "none" ELSE "create", FALSE)
  BY <1>1 DEF Create, Step
<1>3. undo = None /\ frames # <<>> /\ Core(db) /\ Top.self \in Addr /\ Top.impl = None
  BY <1>2, ProgramFacts
<1>4. Counts(db, x, Top.self) /\ x.al.idx[to] # None
  BY <1>1, <1>3, BumpedKeeps
<1>5. Keeps(db, x)
  BY <1>4 DEF Counts
<1>6. CASE Collides(x, to)
  <2>1. db' = x /\ UNCHANGED <<undo, closing, frames, cache>>
    BY <1>1, <1>2, <1>6 DEF enter, creating
  <2> QED
    BY <1>2, <1>3, <1>5, <2>1, ChangeMoves
<1>7. CASE ~Collides(x, to)
  <2>1. Keeps(Snapshot(x), e) /\ e.al = x.al /\ Acc(e)[to] # None
    BY Solver, <1>1, <1>3, <1>7, CreatingKeeps
  <2>2. PICK code, ro : code = "create" /\ ro = FALSE
    OBVIOUS
  <2>3. /\ enter(e, db.nextRev, to, code, ro) /\ ro \in BOOLEAN /\ ~ro
        /\ code \in {"none", "contract", "tewaka", "create"}
    BY <1>2, <1>7, <2>2
  <2>4. e.al.idx[to] # None
    BY <1>4, <2>1
  <2> QED
    BY <1>2, <1>3, <1>4, <1>5, <2>1, <2>3, <2>4, EnterMoves
<1> QED
  BY <1>6, <1>7

\* The first call of a transaction, and its creation.
LEMMA MessageCallMoves ==
  ASSUME IInv, NEW to \in Addr, NEW n \in 0 .. 1, transitionCall(to, n)
  PROVE  IInv' /\ Maps
<1>1. PICK from, a : /\ from = Top.self
                     /\ a = warmed(AddAddressToAccessList(AddAddressToAccessList(db, from), to))
  OBVIOUS
<1>2. PICK x, code : x = SetNonce(a, from, GetNonce(a, from) + 1) /\ code = codeOf(x, to)
  OBVIOUS
<1>3. PICK base : base = [frames EXCEPT ![1].code = "applied"]
  OBVIOUS
<1>4. /\ Running("bought") /\ closing' = closing /\ UNCHANGED <<undo, cache>>
      /\ db' = calling(x, from, to, n)
      /\ frames' = IF code = "none" THEN base ELSE Append(base, frame(to, code, x.nextRev, FALSE))
  BY <1>1, <1>2, <1>3 DEF transitionCall, NoStep
<1>5. undo = None /\ frames # <<>> /\ Core(db) /\ from \in Addr
  <2>1. undo = None /\ frames # <<>>
    BY <1>4 DEF Running
  <2> QED
    BY <1>1, <2>1, RunFacts, TopFacts
<1>6. Warmed(db, a) /\ a.al.idx[to] # None
  BY <1>1, <1>5, WarmedAll
<1>7. Core(a)
  BY <1>6 DEF Warmed, Bookkept
<1>8. Counts(a, x, from) /\ x.al = a.al
  BY <1>2, <1>5, <1>7, NonceCounts
<1>9. Counts(db, x, from) /\ Core(x)
  <2>1. Counts(db, x, from)
    BY <1>5, <1>6, <1>8, WarmCounts
  <2>2. Core(x)
    BY <1>8 DEF Counts, Keeps
  <2> QED
    BY <2>1, <2>2
<1>10. /\ Keeps(Snapshot(x), db') /\ db'.al = x.al
       /\ Acc(x)[to] # None \/ to = TeWaKa => Acc(db')[to] # None
  BY Solver, <1>4, <1>5, <1>9, CallingKeeps
<1>11. code \in {"none", "contract", "tewaka"} /\ (code # "none" => Acc(x)[to] # None \/ to = TeWaKa)
  BY <1>2, <1>9, CodeThere
<1>12. code # "none" => db'.al.idx[to] # None /\ Acc(db')[to] # None
  BY Solver, <1>6, <1>8, <1>10, <1>11
<1>13. code \in {"none", "contract", "tewaka", "create"} /\ Counts(db, x, Top.self)
  BY <1>1, <1>9, <1>11
<1> QED
  BY <1>3, <1>4, <1>10, <1>12, <1>13, FirstMoves

\* A transaction that creates a contract.
LEMMA MessageCreateMoves ==
  ASSUME IInv, NEW to \in Addr, NEW n \in 0 .. 1, transitionCreate(to, n)
  PROVE  IInv' /\ Maps
<1>1. PICK from, a : from = Top.self /\ a = warmed(AddAddressToAccessList(db, from))
  OBVIOUS
<1>2. PICK x, base : x = bumped(a, from, to) /\ base = [frames EXCEPT ![1].code = "applied"]
  OBVIOUS
<1>3. /\ Running("bought") /\ closing' = closing /\ UNCHANGED <<undo, cache>>
      /\ db' = creating(a, from, to, n)
      /\ frames' = IF Collides(x, to) THEN base ELSE Append(base, frame(to, "create", a.nextRev, FALSE))
  BY <1>1, <1>2 DEF transitionCreate, NoStep
<1>4. undo = None /\ frames # <<>> /\ Core(db) /\ from \in Addr /\ Top.code = "bought"
  <2>1. undo = None /\ frames # <<>> /\ Top.code = "bought"
    BY <1>3 DEF Running
  <2> QED
    BY <1>1, <2>1, RunFacts, TopFacts
<1>5. Warmed(db, a)
  BY <1>1, <1>4, WarmedAll
<1>6. Core(a)
  BY <1>5 DEF Warmed, Bookkept
<1>7. Counts(a, x, from) /\ x.al.idx[to] # None
  BY <1>2, <1>4, <1>6, BumpedKeeps
<1>8. Counts(db, x, Top.self) /\ Keeps(db, x) /\ x.nextRev = a.nextRev
  <2>1. Counts(db, x, from)
    BY <1>4, <1>5, <1>7, WarmCounts
  <2> QED
    BY <1>1, <1>7, <2>1 DEF Counts, Keeps, Reaches, SameRest
<1>9. CASE Collides(x, to)
  <2>1. db' = x /\ frames' = base
    BY <1>2, <1>3, <1>9 DEF creating
  <2> QED
    BY <1>2, <1>3, <1>4, <1>8, <2>1, StageMoves
<1>10. CASE ~Collides(x, to)
  <2>1. Keeps(Snapshot(x), db') /\ db'.al = x.al /\ Acc(db')[to] # None
    BY Solver, <1>2, <1>3, <1>4, <1>6, <1>10, CreatingKeeps
  <2>2. PICK code : code = "create"
    OBVIOUS
  <2>3. /\ frames' = IF code = "none" THEN base ELSE Append(base, frame(to, code, x.nextRev, FALSE))
        /\ code \in {"none", "contract", "tewaka", "create"}
    BY <1>3, <1>8, <1>10, <2>2
  <2>4. db'.al.idx[to] # None
    BY <1>7, <2>1
  <2> QED
    BY <1>2, <1>3, <1>8, <2>1, <2>3, <2>4, FirstMoves
<1> QED
  BY <1>9, <1>10

\* A call that returns keeps its revision in the list.
LEMMA SucceedMoves == ASSUME IInv, succeed PROVE IInv' /\ Maps
<1>1. /\ undo = None /\ Len(frames) > 1
      /\ db' = IF Top.code = "create" THEN SetCode(db, Top.self) ELSE db
  BY DEF succeed, NoStep
<1>2. frames # <<>>
  BY Solver, <1>1
<1>3. Core(db) /\ Acc(db)[Top.self] # None /\ Top.self \in Addr /\ (Top.ro => Top.code # "create")
  BY <1>1, <1>2, RunFacts, TopFacts
<1>4. PICK a \in Addr : a = Top.self
  BY <1>3
<1>5. CASE Top.code = "create"
  <2>1. /\ Keeps(db, db') /\ SameCounts(db, db')
        /\ Acc(db') = [Acc(db) EXCEPT ![a] = [Found(Acc(db)[a]) EXCEPT !.code = TRUE]]
    BY <1>1, <1>3, <1>4, <1>5, CodeKeeps
  <2> QED
    BY <1>3, <1>5, <2>1, ReturnMoves
<1>6. CASE Top.code # "create"
  BY <1>1, <1>3, <1>6, KeepsSelf, SparesSelf, ReturnMoves
<1> QED
  BY <1>5, <1>6

\* A transaction starts from a database that is sound and has no revisions.
LEMMA BeginMoves ==
  ASSUME IInv, NEW from \in Senders, NEW fee \in Fees, commitTransaction(from, fee)
  PROVE  IInv' /\ Maps
<1>1. PICK p, s : p = Prepare(db) /\ s = Snapshot(p)
  OBVIOUS
<1>2. frames = <<>> /\ ~closing /\ db' = SubBalance(s, from, fee)
  BY <1>1 DEF commitTransaction
<1>3. Core(db) /\ SoundNow(db) /\ Idle(db)
  BY <1>2, RestFacts
<1>4. /\ Core(p) /\ SoundNow(p) /\ PastOK(p) /\ p.revs = <<>> /\ Linked(p, Len(p.revs))
      /\ p.journal = <<>> /\ p.past = <<>> /\ p.nextRev = db.nextRev
      /\ World(p) = [World(db) EXCEPT !.al = p.al]
  BY <1>1, <1>3, Prepared
<1>5. Core(s)
  BY <1>1, <1>4, SnapshotTaken
<1>6. from \in Addr /\ fee \in Int
  BY Solver, FramesAssumption
<1>7. Keeps(s, db')
  BY <1>2, <1>5, <1>6, BalanceSubbed, PaidKeeps
<1> QED
  BY <1>1, <1>4, <1>7, OpenMoves

\* The end of a block: the reward, and the sweep of a dead pool.
LEMMA RewardMoves ==
  ASSUME IInv, NEW sweeps \in BOOLEAN, Finalize(sweeps) PROVE IInv' /\ Maps
<1> DEFINE x == AddBalance(db, Coinbase, 1)
<1>1. frames = <<>> /\ (db' = x \/ db' = Transfer(x, Pool, Sink, GetBalance(x, Pool)))
  BY DEF Finalize
<1>2. Core(db)
  BY <1>1, RestFacts
<1>3. Keeps(db, db') /\ SameCounts(db, db')
  BY <1>1, <1>2, RewardKeeps
<1> QED
  BY <1>3, PayoutMoves

\* Finalise closes the transaction.
LEMMA FinishMoves == ASSUME IInv, applyTransaction PROVE IInv' /\ Maps
<1>1. undo = None /\ frames # <<>> /\ db' = Finalise(db)
  BY DEF applyTransaction, Running, NoStep
<1>2. Core(db) /\ SoundNow(db)
  BY <1>1, RunFacts
<1>3. /\ Core(db') /\ Tidy(View(db'), db'.trie, db'.pending) /\ Settles(db, db') /\ Unwritten(db')
      /\ db'.journal = <<>> /\ db'.revs = <<>> /\ db'.past = <<>> /\ db'.al = db.al /\ db'.logs = db.logs
      /\ db'.refund = (IF db.journal = <<>> THEN db.refund ELSE 0) /\ db'.nextRev = db.nextRev
  BY <1>1, <1>2, Finalised DEF SoundNow, Sound
<1>4. SoundNow(db')
  BY <1>3, UnwrittenSound
<1>5. PICK some \in SUBSET F!Empty(World(db)) :
        World(db').acc = F!Settled(World(db), F!Destroyed(World(db)) \cup some)
  BY <1>2, <1>3, SettlesIsSettled
<1> QED
  BY <1>3, <1>4, <1>5, CloseMoves

\* A database made from a trie is sound.
LEMMA FreshSound ==
  ASSUME NEW trie \in [Addr -> Account \cup {None}]
  PROVE  Core(New(trie)) /\ SoundNow(New(trie)) /\ Idle(New(trie)) /\ Good(New(trie), <<>>)
<1>1. PICK e : e = New(trie)
  OBVIOUS
<1>2. /\ Core(e) /\ Tidy(View(e), e.trie, e.pending) /\ Unwritten(e)
      /\ e.journal = <<>> /\ e.revs = <<>> /\ e.past = <<>> /\ e.refund = 0 /\ e.nextRev = 0
  BY <1>1, Fresh
<1>3. SoundNow(e) /\ Idle(e) /\ Good(e, <<>>)
  BY Solver, <1>2, UnwrittenSound, GoodNone DEF Idle
<1> QED
  BY <1>1, <1>2, <1>3

\* Commit writes what is pending, and the next block starts from the trie.
LEMMA CommitMoves == ASSUME IInv, commit PROVE IInv' /\ Maps
<1>1. closing /\ db' = Commit(db) /\ ~closing' /\ UNCHANGED <<frames, undo, cache>>
  BY DEF commit
<1>2. frames = <<>>
  BY <1>1 DEF IInv
<1>3. Core(db) /\ SoundNow(db) /\ CacheOK /\ undo = None /\ savedOf = <<>> /\ worldOf = World(db)
  BY <1>2, RestFacts
<1>4. rootOf(Finalise(db)) \in [Addr -> Account \cup {None}] /\ Settles(db, db')
  BY <1>1, <1>3, Committed DEF SoundNow, Sound
<1>5. Core(db') /\ SoundNow(db') /\ Idle(db') /\ Good(db', <<>>)
  BY <1>1, <1>4, FreshSound DEF Commit
<1>6. IInv'
  BY <1>1, <1>2, <1>3, <1>5 DEF IInv, Undoing, CacheOK
<1>7. savedOf' = <<>> /\ worldOf' = World(db')
  BY <1>1, <1>2, <1>3, NoneSaved DEF worldOf
<1>8. PICK some \in SUBSET F!Empty(World(db)) :
        World(db').acc = F!Settled(World(db), F!Destroyed(World(db)) \cup some)
  BY <1>3, <1>4, SettlesIsSettled
<1>9. F!NextBlock
  BY <1>1, <1>3, <1>7, <1>8 DEF F!NextBlock
<1> QED
  BY <1>6, <1>9 DEF Maps, F!Next

\* The invariant holds in the genesis state.
LEMMA InitIInv == Init => IInv /\ F!Init
<1> SUFFICES ASSUME Init PROVE IInv /\ F!Init
  OBVIOUS
<1>1. db = New(Genesis) /\ frames = <<>> /\ undo = None /\ cache = [b \in Blob |-> None] /\ ~closing
  BY DEF Init
<1>2. Genesis \in [Addr -> Account \cup {None}]
  BY FramesAssumption
<1>3. Core(db) /\ SoundNow(db) /\ Idle(db) /\ Good(db, <<>>)
  BY <1>1, <1>2, FreshSound
<1>4. CacheOK
  BY <1>1 DEF CacheOK
<1>5. IInv
  BY <1>1, <1>3, <1>4 DEF IInv, Undoing
<1>6. F!Init
  BY <1>1, NoneSaved DEF F!Init
<1> QED
  BY <1>5, <1>6

\* Every step keeps the invariant, and is a step of the abstract worlds.
LEMMA NextMoves == ASSUME IInv, [Next]_vars PROVE IInv' /\ Maps
<1>1. CASE UNCHANGED vars
  BY <1>1, StutterMoves
<1>2. CASE \E from \in Senders, fee \in Fees : commitTransaction(from, fee)
  BY <1>2, BeginMoves
<1>3. CASE \E to \in Addr, n \in 0 .. 1 :
             transitionCall(to, n) \/ transitionCreate(to, n) \/ Call(to, n) \/ Create(to, n)
  BY <1>3, MessageCallMoves, MessageCreateMoves, CallMoves, CreateMoves
<1>4. CASE \E to \in Addr : DelegateCall(to) \/ StaticCall(to) \/ opSuicide(to)
  BY <1>4, DelegateMoves, StaticMoves, SuicideMoves
<1>5. CASE \E sweeps \in BOOLEAN : Finalize(sweeps)
  BY <1>5, RewardMoves
<1>6. CASE commit
  BY <1>6, CommitMoves
<1>7. CASE \E rest \in 0 .. 1 : refundGas(rest)
  BY <1>7, RefundMoves
<1>8. CASE \E k \in Key : opSload(k) \/ \E v \in Word : opSstore(k, v)
  BY <1>8, SloadMoves, SstoreMoves
<1>9. CASE opLog \/ Load
  BY <1>9, LogMoves, LoadMoves
<1>10. CASE \E b \in Blob : b # NoBlob /\ Save(b)
  BY <1>10, SaveMoves
<1>11. CASE \E p \in Payments : pay(p[1], p[2], p[3])
  BY <1>11, PayMoves
<1>12. CASE applyTransaction \/ succeed
  BY <1>12, FinishMoves, SucceedMoves
<1>13. CASE RevertToSnapshot \/ revert \/ reverted
  BY <1>13, FailMoves, RevertMoves, RevertedMoves
<1> QED
  BY <1>1, <1>2, <1>3, <1>4, <1>5, <1>6, <1>7, <1>8, <1>9, <1>10, <1>11, <1>12, <1>13 DEF Next

\* What a handler has loaded is what the database holds.
LEMMA IInvLoad == ASSUME IInv PROVE LoadFaithful
<1> SUFFICES ASSUME undo = None, frames # <<>>, Top.impl # None PROVE Top.impl = Bytes
  BY DEF LoadFaithful
<1>1. Loaded(db, frames) /\ Core(db)
  BY RunFacts
<1> QED
  BY <1>1, BytesAre DEF Loaded, Top

\* The invariant is inductive, and every step is one of Frames or a stutter.
LEMMA NextInv == IInv /\ [Next]_vars => IInv' /\ Maps
BY NextMoves

\* RevertToSnapshot finds the revision of every open call, whatever calls have
\* succeeded and left theirs behind: its panic is out of reach.
THEOREM RevisionsFound == Spec => []RevisionFound
<1>1. IInv => RevisionFound
  BY IInvRevisions
<1> QED
  BY <1>1, InitIInv, NextInv, Temporal DEF Spec

\* The refund counter is never negative: SubRefund's panic is out of reach, since
\* the counter pays for every slot the transaction has cleared, also when calls
\* fail and their refunds are undone.
THEOREM RefundStaysNatural == Spec => []RefundNotNegative
<1>1. IInv => RefundNotNegative
  BY IInvRefund
<1> QED
  BY <1>1, InitIInv, NextInv, Temporal DEF Spec

\* The account of a running program is in the access list, whatever reverts have
\* taken from the list: the opcodes that assume it (opSstore's panic) are right.
THEOREM SelfStaysWarm == Spec => []SelfInAccessList
<1>1. IInv => SelfInAccessList
  BY IInvSelf
<1> QED
  BY <1>1, InitIInv, NextInv, Temporal DEF Spec

\* What a TeWaka handler has loaded or saved is what its account holds, whatever
\* the cache had: Load never hands out the lists of another state.
THEOREM LoadsAreFaithful == Spec => []LoadFaithful
<1>1. IInv => LoadFaithful
  BY IInvLoad
<1> QED
  BY <1>1, InitIInv, NextInv, Temporal DEF Spec

\* While a static call is open no account differs from what it was when the call
\* began, but for empty ones that came into being and for what the TeWaka
\* handlers, which are not told that the call is static, write and pay.
THEOREM StaticCallsSpare == Spec => []StaticCallsReadOnly
<1>1. IInv => StaticCallsReadOnly
  BY IInvStatic
<1> QED
  BY <1>1, InitIInv, NextInv, Temporal DEF Spec

\* The journal, the caches and the dirty sets implement nested calls on whole
\* worlds: a failed call leaves the world it found (RevertToSnapshot), Finalise
\* removes only what destroyed itself or is empty, and Commit loses nothing.
THEOREM ImplementsFrames == Spec => CallsRestore
<1>1. Maps => [F!Next]_F!fvars
  BY DEF Maps
<1> QED
  BY <1>1, InitIInv, NextInv, Temporal DEF Spec, CallsRestore, F!Spec

=============================================================================
