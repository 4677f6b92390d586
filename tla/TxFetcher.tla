------------------------------ MODULE TxFetcher ------------------------------
(***************************************************************************)
(* The transaction fetcher (czz/fetcher/tx_fetcher.go).  Peers announce    *)
(* hashes (Notify), send transactions of their own accord or as a reply    *)
(* (Enqueue, direct or not), and go away (Drop, also called when a request *)
(* cannot be sent).  One goroutine, loop, keeps a hash in one of three     *)
(* stages: waiting for a broadcast, queued for retrieval, being fetched.   *)
(* Two timers end the waiting and the fetching.                            *)
(*                                                                         *)
(* Each case of loop's select is one action here.  The peers are free:     *)
(* a peer may answer late, in part, twice, never, or without being asked.  *)
(* A map from hash to peers that lacks a hash is modelled by the empty     *)
(* set: the code deletes every inner map that becomes empty.  Clock        *)
(* values are left out: a timer that is set may fire, and the entries it   *)
(* finds expired are any set of them.                                      *)
(***************************************************************************)
EXTENDS Integers, Sequences, FiniteSets

CONSTANTS
  Peer,             \* identifiers of peers
  Hash,             \* transaction hashes
  Offers,           \* Offers[p]: the hashes that p may announce
  NoPeer,           \* fetching[h]: h is not being fetched
  NoRequest,        \* requests[p]: nothing is in flight to p
  MaxTxAnnounces,   \* maxTxAnnounces
  MaxTxRetrievals   \* maxTxRetrievals

VARIABLES
  f,             \* the maps of the TxFetcher
  waitTimer,     \* the timer of the waiting list is set, or has fired
  timeoutTimer   \* the timer of the requests is set, or has fired

vars == <<f, waitTimer, timeoutTimer>>

-----------------------------------------------------------------------------

\* The hash lists a request can carry: no hash twice, no more than the limit.
Batches ==
  {b \in UNION {[1..n -> Hash] : n \in 0..MaxTxRetrievals} :
     \A i, j \in DOMAIN b : b[i] = b[j] => i = j}

Elems(b) == {b[i] : i \in DOMAIN b}

\* A request.  A request that timed out keeps its place with no hashes.
Requests == [hashes : Batches, stolen : SUBSET Hash]

ASSUME FetcherAssumption ==
  /\ NoPeer \notin Peer
  /\ NoRequest \notin Requests
  /\ Offers \in [Peer -> SUBSET Hash]
  /\ MaxTxAnnounces \in Nat \ {0}
  /\ MaxTxRetrievals \in Nat \ {0}

\* The hashes of p's request that no one else has delivered.
Missing(g, p) ==
  IF g.requests[p] = NoRequest THEN {}
  ELSE Elems(g.requests[p].hashes) \ g.requests[p].stolen

Waiting(g) == {h \in Hash : g.waitlist[h] # {}}

NothingInFlight(g) == \A p \in Peer : g.requests[p] = NoRequest

\* The batches scheduleFetches can send to the peers of actives, visited in
\* any order: every idle peer takes, up to the limit, the hashes it announced
\* that are not being fetched and that no peer before it has taken.
Takes(g, actives) ==
  LET idle == {p \in actives : g.requests[p] = NoRequest}
      free(p) == {h \in g.announces[p] : g.fetching[h] = NoPeer}
      batches == {b \in Batches : \E p \in idle : Elems(b) \subseteq free(p)}
  IN {take \in [idle -> batches] :
        /\ \A p \in idle : Elems(take[p]) \subseteq free(p)
        /\ \A p, q \in idle : p # q => Elems(take[p]) \cap Elems(take[q]) = {}
        /\ \E rank \in [idle -> 1..Cardinality(Peer)] :
             \A p \in idle :
               \/ Len(take[p]) = MaxTxRetrievals
               \/ \A h \in free(p) \ Elems(take[p]) :
                    \E q \in idle : rank[q] < rank[p] /\ h \in Elems(take[q])}

\* The fetcher once the batches have been sent.
fetched(g, take) ==
  LET taken == UNION {Elems(take[p]) : p \in DOMAIN take}
  IN [g EXCEPT
        !.fetching = [h \in Hash |->
           IF h \in taken THEN CHOOSE p \in DOMAIN take : h \in Elems(take[p])
           ELSE g.fetching[h]],
        !.alternates = [h \in Hash |->
           IF h \in taken THEN g.announced[h] ELSE g.alternates[h]],
        !.announced = [h \in Hash |->
           IF h \in taken THEN {} ELSE g.announced[h]],
        !.requests = [p \in Peer |->
           IF p \in DOMAIN take /\ take[p] # <<>>
           THEN [hashes |-> take[p], stolen |-> {}] ELSE g.requests[p]]]

\* The timer is not set for the first request.
scheduleFetchesUntimed(g, actives, always) ==
  \E take \in Takes(g, actives) :
    /\ f' = fetched(g, take)
    /\ timeoutTimer' = (timeoutTimer \/ always)

\* scheduleFetches on the maps g, followed by rescheduleTimeout if always.
scheduleFetches(g, actives, always) ==
  \E take \in Takes(g, actives) :
    /\ f' = fetched(g, take)
    /\ timeoutTimer' =
         (\/ timeoutTimer
          \/ always
          \/ NothingInFlight(g) /\ \E p \in DOMAIN take : take[p] # <<>>)

-----------------------------------------------------------------------------

\* The hashes that are being fetched, none of them recognised.
inFlightNone(hs) == {}

\* The announced hashes that are being fetched.
inFlight(hs) == {h \in hs : f.alternates[h] # {}}

\* The maps after the announcement of hs by p: a hash that is being fetched
\* gains an alternate, a queued or a waiting one an origin, a new one waits.
announcing(p, hs) ==
  LET fetching == inFlight(hs)
      queued == {h \in hs \ fetching : f.announced[h] # {}}
      fresh == hs \ (fetching \cup queued)
  IN [f EXCEPT
        !.alternates = [h \in Hash |->
           f.alternates[h] \cup IF h \in fetching THEN {p} ELSE {}],
        !.announced = [h \in Hash |->
           f.announced[h] \cup IF h \in queued THEN {p} ELSE {}],
        !.waitlist = [h \in Hash |->
           f.waitlist[h] \cup IF h \in fresh THEN {p} ELSE {}],
        !.announces = [f.announces EXCEPT ![p] = @ \cup fetching \cup queued],
        !.waitslots = [f.waitslots EXCEPT ![p] = @ \cup fresh]]

\* The number of announcements kept of n, when the peer already has `used`:
\* beyond the limit the code keeps as many as exceed it, not as many as fit.
kept(used, n) ==
  IF used + n > MaxTxAnnounces THEN used + n - MaxTxAnnounces ELSE n

\* p announces hs, the hashes that Notify found neither in the pool nor in the
\* underpriced set.
Notify(p, hs) ==
  LET used == Cardinality(f.waitslots[p]) + Cardinality(f.announces[p])
  IN /\ used < MaxTxAnnounces
     /\ \E ks \in SUBSET hs :
          /\ Cardinality(ks) = kept(used, Cardinality(hs))
          /\ LET g == announcing(p, ks)
             IN /\ waitTimer' = (\/ waitTimer
                                 \/ Waiting(f) = {} /\ Waiting(g) # {})
                /\ IF f.announces[p] = {} /\ g.announces[p] # {}
                   THEN scheduleFetches(g, {p}, FALSE)
                   ELSE f' = g /\ UNCHANGED timeoutTimer

\* The maps once the hashes of es, which have waited long enough, are queued.
promoted(es) ==
  LET of(p) == {h \in es : p \in f.waitlist[h]}
  IN [f EXCEPT
        !.announced = [h \in Hash |->
           IF h \in es THEN f.waitlist[h] ELSE f.announced[h]],
        !.announces = [p \in Peer |-> f.announces[p] \cup of(p)],
        !.waitslots = [p \in Peer |-> f.waitslots[p] \ of(p)],
        !.waitlist = [h \in Hash |->
           IF h \in es THEN {} ELSE f.waitlist[h]]]

\* The timer is not set again for the hashes that go on waiting.
waitTriggerOnce(es) ==
  /\ waitTimer
  /\ waitTimer' = FALSE
  /\ scheduleFetches(promoted(es), UNION {f.waitlist[h] : h \in es}, FALSE)

\* The waiting list's timer, and the hashes it finds expired.
waitTrigger(es) ==
  LET actives == UNION {f.waitlist[h] : h \in es}
      g == promoted(es)
  IN /\ waitTimer
     /\ waitTimer' = (Waiting(g) # {})
     /\ IF actives # {} THEN scheduleFetches(g, actives, FALSE)
        ELSE f' = g /\ UNCHANGED timeoutTimer

\* The requests' timer: those of the peers ps have expired.  What they did not
\* bring is queued again for its other origins; the request stays, emptied (its
\* stolen set is not read again).
expired(ps) ==
  LET late == UNION {Missing(f, p) : p \in ps}
  IN [f EXCEPT
        !.announced = [h \in Hash |->
           IF h \in late
           THEN f.alternates[h] \ {p \in ps : h \in Missing(f, p)}
           ELSE f.announced[h]],
        !.announces = [p \in Peer |->
           IF p \in ps THEN f.announces[p] \ Missing(f, p)
           ELSE f.announces[p]],
        !.alternates = [h \in Hash |->
           IF h \in late THEN {} ELSE f.alternates[h]],
        !.fetching = [h \in Hash |->
           IF h \in late THEN NoPeer ELSE f.fetching[h]],
        !.requests = [p \in Peer |->
           IF p \in ps THEN [hashes |-> <<>>, stolen |-> {}]
           ELSE f.requests[p]]]

\* The timer is not set again for the requests that go on.
timeoutTriggerOnce(ps) ==
  LET g == expired(ps)
  IN /\ timeoutTimer
     /\ \A p \in ps : f.requests[p] # NoRequest
     /\ \E take \in Takes(g, {p \in Peer : g.announces[p] # {}}) :
          f' = fetched(g, take)
     /\ timeoutTimer' = FALSE
     /\ UNCHANGED waitTimer

timeoutTrigger(ps) ==
  /\ timeoutTimer
  /\ \A p \in ps : f.requests[p] # NoRequest
  /\ scheduleFetches(expired(ps), {p \in Peer : expired(ps).announces[p] # {}},
                     TRUE)
  /\ UNCHANGED waitTimer

-----------------------------------------------------------------------------

\* A broadcast by the peer that was asked is not marked.
stolenByOthers(q, p, hs, direct) == {h \in hs : f.fetching[h] = q /\ q # p}

\* The hashes of hs, delivered by p, that were being fetched from q: stolen,
\* unless this is q's reply.
stolen(q, p, hs, direct) ==
  {h \in hs : f.fetching[h] = q /\ (q # p \/ ~direct)}

\* The maps once the hashes hs, delivered by p, are no longer tracked.
untracked(p, hs, direct) ==
  LET waited == hs \cap Waiting(f)
      rest == hs \ waited
  IN [f EXCEPT
        !.waitslots = [q \in Peer |-> f.waitslots[q] \ waited],
        !.waitlist = [h \in Hash |->
           IF h \in waited THEN {} ELSE f.waitlist[h]],
        !.announces = [q \in Peer |-> f.announces[q] \ rest],
        !.announced = [h \in Hash |->
           IF h \in rest THEN {} ELSE f.announced[h]],
        !.alternates = [h \in Hash |->
           IF h \in rest THEN {} ELSE f.alternates[h]],
        !.fetching = [h \in Hash |->
           IF h \in rest THEN NoPeer ELSE f.fetching[h]],
        !.requests = [q \in Peer |->
           IF stolen(q, p, rest, direct) = {} THEN f.requests[q]
           ELSE [f.requests[q] EXCEPT
                   !.stolen = @ \cup stolen(q, p, rest, direct)]]]

\* The hashes of request r that p was asked for before the last one of hs, and
\* that it left out: p will not be asked for them again.  If nothing came, all
\* of them.
withheld(r, hs) ==
  {h \in Elems(r.hashes) \ hs :
     \/ Elems(r.hashes) \cap hs = {}
     \/ \E i, j \in DOMAIN r.hashes :
          i < j /\ r.hashes[i] = h /\ r.hashes[j] \in hs}

\* The maps g once p's request is closed by a reply that brought hs.
closed(g, p, hs) ==
  LET out == Missing(g, p)
      lost == (out \cap withheld(g.requests[p], hs)) \ hs
      others(h) == IF h \in lost THEN g.alternates[h] \ {p} ELSE g.alternates[h]
  IN [g EXCEPT
        !.requests = [g.requests EXCEPT ![p] = NoRequest],
        !.announces = [g.announces EXCEPT ![p] = @ \ lost],
        !.announced = [h \in Hash |->
           IF h \in out \ hs /\ others(h) # {} THEN others(h)
           ELSE g.announced[h]],
        !.alternates = [h \in Hash |->
           IF h \in out THEN {} ELSE g.alternates[h]],
        !.fetching = [h \in Hash |->
           IF h \in out THEN NoPeer ELSE g.fetching[h]]]

\* A reply schedules nothing.
EnqueueOnly(p, hs, direct) ==
  LET g == untracked(p, hs, direct)
  IN /\ f' = IF direct /\ g.requests[p] # NoRequest THEN closed(g, p, hs) ELSE g
     /\ UNCHANGED <<waitTimer, timeoutTimer>>

\* p sends the transactions hs.  Whatever the pool says to them, they are no
\* longer tracked; a reply also closes p's request.
Enqueue(p, hs, direct) ==
  LET g == untracked(p, hs, direct)
      d == closed(g, p, hs)
  IN /\ IF direct /\ g.requests[p] # NoRequest
        THEN scheduleFetches(d, {q \in Peer : d.announces[q] # {}}, FALSE)
        ELSE f' = g /\ UNCHANGED timeoutTimer
     /\ UNCHANGED waitTimer

-----------------------------------------------------------------------------

\* Only p's waiting slots are cleared.
unwaitedSlots(g, p) == [g EXCEPT !.waitslots = [g.waitslots EXCEPT ![p] = {}]]

\* The maps without p's place in the waiting list.
unwaited(g, p) ==
  [g EXCEPT
     !.waitlist = [h \in Hash |->
        IF h \in g.waitslots[p] THEN g.waitlist[h] \ {p} ELSE g.waitlist[h]],
     !.waitslots = [g.waitslots EXCEPT ![p] = {}]]

\* The maps without p's request: what it did not bring is queued for its other
\* origins.
cancelled(g, p) ==
  LET out == Missing(g, p)
  IN [g EXCEPT
        !.announced = [h \in Hash |->
           IF h \in out /\ g.alternates[h] \ {p} # {}
           THEN g.alternates[h] \ {p} ELSE g.announced[h]],
        !.alternates = [h \in Hash |->
           IF h \in out THEN {} ELSE g.alternates[h]],
        !.fetching = [h \in Hash |->
           IF h \in out THEN NoPeer ELSE g.fetching[h]],
        !.requests = [g.requests EXCEPT ![p] = NoRequest]]

\* The maps without p's announcements.  The alternates of a hash that another
\* peer is delivering are left as they are.
unannounced(g, p) ==
  [g EXCEPT
     !.announced = [h \in Hash |->
        IF h \in g.announces[p] THEN g.announced[h] \ {p}
        ELSE g.announced[h]],
     !.announces = [g.announces EXCEPT ![p] = {}]]

\* A drop schedules nothing.
DropOnly(p) ==
  LET w == unwaited(f, p)
  IN /\ waitTimer' = (\/ waitTimer
                      \/ f.waitslots[p] # {} /\ Waiting(w) # {})
     /\ f' = unannounced(cancelled(w, p), p)
     /\ UNCHANGED timeoutTimer

\* p is gone: it disconnected, or a request could not be sent to it.
Drop(p) ==
  LET w == unwaited(f, p)
      g == unannounced(cancelled(w, p), p)
  IN /\ waitTimer' = (\/ waitTimer
                      \/ f.waitslots[p] # {} /\ Waiting(w) # {})
     /\ IF f.requests[p] # NoRequest
        THEN scheduleFetches(g, {q \in Peer : g.announces[q] # {}}, TRUE)
        ELSE f' = g /\ UNCHANGED timeoutTimer

-----------------------------------------------------------------------------

\* NewTxFetcher.
Init ==
  /\ f = [waitlist |-> [h \in Hash |-> {}],
          waitslots |-> [p \in Peer |-> {}],
          announces |-> [p \in Peer |-> {}],
          announced |-> [h \in Hash |-> {}],
          fetching |-> [h \in Hash |-> NoPeer],
          requests |-> [p \in Peer |-> NoRequest],
          alternates |-> [h \in Hash |-> {}]]
  /\ waitTimer = FALSE
  /\ timeoutTimer = FALSE

\* loop.  A broadcast of several transactions, or a reply to no request, is as
\* several of one transaction: it schedules nothing.
Next ==
  \/ \E p \in Peer : \E hs \in SUBSET Offers[p] \ {{}} : Notify(p, hs)
  \/ \E es \in SUBSET Waiting(f) : waitTrigger(es)
  \/ \E ps \in SUBSET Peer : timeoutTrigger(ps)
  \/ \E p \in Peer, hs \in SUBSET Hash :
       f.requests[p] # NoRequest /\ Enqueue(p, hs, TRUE)
  \/ \E p \in Peer, h \in Hash, direct \in BOOLEAN :
       (direct => f.requests[p] = NoRequest) /\ Enqueue(p, {h}, direct)
  \/ \E p \in Peer : Drop(p)

Spec == Init /\ [][Next]_vars

\* A timer that is set fires, and loop's select takes its message at last; time
\* passes, so an entry that stays is found expired at some firing.  This is weak
\* fairness of the firing that finds h, or p's request, expired.  That firing is
\* possible exactly while the timer is set and the entry is there, and it ends
\* this, so the fairness can be stated on the states.  It says nothing where
\* the timer is not set.  Nothing is assumed of the peers.
Fairness ==
  /\ \A h \in Hash : []<>~(waitTimer /\ h \in Waiting(f))
  /\ \A p \in Peer : []<>~(timeoutTimer /\ Missing(f, p) # {})

FairSpec == Spec /\ Fairness

-----------------------------------------------------------------------------

\* A tracked hash is in one of the three stages only, and it has alternates
\* exactly while it is being fetched (the invariant stated above the TxFetcher
\* type, and what the four panics of loop and scheduleFetches test).
OneStage ==
  \A h \in Hash :
    /\ f.waitlist[h] = {} \/ f.announced[h] \cup f.alternates[h] = {}
    /\ f.announced[h] = {} \/ f.alternates[h] = {}
    /\ f.alternates[h] # {} <=> f.fetching[h] # NoPeer

\* A hash is being fetched from p exactly if p's request asks for it and nobody
\* else has delivered it: whatever replies, broadcasts, timeouts and drops
\* cross, cleanup finds the request of every origin, and a reply, a timeout or
\* a drop reschedules no hash that has meanwhile been given to another peer.
RequestOwnsFetch ==
  \A p \in Peer, h \in Hash : f.fetching[h] = p <=> h \in Missing(f, p)

\* The maps by peer and the maps by hash agree: p's waiting slots are the
\* hashes it is waited for, p is an origin of all it announced, and whoever
\* fetches a hash has announced it.
OriginsIndexed ==
  \A p \in Peer, h \in Hash :
    /\ h \in f.waitslots[p] <=> p \in f.waitlist[h]
    /\ h \in f.announces[p] => p \in f.announced[h] \cup f.alternates[h]
    /\ f.fetching[h] = p => h \in f.announces[p] /\ p \in f.alternates[h]

\* No wake-up is lost: while some peer has an announcement that was not served
\* there is a request in flight, and its end schedules the next ones.
SomeoneWorks ==
  (\E p \in Peer : f.announces[p] # {}) => ~NothingInFlight(f)

\* No timer is lost: one is set while a hash waits, and one while a request is
\* in flight (rescheduleWait, rescheduleTimeout).
TimersSet ==
  /\ Waiting(f) # {} => waitTimer
  /\ ~NothingInFlight(f) => timeoutTimer

\* The waiting for a broadcast ends, whatever is announced, delivered and
\* dropped meanwhile: waitTrigger's timer is set while anything waits.
WaitEnds ==
  \A h \in Hash : f.waitlist[h] # {} ~> f.waitlist[h] = {}

\* No peer holds a hash for ever: a fetch ends with a reply, a delivery by
\* someone else, a drop or a timeout.
FetchEnds ==
  \A p \in Peer, h \in Hash : f.fetching[h] = p ~> f.fetching[h] # p

\* If peers answer (or go), a queued hash of a connected peer is fetched from
\* someone, or the peer is asked for as many others as one request may carry.
QueueEnds ==
  (\A p \in Peer : []<>(f.requests[p] = NoRequest)) =>
    \A p \in Peer, h \in Hash :
      (h \in f.announces[p] /\ f.announced[h] # {}) ~>
        \/ h \notin f.announces[p]
        \/ f.announced[h] = {}
        \/ f.requests[p] # NoRequest
             /\ Len(f.requests[p].hashes) = MaxTxRetrievals

\* A queued hash has an origin it can be retrieved from ("no data leak", above
\* the TxFetcher type).  Not so after a drop of an alternate: see Drop.
QueuedHasOrigin ==
  \A h \in Hash :
    f.announced[h] # {} => \E p \in Peer : h \in f.announces[p]

=============================================================================
