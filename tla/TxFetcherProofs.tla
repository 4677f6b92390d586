--------------------------- MODULE TxFetcherProofs ---------------------------
(***************************************************************************)
(* Proofs about TxFetcher, for any peers, hashes and limits.               *)
(*                                                                         *)
(* The four invariants of the run are proved together.  What makes them    *)
(* inductive is Good, the agreement of the maps, which is stated for the   *)
(* maps as an argument: every handler first changes the maps and then lets *)
(* scheduleFetches loose on the result, so Good is shown of the            *)
(* intermediate maps, and of the outcome of scheduleFetches on any good    *)
(* ones.                                                                   *)
(***************************************************************************)
EXTENDS TxFetcher, TLAPS

\* The types of the maps.
Typed(g) ==
  g \in [waitlist : [Hash -> SUBSET Peer],
         waitslots : [Peer -> SUBSET Hash],
         announces : [Peer -> SUBSET Hash],
         announced : [Hash -> SUBSET Peer],
         fetching : [Hash -> Peer \cup {NoPeer}],
         requests : [Peer -> Requests \cup {NoRequest}],
         alternates : [Hash -> SUBSET Peer]]

\* OneStage of the maps g.
Staged(g) ==
  \A h \in Hash :
    /\ g.waitlist[h] = {} \/ (g.announced[h] = {} /\ g.alternates[h] = {})
    /\ g.announced[h] = {} \/ g.alternates[h] = {}
    /\ g.alternates[h] # {} <=> g.fetching[h] # NoPeer

\* RequestOwnsFetch of the maps g, but for the hashes of hs that p has just
\* brought.
Owned(g, p, hs) ==
  \A q \in Peer, h \in Hash :
    g.fetching[h] = q <=> h \in Missing(g, q) /\ ~(q = p /\ h \in hs)

\* OriginsIndexed of the maps g.
Indexed(g) ==
  \A p \in Peer, h \in Hash :
    /\ h \in g.waitslots[p] <=> p \in g.waitlist[h]
    /\ h \in g.announces[p] => p \in g.announced[h] \/ p \in g.alternates[h]
    /\ g.fetching[h] = p => h \in g.announces[p] /\ p \in g.alternates[h]

Good(g) == Typed(g) /\ Staged(g) /\ Owned(g, NoPeer, {}) /\ Indexed(g)

\* SomeoneWorks of the maps g.
Working(g) == (\E p \in Peer : g.announces[p] # {}) => ~NothingInFlight(g)

IInv == Good(f) /\ Working(f)

-----------------------------------------------------------------------------

\* The empty batch is a batch, and has no hash.
LEMMA EmptyBatch == <<>> \in Batches /\ Elems(<<>>) = {}
<1>1. <<>> \in [1..0 -> Hash]
  OBVIOUS
<1>2. 0 \in 0..MaxTxRetrievals
  BY FetcherAssumption
<1>3. DOMAIN <<>> = {}
  OBVIOUS
<1> QED
  BY <1>1, <1>2, <1>3 DEF Batches, Elems

\* The requests that are written are requests.
LEMMA NewRequest ==
  ASSUME NEW b \in Batches, NEW s \in SUBSET Hash
  PROVE  /\ [hashes |-> b, stolen |-> s] \in Requests
         /\ [hashes |-> b, stolen |-> s] # NoRequest
BY FetcherAssumption DEF Requests

\* What is missing of a request is a set of hashes.
LEMMA MissingHashes ==
  ASSUME NEW g, Typed(g), NEW p \in Peer
  PROVE  Missing(g, p) \subseteq Hash
<1>1. \A b \in Batches : Elems(b) \subseteq Hash
  BY DEF Batches, Elems
<1>2. g.requests[p] \in Requests \cup {NoRequest}
  BY DEF Typed
<1> QED
  BY <1>1, <1>2 DEF Missing, Requests

\* What the batches that scheduleFetches sends are made of: announced hashes
\* that nobody is asked for, each for one peer, and some if there are any.
Allotted(g, A, take) ==
  /\ DOMAIN take = {p \in A : g.requests[p] = NoRequest}
  /\ \A p \in DOMAIN take :
       /\ take[p] \in Batches
       /\ \A h \in Elems(take[p]) :
            h \in g.announces[p] /\ g.fetching[h] = NoPeer
  /\ \A p, q \in DOMAIN take :
       \A h \in Elems(take[p]) : h \in Elems(take[q]) => p = q
  /\ \A p \in DOMAIN take : \A h \in g.announces[p] :
       g.fetching[h] = NoPeer => \E q \in DOMAIN take : take[q] # <<>>

LEMMA TakesFacts ==
  ASSUME NEW g, NEW A, NEW take \in Takes(g, A)
  PROVE  Allotted(g, A, take)
<1> DEFINE idle == {p \in A : g.requests[p] = NoRequest}
           free(p) == {h \in g.announces[p] : g.fetching[h] = NoPeer}
           batches == {b \in Batches : \E p \in idle : Elems(b) \subseteq free(p)}
<1>1. take \in [idle -> batches]
  BY DEF Takes
<1>2. \A p \in idle : Elems(take[p]) \subseteq free(p)
  BY DEF Takes
<1>3. \A p, q \in idle : p # q => Elems(take[p]) \cap Elems(take[q]) = {}
  BY DEF Takes
<1>4. \A p \in idle :
        \/ Len(take[p]) = MaxTxRetrievals
        \/ \A h \in free(p) \ Elems(take[p]) :
             \E q \in idle : h \in Elems(take[q])
  BY DEF Takes
<1>5. \A p \in idle : take[p] = <<>> => Len(take[p]) = 0 /\ Elems(take[p]) = {}
  BY EmptyBatch
<1>6. ASSUME NEW p \in idle, NEW h \in free(p)
      PROVE  \E q \in idle : take[q] # <<>>
  BY <1>4, <1>5, FetcherAssumption
<1> QED
  BY <1>1, <1>2, <1>3, <1>6 DEF Allotted

\* scheduleFetches keeps the maps in agreement.
LEMMA FetchedGood ==
  ASSUME NEW g, Good(g), NEW A \in SUBSET Peer, NEW take \in Takes(g, A)
  PROVE  Good(fetched(g, take))
<1> DEFINE d == fetched(g, take)
           taken == UNION {Elems(take[p]) : p \in DOMAIN take}
           D == [h \in Hash |-> IF h \in taken THEN {} ELSE g.announced[h]]
           L == [h \in Hash |->
                  IF h \in taken THEN g.announced[h] ELSE g.alternates[h]]
           F == [h \in Hash |->
                  IF h \in taken
                  THEN CHOOSE p \in DOMAIN take : h \in Elems(take[p])
                  ELSE g.fetching[h]]
           R == [p \in Peer |->
                  IF p \in DOMAIN take /\ take[p] # <<>>
                  THEN [hashes |-> take[p], stolen |-> {}] ELSE g.requests[p]]
<1>a. /\ DOMAIN take \subseteq Peer
      /\ \A p \in DOMAIN take :
           /\ g.requests[p] = NoRequest
           /\ take[p] \in Batches
           /\ \A h \in Elems(take[p]) :
                h \in g.announces[p] /\ g.fetching[h] = NoPeer
      /\ \A p, q \in DOMAIN take :
           \A h \in Elems(take[p]) : h \in Elems(take[q]) => p = q
  <2>1. Allotted(g, A, take)
    BY TakesFacts
  <2> QED
    BY <2>1 DEF Allotted
<1>b. /\ d.waitlist = g.waitlist
      /\ d.waitslots = g.waitslots
      /\ d.announces = g.announces
      /\ d.announced = D
      /\ d.alternates = L
      /\ d.fetching = F
      /\ d.requests = R
      /\ d = [waitlist |-> d.waitlist, waitslots |-> d.waitslots,
              announces |-> d.announces, announced |-> d.announced,
              fetching |-> d.fetching, requests |-> d.requests,
              alternates |-> d.alternates]
  <2>1. d = [g EXCEPT !.fetching = F, !.alternates = L, !.announced = D,
                      !.requests = R]
    BY Zenon DEF fetched
  <2> HIDE DEF d, D, L, F, R
  <2> QED
    BY <2>1 DEF Good, Typed
<1> HIDE DEF d
<1>c. \A p \in DOMAIN take : \A h \in Elems(take[p]) :
        h \in Hash /\ d.fetching[h] = p
  <2> SUFFICES ASSUME NEW p \in DOMAIN take, NEW h \in Elems(take[p])
               PROVE  h \in Hash /\ d.fetching[h] = p
    OBVIOUS
  <2>1. h \in Hash
    BY <1>a DEF Good, Typed
  <2>2. (CHOOSE q \in DOMAIN take : h \in Elems(take[q])) = p
    BY <1>a
  <2> QED
    BY <1>b, <2>1, <2>2
<1>d. \A h \in Hash : h \in taken =>
        /\ g.fetching[h] = NoPeer
        /\ g.alternates[h] = {}
        /\ g.announced[h] # {}
        /\ g.waitlist[h] = {}
        /\ d.fetching[h] \in DOMAIN take
        /\ h \in Elems(take[d.fetching[h]])
  <2> SUFFICES ASSUME NEW p \in DOMAIN take, NEW h \in Elems(take[p])
               PROVE  /\ g.fetching[h] = NoPeer
                      /\ g.alternates[h] = {}
                      /\ g.announced[h] # {}
                      /\ g.waitlist[h] = {}
                      /\ d.fetching[h] \in DOMAIN take
                      /\ h \in Elems(take[d.fetching[h]])
    OBVIOUS
  <2>1. h \in Hash /\ p \in Peer /\ g.fetching[h] = NoPeer /\ h \in g.announces[p]
    BY <1>a, <1>c
  <2>2. g.alternates[h] = {} /\ g.announced[h] # {} /\ g.waitlist[h] = {}
    BY <2>1 DEF Good, Staged, Indexed
  <2> QED
    BY <1>c, <2>1, <2>2
<1>1. Typed(d)
  <2>1. d.announced \in [Hash -> SUBSET Peer] /\ d.alternates \in [Hash -> SUBSET Peer]
    BY <1>b DEF Good, Typed
  <2>2. d.fetching \in [Hash -> Peer \cup {NoPeer}]
    <3>1. \A h \in Hash : d.fetching[h] \in Peer \cup {NoPeer}
      BY <1>a, <1>b, <1>d DEF Good, Typed
    <3> QED
      BY <1>b, <3>1
  <2>3. d.requests \in [Peer -> Requests \cup {NoRequest}]
    <3>1. \A p \in Peer : d.requests[p] \in Requests \cup {NoRequest}
      <4> TAKE p \in Peer
      <4>1. CASE p \in DOMAIN take /\ take[p] # <<>>
        BY <4>1, <1>a, <1>b, NewRequest
      <4>2. CASE ~(p \in DOMAIN take /\ take[p] # <<>>)
        BY <4>2, <1>b DEF Good, Typed
      <4> QED
        BY <4>1, <4>2
    <3> QED
      BY <1>b, <3>1
  <2> QED
    BY <1>b, <2>1, <2>2, <2>3 DEF Good, Typed
<1>2. Staged(d)
  <2> SUFFICES ASSUME NEW h \in Hash
               PROVE  /\ d.waitlist[h] = {} \/ (d.announced[h] = {} /\ d.alternates[h] = {})
                      /\ d.announced[h] = {} \/ d.alternates[h] = {}
                      /\ d.alternates[h] # {} <=> d.fetching[h] # NoPeer
    BY DEF Staged
  <2>1. CASE h \in taken
    BY <1>a, <1>b, <1>d, <2>1, FetcherAssumption
  <2>2. CASE h \notin taken
    BY <1>b, <2>2 DEF Good, Staged
  <2> QED
    BY <2>1, <2>2
<1>3. Owned(d, NoPeer, {})
  <2> SUFFICES ASSUME NEW q \in Peer, NEW h \in Hash
               PROVE  d.fetching[h] = q <=> h \in Missing(d, q)
    BY DEF Owned
  <2>0. g.fetching[h] = q <=> h \in Missing(g, q)
    BY DEF Good, Owned
  <2>1. CASE q \in DOMAIN take /\ take[q] # <<>>
    <3>1. Missing(d, q) = Elems(take[q])
      <4>1. d.requests[q] = [hashes |-> take[q], stolen |-> {}]
        BY <1>b, <2>1
      <4>2. d.requests[q] # NoRequest
        BY <4>1, <1>a, <2>1, NewRequest
      <4> QED
        BY <4>1, <4>2 DEF Missing
    <3>2. g.fetching[h] # q
      BY <2>0, <2>1, <1>a DEF Missing
    <3> QED
      BY <1>b, <1>c, <1>d, <2>1, <3>1, <3>2
  <2>2. CASE q \in DOMAIN take /\ take[q] = <<>>
    <3>1. Missing(d, q) = {} /\ Missing(g, q) = {}
      BY <1>a, <1>b, <2>2 DEF Missing
    <3>2. Elems(take[q]) = {}
      BY <2>2, EmptyBatch
    <3> QED
      BY <1>b, <1>d, <2>0, <3>1, <3>2
  <2>3. CASE q \notin DOMAIN take
    <3>1. Missing(d, q) = Missing(g, q)
      BY <1>b, <2>3 DEF Missing
    <3> QED
      BY <1>b, <1>d, <2>0, <2>3, <3>1, FetcherAssumption
  <2> QED
    BY <2>1, <2>2, <2>3
<1>4. Indexed(d)
  <2> SUFFICES ASSUME NEW p \in Peer, NEW h \in Hash
               PROVE  /\ h \in d.waitslots[p] <=> p \in d.waitlist[h]
                      /\ h \in d.announces[p] => p \in d.announced[h] \/ p \in d.alternates[h]
                      /\ d.fetching[h] = p => h \in d.announces[p] /\ p \in d.alternates[h]
    BY DEF Indexed
  <2>1. CASE h \in taken
    <3>1. h \in g.announces[p] => p \in g.announced[h]
      BY <1>d, <2>1 DEF Good, Indexed
    <3>2. d.fetching[h] = p => h \in g.announces[p]
      BY <1>a, <1>d, <2>1
    <3> QED
      BY <1>b, <2>1, <3>1, <3>2 DEF Good, Indexed
  <2>2. CASE h \notin taken
    BY <1>b, <2>2 DEF Good, Indexed
  <2> QED
    BY <2>1, <2>2
<1> QED
  BY <1>1, <1>2, <1>3, <1>4 DEF Good, d

\* After scheduleFetches somebody works, if the peers it was given are all that
\* might have to begin.
LEMMA FetchedWorking ==
  ASSUME NEW g, Good(g), NEW A \in SUBSET Peer, NEW take \in Takes(g, A),
         NothingInFlight(g) => \A p \in Peer : g.announces[p] # {} => p \in A
  PROVE  Working(fetched(g, take))
<1> DEFINE d == fetched(g, take)
<1>a. d.announces = g.announces /\ d.requests = [p \in Peer |->
        IF p \in DOMAIN take /\ take[p] # <<>>
        THEN [hashes |-> take[p], stolen |-> {}] ELSE g.requests[p]]
  BY DEF Good, Typed, fetched
<1>b. Allotted(g, A, take)
  BY TakesFacts
<1> SUFFICES ASSUME NEW p \in Peer, g.announces[p] # {}
             PROVE  \E q \in Peer : d.requests[q] # NoRequest
  BY <1>a DEF Working, NothingInFlight
<1>1. CASE NothingInFlight(g)
  <2>1. p \in DOMAIN take
    BY <1>1, <1>b DEF NothingInFlight, Allotted
  <2>2. PICK h : h \in g.announces[p]
    OBVIOUS
  <2>3. h \in Hash /\ g.fetching[h] \in Peer \cup {NoPeer}
    BY <2>2 DEF Good, Typed
  <2>4. g.fetching[h] = NoPeer
    BY <1>1, <2>3 DEF Good, Owned, Missing, NothingInFlight
  <2>5. PICK q \in DOMAIN take : take[q] # <<>>
    BY <2>1, <2>2, <2>4, <1>b DEF Allotted
  <2>6. take[q] \in Batches /\ q \in Peer
    BY <1>b DEF Allotted
  <2> QED
    BY <1>a, <2>5, <2>6, NewRequest
<1>2. CASE ~NothingInFlight(g)
  <2>1. PICK q \in Peer : g.requests[q] # NoRequest
    BY <1>2 DEF NothingInFlight
  <2>2. q \notin DOMAIN take
    BY <2>1, <1>b DEF Allotted
  <2> QED
    BY <1>a, <2>1, <2>2
<1> QED
  BY <1>1, <1>2

-----------------------------------------------------------------------------

\* An announcement keeps the maps in agreement.
LEMMA AnnouncingGood ==
  ASSUME Good(f), NEW p \in Peer, NEW hs \in SUBSET Hash
  PROVE  Good(announcing(p, hs))
<1> DEFINE d == announcing(p, hs)
           fl == {h \in hs : f.alternates[h] # {}}
           qu == {h \in hs \ fl : f.announced[h] # {}}
           fr == hs \ (fl \cup qu)
           L == [h \in Hash |->
                  f.alternates[h] \cup IF h \in fl THEN {p} ELSE {}]
           D == [h \in Hash |->
                  f.announced[h] \cup IF h \in qu THEN {p} ELSE {}]
           W == [h \in Hash |->
                  f.waitlist[h] \cup IF h \in fr THEN {p} ELSE {}]
           N == [f.announces EXCEPT ![p] = @ \cup fl \cup qu]
           S == [f.waitslots EXCEPT ![p] = @ \cup fr]
<1>a. /\ d.waitlist = W
      /\ d.waitslots = S
      /\ d.announces = N
      /\ d.announced = D
      /\ d.alternates = L
      /\ d.fetching = f.fetching
      /\ d.requests = f.requests
      /\ d = [waitlist |-> d.waitlist, waitslots |-> d.waitslots,
              announces |-> d.announces, announced |-> d.announced,
              fetching |-> d.fetching, requests |-> d.requests,
              alternates |-> d.alternates]
  <2>1. d = [f EXCEPT !.alternates = L, !.announced = D, !.waitlist = W,
                      !.announces = N, !.waitslots = S]
    BY Zenon DEF announcing, inFlight
  <2> HIDE DEF d, L, D, W, N, S
  <2> QED
    BY <2>1 DEF Good, Typed
<1> HIDE DEF d
<1>1. Typed(d)
  <2>1. /\ W \in [Hash -> SUBSET Peer]
        /\ D \in [Hash -> SUBSET Peer]
        /\ L \in [Hash -> SUBSET Peer]
        /\ N \in [Peer -> SUBSET Hash]
        /\ S \in [Peer -> SUBSET Hash]
    BY DEF Good, Typed
  <2> HIDE DEF L, D, W, N, S
  <2> QED
    BY <1>a, <2>1 DEF Good, Typed
<1>2. Staged(d)
  BY <1>a DEF Good, Staged
<1>3. Owned(d, NoPeer, {})
  BY <1>a DEF Good, Owned, Missing
<1>4. Indexed(d)
  <2> SUFFICES ASSUME NEW q \in Peer, NEW h \in Hash
               PROVE  /\ h \in d.waitslots[q] <=> q \in d.waitlist[h]
                      /\ h \in d.announces[q] => q \in d.announced[h] \/ q \in d.alternates[h]
                      /\ d.fetching[h] = q => h \in d.announces[q] /\ q \in d.alternates[h]
    BY DEF Indexed
  <2>1. /\ N[q] = IF q = p THEN f.announces[p] \cup fl \cup qu ELSE f.announces[q]
        /\ S[q] = IF q = p THEN f.waitslots[p] \cup fr ELSE f.waitslots[q]
    BY DEF Good, Typed
  <2> QED
    BY <1>a, <2>1 DEF Good, Indexed
<1> QED
  BY <1>1, <1>2, <1>3, <1>4 DEF Good, d

\* Queueing the hashes that have waited keeps the maps in agreement.
LEMMA PromotedGood ==
  ASSUME Good(f), NEW es \in SUBSET Waiting(f)
  PROVE  Good(promoted(es))
<1> DEFINE d == promoted(es)
           of(p) == {h \in es : p \in f.waitlist[h]}
           D == [h \in Hash |-> IF h \in es THEN f.waitlist[h] ELSE f.announced[h]]
           N == [p \in Peer |-> f.announces[p] \cup of(p)]
           S == [p \in Peer |-> f.waitslots[p] \ of(p)]
           W == [h \in Hash |-> IF h \in es THEN {} ELSE f.waitlist[h]]
<1>a. /\ d.waitlist = W
      /\ d.waitslots = S
      /\ d.announces = N
      /\ d.announced = D
      /\ d.alternates = f.alternates
      /\ d.fetching = f.fetching
      /\ d.requests = f.requests
      /\ d = [waitlist |-> d.waitlist, waitslots |-> d.waitslots,
              announces |-> d.announces, announced |-> d.announced,
              fetching |-> d.fetching, requests |-> d.requests,
              alternates |-> d.alternates]
  <2>1. d = [f EXCEPT !.announced = D, !.announces = N, !.waitslots = S,
                      !.waitlist = W]
    BY Zenon DEF promoted
  <2> HIDE DEF d, D, N, S, W
  <2> QED
    BY <2>1 DEF Good, Typed
<1> HIDE DEF d
<1>b. es \subseteq Hash /\ \A h \in es : f.waitlist[h] # {}
  BY DEF Waiting
<1>1. Typed(d)
  <2>1. /\ W \in [Hash -> SUBSET Peer]
        /\ D \in [Hash -> SUBSET Peer]
        /\ N \in [Peer -> SUBSET Hash]
        /\ S \in [Peer -> SUBSET Hash]
    BY <1>b DEF Good, Typed
  <2> HIDE DEF D, N, S, W
  <2> QED
    BY <1>a, <2>1 DEF Good, Typed
<1>2. Staged(d)
  BY <1>a, <1>b DEF Good, Staged
<1>3. Owned(d, NoPeer, {})
  BY <1>a DEF Good, Owned, Missing
<1>4. Indexed(d)
  <2> SUFFICES ASSUME NEW q \in Peer, NEW h \in Hash
               PROVE  /\ h \in d.waitslots[q] <=> q \in d.waitlist[h]
                      /\ h \in d.announces[q] => q \in d.announced[h] \/ q \in d.alternates[h]
                      /\ d.fetching[h] = q => h \in d.announces[q] /\ q \in d.alternates[h]
    BY DEF Indexed
  <2>1. h \in es => h \notin f.announces[q]
    BY <1>b DEF Good, Staged, Indexed
  <2> QED
    BY <1>a, <1>b, <2>1 DEF Good, Indexed
<1> QED
  BY <1>1, <1>2, <1>3, <1>4 DEF Good, d

\* The timeout of some requests keeps the maps in agreement.
LEMMA ExpiredGood ==
  ASSUME Good(f), NEW ps \in SUBSET Peer,
         \A p \in ps : f.requests[p] # NoRequest
  PROVE  Good(expired(ps))
<1> DEFINE d == expired(ps)
           late == UNION {Missing(f, p) : p \in ps}
           D == [h \in Hash |->
                  IF h \in late
                  THEN f.alternates[h] \ {p \in ps : h \in Missing(f, p)}
                  ELSE f.announced[h]]
           N == [p \in Peer |->
                  IF p \in ps THEN f.announces[p] \ Missing(f, p)
                  ELSE f.announces[p]]
           L == [h \in Hash |-> IF h \in late THEN {} ELSE f.alternates[h]]
           F == [h \in Hash |-> IF h \in late THEN NoPeer ELSE f.fetching[h]]
           R == [p \in Peer |->
                  IF p \in ps THEN [hashes |-> <<>>, stolen |-> {}]
                  ELSE f.requests[p]]
<1>a. /\ d.waitlist = f.waitlist
      /\ d.waitslots = f.waitslots
      /\ d.announces = N
      /\ d.announced = D
      /\ d.alternates = L
      /\ d.fetching = F
      /\ d.requests = R
      /\ d = [waitlist |-> d.waitlist, waitslots |-> d.waitslots,
              announces |-> d.announces, announced |-> d.announced,
              fetching |-> d.fetching, requests |-> d.requests,
              alternates |-> d.alternates]
  <2>1. d = [f EXCEPT !.announced = D, !.announces = N, !.alternates = L,
                      !.fetching = F, !.requests = R]
    BY Zenon DEF expired
  <2> HIDE DEF d, D, N, L, F, R
  <2> QED
    BY <2>1 DEF Good, Typed
<1> HIDE DEF d
<1>b. \A p \in Peer, h \in Hash : f.fetching[h] = p <=> h \in Missing(f, p)
  BY DEF Good, Owned
<1>c. /\ \A h \in Hash : h \in late <=> f.fetching[h] \in ps
      /\ \A h \in Hash : h \in late =>
           {p \in ps : h \in Missing(f, p)} = {f.fetching[h]}
  BY <1>b
<1>d. [hashes |-> <<>>, stolen |-> {}] \in Requests
  BY EmptyBatch, NewRequest
<1>1. Typed(d)
  <2>1. /\ D \in [Hash -> SUBSET Peer]
        /\ L \in [Hash -> SUBSET Peer]
        /\ N \in [Peer -> SUBSET Hash]
        /\ F \in [Hash -> Peer \cup {NoPeer}]
    BY DEF Good, Typed
  <2>2. R \in [Peer -> Requests \cup {NoRequest}]
    BY <1>d DEF Good, Typed
  <2> HIDE DEF D, L, N, F, R
  <2> QED
    BY <1>a, <2>1, <2>2 DEF Good, Typed
<1>2. Staged(d)
  <2> SUFFICES ASSUME NEW h \in Hash
               PROVE  /\ d.waitlist[h] = {} \/ (d.announced[h] = {} /\ d.alternates[h] = {})
                      /\ d.announced[h] = {} \/ d.alternates[h] = {}
                      /\ d.alternates[h] # {} <=> d.fetching[h] # NoPeer
    BY DEF Staged
  <2>1. CASE h \in late
    <3>1. f.alternates[h] # {}
      BY <1>c, <2>1, FetcherAssumption DEF Good, Staged
    <3> QED
      BY <1>a, <2>1, <3>1 DEF Good, Staged
  <2>2. CASE h \notin late
    BY <1>a, <2>2 DEF Good, Staged
  <2> QED
    BY <2>1, <2>2
<1>3. Owned(d, NoPeer, {})
  <2> SUFFICES ASSUME NEW q \in Peer, NEW h \in Hash
               PROVE  d.fetching[h] = q <=> h \in Missing(d, q)
    BY DEF Owned
  <2>1. CASE q \in ps
    <3>1. Missing(d, q) = {}
      BY <1>a, <2>1, EmptyBatch DEF Missing
    <3> QED
      BY <1>a, <1>c, <2>1, <3>1, FetcherAssumption
  <2>2. CASE q \notin ps
    <3>1. Missing(d, q) = Missing(f, q)
      BY <1>a, <2>2 DEF Missing
    <3> QED
      BY <1>a, <1>b, <1>c, <2>2, <3>1, FetcherAssumption
  <2> QED
    BY <2>1, <2>2
<1>4. Indexed(d)
  <2> SUFFICES ASSUME NEW q \in Peer, NEW h \in Hash
               PROVE  /\ h \in d.waitslots[q] <=> q \in d.waitlist[h]
                      /\ h \in d.announces[q] => q \in d.announced[h] \/ q \in d.alternates[h]
                      /\ d.fetching[h] = q => h \in d.announces[q] /\ q \in d.alternates[h]
    BY DEF Indexed
  <2>0. d.announces[q] = IF q \in ps THEN f.announces[q] \ Missing(f, q)
                         ELSE f.announces[q]
    BY <1>a
  <2>1. CASE h \in late
    <3>1. f.alternates[h] # {} /\ f.announced[h] = {}
      BY <1>c, <2>1, FetcherAssumption DEF Good, Staged
    <3>2. h \in d.announces[q] => q \in f.alternates[h] /\ q # f.fetching[h]
      BY <1>b, <1>c, <2>0, <2>1, <3>1 DEF Good, Indexed
    <3>3. d.announced[h] = f.alternates[h] \ {f.fetching[h]} /\ d.fetching[h] = NoPeer
      BY <1>a, <1>c, <2>1
    <3> QED
      BY <1>a, <3>2, <3>3, FetcherAssumption DEF Good, Indexed
  <2>2. CASE h \notin late
    <3>1. h \in f.announces[q] /\ q \in ps => h \in d.announces[q]
      BY <2>0, <2>2
    <3> QED
      BY <1>a, <2>0, <2>2, <3>1 DEF Good, Indexed
  <2> QED
    BY <2>1, <2>2
<1> QED
  BY <1>1, <1>2, <1>3, <1>4 DEF Good, d

\* The maps agree, except that p's request still asks for the hashes hs.
Near(g, p, hs) ==
  /\ Typed(g) /\ Staged(g) /\ Owned(g, p, hs) /\ Indexed(g)
  /\ \A h \in hs : g.fetching[h] = NoPeer

\* The clean-up after a delivery leaves the maps in agreement, but for the
\* request that the delivery answers.
LEMMA UntrackedNear ==
  ASSUME Good(f), NEW p \in Peer, NEW hs \in SUBSET Hash,
         NEW direct \in BOOLEAN
  PROVE  /\ Near(untracked(p, hs, direct), IF direct THEN p ELSE NoPeer, hs)
         /\ \A q \in Peer : /\ f.requests[q] # NoRequest =>
                                 untracked(p, hs, direct).requests[q] # NoRequest
                            /\ untracked(p, hs, direct).announces[q]
                                 \subseteq f.announces[q]
<1> DEFINE d == untracked(p, hs, direct)
           waited == hs \cap Waiting(f)
           rest == hs \ waited
           st(q) == stolen(q, p, rest, direct)
           S == [q \in Peer |-> f.waitslots[q] \ waited]
           W == [h \in Hash |-> IF h \in waited THEN {} ELSE f.waitlist[h]]
           N == [q \in Peer |-> f.announces[q] \ rest]
           D == [h \in Hash |-> IF h \in rest THEN {} ELSE f.announced[h]]
           L == [h \in Hash |-> IF h \in rest THEN {} ELSE f.alternates[h]]
           F == [h \in Hash |-> IF h \in rest THEN NoPeer ELSE f.fetching[h]]
           R == [q \in Peer |->
                  IF st(q) = {} THEN f.requests[q]
                  ELSE [f.requests[q] EXCEPT !.stolen = @ \cup st(q)]]
           e == IF direct THEN p ELSE NoPeer
<1>a. /\ d.waitlist = W
      /\ d.waitslots = S
      /\ d.announces = N
      /\ d.announced = D
      /\ d.alternates = L
      /\ d.fetching = F
      /\ d.requests = R
      /\ d = [waitlist |-> d.waitlist, waitslots |-> d.waitslots,
              announces |-> d.announces, announced |-> d.announced,
              fetching |-> d.fetching, requests |-> d.requests,
              alternates |-> d.alternates]
  <2>1. d = [f EXCEPT !.waitslots = S, !.waitlist = W, !.announces = N,
                      !.announced = D, !.alternates = L, !.fetching = F,
                      !.requests = R]
    BY Zenon DEF untracked
  <2> HIDE DEF d, S, W, N, D, L, F, R
  <2> QED
    BY <2>1 DEF Good, Typed
<1> HIDE DEF d
<1>b. \A q \in Peer, h \in Hash : f.fetching[h] = q <=> h \in Missing(f, q)
  BY DEF Good, Owned
<1>c. \A q \in Peer : st(q) = {h \in rest : f.fetching[h] = q /\ q # e}
  <2>1. CASE direct
    BY <2>1 DEF stolen
  <2>2. CASE ~direct
    BY <2>2, FetcherAssumption DEF stolen
  <2> QED
    BY <2>1, <2>2
<1>d. ASSUME NEW q \in Peer
      PROVE  /\ d.requests[q] \in Requests \cup {NoRequest}
             /\ f.requests[q] = NoRequest <=> d.requests[q] = NoRequest
             /\ Missing(d, q) = Missing(f, q) \ st(q)
  <2>1. CASE st(q) = {}
    <3>1. d.requests[q] = f.requests[q]
      BY <1>a, <2>1
    <3> QED
      BY <2>1, <3>1 DEF Good, Typed, Missing
  <2>2. CASE st(q) # {}
    <3>0. PICK h \in rest : f.fetching[h] = q
      BY <1>c, <2>2
    <3>1. f.requests[q] # NoRequest
      BY <1>b, <3>0 DEF Missing
    <3>2. f.requests[q] \in Requests
      BY <3>1 DEF Good, Typed
    <3>3. d.requests[q] = [f.requests[q] EXCEPT !.stolen = @ \cup st(q)]
      BY <1>a, <2>2
    <3>4. st(q) \subseteq Hash
      BY <1>c
    <3> HIDE DEF st
    <3>5. /\ d.requests[q].hashes = f.requests[q].hashes
          /\ d.requests[q].stolen = f.requests[q].stolen \cup st(q)
          /\ d.requests[q] \in Requests
      BY <3>2, <3>3, <3>4 DEF Requests
    <3>6. d.requests[q] # NoRequest
      BY <3>5, FetcherAssumption
    <3> QED
      BY <3>1, <3>5, <3>6 DEF Missing
  <2> QED
    BY <2>1, <2>2
<1> HIDE DEF st
<1>1. Typed(d)
  <2>1. /\ W \in [Hash -> SUBSET Peer]
        /\ D \in [Hash -> SUBSET Peer]
        /\ L \in [Hash -> SUBSET Peer]
        /\ N \in [Peer -> SUBSET Hash]
        /\ S \in [Peer -> SUBSET Hash]
        /\ F \in [Hash -> Peer \cup {NoPeer}]
    BY DEF Good, Typed
  <2>2. d.requests \in [Peer -> Requests \cup {NoRequest}]
    BY <1>a, <1>d
  <2> HIDE DEF W, D, L, N, S, F, R
  <2> QED
    BY <1>a, <2>1, <2>2 DEF Good, Typed
<1>2. Staged(d)
  BY <1>a DEF Good, Staged, Waiting
<1>3. \A h \in hs : d.fetching[h] = NoPeer
  BY <1>a DEF Good, Staged, Waiting
<1>4. Owned(d, e, hs)
  <2> SUFFICES ASSUME NEW q \in Peer, NEW h \in Hash
               PROVE  d.fetching[h] = q <=> h \in Missing(d, q) /\ ~(q = e /\ h \in hs)
    BY DEF Owned
  <2>1. CASE h \in hs
    <3>1. d.fetching[h] # q
      BY <1>3, <2>1, FetcherAssumption
    <3>2. q # e => h \notin Missing(d, q)
      <4> HAVE q # e
      <4>1. CASE h \in rest
        BY <1>b, <1>c, <1>d, <4>1
      <4>2. CASE h \in waited
        <5>1. f.fetching[h] = NoPeer
          BY <4>2 DEF Good, Staged, Waiting
        <5> QED
          BY <1>b, <1>d, <5>1, FetcherAssumption
      <4> QED
        BY <2>1, <4>1, <4>2
    <3> QED
      BY <2>1, <3>1, <3>2
  <2>2. CASE h \notin hs
    <3>1. h \notin st(q) /\ d.fetching[h] = f.fetching[h]
      BY <1>a, <1>c, <2>2
    <3> QED
      BY <1>b, <1>d, <2>2, <3>1
  <2> QED
    BY <2>1, <2>2
<1>5. Indexed(d)
  <2> SUFFICES ASSUME NEW q \in Peer, NEW h \in Hash
               PROVE  /\ h \in d.waitslots[q] <=> q \in d.waitlist[h]
                      /\ h \in d.announces[q] => q \in d.announced[h] \/ q \in d.alternates[h]
                      /\ d.fetching[h] = q => h \in d.announces[q] /\ q \in d.alternates[h]
    BY DEF Indexed
  <2>1. CASE h \in rest
    <3>1. f.waitlist[h] = {}
      BY <2>1 DEF Waiting
    <3> QED
      BY <1>a, <2>1, <3>1, FetcherAssumption DEF Good, Indexed
  <2>2. CASE h \notin rest
    BY <1>a, <2>2 DEF Good, Indexed
  <2> QED
    BY <2>1, <2>2
<1>6. \A q \in Peer : d.announces[q] \subseteq f.announces[q]
  BY <1>a
<1> QED
  BY <1>1, <1>2, <1>3, <1>4, <1>5, <1>6, <1>d DEF Near, d

\* The reply to a request, once its hashes are untracked, brings the maps back
\* into agreement.
LEMMA ClosedGood ==
  ASSUME NEW g, NEW p \in Peer, NEW hs \in SUBSET Hash, Near(g, p, hs),
         g.requests[p] # NoRequest
  PROVE  Good(closed(g, p, hs))
<1> DEFINE d == closed(g, p, hs)
           out == Missing(g, p)
           lost == (out \cap withheld(g.requests[p], hs)) \ hs
           others(h) == IF h \in lost THEN g.alternates[h] \ {p}
                        ELSE g.alternates[h]
           R == [g.requests EXCEPT ![p] = NoRequest]
           N == [g.announces EXCEPT ![p] = @ \ lost]
           D == [h \in Hash |->
                  IF h \in out \ hs /\ others(h) # {} THEN others(h)
                  ELSE g.announced[h]]
           L == [h \in Hash |-> IF h \in out THEN {} ELSE g.alternates[h]]
           F == [h \in Hash |-> IF h \in out THEN NoPeer ELSE g.fetching[h]]
<1>a. /\ d.waitlist = g.waitlist
      /\ d.waitslots = g.waitslots
      /\ d.announces = N
      /\ d.announced = D
      /\ d.alternates = L
      /\ d.fetching = F
      /\ d.requests = R
      /\ d = [waitlist |-> d.waitlist, waitslots |-> d.waitslots,
              announces |-> d.announces, announced |-> d.announced,
              fetching |-> d.fetching, requests |-> d.requests,
              alternates |-> d.alternates]
  <2>1. d = [g EXCEPT !.requests = R, !.announces = N, !.announced = D,
                      !.alternates = L, !.fetching = F]
    BY Zenon DEF closed
  <2> HIDE DEF d, R, N, D, L, F
  <2> QED
    BY <2>1 DEF Near, Typed
<1> HIDE DEF d
<1>b. out \subseteq Hash
  BY MissingHashes DEF Near
<1>c. /\ lost \subseteq out \ hs
      /\ \A h \in out \ hs : g.fetching[h] = p
      /\ \A h \in out \cap hs : g.fetching[h] = NoPeer
      /\ \A h \in Hash : g.fetching[h] = p => h \in out
  BY <1>b DEF Near, Owned
<1> HIDE DEF lost
<1>d. \A h \in out \ hs :
        /\ g.waitlist[h] = {} /\ g.announced[h] = {} /\ p \in g.alternates[h]
  BY <1>b, <1>c, FetcherAssumption DEF Near, Staged, Indexed
<1>1. Typed(d)
  <2>1. /\ L \in [Hash -> SUBSET Peer]
        /\ D \in [Hash -> SUBSET Peer]
        /\ N \in [Peer -> SUBSET Hash]
        /\ F \in [Hash -> Peer \cup {NoPeer}]
        /\ R \in [Peer -> Requests \cup {NoRequest}]
    BY DEF Near, Typed
  <2> HIDE DEF L, D, N, F, R
  <2> QED
    BY <1>a, <2>1 DEF Near, Typed
<1>2. Staged(d)
  <2> SUFFICES ASSUME NEW h \in Hash
               PROVE  /\ d.waitlist[h] = {} \/ (d.announced[h] = {} /\ d.alternates[h] = {})
                      /\ d.announced[h] = {} \/ d.alternates[h] = {}
                      /\ d.alternates[h] # {} <=> d.fetching[h] # NoPeer
    BY DEF Staged
  <2>1. CASE h \in out \ hs
    BY <1>a, <1>d, <2>1
  <2>2. CASE h \notin out \ hs
    BY <1>a, <1>c, <2>2 DEF Near, Staged
  <2> QED
    BY <2>1, <2>2
<1>3. Owned(d, NoPeer, {})
  <2> SUFFICES ASSUME NEW q \in Peer, NEW h \in Hash
               PROVE  d.fetching[h] = q <=> h \in Missing(d, q)
    BY DEF Owned
  <2>1. CASE q = p
    <3>1. Missing(d, q) = {}
      BY <1>a, <2>1 DEF Missing, Near, Typed
    <3> QED
      BY <1>a, <1>c, <2>1, <3>1, FetcherAssumption
  <2>2. CASE q # p
    <3>1. Missing(d, q) = Missing(g, q)
      BY <1>a, <2>2 DEF Missing, Near, Typed
    <3>2. g.fetching[h] = q <=> h \in Missing(g, q)
      BY <2>2 DEF Near, Owned
    <3>3. h \in out => g.fetching[h] # q
      BY <1>c, <2>2, FetcherAssumption
    <3> QED
      BY <1>a, <3>1, <3>2, <3>3, FetcherAssumption
  <2> QED
    BY <2>1, <2>2
<1>4. Indexed(d)
  <2> SUFFICES ASSUME NEW q \in Peer, NEW h \in Hash
               PROVE  /\ h \in d.waitslots[q] <=> q \in d.waitlist[h]
                      /\ h \in d.announces[q] => q \in d.announced[h] \/ q \in d.alternates[h]
                      /\ d.fetching[h] = q => h \in d.announces[q] /\ q \in d.alternates[h]
    BY DEF Indexed
  <2>0. d.announces[q] = IF q = p THEN g.announces[p] \ lost ELSE g.announces[q]
    BY <1>a DEF Near, Typed
  <2>1. CASE h \in out \ hs
    <3>1. d.fetching[h] = NoPeer
      BY <1>a, <2>1
    <3>2. h \in d.announces[q] => q \in others(h)
      BY <1>d, <2>0, <2>1 DEF Near, Indexed
    <3>3. others(h) # {} => d.announced[h] = others(h)
      BY <1>a, <2>1
    <3> QED
      BY <1>a, <3>1, <3>2, <3>3, FetcherAssumption DEF Near, Indexed
  <2>2. CASE h \notin out \ hs
    <3>1. h \in d.announces[q] <=> h \in g.announces[q]
      BY <1>c, <2>0, <2>2
    <3>2. d.announced[h] = g.announced[h]
      BY <1>a, <2>2
    <3>3. h \in out => g.fetching[h] = NoPeer /\ g.alternates[h] = {}
      BY <1>c, <2>2 DEF Near, Staged
    <3>4. d.alternates[h] = g.alternates[h] /\ d.fetching[h] = g.fetching[h]
      BY <1>a, <3>3
    <3> QED
      BY <1>a, <3>1, <3>2, <3>4 DEF Near, Indexed
  <2> QED
    BY <2>1, <2>2
<1> QED
  BY <1>1, <1>2, <1>3, <1>4 DEF Good, d

\* A drop removes the peer from the maps and keeps them in agreement.
LEMMA UnwaitedGood ==
  ASSUME NEW g, Good(g), NEW p \in Peer
  PROVE  Good(unwaited(g, p))
<1> DEFINE d == unwaited(g, p)
           W == [h \in Hash |->
                  IF h \in g.waitslots[p] THEN g.waitlist[h] \ {p}
                  ELSE g.waitlist[h]]
           S == [g.waitslots EXCEPT ![p] = {}]
<1>a. /\ d.waitlist = W
      /\ d.waitslots = S
      /\ d.announces = g.announces
      /\ d.announced = g.announced
      /\ d.alternates = g.alternates
      /\ d.fetching = g.fetching
      /\ d.requests = g.requests
      /\ d = [waitlist |-> d.waitlist, waitslots |-> d.waitslots,
              announces |-> d.announces, announced |-> d.announced,
              fetching |-> d.fetching, requests |-> d.requests,
              alternates |-> d.alternates]
  <2>1. d = [g EXCEPT !.waitlist = W, !.waitslots = S]
    BY Zenon DEF unwaited
  <2> HIDE DEF d, W, S
  <2> QED
    BY <2>1 DEF Good, Typed
<1> HIDE DEF d
<1>1. Typed(d)
  <2>1. W \in [Hash -> SUBSET Peer] /\ S \in [Peer -> SUBSET Hash]
    BY DEF Good, Typed
  <2> HIDE DEF W, S
  <2> QED
    BY <1>a, <2>1 DEF Good, Typed
<1>2. Staged(d)
  BY <1>a DEF Good, Staged
<1>3. Owned(d, NoPeer, {})
  BY <1>a DEF Good, Owned, Missing
<1>4. Indexed(d)
  <2>1. \A q \in Peer : S[q] = IF q = p THEN {} ELSE g.waitslots[q]
    BY DEF Good, Typed
  <2> QED
    BY <1>a, <2>1 DEF Good, Indexed
<1> QED
  BY <1>1, <1>2, <1>3, <1>4 DEF Good, d

LEMMA DroppedGood ==
  ASSUME NEW g, Good(g), NEW p \in Peer
  PROVE  /\ Good(unannounced(cancelled(g, p), p))
         /\ \A q \in Peer :
              /\ unannounced(cancelled(g, p), p).announces[q]
                   \subseteq g.announces[q]
              /\ g.requests[p] = NoRequest =>
                   unannounced(cancelled(g, p), p).requests[q] = g.requests[q]
<1> DEFINE out == Missing(g, p)
           c == cancelled(g, p)
           d == unannounced(c, p)
           C == [h \in Hash |->
                  IF h \in out /\ g.alternates[h] \ {p} # {}
                  THEN g.alternates[h] \ {p} ELSE g.announced[h]]
           L == [h \in Hash |-> IF h \in out THEN {} ELSE g.alternates[h]]
           F == [h \in Hash |-> IF h \in out THEN NoPeer ELSE g.fetching[h]]
           R == [g.requests EXCEPT ![p] = NoRequest]
           D == [h \in Hash |->
                  IF h \in g.announces[p] THEN C[h] \ {p} ELSE C[h]]
           N == [g.announces EXCEPT ![p] = {}]
<1>a. /\ d.waitlist = g.waitlist
      /\ d.waitslots = g.waitslots
      /\ d.announces = N
      /\ d.announced = D
      /\ d.alternates = L
      /\ d.fetching = F
      /\ d.requests = R
      /\ d = [waitlist |-> d.waitlist, waitslots |-> d.waitslots,
              announces |-> d.announces, announced |-> d.announced,
              fetching |-> d.fetching, requests |-> d.requests,
              alternates |-> d.alternates]
  <2>1. c = [g EXCEPT !.announced = C, !.alternates = L, !.fetching = F,
                      !.requests = R]
    BY Zenon DEF cancelled
  <2>2. c.announced = C /\ c.announces = g.announces
    <3> HIDE DEF c, C, L, F, R
    <3> QED
      BY <2>1 DEF Good, Typed
  <2>3. d = [c EXCEPT !.announced = D, !.announces = N]
    <3> HIDE DEF c, C
    <3> QED
      BY <2>2 DEF unannounced
  <2> HIDE DEF c, d, C, L, F, R, D, N
  <2> QED
    BY <2>1, <2>3 DEF Good, Typed
<1> HIDE DEF c, d
<1>b. out \subseteq Hash
  BY MissingHashes DEF Good
<1>c. \A h \in Hash : h \in out <=> g.fetching[h] = p
  BY DEF Good, Owned
<1>d. \A h \in out :
        /\ g.waitlist[h] = {} /\ g.announced[h] = {} /\ p \in g.alternates[h]
        /\ h \in g.announces[p]
  BY <1>b, <1>c, FetcherAssumption DEF Good, Staged, Indexed
<1>1. Typed(d)
  <2>1. /\ C \in [Hash -> SUBSET Peer]
        /\ L \in [Hash -> SUBSET Peer]
        /\ F \in [Hash -> Peer \cup {NoPeer}]
        /\ R \in [Peer -> Requests \cup {NoRequest}]
        /\ N \in [Peer -> SUBSET Hash]
    BY DEF Good, Typed
  <2>2. D \in [Hash -> SUBSET Peer]
    <3> HIDE DEF C
    <3> QED
      BY <2>1
  <2> HIDE DEF C, L, F, R, D, N
  <2> QED
    BY <1>a, <2>1, <2>2 DEF Good, Typed
<1>2. Staged(d)
  <2> SUFFICES ASSUME NEW h \in Hash
               PROVE  /\ d.waitlist[h] = {} \/ (d.announced[h] = {} /\ d.alternates[h] = {})
                      /\ d.announced[h] = {} \/ d.alternates[h] = {}
                      /\ d.alternates[h] # {} <=> d.fetching[h] # NoPeer
    BY DEF Staged
  <2>1. CASE h \in out
    BY <1>a, <1>d, <2>1
  <2>2. CASE h \notin out
    BY <1>a, <2>2 DEF Good, Staged
  <2> QED
    BY <2>1, <2>2
<1>3. Owned(d, NoPeer, {})
  <2> SUFFICES ASSUME NEW q \in Peer, NEW h \in Hash
               PROVE  d.fetching[h] = q <=> h \in Missing(d, q)
    BY DEF Owned
  <2>0. g.fetching[h] = q <=> h \in Missing(g, q)
    BY DEF Good, Owned
  <2>1. CASE q = p
    <3>1. Missing(d, q) = {}
      BY <1>a, <2>1 DEF Missing, Good, Typed
    <3> QED
      BY <1>a, <1>c, <2>1, <3>1, FetcherAssumption
  <2>2. CASE q # p
    <3>1. Missing(d, q) = Missing(g, q)
      BY <1>a, <2>2 DEF Missing, Good, Typed
    <3> QED
      BY <1>a, <1>c, <2>0, <2>2, <3>1, FetcherAssumption
  <2> QED
    BY <2>1, <2>2
<1>4. Indexed(d)
  <2> SUFFICES ASSUME NEW q \in Peer, NEW h \in Hash
               PROVE  /\ h \in d.waitslots[q] <=> q \in d.waitlist[h]
                      /\ h \in d.announces[q] => q \in d.announced[h] \/ q \in d.alternates[h]
                      /\ d.fetching[h] = q => h \in d.announces[q] /\ q \in d.alternates[h]
    BY DEF Indexed
  <2>0. d.announces[q] = IF q = p THEN {} ELSE g.announces[q]
    BY <1>a DEF Good, Typed
  <2>1. CASE h \in out
    <3>1. d.fetching[h] = NoPeer
      BY <1>a, <2>1
    <3>2. h \in d.announces[q] => q \in g.alternates[h] \ {p}
      BY <1>d, <2>0, <2>1 DEF Good, Indexed
    <3>3. g.alternates[h] \ {p} # {} => d.announced[h] = g.alternates[h] \ {p}
      BY <1>a, <2>1
    <3> QED
      BY <1>a, <3>1, <3>2, <3>3, FetcherAssumption DEF Good, Indexed
  <2>2. CASE h \notin out
    <3>1. /\ d.alternates[h] = g.alternates[h]
          /\ d.fetching[h] = g.fetching[h]
          /\ g.announced[h] \ {p} \subseteq d.announced[h]
      BY <1>a, <2>2
    <3> QED
      BY <1>a, <1>c, <2>0, <2>2, <3>1 DEF Good, Indexed
  <2> QED
    BY <2>1, <2>2
<1>5. \A q \in Peer :
        /\ d.announces[q] \subseteq g.announces[q]
        /\ g.requests[p] = NoRequest => d.requests[q] = g.requests[q]
  BY <1>a DEF Good, Typed
<1> QED
  BY <1>1, <1>2, <1>3, <1>4, <1>5 DEF Good, c, d

-----------------------------------------------------------------------------

\* Every step of loop keeps the maps in agreement and somebody working.
LEMMA InvInductive == IInv /\ [Next]_vars => IInv'
<1> SUFFICES ASSUME IInv, [Next]_vars PROVE IInv'
  OBVIOUS
<1> USE DEF IInv
<1>t. /\ f.requests \in [Peer -> Requests \cup {NoRequest}]
      /\ f.announces \in [Peer -> SUBSET Hash]
  BY DEF Good, Typed
<1>1. ASSUME NEW p \in Peer, NEW hs \in SUBSET Offers[p], Notify(p, hs)
      PROVE  IInv'
  <2>1. PICK ks \in SUBSET hs :
          IF f.announces[p] = {} /\ announcing(p, ks).announces[p] # {}
          THEN scheduleFetches(announcing(p, ks), {p}, FALSE)
          ELSE f' = announcing(p, ks)
    BY <1>1 DEF Notify
  <2> DEFINE g == announcing(p, ks)
  <2>2. ks \in SUBSET Hash
    BY FetcherAssumption
  <2>3. Good(g)
    BY <2>2, AnnouncingGood
  <2>4. /\ g.requests = f.requests
        /\ \A q \in Peer : q # p => g.announces[q] = f.announces[q]
    BY <1>t DEF announcing, Good, Typed
  <2> HIDE DEF g
  <2>5. CASE f.announces[p] = {} /\ g.announces[p] # {}
    <3>1. PICK take \in Takes(g, {p}) : f' = fetched(g, take)
      BY <2>1, <2>5 DEF scheduleFetches, g
    <3>2. NothingInFlight(g) => \A q \in Peer : g.announces[q] # {} => q \in {p}
      BY <2>4 DEF Working, NothingInFlight
    <3> QED
      BY <2>3, <3>1, <3>2, FetchedGood, FetchedWorking
  <2>6. CASE ~(f.announces[p] = {} /\ g.announces[p] # {})
    <3>1. f' = g
      BY <2>1, <2>6 DEF g
    <3>2. Working(g)
      BY <2>4, <2>6 DEF Working, NothingInFlight
    <3> QED
      BY <2>3, <3>1, <3>2
  <2> QED
    BY <2>5, <2>6
<1>2. ASSUME NEW es \in SUBSET Waiting(f), waitTrigger(es)
      PROVE  IInv'
  <2> DEFINE g == promoted(es)
             actives == UNION {f.waitlist[h] : h \in es}
  <2>1. Good(g)
    BY PromotedGood
  <2>2. /\ g.requests = f.requests
        /\ \A q \in Peer : g.announces[q] =
             f.announces[q] \cup {h \in es : q \in f.waitlist[h]}
    BY DEF promoted, Good, Typed
  <2>3. actives \in SUBSET Peer
    BY DEF Good, Typed, Waiting
  <2>4. IF actives # {} THEN scheduleFetches(g, actives, FALSE) ELSE f' = g
    BY <1>2 DEF waitTrigger
  <2>5. NothingInFlight(g) => \A q \in Peer : g.announces[q] # {} => q \in actives
    BY <2>2 DEF Working, NothingInFlight
  <2> HIDE DEF g
  <2>6. CASE actives # {}
    <3>1. PICK take \in Takes(g, actives) : f' = fetched(g, take)
      BY <2>4, <2>6 DEF scheduleFetches
    <3> HIDE DEF actives
    <3> QED
      BY <2>1, <2>3, <2>5, <3>1, FetchedGood, FetchedWorking
  <2>7. CASE actives = {}
    <3>1. f' = g
      BY <2>4, <2>7
    <3>2. Working(g)
      BY <2>5, <2>7 DEF Working
    <3> QED
      BY <2>1, <3>1, <3>2
  <2> QED
    BY <2>6, <2>7
<1>3. ASSUME NEW g, Good(g), NEW always,
             scheduleFetches(g, {p \in Peer : g.announces[p] # {}}, always)
      PROVE  IInv'
  <2> DEFINE A == {p \in Peer : g.announces[p] # {}}
  <2>1. PICK take \in Takes(g, A) : f' = fetched(g, take)
    BY <1>3 DEF scheduleFetches
  <2>2. A \in SUBSET Peer /\ \A p \in Peer : g.announces[p] # {} => p \in A
    OBVIOUS
  <2> HIDE DEF A
  <2> QED
    BY <1>3, <2>1, <2>2, FetchedGood, FetchedWorking
<1>4. ASSUME NEW ps \in SUBSET Peer, timeoutTrigger(ps)
      PROVE  IInv'
  <2>1. Good(expired(ps))
    BY <1>4, ExpiredGood DEF timeoutTrigger
  <2> QED
    BY <1>3, <1>4, <2>1 DEF timeoutTrigger
<1>5. ASSUME NEW p \in Peer, NEW hs \in SUBSET Hash, NEW direct \in BOOLEAN,
             Enqueue(p, hs, direct)
      PROVE  IInv'
  <2> DEFINE g == untracked(p, hs, direct)
             d == closed(g, p, hs)
  <2>1. Near(g, IF direct THEN p ELSE NoPeer, hs)
    BY UntrackedNear
  <2>2. \A q \in Peer : /\ f.requests[q] # NoRequest => g.requests[q] # NoRequest
                        /\ g.announces[q] \subseteq f.announces[q]
    BY UntrackedNear
  <2>3. IF direct /\ g.requests[p] # NoRequest
        THEN scheduleFetches(d, {q \in Peer : d.announces[q] # {}}, FALSE)
        ELSE f' = g
    BY <1>5 DEF Enqueue
  <2> HIDE DEF g
  <2>4. CASE direct /\ g.requests[p] # NoRequest
    <3>1. Good(d)
      BY <2>1, <2>4, ClosedGood
    <3> HIDE DEF d
    <3> QED
      BY <1>3, <2>3, <2>4, <3>1
  <2>5. CASE ~(direct /\ g.requests[p] # NoRequest)
    <3>1. f' = g
      BY <2>3, <2>5
    <3>2. Working(g)
      BY <2>2 DEF Working, NothingInFlight
    <3>3. Owned(g, NoPeer, {})
      <4>1. CASE direct
        BY <2>1, <2>5, <4>1 DEF Near, Owned, Missing
      <4>2. CASE ~direct
        BY <2>1, <4>2, FetcherAssumption DEF Near, Owned
      <4> QED
        BY <4>1, <4>2
    <3> QED
      BY <2>1, <3>1, <3>2, <3>3 DEF Near, Good
  <2> QED
    BY <2>4, <2>5
<1>6. ASSUME NEW p \in Peer, Drop(p)
      PROVE  IInv'
  <2> DEFINE w == unwaited(f, p)
             g == unannounced(cancelled(w, p), p)
  <2>1. Good(w)
    BY UnwaitedGood
  <2>2. w.requests = f.requests /\ w.announces = f.announces
    BY DEF unwaited, Good, Typed
  <2>3. IF f.requests[p] # NoRequest
        THEN scheduleFetches(g, {q \in Peer : g.announces[q] # {}}, TRUE)
        ELSE f' = g
    BY <1>6 DEF Drop
  <2> HIDE DEF w
  <2>4. /\ Good(g)
        /\ \A q \in Peer : /\ g.announces[q] \subseteq w.announces[q]
                           /\ w.requests[p] = NoRequest =>
                                g.requests[q] = w.requests[q]
    BY <2>1, DroppedGood
  <2> HIDE DEF g
  <2>5. CASE f.requests[p] # NoRequest
    BY <1>3, <2>3, <2>4, <2>5
  <2>6. CASE f.requests[p] = NoRequest
    <3>1. f' = g
      BY <2>3, <2>6
    <3>2. Working(g)
      BY <2>2, <2>4, <2>6 DEF Working, NothingInFlight
    <3> QED
      BY <2>4, <3>1, <3>2
  <2> QED
    BY <2>5, <2>6
<1>7. CASE UNCHANGED vars
  BY <1>7 DEF vars, Good, Typed, Staged, Owned, Indexed, Missing, Working,
              NothingInFlight
<1>8. CASE \E p \in Peer : \E hs \in SUBSET Offers[p] \ {{}} : Notify(p, hs)
  BY <1>1, <1>8
<1>9. CASE \E p \in Peer, h \in Hash, direct \in BOOLEAN :
             (direct => f.requests[p] = NoRequest) /\ Enqueue(p, {h}, direct)
  BY <1>5, <1>9
<1> QED
  BY <1>2, <1>4, <1>5, <1>6, <1>7, <1>8, <1>9 DEF Next

\* The empty maps agree.
LEMMA InvInitial == Init => IInv
<1> SUFFICES ASSUME Init PROVE IInv
  OBVIOUS
<1> QED
  BY FetcherAssumption DEF Init, IInv, Good, Typed, Staged, Owned, Indexed, Missing,
     Working, NothingInFlight

\* The four invariants follow.
LEMMA InvImplies ==
  IInv => OneStage /\ RequestOwnsFetch /\ OriginsIndexed /\ SomeoneWorks
BY DEF IInv, Good, Staged, Owned, Indexed, Working, OneStage, RequestOwnsFetch,
       OriginsIndexed, SomeoneWorks

\* IInv is an invariant of the fetcher.
LEMMA Invariance == Spec => []IInv
BY InvInitial, InvInductive, PTL DEF Spec

\* A tracked hash is always in exactly one of the three stages, so the panics
\* of loop and of scheduleFetches are never reached.
THEOREM StagesDisjoint == Spec => []OneStage
BY Invariance, InvImplies, PTL

\* However replies, broadcasts, timeouts and drops cross, a hash is being
\* fetched from p exactly if p's request still asks for it.
THEOREM FetchesOwned == Spec => []RequestOwnsFetch
BY Invariance, InvImplies, PTL

\* The maps by peer and by hash always agree.
THEOREM OriginsAgree == Spec => []OriginsIndexed
BY Invariance, InvImplies, PTL

\* While an announcement is not served, a request is in flight.
THEOREM WorkGoesOn == Spec => []SomeoneWorks
BY Invariance, InvImplies, PTL

-----------------------------------------------------------------------------

\* scheduleFetches sets the timer for the first request, and leaves the waiting
\* list alone.
LEMMA ScheduledTimer ==
  ASSUME NEW g, Good(g), NEW A, NEW always,
         ~NothingInFlight(g) => timeoutTimer \/ always,
         scheduleFetches(g, A, always)
  PROVE  /\ ~NothingInFlight(f') => timeoutTimer'
         /\ f'.waitlist = g.waitlist
<1>1. PICK take \in Takes(g, A) :
        /\ f' = fetched(g, take)
        /\ timeoutTimer' =
             (\/ timeoutTimer
              \/ always
              \/ NothingInFlight(g) /\ \E p \in DOMAIN take : take[p] # <<>>)
  BY DEF scheduleFetches
<1>2. /\ fetched(g, take).waitlist = g.waitlist
      /\ \A p \in Peer : fetched(g, take).requests[p] # g.requests[p] =>
           p \in DOMAIN take /\ take[p] # <<>>
  BY DEF fetched, Good, Typed
<1>3. CASE NothingInFlight(g)
  BY <1>1, <1>2, <1>3 DEF NothingInFlight
<1>4. CASE ~NothingInFlight(g)
  BY <1>1, <1>2, <1>4
<1> QED
  BY <1>3, <1>4

\* Every step of loop keeps the timers that are needed set.
LEMMA TimersInductive == IInv /\ TimersSet /\ [Next]_vars => TimersSet'
<1> SUFFICES ASSUME IInv, TimersSet, [Next]_vars PROVE TimersSet'
  OBVIOUS
<1>g. Good(f)
  BY DEF IInv
<1>s. ASSUME NEW g, Good(g), NEW A, NEW always,
             ~NothingInFlight(g) => timeoutTimer \/ always,
             scheduleFetches(g, A, always),
             Waiting(g) # {} => waitTimer'
      PROVE  TimersSet'
  <2>1. /\ ~NothingInFlight(f') => timeoutTimer'
        /\ f'.waitlist = g.waitlist
    BY <1>s, ScheduledTimer
  <2> QED
    BY <1>s, <2>1 DEF TimersSet, Waiting, NothingInFlight
<1>u. ASSUME NEW g, f' = g, Waiting(g) # {} => waitTimer',
             UNCHANGED timeoutTimer, ~NothingInFlight(g) => timeoutTimer
      PROVE  TimersSet'
  BY <1>u DEF TimersSet, Waiting, NothingInFlight
<1>1. ASSUME NEW p \in Peer, NEW hs \in SUBSET Offers[p], Notify(p, hs)
      PROVE  TimersSet'
  <2>1. PICK ks \in SUBSET hs :
          /\ waitTimer' = (\/ waitTimer
                           \/ Waiting(f) = {} /\ Waiting(announcing(p, ks)) # {})
          /\ IF f.announces[p] = {} /\ announcing(p, ks).announces[p] # {}
             THEN scheduleFetches(announcing(p, ks), {p}, FALSE)
             ELSE f' = announcing(p, ks) /\ UNCHANGED timeoutTimer
    BY <1>1 DEF Notify
  <2> DEFINE g == announcing(p, ks)
  <2>2. ks \in SUBSET Hash
    BY FetcherAssumption
  <2>3. Good(g)
    BY <1>g, <2>2, AnnouncingGood
  <2>4. ~NothingInFlight(g) => timeoutTimer
    BY <1>g DEF announcing, Good, Typed, TimersSet, NothingInFlight
  <2>5. Waiting(g) # {} => waitTimer'
    BY <2>1 DEF TimersSet
  <2>6. \/ scheduleFetches(g, {p}, FALSE)
        \/ f' = g /\ UNCHANGED timeoutTimer
    BY <2>1
  <2> HIDE DEF g
  <2> QED
    BY <1>s, <1>u, <2>3, <2>4, <2>5, <2>6
<1>2. ASSUME NEW es \in SUBSET Waiting(f), waitTrigger(es)
      PROVE  TimersSet'
  <2> DEFINE g == promoted(es)
  <2>1. Good(g)
    BY <1>g, PromotedGood
  <2>2. ~NothingInFlight(g) => timeoutTimer
    BY <1>g DEF promoted, Good, Typed, TimersSet, NothingInFlight
  <2> HIDE DEF g
  <2>3. /\ waitTimer' = (Waiting(g) # {})
        /\ \/ scheduleFetches(g, UNION {f.waitlist[h] : h \in es}, FALSE)
           \/ f' = g /\ UNCHANGED timeoutTimer
    BY <1>2 DEF waitTrigger, g
  <2> QED
    BY <1>s, <1>u, <2>1, <2>2, <2>3
<1>3. ASSUME NEW ps \in SUBSET Peer, timeoutTrigger(ps)
      PROVE  TimersSet'
  <2>1. Good(expired(ps))
    BY <1>3, <1>g, ExpiredGood DEF timeoutTrigger
  <2>2. Waiting(expired(ps)) = Waiting(f)
    BY <1>g DEF expired, Good, Typed, Waiting
  <2> QED
    BY <1>3, <1>s, <2>1, <2>2 DEF timeoutTrigger, TimersSet
<1>4. ASSUME NEW p \in Peer, NEW hs \in SUBSET Hash, NEW direct \in BOOLEAN,
             Enqueue(p, hs, direct)
      PROVE  TimersSet'
  <2> DEFINE g == untracked(p, hs, direct)
             d == closed(g, p, hs)
  <2>1. Near(g, IF direct THEN p ELSE NoPeer, hs)
    BY <1>g, UntrackedNear
  <2>2. \A q \in Peer : g.requests[q] # NoRequest => f.requests[q] # NoRequest
    <3>1. \A q \in Peer : g.requests[q] # f.requests[q] =>
            \E h \in hs : f.fetching[h] = q
      BY <1>g DEF untracked, stolen, Good, Typed
    <3> QED
      BY <1>g, <3>1 DEF Good, Owned, Missing
  <2>3. Waiting(g) \subseteq Waiting(f)
    BY <1>g DEF untracked, Good, Typed, Waiting
  <2>4. /\ UNCHANGED waitTimer
        /\ IF direct /\ g.requests[p] # NoRequest
           THEN scheduleFetches(d, {q \in Peer : d.announces[q] # {}}, FALSE)
           ELSE f' = g /\ UNCHANGED timeoutTimer
    BY <1>4 DEF Enqueue
  <2> HIDE DEF g
  <2>5. CASE direct /\ g.requests[p] # NoRequest
    <3>1. Good(d)
      BY <2>1, <2>5, ClosedGood
    <3>2. /\ Waiting(d) = Waiting(g)
          /\ \A q \in Peer : d.requests[q] # NoRequest => g.requests[q] # NoRequest
      BY <2>1 DEF closed, Near, Typed, Waiting
    <3> HIDE DEF d
    <3> QED
      BY <1>s, <2>2, <2>3, <2>4, <2>5, <3>1, <3>2 DEF TimersSet, NothingInFlight
  <2>6. CASE ~(direct /\ g.requests[p] # NoRequest)
    BY <1>u, <2>2, <2>3, <2>4, <2>6 DEF TimersSet, NothingInFlight
  <2> QED
    BY <2>5, <2>6
<1>5. ASSUME NEW p \in Peer, Drop(p)
      PROVE  TimersSet'
  <2> DEFINE w == unwaited(f, p)
             g == unannounced(cancelled(w, p), p)
  <2>1. Good(w)
    BY <1>g, UnwaitedGood
  <2>2. w.requests = f.requests /\ Waiting(w) \subseteq Waiting(f)
    BY <1>g DEF unwaited, Good, Typed, Waiting
  <2>3. /\ waitTimer => waitTimer'
        /\ \/ scheduleFetches(g, {q \in Peer : g.announces[q] # {}}, TRUE)
           \/ f.requests[p] = NoRequest /\ f' = g /\ UNCHANGED timeoutTimer
    BY <1>5 DEF Drop
  <2> HIDE DEF w
  <2>4. /\ Good(g)
        /\ \A q \in Peer : w.requests[p] = NoRequest =>
                             g.requests[q] = w.requests[q]
    BY <2>1, DroppedGood
  <2>5. Waiting(g) = Waiting(w)
    BY <2>1 DEF unannounced, cancelled, Good, Typed, Waiting
  <2> HIDE DEF g
  <2>6. Waiting(g) # {} => waitTimer'
    BY <2>2, <2>3, <2>5 DEF TimersSet
  <2>7. CASE scheduleFetches(g, {q \in Peer : g.announces[q] # {}}, TRUE)
    BY <1>s, <2>4, <2>6, <2>7
  <2>8. CASE f.requests[p] = NoRequest /\ f' = g /\ UNCHANGED timeoutTimer
    BY <1>u, <2>2, <2>4, <2>6, <2>8 DEF TimersSet, NothingInFlight
  <2> QED
    BY <2>3, <2>7, <2>8
<1>6. CASE UNCHANGED vars
  BY <1>6 DEF vars, TimersSet, Waiting, NothingInFlight
<1>7. CASE \E p \in Peer : \E hs \in SUBSET Offers[p] \ {{}} : Notify(p, hs)
  BY <1>1, <1>7
<1>8. CASE \E p \in Peer, h \in Hash, direct \in BOOLEAN :
             (direct => f.requests[p] = NoRequest) /\ Enqueue(p, {h}, direct)
  BY <1>4, <1>8
<1> QED
  BY <1>2, <1>3, <1>4, <1>5, <1>6, <1>7, <1>8 DEF Next

\* The timers are set whenever they are needed, which is what the ends of the
\* waiting and of the fetching rest on.
THEOREM TimersNotLost == Spec => []TimersSet
<1>1. Init => TimersSet
  BY DEF Init, TimersSet, Waiting, NothingInFlight
<1> QED
  BY <1>1, Invariance, TimersInductive, PTL DEF Spec

=============================================================================
