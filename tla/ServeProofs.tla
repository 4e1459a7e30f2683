----------------------------- MODULE ServeProofs -----------------------------
(***************************************************************************)
(* The server never serves more connections at once than it has slots. An  *)
(* acceptor counts first and looks at what it got afterwards, so the       *)
(* counter may stand above the limit; what it counts (CountIsTrue) is the  *)
(* threads, those of them that panicked and those about to be refused.     *)
(*                                                                         *)
(* And it seals a day only once the day is over, with every note of it, as *)
(* long as cutoffs come in the order of their dates (CutoffsRise); where a *)
(* zone skips the hour of a cutoff they do not.                            *)
(***************************************************************************)
EXTENDS Serve, FiniteSetTheorems, SequenceTheorems, TLAPS

-----------------------------------------------------------------------------
\* Every connection that was counted and not given back is behind the counter:
\* the threads, those of them that panicked, and those an acceptor refuses.
Counted == {c \in Clients : Serving(c) \/ conn[c] \in {"panicked", "counted"}}

CountIsTrue ==
  /\ conn \in [Clients -> Stages] /\ accept \in [Listeners -> SUBSET Clients]
  /\ live = Cardinality(Counted)
  /\ Cardinality(Threads) <= MaxConnections
  /\ \A l \in Listeners : accept[l] # {} => \E c : accept[l] = {c} /\ conn[c] = "counted"
  /\ \A l, k \in Listeners : accept[l] \cap accept[k] # {} => l = k

LEMMA FiniteCounts ==
  ASSUME NEW S \in SUBSET Clients
  PROVE  IsFiniteSet(S) /\ Cardinality(S) \in Nat
  BY ServeAssumption, FS_Subset, FS_CardinalityType DEF ServeAssumption

\* A client that moves between two states that count alike changes no count.
LEMMA CountStands ==
  ASSUME CountIsTrue, NEW c \in Clients, NEW pc \in Stages, Becomes(c, pc), UNCHANGED <<accept, live>>,
         \/ conn[c] = "none" /\ pc = "waiting"
         \/ conn[c] \in {"reading", "ready", "routing", "writing"}
              /\ pc \in {"ready", "routing", "writing", "closing", "panicked"}
  PROVE  CountIsTrue'
  <1>1. /\ conn' \in [Clients -> Stages] /\ conn'[c] = pc
        /\ \A d \in Clients \ {c} : conn'[d] = conn[d]
    BY DEF CountIsTrue, Becomes
  <1>2. Counted' = Counted
    BY <1>1 DEF Counted, Serving
  <1>3. Threads' \subseteq Threads
    BY <1>1 DEF Threads, Serving
  <1>4. Cardinality(Threads') <= Cardinality(Threads)
    <2>1. IsFiniteSet(Threads) /\ Cardinality(Threads) \in Nat
      BY FiniteCounts DEF Threads
    <2> QED
      BY <1>3, <2>1, FS_Subset
  <1>5. Cardinality(Threads') \in Nat /\ Cardinality(Threads) \in Nat /\ MaxConnections \in Nat
    BY FiniteCounts, ServeAssumption DEF ServeAssumption, Threads
  <1> QED
    BY <1>1, <1>2, <1>4, <1>5 DEF CountIsTrue

\* Acceptors count first and look afterwards, so two of them, and threads that
\* end at the same time, never let in one too many.
LEMMA CountLetsIn ==
  ASSUME CountIsTrue, NEW l \in Listeners, NEW c \in Clients, Count(l, c)
  PROVE  CountIsTrue'
  <1>1. c \notin Counted /\ c \notin Threads /\ Threads \subseteq Counted
    BY DEF Count, Counted, Threads, Serving
  <1>2. /\ IsFiniteSet(Counted) /\ Cardinality(Counted) \in Nat
        /\ IsFiniteSet(Threads) /\ Cardinality(Threads) \in Nat /\ MaxConnections \in Nat
    BY FiniteCounts, ServeAssumption DEF ServeAssumption, Counted, Threads
  <1>3. Cardinality(Counted \cup {c}) = Cardinality(Counted) + 1
    BY <1>1, <1>2, FS_AddElement
  <1>4. Cardinality(Threads \cup {c}) = Cardinality(Threads) + 1
    BY <1>1, <1>2, FS_AddElement
  <1>5. Cardinality(Threads) <= Cardinality(Counted)
    BY <1>1, <1>2, FS_Subset
  <1>6. CASE live < MaxConnections
    <2>1. /\ conn' \in [Clients -> Stages] /\ conn'[c] = "reading" /\ accept' = accept
          /\ \A d \in Clients \ {c} : conn'[d] = conn[d]
      BY <1>6 DEF Count, CountIsTrue, Becomes, Stages
    <2>2. Counted' = Counted \cup {c} /\ Threads' = Threads \cup {c}
      BY <2>1 DEF Counted, Threads, Serving
    <2>3. live' = Cardinality(Counted') /\ Cardinality(Threads') <= MaxConnections
      BY <1>2, <1>3, <1>4, <1>5, <1>6, <2>2 DEF Count, CountIsTrue
    <2>4. \A d \in Clients : conn[d] = "counted" => conn'[d] = "counted"
      BY <2>1 DEF Count
    <2>5. \A k \in Listeners : accept'[k] # {} => \E d : accept'[k] = {d} /\ conn'[d] = "counted"
      <3> SUFFICES ASSUME NEW k \in Listeners, accept[k] # {}
                   PROVE  \E d : accept[k] = {d} /\ conn'[d] = "counted"
        BY <2>1
      <3>1. PICK d : accept[k] = {d} /\ conn[d] = "counted"
        BY DEF CountIsTrue
      <3>2. d \in Clients
        BY <3>1 DEF CountIsTrue
      <3> QED
        BY <2>4, <3>1, <3>2
    <2> QED
      BY <2>1, <2>3, <2>5 DEF CountIsTrue
  <1>7. CASE ~(live < MaxConnections)
    <2>1. /\ conn' \in [Clients -> Stages] /\ conn'[c] = "counted"
          /\ \A d \in Clients \ {c} : conn'[d] = conn[d]
          /\ accept' \in [Listeners -> SUBSET Clients] /\ accept'[l] = {c}
          /\ \A k \in Listeners \ {l} : accept'[k] = accept[k]
      BY <1>7 DEF Count, CountIsTrue, Becomes, Stages
    <2>2. Counted' = Counted \cup {c} /\ Threads' = Threads
      BY <1>1, <2>1 DEF Counted, Threads, Serving
    <2>3. live' = Cardinality(Counted') /\ Cardinality(Threads') <= MaxConnections
      BY <1>3, <2>2 DEF Count, CountIsTrue
    <2>4. \A k \in Listeners \ {l} : c \notin accept[k]
      BY DEF Count, CountIsTrue
    <2>5. \A k \in Listeners : accept'[k] # {} => \E d : accept'[k] = {d} /\ conn'[d] = "counted"
      <3> SUFFICES ASSUME NEW k \in Listeners, accept'[k] # {}
                   PROVE  \E d : accept'[k] = {d} /\ conn'[d] = "counted"
        OBVIOUS
      <3>1. CASE k = l
        BY <2>1, <3>1
      <3>2. CASE k # l
        <4>1. PICK d : accept[k] = {d} /\ conn[d] = "counted"
          BY <2>1, <3>2 DEF CountIsTrue
        <4>2. d \in Clients /\ d # c
          BY <2>4, <3>2, <4>1 DEF CountIsTrue
        <4> QED
          BY <2>1, <3>2, <4>1, <4>2
      <3> QED
        BY <3>1, <3>2
    <2>6. \A j, k \in Listeners : accept'[j] \cap accept'[k] # {} => j = k
      BY <2>1, <2>4 DEF CountIsTrue
    <2> QED
      BY <2>1, <2>3, <2>5, <2>6 DEF CountIsTrue
  <1> QED
    BY <1>6, <1>7

LEMMA RefusalsGiveBack ==
  ASSUME CountIsTrue, NEW l \in Listeners, Refuse(l)
  PROVE  CountIsTrue'
  <1>1. PICK c : accept[l] = {c} /\ conn[c] = "counted"
    BY DEF Refuse, CountIsTrue
  <1>2. c \in Clients
    BY <1>1 DEF CountIsTrue
  <1>3. /\ conn' \in [Clients -> Stages] /\ conn'[c] = "refused"
        /\ \A d \in Clients \ {c} : conn'[d] = conn[d]
        /\ accept' \in [Listeners -> SUBSET Clients] /\ accept'[l] = {}
        /\ \A k \in Listeners \ {l} : accept'[k] = accept[k]
    BY <1>1, <1>2 DEF Refuse, CountIsTrue, Stages
  <1>4. Counted' = Counted \ {c} /\ Threads' = Threads /\ c \in Counted
    BY <1>1, <1>2, <1>3 DEF Counted, Threads, Serving
  <1>5. IsFiniteSet(Counted) /\ Cardinality(Counted) \in Nat
    BY FiniteCounts DEF Counted
  <1>6. Cardinality(Counted \ {c}) = Cardinality(Counted) - 1
    BY <1>4, <1>5, FS_RemoveElement
  <1>7. live' = Cardinality(Counted') /\ Cardinality(Threads') <= MaxConnections
    BY <1>4, <1>6 DEF Refuse, CountIsTrue
  <1>8. \A k \in Listeners : accept'[k] # {} => \E d : accept'[k] = {d} /\ conn'[d] = "counted"
    <2> SUFFICES ASSUME NEW k \in Listeners \ {l}, accept[k] # {}
                 PROVE  \E d : accept[k] = {d} /\ conn'[d] = "counted"
      BY <1>3
    <2>1. PICK d : accept[k] = {d} /\ conn[d] = "counted"
      BY DEF CountIsTrue
    <2>2. d \in Clients /\ d # c
      BY <1>1, <2>1 DEF CountIsTrue
    <2> QED
      BY <1>3, <2>1, <2>2
  <1>9. \A j, k \in Listeners : accept'[j] \cap accept'[k] # {} => j = k
    BY <1>3 DEF CountIsTrue
  <1> QED
    BY <1>3, <1>7, <1>8, <1>9 DEF CountIsTrue

LEMMA EndsGiveBack ==
  ASSUME CountIsTrue, NEW c \in Clients, Release(c)
  PROVE  CountIsTrue'
  <1>1. /\ conn' \in [Clients -> Stages] /\ conn'[c] = "served" /\ conn[c] = "closing" /\ accept' = accept
        /\ \A d \in Clients \ {c} : conn'[d] = conn[d]
    BY DEF Release, CountIsTrue, Becomes, Stages
  <1>2. Counted' = Counted \ {c} /\ Threads' \subseteq Threads /\ c \in Counted
    BY <1>1 DEF Counted, Threads, Serving
  <1>3. /\ IsFiniteSet(Counted) /\ Cardinality(Counted) \in Nat
        /\ IsFiniteSet(Threads) /\ Cardinality(Threads) \in Nat /\ MaxConnections \in Nat
    BY FiniteCounts, ServeAssumption DEF ServeAssumption, Counted, Threads
  <1>4. Cardinality(Counted \ {c}) = Cardinality(Counted) - 1
    BY <1>2, <1>3, FS_RemoveElement
  <1>5. Cardinality(Threads') <= Cardinality(Threads) /\ Cardinality(Threads') \in Nat
    BY <1>2, <1>3, FS_Subset, FS_CardinalityType
  <1>6. live' = Cardinality(Counted') /\ Cardinality(Threads') <= MaxConnections
    BY <1>2, <1>3, <1>4, <1>5 DEF Release, CountIsTrue
  <1>7. \A d \in Clients : conn[d] = "counted" => conn'[d] = "counted"
    BY <1>1
  <1>8. \A k \in Listeners : accept[k] # {} => \E d : accept[k] = {d} /\ conn'[d] = "counted"
    BY <1>7 DEF CountIsTrue
  <1> QED
    BY <1>1, <1>6, <1>8 DEF CountIsTrue

LEMMA CountStep == CountIsTrue /\ [ServeNext]_allVars => CountIsTrue'
  <1> SUFFICES ASSUME CountIsTrue, [ServeNext]_allVars PROVE CountIsTrue'
    OBVIOUS
  <1>1. CASE UNCHANGED <<conn, accept, live>>
    BY <1>1 DEF CountIsTrue, Counted, Threads, Serving
  <1>2. CASE StopServer
    <2>1. \A c \in Clients : conn'[c] \in {"none", "served"}
      BY <1>2 DEF StopServer
    <2>2. conn' \in [Clients -> Stages] /\ accept' = [l \in Listeners |-> {}] /\ live' = 0
      BY <1>2, <2>1 DEF StopServer, Stages
    <2>3. Counted' = {} /\ Threads' = {}
      BY <2>1 DEF Counted, Threads, Serving
    <2>4. Cardinality({}) = 0 /\ MaxConnections \in Nat
      BY FS_EmptySet, ServeAssumption DEF ServeAssumption
    <2> QED
      BY <2>2, <2>3, <2>4 DEF CountIsTrue
  <1>3. ASSUME NEW c \in Clients, Connect(c) PROVE CountIsTrue'
    BY <1>3, CountStands DEF Connect, Stages
  <1>4. ASSUME NEW c \in Clients, ReadRequest(c) PROVE CountIsTrue'
    <2>1. PICK pc \in {"ready", "writing"} : Becomes(c, pc)
      BY <1>4 DEF ReadRequest
    <2>2. pc \in Stages
      BY DEF Stages
    <2> QED
      BY <1>4, <2>1, <2>2, CountStands DEF ReadRequest
  <1>5. ASSUME NEW c \in Clients, LockEngine(c) \/ Route(c) \/ Respond(c) \/ Panic(c) PROVE CountIsTrue'
    <2>1. PICK pc \in {"routing", "writing", "panicked", "closing"} : Becomes(c, pc)
      BY <1>5 DEF LockEngine, Route, Respond, Panic
    <2>2. pc \in Stages
      BY DEF Stages
    <2>3. conn[c] \in {"ready", "routing", "writing"} /\ UNCHANGED <<accept, live>>
      BY <1>5 DEF LockEngine, Route, Respond, Panic
    <2> QED
      BY <2>1, <2>2, <2>3, CountStands DEF Serving
  <1>6. ASSUME NEW c \in Clients, Release(c) PROVE CountIsTrue'
    BY <1>6, EndsGiveBack
  <1>7. ASSUME NEW l \in Listeners, Refuse(l) PROVE CountIsTrue'
    BY <1>7, RefusalsGiveBack
  <1>8. ASSUME NEW l \in Listeners, NEW c \in Clients, Count(l, c) PROVE CountIsTrue'
    BY <1>8, CountLetsIn
  <1>9. CASE ServeNext /\ ~StopServer /\ ~(UNCHANGED <<conn, accept, live>>)
    <2>1. Connection
      BY <1>9 DEF ServeNext, serveVars
    <2> QED
      BY <2>1, <1>3, <1>4, <1>5, <1>6, <1>7, <1>8 DEF Connection, Handle
  <1> QED
    BY <1>1, <1>2, <1>9 DEF allVars, serveVars

\* Never more connections are served at once than MAX_CONNECTIONS (serve.rs,
\* accept_loop): for any number of listeners and clients, however their counts,
\* refusals, panics and ends interleave.
THEOREM NeverTooMany == ServeSafety => []AtMostMax
  <1>1. ServeInit => CountIsTrue
    <2> SUFFICES ASSUME ServeInit PROVE CountIsTrue
      OBVIOUS
    <2>1. Counted = {} /\ Threads = {}
      BY DEF ServeInit, Counted, Threads, Serving
    <2>2. Cardinality({}) = 0 /\ MaxConnections \in Nat
      BY FS_EmptySet, ServeAssumption DEF ServeAssumption
    <2>3. conn \in [Clients -> Stages]
      BY DEF ServeInit, Stages
    <2> QED
      BY <2>1, <2>2, <2>3 DEF ServeInit, CountIsTrue
  <1>2. CountIsTrue => AtMostMax
    BY DEF CountIsTrue, AtMostMax
  <1> QED
    BY <1>1, <1>2, CountStep, PTL DEF ServeSafety

-----------------------------------------------------------------------------
\* The sealer.

\* The clock of the home zone shows the cutoffs of the days so far in their
\* order: false where it is set forward over one, which window_for then puts
\* at the epoch.
CutoffsRise ==
  \A d, e \in Int : d <= e /\ (\E t \in Days : e < t) => CutoffInstant(d) <= CutoffInstant(e)

\* Of a footage: its notes are of its window, and the loop's holds those that
\* were there when it was made, out of its grace.
Right(footage) ==
  /\ footage.date \in Days
  /\ footage.notes \subseteq InWindow(footage.date)
  /\ footage.by = "sealer" =>
       /\ footage.at \in Instants /\ footage.at <= now
       /\ footage.at >= CutoffInstant(footage.date) + Grace
       /\ \A n \in InWindow(footage.date) : n.put < footage.at => n \in footage.notes

\* Day d was out of reach of a pass that had read today, when it sealed day e
\* behind the first n of the chain.
Beyond(d, e, today, n) ==
  \/ today - d > Backfill
  \/ \E j \in 1..n : d < chain[j].date /\ chain[j].date < e

Footages ==
  /\ \E S : chain \in Seq(S)
  /\ \A i \in DOMAIN chain : Right(chain[i])
  /\ \A i, j \in DOMAIN chain : chain[i].date = chain[j].date => i = j
  /\ \A i \in DOMAIN chain : \A d \in Days \ Sealed :
       ByLoop(i) /\ Genesis <= d /\ d < chain[i].date => Beyond(d, chain[i].date, chain[i].today, i - 1)

\* What a pass has found is out of its grace, and so is every day before one
\* of them that could be found.
Pass ==
  /\ DOMAIN sealer = {"pc", "pending", "today"}
  /\ sealer.today \in Int
  /\ \A e \in sealer.pending : e \in Days /\ OutOfGrace(e)
  /\ \A e \in sealer.pending : \A d \in Days \ Sealed :
       Genesis <= d /\ d < e => d \in sealer.pending \/ Beyond(d, e, sealer.today, Len(chain))

Clock ==
  /\ now \in Instants
  /\ \A n \in notes : n.put \in Instants /\ n.put <= now

SealInv == Clock /\ Footages /\ Pass

LEMMA LeastNat ==
  ASSUME NEW T \in SUBSET Nat, T # {}
  PROVE  \E n \in T : \A m \in T : n <= m
<1> DEFINE Below == {1 .. m : m \in T}
           Smaller == StrictSubsetOrdering(Nat)
<1>1. IsWellFoundedOn(Smaller, FiniteSubsetsOf(Nat))
  BY FS_StrictSubsetOrderingWellFounded
<1>2. Below \subseteq FiniteSubsetsOf(Nat) /\ Below # {}
  <2>1. \A m \in T : 1 .. m \in SUBSET Nat /\ IsFiniteSet(1 .. m)
    BY FS_Interval
  <2> QED
    BY <2>1 DEF FiniteSubsetsOf
<1>3. PICK x \in Below : \A y \in Below : ~ (<<y, x>> \in Smaller)
  <2> HIDE DEF Below, Smaller
  <2> QED
    BY <1>1, <1>2, WFMin
<1>4. PICK n \in T : x = 1 .. n
  OBVIOUS
<1>5. ASSUME NEW m \in T, m < n PROVE FALSE
  <2>1. 1 .. m \subseteq 1 .. n /\ n \in 1 .. n /\ n \notin 1 .. m
    BY <1>5
  <2>2. <<1 .. m, 1 .. n>> \in Smaller
    BY <2>1 DEF StrictSubsetOrdering
  <2> QED
    BY <1>3, <1>4, <2>2
<1> QED
  BY <1>5

\* Cutoffs are instants, and the first at which the clock shows them.
LEMMA CutoffIsFirst ==
  ASSUME NEW d
  PROVE  /\ CutoffInstant(d) \in Instants
         /\ Candidates(d) = {} => CutoffInstant(d) = 0
         /\ \A t \in Candidates(d) : CutoffInstant(d) \in Candidates(d) /\ CutoffInstant(d) <= t
<1>1. Candidates(d) \in SUBSET Nat /\ Candidates(d) \subseteq Instants
  BY ZoneAssumption DEF Candidates, Instants
<1>2. 0 \in Instants
  BY ZoneAssumption DEF Instants
<1>3. CASE Candidates(d) = {}
  BY <1>2, <1>3 DEF CutoffInstant
<1>4. CASE Candidates(d) # {}
  <2>1. \E t \in Candidates(d) : \A u \in Candidates(d) : t <= u
    BY <1>1, <1>4, LeastNat
  <2>2. /\ CutoffInstant(d) \in Candidates(d)
        /\ \A u \in Candidates(d) : CutoffInstant(d) <= u
    BY <1>4, <2>1 DEF CutoffInstant
  <2> QED
    BY <1>1, <1>4, <2>2
<1> QED
  BY <1>3, <1>4

LEMMA DaysAreInt ==
  /\ Days \subseteq Int /\ Instants \subseteq Int
  /\ Grace \in Int /\ Backfill \in Int
<1>1. \A t \in Instants : t \in Int /\ Offset[t] \in Int
  BY ZoneAssumption DEF Instants
<1> QED
  BY <1>1, ZoneAssumption, SealAssumption DEF Days, DateIn, Instants

\* A footage that is right stays so as time goes on and notes come late.
LEMMA RightStays ==
  ASSUME Clock, NEW footage, Right(footage), now' \in Instants, now' >= now,
         notes \subseteq notes', \A n \in notes' \ notes : n.put = now
  PROVE  Right(footage)'
<1>1. \A d : InWindow(d) \subseteq InWindow(d)' /\ \A n \in InWindow(d)' \ InWindow(d) : n.put = now
  BY DEF InWindow
<1>2. now \in Int /\ now' \in Int
  BY DaysAreInt DEF Clock
<1>3. footage.by = "sealer" => footage.at <= now'
  <2>1. SUFFICES ASSUME footage.by = "sealer" PROVE footage.at <= now'
    OBVIOUS
  <2>2. footage.at \in Instants /\ footage.at <= now
    BY <2>1 DEF Right
  <2>3. footage.at \in Int
    BY <2>2, DaysAreInt
  <2> QED
    BY <1>2, <2>2, <2>3
<1>4. footage.by = "sealer" => \A n \in InWindow(footage.date)' : n.put < footage.at => n \in footage.notes
  <2>1. SUFFICES ASSUME footage.by = "sealer", NEW n \in InWindow(footage.date)', n.put < footage.at
                 PROVE  n \in footage.notes
    OBVIOUS
  <2>2. CASE n \in InWindow(footage.date)
    BY <2>1, <2>2 DEF Right
  <2>3. CASE n.put = now
    <3>1. footage.at \in Instants /\ footage.at <= now
      BY <2>1 DEF Right
    <3>2. footage.at \in Int
      BY <3>1, DaysAreInt
    <3> QED
      BY <1>2, <2>1, <2>3, <3>1, <3>2
  <2> QED
    BY <1>1, <2>2, <2>3
<1>5. footage.notes \subseteq InWindow(footage.date)'
  BY <1>1 DEF Right
<1> QED
  BY <1>3, <1>4, <1>5 DEF Right

\* What leaves the chain alone: time goes on, notes come, the pass goes on.
LEMMA ChainAlone ==
  ASSUME SealInv, UNCHANGED chain, now' \in Instants, now' >= now,
         notes \subseteq notes', \A n \in notes' \ notes : n.put = now,
         Pass'
  PROVE  SealInv'
<1>1. Footages'
  <2>1. \A i \in DOMAIN chain : Right(chain[i])'
    BY RightStays DEF SealInv, Footages
  <2>2. Sealed' = Sealed
    BY DEF Sealed
  <2>3. \A d, e, today, n : Beyond(d, e, today, n)' = Beyond(d, e, today, n)
    BY DEF Beyond
  <2>4. \A i : ByLoop(i)' = ByLoop(i)
    BY DEF ByLoop
  <2> QED
    BY <2>1, <2>2, <2>3, <2>4 DEF SealInv, Footages
<1>2. Clock'
  <2>1. now \in Int /\ now' \in Int
    BY DaysAreInt DEF SealInv, Clock
  <2>2. now \in Instants /\ now <= now
    BY <2>1 DEF SealInv, Clock
  <2>3. ASSUME NEW n \in notes' PROVE n.put \in Instants /\ n.put <= now
    BY <2>2, <2>3 DEF SealInv, Clock
  <2>4. ASSUME NEW n \in notes' PROVE n.put \in Instants /\ n.put <= now'
    <3>1. n.put \in Int
      BY <2>3, <2>4, DaysAreInt
    <3> QED
      BY <2>1, <2>3, <2>4, <3>1
  <2> QED
    BY <2>4 DEF Clock
<1> QED
  BY <1>1, <1>2 DEF SealInv

\* The pass in hand stays true while the clock goes on.
LEMMA PassStays ==
  ASSUME SealInv, UNCHANGED <<chain, sealer>>, now' \in Instants, now' >= now
  PROVE  Pass'
<1>1. Sealed' = Sealed /\ Len(chain') = Len(chain)
  BY DEF Sealed
<1>2. \A d, e, today, n : Beyond(d, e, today, n)' = Beyond(d, e, today, n)
  BY DEF Beyond
<1>3. ASSUME NEW e, OutOfGrace(e) PROVE OutOfGrace(e)'
  <2>1. CutoffInstant(e) \in Int /\ Grace \in Int
    BY CutoffIsFirst, DaysAreInt
  <2>2. now \in Int /\ now' \in Int
    BY DaysAreInt DEF SealInv, Clock
  <2> QED
    BY <1>3, <2>1, <2>2 DEF OutOfGrace
<1> QED
  BY <1>1, <1>2, <1>3 DEF SealInv, Pass

LEMMA PassOver ==
  ASSUME sealer' = Asleep \/ sealer' = Off
  PROVE  Pass'
BY DEF Pass, Asleep, Off

-----------------------------------------------------------------------------
\* One more footage.
LEMMA OneMore ==
  ASSUME SealInv, NEW new, chain' = Append(chain, new), UNCHANGED <<now, notes>>,
         Right(new), new.date \notin Sealed,
         new.by = "sealer" => \A d \in Days \ Sealed :
           Genesis <= d /\ d < new.date => Beyond(d, new.date, new.today, Len(chain)),
         DOMAIN sealer' = DOMAIN sealer, sealer'.today = sealer.today,
         sealer'.pending \subseteq sealer.pending, sealer.pending \ {new.date} \subseteq sealer'.pending
  PROVE  SealInv'
<1> DEFINE n == Len(chain)
<1>1. PICK S : chain \in Seq(S)
  BY DEF SealInv, Footages
<1>2. chain \in Seq(S \cup {new})
  BY <1>1, SeqMonotonic
<1>3. /\ chain' \in Seq(S \cup {new}) /\ Len(chain') = n + 1
      /\ \A j \in 1..n : chain'[j] = chain[j]
      /\ chain'[n + 1] = new
  BY <1>2, AppendProperties
<1>4. n \in Nat /\ DOMAIN chain = 1..n /\ DOMAIN chain' = 1..(n + 1)
  BY <1>2, <1>3, LenProperties
<1> HIDE DEF n
<1>5. \A i \in DOMAIN chain' :
        \/ i \in DOMAIN chain /\ chain'[i] = chain[i]
        \/ i = n + 1 /\ chain'[i] = new
  BY <1>3, <1>4
<1>6. Sealed' = Sealed \cup {new.date}
  BY <1>3, <1>4 DEF Sealed
<1>7. \A d, e, today : \A m \in 0..n : Beyond(d, e, today, m)' = Beyond(d, e, today, m)
  BY <1>3, <1>4 DEF Beyond
<1>8. \A f : Right(f) => Right(f)'
  BY DEF Right, InWindow
<1>9. Footages'
  <2>1. \A i \in DOMAIN chain' : Right(chain[i])'
    BY <1>5, <1>8 DEF SealInv, Footages
  <2>2. \A i, j \in DOMAIN chain' : chain'[i].date = chain'[j].date => i = j
    BY <1>5 DEF SealInv, Footages, Sealed
  <2>3. ASSUME NEW i \in DOMAIN chain', NEW d \in Days \ Sealed', ByLoop(i)',
               Genesis <= d, d < chain'[i].date
        PROVE  Beyond(d, chain[i].date, chain[i].today, i - 1)'
    <3>0. d \in Days \ Sealed
      BY <1>6
    <3>1. CASE i \in DOMAIN chain /\ chain'[i] = chain[i]
      <4>1. Beyond(d, chain[i].date, chain[i].today, i - 1)
        BY <2>3, <3>0, <3>1 DEF SealInv, Footages, ByLoop
      <4>2. i - 1 \in 0..n
        BY <1>4, <3>1
      <4>3. Beyond(d, chain'[i].date, chain'[i].today, i - 1)
        BY <3>1, <4>1
      <4> QED
        BY <1>3, <1>4, <3>1, <4>2, <4>3 DEF Beyond
    <3>2. CASE i = n + 1 /\ chain'[i] = new
      <4>1. Beyond(d, new.date, new.today, n)
        BY <2>3, <3>0, <3>2 DEF ByLoop, n
      <4>2. i - 1 = n
        BY <1>4, <3>2
      <4> QED
        BY <1>3, <1>4, <3>2, <4>1, <4>2 DEF Beyond
    <3> QED
      BY <1>5, <3>1, <3>2
  <2>4. \E T : chain' \in Seq(T)
    BY <1>3
  <2>5. Genesis' = Genesis /\ Days' = Days
    OBVIOUS
  <2> QED
    BY <2>1, <2>2, <2>3, <2>4 DEF Footages
<1>10. Pass'
  <2>1. ASSUME NEW e \in sealer'.pending, NEW d \in Days \ Sealed', Genesis <= d, d < e
        PROVE  d \in sealer'.pending \/ Beyond(d, e, sealer.today, Len(chain))'
    <3>1. d \in sealer.pending \/ Beyond(d, e, sealer.today, n)
      BY <1>6, <2>1 DEF SealInv, Pass, n
    <3>2. d # new.date
      BY <1>6, <2>1
    <3>3. CASE Beyond(d, e, sealer.today, n)
      <4>1. Len(chain') = n + 1 /\ sealer'.today = sealer.today
        BY <1>3
      <4>2. \A j \in 1..n : j \in 1..(n + 1) /\ chain'[j] = chain[j]
        BY <1>3, <1>4
      <4> QED
        BY <3>3, <4>1, <4>2 DEF Beyond
    <3> QED
      BY <3>1, <3>2, <3>3
  <2>2. \A e \in sealer'.pending : e \in Days /\ OutOfGrace(e)'
    BY DEF SealInv, Pass, OutOfGrace
  <2> QED
    BY <2>1, <2>2 DEF SealInv, Pass
<1>11. Clock'
  BY DEF SealInv, Clock
<1> QED
  BY <1>9, <1>10, <1>11 DEF SealInv

-----------------------------------------------------------------------------
LEMMA WakeStep ==
  ASSUME SealInv, CutoffsRise, Wake
  PROVE  SealInv'
<1>0. /\ Clock /\ Footages /\ Pass /\ UNCHANGED <<now, notes, chain>> /\ now \in Int
      /\ now' \in Instants /\ now' >= now
  BY DaysAreInt DEF SealInv, Wake, Clock
<1>1. CASE ~auto
  <2>1. UNCHANGED sealer
    BY <1>1 DEF Wake
  <2> QED
    BY <1>0, <2>1, PassStays, ChainAlone
<1>2. CASE auto
  <2>1. sealer' = [pc |-> "sealing", pending |-> {d \in Walk : OutOfGrace(d)}, today |-> Today]
    BY <1>2 DEF Wake
  <2>2. Today \in Int /\ Today \in Days
    BY <1>0, DaysAreInt DEF Today, Days, Clock
  <2>3. \A e \in sealer'.pending : e \in Walk /\ OutOfGrace(e)
    BY <2>1
  <2>4. ASSUME NEW e \in sealer'.pending, NEW d \in Days \ Sealed, Genesis <= d, d < e
        PROVE  d \in sealer'.pending \/ Beyond(d, e, Today, Len(chain))
    <3>1. e \in Days /\ e < Today /\ OutOfGrace(e) /\ (\A s \in Sealed : s < e \/ Today <= s)
          /\ e \in Int /\ d \in Int
      BY <2>3, DaysAreInt DEF Walk
    <3>2. SUFFICES ASSUME ~Beyond(d, e, Today, Len(chain)) PROVE d \in sealer'.pending
      OBVIOUS
    <3>3. d < Today /\ Today - d <= Backfill
      BY <2>2, <2>4, <3>1, <3>2, DaysAreInt DEF Beyond
    <3>4. ASSUME NEW s \in Sealed, ~(s < d \/ Today <= s) PROVE FALSE
      <4>1. PICK j \in DOMAIN chain : s = chain[j].date
        BY DEF Sealed
      <4>2. s \in Int /\ s # d
        BY <1>0, <4>1, DaysAreInt DEF Footages, Right
      <4>3. d < s /\ s < e
        BY <2>2, <3>1, <3>4, <4>2
      <4>4. j \in 1..Len(chain)
        BY <1>0, LenProperties DEF Footages
      <4> QED
        BY <3>2, <4>1, <4>3, <4>4 DEF Beyond
    <3>5. d \in Walk
      BY <2>4, <3>3, <3>4 DEF Walk
    <3>6. CutoffInstant(d) <= CutoffInstant(e)
      BY <2>2, <2>4, <3>1 DEF CutoffsRise
    <3>7. OutOfGrace(d)
      <4>1. CutoffInstant(d) \in Int /\ CutoffInstant(e) \in Int /\ Grace \in Int
        BY CutoffIsFirst, DaysAreInt
      <4> HIDE DEF CutoffInstant
      <4> QED
        BY <1>0, <3>1, <3>6, <4>1 DEF OutOfGrace
    <3> QED
      BY <2>1, <3>5, <3>7
  <2>5. Sealed' = Sealed /\ (\A d, e, today, n : Beyond(d, e, today, n)' = Beyond(d, e, today, n))
        /\ Len(chain') = Len(chain) /\ \A e : OutOfGrace(e)' = OutOfGrace(e)
    BY <1>0 DEF Sealed, Beyond, OutOfGrace
  <2>6. \A e \in sealer'.pending : e \in Days
    BY <2>3 DEF Walk
  <2>7. sealer'.today = Today /\ DOMAIN sealer' = {"pc", "pending", "today"}
    BY <2>1
  <2>8. Pass'
    BY <2>2, <2>3, <2>4, <2>5, <2>6, <2>7 DEF Pass
  <2> QED
    BY <1>0, <2>8, ChainAlone
<1> QED
  BY <1>1, <1>2

LEMMA SealOldestStep ==
  ASSUME SealInv, NEW d \in Days, SealOldest(d)
  PROVE  SealInv'
<1>0. /\ Clock /\ Footages /\ Pass /\ UNCHANGED <<now, notes>> /\ now \in Int /\ d \in Int
      /\ now' \in Instants /\ now' >= now
  BY DaysAreInt DEF SealInv, SealOldest, Clock
<1>1. CASE d \in Sealed
  BY <1>0, <1>1, PassOver, ChainAlone DEF SealOldest
<1>2. CASE d \notin Sealed
  <2> DEFINE new == ByTheLoop(d)
  <2>1. chain' = Append(chain, new) /\ sealer' = [sealer EXCEPT !.pending = @ \ {d}]
    BY <1>2 DEF SealOldest
  <2>2. /\ new.date = d /\ new.by = "sealer" /\ new.at = now /\ new.today = sealer.today
        /\ new.notes = InWindow(d)
    BY DEF ByTheLoop
  <2> HIDE DEF new
  <2>3. d \in sealer.pending /\ \A e \in sealer.pending : d <= e
    BY DEF SealOldest, Oldest
  <2>4. Right(new)
    BY <1>0, <2>2, <2>3 DEF Right, Pass, OutOfGrace, Clock
  <2>5. ASSUME NEW e \in Days \ Sealed, Genesis <= e, e < d
        PROVE  Beyond(e, d, new.today, Len(chain))
    <3>1. e \in sealer.pending \/ Beyond(e, d, sealer.today, Len(chain))
      BY <1>0, <2>3, <2>5 DEF Pass
    <3>2. e \notin sealer.pending
      BY <1>0, <2>3, <2>5, DaysAreInt
    <3> QED
      BY <2>2, <3>1, <3>2
  <2>6. /\ DOMAIN sealer' = DOMAIN sealer /\ sealer'.today = sealer.today
        /\ sealer'.pending = sealer.pending \ {d}
    BY <1>0, <2>1 DEF Pass
  <2> QED
    BY <1>0, <1>2, <2>1, <2>2, <2>4, <2>5, <2>6, OneMore
<1> QED
  BY <1>1, <1>2

LEMMA SealByHandStep ==
  ASSUME SealInv, NEW d \in Days, SealByHand(d)
  PROVE  SealInv'
<1> DEFINE new == [date |-> d, by |-> "hand", at |-> 0, today |-> 0, notes |-> InWindow(d)]
<1>1. chain' = Append(chain, new) /\ UNCHANGED <<now, notes, sealer>> /\ d \notin Sealed
  BY DEF SealByHand
<1>2. new.date = d /\ new.by = "hand" /\ new.notes = InWindow(d)
  OBVIOUS
<1> HIDE DEF new
<1>3. Right(new)
  BY <1>2 DEF Right
<1> QED
  BY <1>1, <1>2, <1>3, OneMore

LEMMA SealInvStep ==
  ASSUME SealInv, CutoffsRise, [SealNext]_sealVars
  PROVE  SealInv'
<1>0. now \in Instants /\ now \in Int /\ now <= now
  BY DaysAreInt DEF SealInv, Clock
<1>1. ASSUME UNCHANGED <<now, chain, notes>>, sealer' = sealer \/ sealer' = Asleep \/ sealer' = Off
      PROVE  SealInv'
  BY <1>0, <1>1, PassStays, PassOver, ChainAlone
<1>2. ASSUME Tick PROVE SealInv'
  <2>1. now' \in Instants /\ now' >= now
    BY <1>0, <1>2, ZoneAssumption DEF Tick, Instants
  <2> QED
    BY <1>2, <2>1, PassStays, ChainAlone DEF Tick
<1>3. ASSUME NEW n, n.put = now, notes' = notes \cup {n}, UNCHANGED <<now, chain, sealer>>
      PROVE  SealInv'
  BY <1>0, <1>3, PassStays, ChainAlone
<1>4. CASE JournalAdd
  <2> DEFINE n == [at |-> now, put |-> now]
  <2>1. notes' = notes \cup {n} /\ n.put = now
    BY <1>4 DEF JournalAdd
  <2> HIDE DEF n
  <2> QED
    BY <1>3, <1>4, <2>1 DEF JournalAdd
<1>5. ASSUME NEW t \in Instants, JournalImport(t) PROVE SealInv'
  <2> DEFINE n == [at |-> t, put |-> now]
  <2>1. notes' = notes \cup {n} /\ n.put = now
    BY <1>5 DEF JournalImport
  <2> HIDE DEF n
  <2> QED
    BY <1>3, <1>5, <2>1 DEF JournalImport
<1>6. CASE World
  BY <1>1, <1>2, <1>4, <1>5, <1>6, SealByHandStep DEF World, SwitchOn
<1>7. CASE Seal
  BY <1>1, <1>7, SealOldestStep DEF Seal, SealFails, PassEnds
<1>8. CASE Stop \/ Start
  BY <1>1, <1>8 DEF Stop, Start
<1>9. CASE UNCHANGED sealVars
  BY <1>1, <1>9 DEF sealVars
<1> QED
  BY <1>6, <1>7, <1>8, <1>9, WakeStep DEF SealNext

LEMMA SealInvSays ==
  ASSUME SealInv, CutoffsRise
  PROVE  DaysAreSealedWhole
<1>0. Footages
  BY DEF SealInv
<1>1. GraceKeepsNotes
  <2>1. SUFFICES ASSUME NEW i \in DOMAIN chain, NEW n \in InWindow(chain[i].date), ByLoop(i),
                        n.put < CutoffInstant(chain[i].date) + Grace
                 PROVE  n \in chain[i].notes
    BY DEF GraceKeepsNotes
  <2>2. Right(chain[i]) /\ chain[i].by = "sealer"
    BY <1>0, <2>1 DEF Footages, ByLoop
  <2>3. n.put \in Int /\ CutoffInstant(chain[i].date) \in Int
    BY CutoffIsFirst, DaysAreInt DEF InWindow, SealInv, Clock
  <2>4. n.put < chain[i].at
    <3>1. /\ chain[i].at \in Instants
          /\ chain[i].at >= CutoffInstant(chain[i].date) + Grace
      BY <2>2 DEF Right
    <3>2. chain[i].at \in Int /\ Grace \in Int
      BY <3>1, DaysAreInt
    <3> QED
      BY <2>1, <2>3, <3>1, <3>2
  <2> QED
    BY <2>1, <2>2, <2>4 DEF Right
<1>2. CountedOnce
  <2>1. ASSUME NEW i \in DOMAIN chain, NEW j \in DOMAIN chain, chain[i].date < chain[j].date,
               NEW n, n \in chain[i].notes, n \in chain[j].notes
        PROVE  FALSE
    <3> DEFINE d == chain[i].date
               e == chain[j].date
    <3>1. d \in Days /\ e \in Days /\ n.at \in Window(d) /\ n.at \in Window(e)
      BY <1>0, <2>1 DEF Footages, Right, InWindow
    <3>5. d < e
      BY <2>1
    <3> HIDE DEF d, e
    <3>6. d \in Int /\ e \in Int
      BY <3>1, DaysAreInt
    <3>2. d \in Int /\ e - 1 \in Int /\ d <= e - 1 /\ e - 1 < e
      BY <3>5, <3>6
    <3>3. CutoffInstant(d) <= CutoffInstant(e - 1)
      BY <3>1, <3>2 DEF CutoffsRise
    <3>4. CutoffInstant(d) \in Int /\ CutoffInstant(e - 1) \in Int /\ CutoffInstant(d - 1) \in Int /\ CutoffInstant(e) \in Int
      BY CutoffIsFirst, DaysAreInt
    <3> QED
      BY <3>1, <3>3, <3>4 DEF Window
  <2>2. SUFFICES ASSUME NEW i \in DOMAIN chain, NEW j \in DOMAIN chain, i # j,
                        NEW n \in chain[i].notes, n \in chain[j].notes
                 PROVE  FALSE
    BY DEF CountedOnce
  <2>3. chain[i].date \in Int /\ chain[j].date \in Int /\ chain[i].date # chain[j].date
    BY <1>0, <2>2, DaysAreInt DEF Footages, Right
  <2> QED
    BY <2>1, <2>2, <2>3
<1>3. HolesAreOutOfReach
  BY <1>0 DEF HolesAreOutOfReach, Footages, Beyond
<1> QED
  BY <1>1, <1>2, <1>3 DEF DaysAreSealedWhole

LEMMA SealInvInit ==
  ASSUME SealInit
  PROVE  SealInv
<1>1. now \in Instants
  BY SealAssumption, ZoneAssumption DEF SealInit, Instants
<1>2. notes = {} /\ chain = <<>> /\ sealer = Asleep
  BY DEF SealInit
<1>3. chain \in Seq({}) /\ DOMAIN chain = {}
  BY <1>2
<1> QED
  BY <1>1, <1>2, <1>3 DEF SealInv, Clock, Footages, Pass, Asleep

\* It holds in a zone that never changes its offset.
LEMMA FixedZone ==
  ASSUME NEW o \in Int, \A t \in Instants : Offset[t] = o
  PROVE  CutoffsRise
<1>1. SUFFICES ASSUME NEW d \in Int, NEW e \in Int, d <= e, NEW today \in Days, e < today
               PROVE  CutoffInstant(d) <= CutoffInstant(e)
  BY DEF CutoffsRise
<1>2. CutoffInstant(d) \in Nat /\ CutoffInstant(e) \in Nat
  BY CutoffIsFirst, ZoneAssumption DEF Instants
<1>3. CASE Candidates(d) = {}
  <2>1. CutoffInstant(d) = 0
    BY <1>3, CutoffIsFirst
  <2> QED
    BY <1>2, <2>1
<1>4. CASE Candidates(d) # {}
  <2> DEFINE minute == IF Cutoff < DayLength THEN Cutoff ELSE DayLength - 1
  <2>1. minute \in Nat /\ minute < DayLength /\ DayLength \in Nat \ {0}
    BY ZoneAssumption
  <2>2. CutoffTime(d) = d * DayLength + minute /\ CutoffTime(e) = e * DayLength + minute
    BY DEF CutoffTime
  <2> HIDE DEF minute
  <2>3. PICK u \in Instants : today = (u + o) \div DayLength
    BY DEF Days, DateIn
  <2>4. u \in Nat /\ u <= Horizon /\ Horizon \in Nat
    BY ZoneAssumption DEF Instants
  <2>5. today \in Int /\ today * DayLength <= u + o
    BY <2>1, <2>3, <2>4
  <2>6. d * DayLength <= e * DayLength
    BY <1>1, <2>1
  <2>7. (e + 1) * DayLength <= today * DayLength
    BY <1>1, <2>1, <2>5
  <2>8. (e + 1) * DayLength = e * DayLength + DayLength
    BY <2>1
  <2> DEFINE a == d * DayLength
             b == e * DayLength
  <2>9. a \in Int /\ b \in Int /\ today * DayLength \in Int
    BY <2>1, <2>5
  <2>10. a <= b /\ b + DayLength <= u + o
    BY <2>1, <2>4, <2>5, <2>6, <2>7, <2>8, <2>9
  <2>11. CutoffTime(d) = a + minute /\ CutoffTime(e) = b + minute
    BY <2>2
  <2> HIDE DEF a, b
  <2>12. PICK t \in Candidates(d) : CutoffInstant(d) = t
    BY <1>4, CutoffIsFirst
  <2>13. t \in Nat /\ t \in Instants /\ t + o = a + minute
    BY <2>11, <2>12 DEF Candidates, Instants
  <2>14. b + minute - o \in Instants /\ (b + minute - o) + o = b + minute
    BY <2>1, <2>4, <2>9, <2>10, <2>13 DEF Instants, a, b
  <2>15. b + minute - o \in Candidates(e)
    BY <2>11, <2>14 DEF Candidates
  <2>16. CutoffInstant(e) \in Candidates(e)
    BY <2>15, CutoffIsFirst
  <2>17. CutoffInstant(e) + o = b + minute
    BY <2>11, <2>16 DEF Candidates
  <2> QED
    BY <1>2, <2>1, <2>9, <2>10, <2>12, <2>13, <2>17
<1> QED
  BY <1>3, <1>4

\* The server's steps are the sealer's, the world's, or leave both alone.
LEMMA ServeSeals ==
  ASSUME [ServeNext]_allVars
  PROVE  [SealNext]_sealVars
BY DEF ServeNext, SealNext, LockToSeal, SealLocked, StopServer, allVars

\* What the loop seals is whole: with the notes that came within the grace, no
\* note in two days, and no day passed over that it could have looked at -
\* however clients, the user and the machine get in between (ops.rs, seal_due;
\* cutoff.rs), where the clock of the home zone shows each cutoff in its order.
THEOREM DaysHold ==
  ASSUME CutoffsRise
  PROVE  ServeSafety => []DaysAreSealedWhole
<1>1. ServeInit => SealInv
  BY SealInvInit DEF ServeInit
<1>2. SealInv /\ [ServeNext]_allVars => SealInv'
  BY SealInvStep, ServeSeals
<1>3. SealInv => DaysAreSealedWhole
  BY SealInvSays
<1> QED
  BY <1>1, <1>2, <1>3, PTL DEF ServeSafety
==============================================================================
