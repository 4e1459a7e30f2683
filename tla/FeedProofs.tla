----------------------------- MODULE FeedProofs -----------------------------
(***************************************************************************)
(* The cursor of a feed stands on a stored note whatever relays answer and *)
(* wherever processes die, a shredded note never comes back, and while the *)
(* feed is read often enough nothing is skipped.  A pull gets somewhere    *)
(* unless one second holds as many notes as a batch.                       *)
(*                                                                         *)
(* That nothing is skipped is not inductive.  It needs that a cursor some  *)
(* process has read is as good as the stored one (Behind), that what a     *)
(* page holds before its last note is everything not stored (Gapless), and *)
(* that the notes still to be read fit one answer (Fits).                  *)
(*                                                                         *)
(* Files are taken once and as they say.  A digest names the source it is  *)
(* stored under, or a row (BelongsTo), also while a command has it in hand *)
(* (InHand) and other commands add sources; what was in hand is stored by  *)
(* whoever comes first.  A page of a log has every row before its cursor   *)
(* (PageTold).                                                             *)
(*                                                                         *)
(* A stranger's word is taken where it can be checked, whatever he sends.  *)
(* That needs no invariant but that he sends messages: what one wait reads *)
(* is what was sent, and of a frame nothing is read that it does not say   *)
(* (Heard, ParseTells), so what the client holds is traced back to it.     *)
(***************************************************************************)
EXTENDS MCFeed, SequenceTheorems

-----------------------------------------------------------------------------
LEMMA Order ==
  ASSUME NEW l \in Notes, NEW m \in Notes, NEW n \in Notes
  PROVE  /\ ~Before(m, m)
         /\ Before(m, n) => ~Before(n, m) /\ At[m] <= At[n]
         /\ Before(l, m) /\ Before(m, n) => Before(l, n)
         /\ m # n => Before(m, n) \/ Before(n, m)
  BY FeedAssumption DEF FeedAssumption, Before

\* A page has a newest note, and that is where the cursor goes.
LEMMA Newer ==
  ASSUME NEW page \in SUBSET Notes, page # {}
  PROVE  \E n \in page : \A m \in page : At[m] <= At[n]
  <1> DEFINE After(n) == {m \in page : At[m] > At[n]}
             Tails == {After(n) : n \in page}
  <1> \A l \in page : At[l] \in Nat
    BY FeedAssumption DEF FeedAssumption
  <1>1. IsWellFoundedOn(StrictSubsetOrdering(page), FiniteSubsetsOf(page))
    BY FS_StrictSubsetOrderingWellFounded
  <1>2. IsFiniteSet(page) /\ FiniteSubsetsOf(page) = SUBSET page
    BY FeedAssumption, FS_Subset, FS_FiniteSubsetsOfFinite DEF FeedAssumption
  <1>3. Tails \subseteq FiniteSubsetsOf(page) /\ Tails # {}
    <2>1. \A n \in page : After(n) \in SUBSET page
      OBVIOUS
    <2>2. PICK n \in page : TRUE
      OBVIOUS
    <2>3. After(n) \in Tails
      OBVIOUS
    <2> HIDE DEF After
    <2> QED
      BY <1>2, <2>1, <2>3
  <1>4. PICK T \in Tails : \A U \in Tails : <<U, T>> \notin StrictSubsetOrdering(page)
    <2> HIDE DEF Tails
    <2> QED
      BY <1>1, <1>3, WFMin
  <1>5. PICK n \in page : T = After(n)
    BY <1>4
  <1>6. SUFFICES ASSUME NEW m \in page, At[m] > At[n] PROVE FALSE
    BY <1>5
  <1>7. After(m) \in Tails /\ After(m) \subseteq After(n) /\ m \in After(n) /\ m \notin After(m)
    <2>2. ~(At[m] > At[m]) /\ \A l \in page : At[l] > At[m] => At[l] > At[n]
      BY <1>6
    <2>4. After(m) \subseteq After(n) /\ m \in After(n) /\ m \notin After(m)
      BY <1>6, <2>2
    <2>3. After(m) \in Tails
      OBVIOUS
    <2> QED
      BY <2>3, <2>4
  <1>8. <<After(m), After(n)>> \in StrictSubsetOrdering(page)
    BY <1>7 DEF StrictSubsetOrdering
  <1> QED
    BY <1>4, <1>5, <1>7, <1>8

LEMMA CursorOn ==
  ASSUME NEW page \in SUBSET Notes
  PROVE  /\ CursorOf(page) \in Nat
         /\ page = {} => CursorOf(page) = Start
         /\ page # {} => \E n \in page : At[n] = CursorOf(page)
  <1>1. CASE page = {}
    BY <1>1 DEF CursorOf, Start
  <1> \A n \in page : At[n] \in Nat
    BY FeedAssumption DEF FeedAssumption
  <1>2. CASE page # {}
    <2>1. PICK n \in page : \A m \in page : At[m] <= At[n]
      BY <1>2, Newer
    <2>2. \E t \in {At[m] : m \in page} : \A m \in page : At[m] <= t
      BY <2>1
    <2> QED
      BY <1>2, <2>2 DEF CursorOf
  <1> QED
    BY <1>1, <1>2

\* Whatever relays answer, what is made of it has been posted, is ours and parses.
LEMMA PulledIsReadable ==
  ASSUME posted \subseteq Notes, NEW since \in Nat, NEW got \in Answers(since)
  PROVE  /\ got \subseteq posted
         /\ Screen(got, since) \subseteq posted \ Foreign
         /\ Pulled(got, since) \subseteq Readable
  BY DEF Answers, Asked, Newest, Screen, Pulled, Oldest, Readable

\* The next note to store is one of the page.
LEMMA TurnIsInHand ==
  ASSUME TypeOK, NEW p \in Procs, NEW n \in Turn(p)
  PROVE  n \in proc[p].todo /\ n \in proc[p].page /\ n \in Readable
  <1>1. n \in proc[p].todo
    BY DEF Turn
  <1> QED
    BY <1>1 DEF TypeOK

-----------------------------------------------------------------------------
LEMMA InitTypes == Init => TypeOK
  BY DEF Init, TypeOK, Readable, Start, Idle, Runs

LEMMA StepTypes == TypeOK /\ [Next]_vars => TypeOK'
  <1> SUFFICES ASSUME TypeOK, [Next]_vars PROVE TypeOK'
    OBVIOUS
  <1> USE DEF TypeOK
  <1>1. ASSUME NEW n \in Notes, Post(n) PROVE TypeOK'
    BY <1>1 DEF Post, Readable
  <1>2. ASSUME NEW n \in Notes, Shred(n) PROVE TypeOK'
    <2>1. UNCHANGED <<posted, cursor, proc>> /\ Readable' = Readable
      BY <1>2 DEF Shred, Readable
    <2>2. DOMAIN memory' = DOMAIN memory
      BY <1>2 DEF Shred
    <2>3. memory' \in [DOMAIN memory -> [shredded : BOOLEAN]]
      BY <1>2, ZenonT(60) DEF Shred
    <2> QED
      BY <2>1, <2>2, <2>3
  <1>3. ASSUME NEW p \in Procs, BeginSync(p) PROVE TypeOK'
    <2>1. UNCHANGED <<posted, memory, cursor>> /\ Readable' = Readable
      BY <1>3 DEF BeginSync, Readable
    <2>2. proc' = [proc EXCEPT ![p] = [proc[p] EXCEPT !.pc = "pull", !.since = cursor]]
      BY <1>3 DEF BeginSync
    <2>3. [proc[p] EXCEPT !.pc = "pull", !.since = cursor] \in Runs
      BY DEF Runs
    <2>4. proc' \in [Procs -> Runs]
      BY <2>2, <2>3
    <2>5. ASSUME NEW q \in Procs
          PROVE  /\ proc'[q].todo = proc[q].todo /\ proc'[q].page = proc[q].page
                 /\ proc'[q].pc = "put" => proc[q].pc = "put"
      BY <2>2 DEF Runs
    <2> QED
      BY <2>1, <2>4, <2>5
  <1>4. ASSUME NEW p \in Procs, Pull(p) PROVE TypeOK'
    <2>1. proc[p].since \in Nat
      BY DEF Runs
    <2>2. PICK got \in Answers(proc[p].since) : proc' = [proc EXCEPT ![p] = Pulling(p, got)]
      BY <1>4 DEF Pull
    <2>3. /\ Screen(got, proc[p].since) \subseteq posted
          /\ Pulled(got, proc[p].since) \subseteq Readable
      BY <2>1, PulledIsReadable
    <2>4. /\ Pulling(p, got) \in Runs
          /\ Pulling(p, got).todo = Pulling(p, got).page
          /\ Pulling(p, got).page \subseteq Readable
          /\ Pulling(p, got).pc = "check"
      BY <2>1, <2>3 DEF Pulling, Runs, Readable
    <2> QED
      BY <1>4, <2>2, <2>4 DEF Pull, Readable
  <1>5. ASSUME NEW p \in Procs, CheckHash(p) PROVE TypeOK'
    BY <1>5 DEF CheckHash, Turn, Readable, Runs
  <1>6. ASSUME NEW p \in Procs, PutMemory(p) PROVE TypeOK'
    <2>1. PICK n \in Turn(p) :
            /\ memory' = IF n \in DOMAIN memory THEN memory
                         ELSE Insert(memory, n, [shredded |-> FALSE])
            /\ proc' = [proc EXCEPT ![p].pc = "check", ![p].todo = @ \ {n}]
      BY <1>6 DEF PutMemory
    <2>2. n \in Readable
      BY <2>1, TurnIsInHand
    <2>3. DOMAIN memory' \subseteq Readable /\ memory' \in [DOMAIN memory' -> [shredded : BOOLEAN]]
      BY <2>1, <2>2 DEF Insert
    <2>4. [proc[p] EXCEPT !.pc = "check", !.todo = @ \ {n}] \in Runs
      BY DEF Runs
    <2>5. proc' = [proc EXCEPT ![p] = [proc[p] EXCEPT !.pc = "check", !.todo = @ \ {n}]]
      BY <2>1
    <2>6. proc' \in [Procs -> Runs]
      BY <2>4, <2>5
    <2>7. \A q \in Procs :
            /\ proc'[q].todo \subseteq proc[q].todo
            /\ proc'[q].page = proc[q].page
            /\ proc'[q].pc = "put" => proc'[q] = proc[q]
      BY <2>1 DEF Runs
    <2>8. posted' = posted /\ cursor' = cursor /\ Readable' = Readable
      BY <1>6 DEF PutMemory, Readable
    <2>9. \A q \in Procs :
            /\ proc'[q].todo \subseteq proc'[q].page
            /\ proc'[q].page \subseteq Readable'
            /\ proc'[q].pc = "put" => proc'[q].todo # {}
      BY <2>7, <2>8
    <2> QED
      BY <2>3, <2>6, <2>8, <2>9
  <1>7. ASSUME NEW p \in Procs, SetCursor(p) PROVE TypeOK'
    <2>1. proc[p].page \in SUBSET Notes /\ cursor' = CursorOf(proc[p].page)
      BY <1>7 DEF SetCursor, Runs
    <2>2. cursor' \in Nat
      BY <2>1, CursorOn
    <2>3. Idle \in Runs /\ Idle.todo = {} /\ Idle.page = {} /\ Idle.pc = "idle"
      BY DEF Idle, Runs, Start
    <2>4. /\ proc' = [proc EXCEPT ![p] = Idle]
          /\ posted' = posted /\ memory' = memory /\ Readable' = Readable
      BY <1>7 DEF SetCursor, Return, Readable
    <2> QED
      BY <2>2, <2>3, <2>4
  <1>8. ASSUME NEW p \in Procs, Crash(p) PROVE TypeOK'
    BY <1>8 DEF Crash, Return, Idle, Start, Readable, Runs
  <1>9. CASE UNCHANGED vars
    BY <1>9 DEF vars, Readable
  <1> QED
    BY <1>1, <1>2, <1>3, <1>4, <1>5, <1>6, <1>7, <1>8, <1>9 DEF Next

\* Only notes that are ours and parse are stored or in hand, for any relays.
THEOREM Typed == Spec => []TypeOK
  BY InitTypes, StepTypes, PTL DEF Spec

-----------------------------------------------------------------------------
\* What a process has taken off its page is stored.
PageStored == \A p \in Procs : proc[p].page \ proc[p].todo \subseteq DOMAIN memory

\* No step takes a note out of the table or un-shreds it.
LEMMA Kept ==
  ASSUME TypeOK, [Next]_vars
  PROVE  /\ DOMAIN memory \subseteq DOMAIN memory'
         /\ \A n \in DOMAIN memory : memory[n].shredded => memory'[n].shredded
  <1>1. ASSUME NEW n \in Notes, Shred(n)
        PROVE  /\ DOMAIN memory \subseteq DOMAIN memory'
               /\ \A m \in DOMAIN memory : memory[m].shredded => memory'[m].shredded
    BY <1>1 DEF Shred, TypeOK
  <1>2. ASSUME NEW p \in Procs, PutMemory(p)
        PROVE  /\ DOMAIN memory \subseteq DOMAIN memory'
               /\ \A m \in DOMAIN memory : memory[m].shredded => memory'[m].shredded
    <2>1. PICK n \in Turn(p) :
            memory' = IF n \in DOMAIN memory THEN memory
                      ELSE Insert(memory, n, [shredded |-> FALSE])
      BY <1>2 DEF PutMemory
    <2> QED
      BY <2>1 DEF Insert
  <1>3. CASE memory' = memory
    BY <1>3
  <1> QED
    BY <1>1, <1>2, <1>3
    DEF Next, vars, Post, BeginSync, Pull, CheckHash, SetCursor, Crash

\* A shredded note stays shredded, for any relays, processes and crashes.
THEOREM Final == Spec => ShreddedForGood
  <1>1. TypeOK /\ [Next]_vars =>
          [\A n \in DOMAIN memory :
             /\ n \in DOMAIN memory'
             /\ memory[n].shredded => memory'[n].shredded]_vars
    BY Kept
  <1> QED
    BY <1>1, Typed, PTL DEF Spec, ShreddedForGood

\* One step of one process on its page.
LEMMA StoredStep ==
  ASSUME TypeOK, PageStored, [Next]_vars
  PROVE  PageStored'
  <1> USE DEF PageStored, TypeOK
  <1>1. ASSUME NEW n \in Notes, Post(n) \/ Shred(n) PROVE PageStored'
    BY <1>1 DEF Post, Shred
  <1>2. ASSUME NEW p \in Procs, BeginSync(p) PROVE PageStored'
    BY <1>2 DEF BeginSync, Runs
  <1>3. ASSUME NEW p \in Procs, Pull(p) PROVE PageStored'
    BY <1>3 DEF Pull, Pulling
  <1>4. ASSUME NEW p \in Procs, CheckHash(p) PROVE PageStored'
    BY <1>4 DEF CheckHash, Turn, Runs
  <1>5. ASSUME NEW p \in Procs, PutMemory(p) PROVE PageStored'
    <2>1. PICK n \in Turn(p) :
            /\ memory' = IF n \in DOMAIN memory THEN memory
                         ELSE Insert(memory, n, [shredded |-> FALSE])
            /\ proc' = [proc EXCEPT ![p].pc = "check", ![p].todo = @ \ {n}]
      BY <1>5 DEF PutMemory
    <2>2. n \in DOMAIN memory' /\ DOMAIN memory \subseteq DOMAIN memory'
      BY <2>1 DEF Insert
    <2>3. /\ proc'[p].page = proc[p].page /\ proc'[p].todo = proc[p].todo \ {n}
          /\ \A q \in Procs \ {p} : proc'[q] = proc[q]
      BY <2>1 DEF Runs
    <2> QED
      BY <2>2, <2>3
  <1>6. ASSUME NEW p \in Procs, SetCursor(p) \/ Crash(p) PROVE PageStored'
    BY <1>6 DEF SetCursor, Crash, Return, Idle
  <1>7. CASE UNCHANGED vars
    BY <1>7 DEF vars
  <1> QED
    BY <1>1, <1>2, <1>3, <1>4, <1>5, <1>6, <1>7 DEF Next

\* When a page is stored, the cursor it gives stands on a stored note.
LEMMA Lands ==
  ASSUME TypeOK, PageStored, NEW p \in Procs, SetCursor(p)
  PROVE  /\ cursor' = CursorOf(proc[p].page)
         /\ proc[p].page \in SUBSET Notes /\ proc[p].page \subseteq DOMAIN memory
         /\ memory' = memory /\ posted' = posted
  BY DEF SetCursor, PageStored, TypeOK, Runs

LEMMA HeldStep ==
  ASSUME TypeOK, PageStored, CursorIsHeld, [Next]_vars
  PROVE  CursorIsHeld'
  <1>1. CASE cursor' = cursor
    BY <1>1, Kept DEF CursorIsHeld
  <1>2. ASSUME NEW p \in Procs, SetCursor(p) PROVE CursorIsHeld'
    BY <1>2, Lands, CursorOn DEF CursorIsHeld
  <1> QED
    BY <1>1, <1>2
    DEF Next, vars, Post, Shred, BeginSync, Pull, CheckHash, PutMemory, Crash

\* The cursor stands on a stored note, for any relays, processes and crashes.
THEOREM Held == Spec => []CursorIsHeld
  <1>1. Init => PageStored /\ CursorIsHeld
    BY DEF Init, PageStored, CursorIsHeld, Idle
  <1> QED
    BY <1>1, StoredStep, HeldStep, InitTypes, StepTypes, PTL DEF Spec

-----------------------------------------------------------------------------
\* A cursor with nothing left behind it.
Behind(t) ==
  /\ t = Start \/ \E n \in DOMAIN memory : At[n] = t
  /\ \A n \in Readable : At[n] < t => n \in DOMAIN memory

\* A page holds all that is not stored from before its last note.
Gapless(run) ==
  \A n \in run.page : \A m \in Readable : Before(m, n) => m \in DOMAIN memory \cup run.page

\* The notes still to be read fit one answer.
Fits == Cardinality(Waiting) <= Backlog

CaughtUp ==
  /\ Behind(cursor)
  /\ \A p \in Procs : Behind(proc[p].since) /\ Gapless(proc[p])
  /\ Fits

\* The order of notes, as pairs.
Precedes(S) == {p \in S \X S : Before(p[1], p[2])}

LEMMA OldestLead ==
  ASSUME NEW S \in SUBSET Notes, NEW k
  PROVE  IsFiniteSet(S) /\ Orders(Precedes(S), S) /\ Oldest(S, k) = Leading(Precedes(S), S, k)
  <1>1. IsFiniteSet(S)
    BY FeedAssumption, FS_Subset DEF FeedAssumption
  <1>2. Orders(Precedes(S), S)
    BY Order DEF Orders, Precedes
  <1>3. \A n \in S : {m \in S : Before(m, n)} = Under(Precedes(S), S, n)
    BY DEF Under, Precedes
  <1> QED
    BY <1>1, <1>2, <1>3 DEF Oldest, Leading

LEMMA OldestIsDown ==
  ASSUME NEW S \in SUBSET Notes, NEW k \in Nat, NEW n \in Oldest(S, k), NEW m \in S,
         Before(m, n)
  PROVE  m \in Oldest(S, k)
  <1>1. <<m, n>> \in Precedes(S)
    BY DEF Precedes, Oldest
  <1> QED
    BY <1>1, OldestLead, LeadIsDown

\* A full answer holds every note that is not stored.
LEMMA NothingWithheld ==
  ASSUME TypeOK, Full, Backlog <= Batch + 1, Fits, NEW since \in Nat, NEW got \in Answers(since),
         NEW u \in Missing, At[u] >= since
  PROVE  u \in got
  <1> DEFINE Later == {m \in Asked(since) : Before(u, m)}
  <1>1. u \in Asked(since) /\ Asked(since) \subseteq posted /\ posted \subseteq Notes
    BY DEF Missing, Readable, Asked, TypeOK
  <1>2. IsFiniteSet(Waiting) /\ IsFiniteSet(Later)
    <2>1. Waiting \in SUBSET Notes /\ Later \in SUBSET Notes
      BY <1>1 DEF Waiting
    <2> QED
      BY <2>1, FeedAssumption, FS_Subset DEF FeedAssumption
  <1>3. u \notin Later /\ Later \cup {u} \in SUBSET Waiting
    BY <1>1, Order DEF Waiting
  <1>4. /\ Cardinality(Later \cup {u}) = Cardinality(Later) + 1
        /\ Cardinality(Later \cup {u}) <= Cardinality(Waiting)
        /\ Cardinality(Later) \in Nat /\ Cardinality(Waiting) \in Nat
    <2> HIDE DEF Later
    <2> QED
      BY <1>2, <1>3, FS_AddElement, FS_Subset, FS_CardinalityType
  <1>5. Cardinality(Later) < Batch + 1
    <2> HIDE DEF Later
    <2> QED
      BY <1>4, FeedAssumption DEF FeedAssumption, Fits
  <1> QED
    BY <1>1, <1>5 DEF Answers, Newest

LEMMA PageIsGapless ==
  ASSUME TypeOK, Full, Backlog <= Batch + 1, Fits, NEW since \in Nat, Behind(since),
         NEW got \in Answers(since),
         NEW n \in Pulled(got, since), NEW m \in Readable, Before(m, n)
  PROVE  m \in DOMAIN memory \cup Pulled(got, since)
  <1>1. SUFFICES ASSUME m \notin DOMAIN memory PROVE m \in Pulled(got, since)
    OBVIOUS
  <1>2. m \in Missing /\ m \in Notes /\ At[m] \in Nat /\ m \notin Foreign \cup Blank
    BY <1>1, FeedAssumption DEF Missing, Readable, TypeOK, FeedAssumption
  <1>3. At[m] >= since
    BY <1>1, <1>2 DEF Behind
  <1>4. m \in Screen(got, since)
    BY <1>2, <1>3, NothingWithheld DEF Screen
  <1>5. Screen(got, since) \in SUBSET Notes /\ n \in Oldest(Screen(got, since), Batch)
    BY PulledIsReadable DEF TypeOK, Pulled
  <1>6. m \in Oldest(Screen(got, since), Batch)
    BY <1>4, <1>5, OldestIsDown, FeedAssumption DEF FeedAssumption
  <1> QED
    BY <1>2, <1>6 DEF Pulled

-----------------------------------------------------------------------------
\* A new note is newer than all that were posted.
LEMMA CaughtUpPost ==
  ASSUME TypeOK, InOrder, CaughtUp, NEW n \in Notes, Post(n)
  PROVE  CaughtUp'
  <1>1. /\ posted' = posted \cup {n} /\ n \notin posted
        /\ memory' = memory /\ cursor' = cursor /\ proc' = proc
        /\ \A m \in posted : m \in Notes /\ Before(m, n)
        /\ Cardinality(Waiting) < Backlog
    BY DEF Post, TypeOK
  <1>2. \A m \in posted : ~Before(n, m) /\ At[m] <= At[n]
    BY <1>1, Order
  <1>3. /\ Readable \subseteq posted /\ DOMAIN memory \subseteq posted
        /\ Readable' \subseteq Readable \cup {n}
        /\ \A p \in Procs : proc[p].page \subseteq posted
    BY <1>1 DEF Readable, TypeOK
  <1>4. ASSUME NEW t \in Nat, Behind(t) PROVE Behind(t)'
    <2>1. At[n] >= t
      <3>1. At[n] \in Nat \ {0} /\ \A m \in posted : At[m] \in Nat
        BY <1>1, FeedAssumption DEF FeedAssumption
      <3> QED
        BY <1>2, <1>3, <1>4, <3>1 DEF Behind, Start
    <2>2. At[n] \in Nat
      BY FeedAssumption DEF FeedAssumption
    <2> QED
      BY <1>1, <1>3, <1>4, <2>1, <2>2 DEF Behind
  <1>5. ASSUME NEW p \in Procs PROVE Gapless(proc[p])'
    BY <1>1, <1>2, <1>3 DEF CaughtUp, Gapless
  <1>6. Fits'
    <2>1. Waiting' \subseteq Waiting \cup {n}
      BY <1>1, <1>2, <1>3 DEF Waiting, Missing
    <2>2. IsFiniteSet(Waiting)
      <3>1. Waiting \in SUBSET Notes
        BY <1>1 DEF Waiting
      <3> QED
        BY <3>1, FeedAssumption, FS_Subset DEF FeedAssumption
    <2>3. /\ IsFiniteSet(Waiting \cup {n}) /\ Cardinality(Waiting) \in Nat
          /\ Cardinality(Waiting \cup {n}) <= Cardinality(Waiting) + 1
          /\ Cardinality(Waiting') <= Cardinality(Waiting \cup {n})
          /\ Cardinality(Waiting \cup {n}) \in Nat /\ Cardinality(Waiting') \in Nat
      BY <2>1, <2>2, FS_AddElement, FS_Subset, FS_CardinalityType
    <2> QED
      BY <1>1, <2>3, FeedAssumption DEF Fits, FeedAssumption
  <1> QED
    BY <1>1, <1>4, <1>5, <1>6 DEF CaughtUp, TypeOK, Runs

\* A step that posts nothing leaves a cursor that was behind nothing so.
LEMMA BehindKept ==
  ASSUME TypeOK, posted' = posted, DOMAIN memory \subseteq DOMAIN memory'
  PROVE  /\ \A t \in Nat : Behind(t) => Behind(t)'
         /\ Fits => Fits'
  <1>1. Readable' = Readable
    BY DEF Readable
  <1>2. \A t \in Nat : Behind(t) => Behind(t)'
    BY <1>1 DEF Behind
  <1>3. ASSUME Fits PROVE Fits'
    <2>1. Waiting' \in SUBSET Waiting
      BY <1>1 DEF Waiting, Missing
    <2>2. Waiting \in SUBSET Notes
      BY DEF Waiting, TypeOK
    <2>3. /\ Cardinality(Waiting') <= Cardinality(Waiting)
          /\ Cardinality(Waiting) \in Nat /\ Cardinality(Waiting') \in Nat
      BY <2>1, <2>2, FeedAssumption, FS_Subset, FS_CardinalityType DEF FeedAssumption
    <2> QED
      BY <1>3, <2>3, FeedAssumption DEF Fits, FeedAssumption
  <1> QED
    BY <1>2, <1>3

\* Once stored, a gapless page gives a cursor with nothing behind it.
LEMMA BehindPage ==
  ASSUME TypeOK, PageStored, CaughtUp, NEW p \in Procs, SetCursor(p)
  PROVE  Behind(cursor')
  <1>1. CASE proc[p].page = {}
    <2>1. cursor' = Start
      BY <1>1, Lands, CursorOn
    <2>2. \A n \in Readable : At[n] \in Nat
      BY FeedAssumption DEF FeedAssumption, Readable, TypeOK
    <2> QED
      BY <2>1, <2>2 DEF Behind, Start
  <1>2. CASE proc[p].page # {}
    <2>1. PICK n \in proc[p].page : At[n] = cursor'
      BY <1>2, Lands, CursorOn
    <2>2. n \in DOMAIN memory /\ proc[p].page \subseteq DOMAIN memory
      BY Lands
    <2>3. \A m \in Readable : At[m] < At[n] => m \in DOMAIN memory
      BY <2>2 DEF CaughtUp, Gapless, Before
    <2> QED
      BY <2>1, <2>2, <2>3 DEF Behind
  <1> QED
    BY <1>1, <1>2

\* What a step can do to the page of a process.
PageStep(p) ==
  \/ proc'[p].since = proc[p].since /\ proc'[p].page = proc[p].page
  \/ BeginSync(p) \/ Pull(p)
  \/ proc'[p] = Idle

LEMMA PageSteps ==
  ASSUME TypeOK, [Next]_vars, NEW p \in Procs
  PROVE  PageStep(p)
  <1>1. ASSUME NEW q \in Procs, BeginSync(q) \/ Pull(q) PROVE PageStep(p)
    <2>1. CASE q = p
      BY <1>1, <2>1 DEF PageStep
    <2>2. CASE q # p
      <3>1. proc'[p] = proc[p]
        BY <1>1, <2>2 DEF BeginSync, Pull, TypeOK
      <3> QED
        BY <3>1 DEF PageStep
    <2> QED
      BY <2>1, <2>2
  <1>2. ASSUME NEW q \in Procs, CheckHash(q) \/ PutMemory(q) PROVE PageStep(p)
    BY <1>2 DEF CheckHash, PutMemory, TypeOK, Runs, PageStep
  <1>3. ASSUME NEW q \in Procs, SetCursor(q) \/ Crash(q) PROVE PageStep(p)
    BY <1>3 DEF SetCursor, Crash, Return, TypeOK, PageStep
  <1>4. ASSUME NEW n \in Notes, Post(n) \/ Shred(n) PROVE PageStep(p)
    BY <1>4 DEF Post, Shred, PageStep
  <1>5. CASE UNCHANGED vars
    BY <1>5 DEF vars, PageStep
  <1> QED
    BY <1>1, <1>2, <1>3, <1>4, <1>5 DEF Next

LEMMA CaughtUpStep ==
  ASSUME InOrder, Full, Backlog <= Batch + 1,
         TypeOK, PageStored, CaughtUp, [Next]_vars
  PROVE  CaughtUp'
  <1>1. ASSUME NEW n \in Notes, Post(n) PROVE CaughtUp'
    BY <1>1, CaughtUpPost
  <1>2. CASE posted' = posted
    <2>1. /\ Readable' = Readable /\ DOMAIN memory \subseteq DOMAIN memory'
          /\ \A t \in Nat : Behind(t) => Behind(t)'
          /\ Fits'
      BY <1>2, Kept, BehindKept DEF Readable, CaughtUp
    <2>2. ASSUME NEW run \in Runs, Gapless(run) PROVE Gapless(run)'
      BY <2>1, <2>2 DEF Gapless
    <2>3. Behind(cursor')
      <3>1. ASSUME NEW p \in Procs, SetCursor(p) PROVE Behind(cursor')
        BY <3>1, BehindPage
      <3>2. CASE cursor' = cursor
        BY <3>2 DEF CaughtUp
      <3> QED
        BY <1>2, <3>1, <3>2
        DEF Next, vars, Post, Shred, BeginSync, Pull, CheckHash, PutMemory, Crash
    <2>4. cursor' \in Nat /\ cursor \in Nat /\ \A p \in Procs : proc[p] \in Runs /\ proc[p].since \in Nat
      BY StepTypes DEF TypeOK, Runs
    <2>5. Behind(cursor)' /\ Behind(Start)
      <3>1. \A n \in Readable : At[n] \in Nat
        BY FeedAssumption DEF FeedAssumption, Readable, TypeOK
      <3>2. Behind(Start)
        BY <3>1 DEF Behind, Start
      <3>3. Behind(cursor)'
        BY <2>1, <2>3 DEF Behind
      <3> QED
        BY <3>2, <3>3
    <2>6. ASSUME NEW p \in Procs
          PROVE  Behind(proc'[p].since) /\ Gapless(proc'[p])
      <3>1. CASE proc'[p].since = proc[p].since /\ proc'[p].page = proc[p].page
        BY <3>1 DEF CaughtUp, Gapless
      <3>2. CASE BeginSync(p)
        BY <3>2 DEF BeginSync, CaughtUp, Gapless, TypeOK, Runs
      <3>3. CASE Pull(p)
        <4>1. PICK got \in Answers(proc[p].since) : proc'[p] = Pulling(p, got)
          BY <3>3 DEF Pull, TypeOK
        <4>2. Behind(proc[p].since) /\ proc[p].since \in Nat /\ Fits
          BY <2>4 DEF CaughtUp
        <4> QED
          BY <4>1, <4>2, PageIsGapless DEF Pulling, Gapless
      <3>4. CASE proc'[p] = Idle
        BY <2>5, <3>4 DEF Idle, Gapless, Start
      <3> QED
        BY <3>1, <3>2, <3>3, <3>4, PageSteps DEF PageStep
    <2>7. ASSUME NEW p \in Procs
          PROVE  Behind(proc[p].since)' /\ Gapless(proc[p])'
      <3>1. Behind(proc'[p].since) /\ Gapless(proc'[p])
        BY <2>6
      <3> QED
        BY <2>1, <3>1 DEF Behind, Gapless
    <2> QED
      BY <2>1, <2>5, <2>7 DEF CaughtUp
  <1> QED
    BY <1>1, <1>2
    DEF Next, vars, Shred, BeginSync, Pull, CheckHash, PutMemory, SetCursor, Crash

LEMMA CaughtUpInit ==
  ASSUME Init
  PROVE  PageStored /\ CaughtUp
  <1>1. Waiting = {} /\ Readable = {}
    BY DEF Init, Waiting, Readable
  <1>2. Fits
    BY <1>1, FS_EmptySet, FeedAssumption DEF Fits, FeedAssumption
  <1> QED
    BY <1>1, <1>2 DEF Init, Idle, PageStored, CaughtUp, Behind, Gapless, Start

\* While notes come in order, relays answer in full and no more wait than one
\* fetch can return, no note is passed over - by any number of processes that
\* read and write the cursor at once, and die.
THEOREM Skipless ==
  ASSUME InOrder, Full, Backlog <= Batch + 1
  PROVE  Spec => []NothingSkipped
  <1>1. CaughtUp => NothingSkipped
    BY DEF CaughtUp, Behind, NothingSkipped
  <1>2. TypeOK /\ PageStored /\ CaughtUp /\ [Next]_vars => (PageStored /\ CaughtUp)'
    BY CaughtUpStep, StoredStep
  <1>3. Init => PageStored /\ CaughtUp
    BY CaughtUpInit
  <1> QED
    BY <1>1, <1>2, <1>3, InitTypes, StepTypes, PTL DEF Spec

-----------------------------------------------------------------------------
\* If a note does not get into the batch, the batch is full.
LEMMA BatchIsFull ==
  ASSUME NEW S \in SUBSET Notes, NEW k \in Nat, S \ Oldest(S, k) # {}
  PROVE  Cardinality(Oldest(S, k)) >= k
  BY OldestLead, LeadIsFull

\* The cursor is on no note earlier than another of its page.
LEMMA CursorLeads ==
  ASSUME NEW page \in SUBSET Notes, NEW n \in page
  PROVE  At[n] <= CursorOf(page)
  <1>1. PICK l \in page : \A m \in page : At[m] <= At[l]
    BY Newer
  <1>2. \E t \in {At[m] : m \in page} : \A m \in page : At[m] <= t
    BY <1>1
  <1> QED
    BY <1>2 DEF CursorOf

\* No batch can be filled by the notes of one second and those after it that
\* have no text.  A relay chooses what it returns, so these may be far away.
RoomToMove ==
  \A t \in Nat :
    Cardinality({n \in Notes \ Foreign : At[n] = t \/ (n \in Blank /\ At[n] > t)}) < Batch

LEMMA PullMoves ==
  ASSUME RoomToMove, NEW since \in Nat, NEW S \in SUBSET (Notes \ Foreign),
         \A n \in S : At[n] >= since,
         ~(S \ Blank \subseteq Oldest(S, Batch) \ Blank)
  PROVE  CursorOf(Oldest(S, Batch) \ Blank) > since
  <1> DEFINE page == Oldest(S, Batch) \ Blank
             Stuck == {n \in Notes \ Foreign : At[n] = since \/ (n \in Blank /\ At[n] > since)}
  <1>1. Batch \in Nat /\ \A n \in Notes : At[n] \in Nat
    BY FeedAssumption DEF FeedAssumption
  <1>2. Oldest(S, Batch) \in SUBSET S /\ page \in SUBSET Notes
    BY DEF Oldest
  <1>3. CursorOf(page) \in Nat
    BY <1>2, CursorOn
  <1>4. SUFFICES ASSUME CursorOf(page) <= since PROVE FALSE
    BY <1>3
  <1>5. \A n \in page : At[n] <= CursorOf(page)
    BY <1>2, CursorLeads
  <1>6. \A n \in Oldest(S, Batch) : n \in Notes \ Foreign /\ At[n] \in Nat /\ At[n] >= since
    BY <1>1, <1>2
  <1>7. Oldest(S, Batch) \subseteq Stuck
    <2>1. SUFFICES ASSUME NEW n \in Oldest(S, Batch) PROVE n \in Stuck
      OBVIOUS
    <2>2. CASE n \in Blank
      BY <1>6, <2>2
    <2>3. CASE n \notin Blank
      <3>1. At[n] <= CursorOf(page)
        BY <1>5, <2>3
      <3> HIDE DEF page
      <3>2. At[n] = since
        BY <1>3, <1>4, <1>6, <3>1
      <3> QED
        BY <1>6, <3>2
    <2> QED
      BY <2>2, <2>3
  <1>8. Cardinality(Stuck) < Batch
    BY DEF RoomToMove
  <1>9. Cardinality(Oldest(S, Batch)) >= Batch
    BY <1>1, BatchIsFull
  <1>10. IsFiniteSet(Stuck)
    <2>1. Stuck \in SUBSET Notes
      OBVIOUS
    <2> QED
      BY <2>1, FeedAssumption, FS_Subset DEF FeedAssumption
  <1>11. /\ Cardinality(Oldest(S, Batch)) <= Cardinality(Stuck)
         /\ Cardinality(Oldest(S, Batch)) \in Nat /\ Cardinality(Stuck) \in Nat
    <2> HIDE DEF Stuck
    <2> QED
      BY <1>7, <1>10, FS_Subset, FS_CardinalityType
  <1> HIDE DEF Stuck
  <1> QED
    BY <1>1, <1>8, <1>9, <1>11

\* A page that leaves out something it was offered takes the cursor on.
Moves ==
  \A p \in Procs :
    proc[p].pc \in {"check", "put"} /\ ~(proc[p].seen \subseteq proc[p].page) =>
      CursorOf(proc[p].page) > proc[p].since

LEMMA MovesStep ==
  ASSUME RoomToMove, TypeOK, Moves, [Next]_vars
  PROVE  Moves'
  <1> USE DEF Moves, TypeOK
  <1>1. ASSUME NEW n \in Notes, Post(n) \/ Shred(n) PROVE Moves'
    BY <1>1 DEF Post, Shred
  <1>2. ASSUME NEW p \in Procs, BeginSync(p) PROVE Moves'
    BY <1>2 DEF BeginSync, Runs
  <1>3. ASSUME NEW p \in Procs, Pull(p) PROVE Moves'
    <2>1. proc[p].since \in Nat
      BY DEF Runs
    <2>2. PICK got \in Answers(proc[p].since) : proc' = [proc EXCEPT ![p] = Pulling(p, got)]
      BY <1>3 DEF Pull
    <2> DEFINE S == Screen(got, proc[p].since)
    <2>3. S \subseteq posted \ Foreign /\ \A n \in S : At[n] >= proc[p].since
      BY <2>1, PulledIsReadable DEF Screen
    <2>4. ~(S \ Blank \subseteq Oldest(S, Batch) \ Blank) =>
            CursorOf(Oldest(S, Batch) \ Blank) > proc[p].since
      <3>1. S \in SUBSET (Notes \ Foreign)
        BY <2>3
      <3> HIDE DEF S
      <3> QED
        BY <2>1, <2>3, <3>1, PullMoves
    <2>5. /\ Pulling(p, got).seen = S \ Blank /\ Pulling(p, got).since = proc[p].since
          /\ Pulling(p, got).page = Oldest(S, Batch) \ Blank
      BY DEF Pulling, Pulled
    <2>6. /\ proc'[p].seen = S \ Blank /\ proc'[p].since = proc[p].since
          /\ proc'[p].page = Oldest(S, Batch) \ Blank
          /\ \A q \in Procs \ {p} : proc'[q] = proc[q]
      BY <2>2, <2>5
    <2> HIDE DEF S
    <2> QED
      BY <2>4, <2>6
  <1>4. ASSUME NEW p \in Procs, CheckHash(p) \/ PutMemory(p) PROVE Moves'
    <2>1. /\ proc'[p].page = proc[p].page /\ proc'[p].seen = proc[p].seen
          /\ proc'[p].since = proc[p].since /\ proc[p].pc \in {"check", "put"}
          /\ \A q \in Procs \ {p} : proc'[q] = proc[q]
      BY <1>4 DEF CheckHash, PutMemory, Runs
    <2> QED
      BY <2>1
  <1>5. ASSUME NEW p \in Procs, SetCursor(p) \/ Crash(p) PROVE Moves'
    BY <1>5 DEF SetCursor, Crash, Return, Idle
  <1>6. CASE UNCHANGED vars
    BY <1>6 DEF vars
  <1> QED
    BY <1>1, <1>2, <1>3, <1>4, <1>5, <1>6 DEF Next

\* A pull that ran to its end moves the cursor on or has stored all it was
\* offered, for any relays, processes and crashes - as long as there is room
\* to move; the code stalls on a second that fills a batch.
THEOREM Advances ==
  ASSUME RoomToMove
  PROVE  Spec => []PullAdvances
  <1>1. TypeOK /\ PageStored /\ Moves => PullAdvances
    <2>1. SUFFICES ASSUME TypeOK, PageStored, Moves, NEW p \in Procs,
                          proc[p].pc = "check", proc[p].todo = {}, ~(proc[p].seen \subseteq DOMAIN memory)
                   PROVE  CursorOf(proc[p].page) > proc[p].since
      BY DEF PullAdvances
    <2>2. proc[p].page \subseteq DOMAIN memory
      BY <2>1 DEF PageStored
    <2> QED
      BY <2>1, <2>2 DEF Moves
  <1>2. Init => PageStored /\ Moves
    BY DEF Init, PageStored, Moves, Idle
  <1>3. TypeOK /\ PageStored /\ Moves /\ [Next]_vars => (PageStored /\ Moves)'
    BY StoredStep, MovesStep
  <1> QED
    BY <1>1, <1>2, <1>3, InitTypes, StepTypes, PTL DEF Spec

-----------------------------------------------------------------------------
\* The files of the user.  What follows is told of a table of sources and one
\* of rows, so that it can be told of both sides of a step.
SourceFields == {"kind", "config", "trust", "sensitivity", "cursor"}
CallFields == {"pc", "cmd", "kind", "file", "source", "queue", "todo", "seen"}

\* A source is of one place, and no two of a kind have one configuration.
Told(srcs) ==
  /\ \E S : srcs \in Seq(S)
  /\ \A i \in DOMAIN srcs :
       /\ DOMAIN srcs[i] = SourceFields
       /\ srcs[i].config = Config(srcs[i].kind, LocationOf(srcs[i].config), "")
       /\ \/ srcs[i].kind = "journal" /\ LocationOf(srcs[i].config) = ""
          \/ /\ LocationOf(srcs[i].config) \in Paths
             /\ srcs[i].kind = KindOf[LocationOf(srcs[i].config)] /\ srcs[i].kind # "journal"
  /\ \A i, j \in DOMAIN srcs :
       srcs[i].kind = srcs[j].kind /\ srcs[i].config = srcs[j].config => i = j

\* The digest of an entry says when it is from: its heading is in it.
Dated(hash, at) ==
  \/ hash[2] = "" /\ at = hash[3]
  \/ /\ hash[2] \in Paths /\ KindOf[hash[2]] = "journal"
     /\ \E d \in DOMAIN Drafts[hash[2]] : \E i \in DOMAIN Drafts[hash[2]][d] :
          Drafts[hash[2]][d][i].text = hash[3] /\ at = HeadingAt(Drafts[hash[2]][d][i])

\* The digest of a row does not say when it is from; the file says it.
Logged(hash, at, place) ==
  /\ place \in Paths /\ KindOf[place] = "structured_log"
  /\ \E d \in DOMAIN Drafts[place] : \E k \in Scanned(Drafts[place][d]) :
       hash[2] = Record(Drafts[place][d][k]) /\ at = RowAt(Drafts[place][d][k])

\* No log says one thing of two moments, in any two of its drafts.
OneTimeEach ==
  \A f \in Paths : KindOf[f] = "structured_log" =>
    \A c, d \in DOMAIN Drafts[f] : \A j \in Scanned(Drafts[f][c]), k \in Scanned(Drafts[f][d]) :
      Record(Drafts[f][c][j]) = Record(Drafts[f][d][k]) =>
        RowAt(Drafts[f][c][j]) = RowAt(Drafts[f][d][k])

\* What a source of a kind and a place has for memories.
Belongs(hash, at, kind, place) ==
  /\ hash[1] \in {"note", "entry", "row"}
  /\ hash[1] = "note" => hash[2] = place
  /\ hash[1] = "entry" => kind = "journal" /\ Dated(hash, at)
  /\ hash[1] = "row" => Logged(hash, at, place)

BelongsTo(hash, at, srcs, i) == Belongs(hash, at, srcs[i].kind, LocationOf(srcs[i].config))

RowsTold(srcs, rws) ==
  \A k \in DOMAIN rws :
    /\ k = <<k[1], k[2]>> /\ k[1] \in DOMAIN srcs
    /\ BelongsTo(k[2], rws[k].at, srcs, k[1])

IsKept(i, item, rws) ==
  /\ <<i, item.hash>> \in DOMAIN rws
  /\ item.hash[1] = "entry" \/ (item.hash[1] = "row" /\ OneTimeEach) =>
       rws[<<i, item.hash>>].at = item.at

AllKept == \A t \in taken : IsKept(t[1], t[2], rows)

\* What a command has in hand belongs to its source, and what it has put away
\* is kept.
InHand(c, srcs, rws) ==
  /\ DOMAIN c = CallFields
  /\ \E S : c.todo \in Seq(S)
  /\ c.queue \in Seq(DOMAIN srcs)
  /\ c.pc \in {"find", "insert", "scan"} =>
       \/ /\ c.cmd = "say" /\ c.kind = "journal"
          /\ \A i \in DOMAIN c.todo : Belongs(c.todo[i].hash, c.todo[i].at, "journal", "")
       \/ c.cmd = "import" /\ c.kind = "journal" /\ c.file \in Paths /\ KindOf[c.file] = "journal"
       \/ c.cmd \in {"add", "ingest"} /\ c.file \in Paths /\ c.kind = KindOf[c.file] /\ c.kind # "journal"
  /\ c.pc = "scan" =>
       /\ c.source \in DOMAIN srcs
       /\ srcs[c.source].kind = c.kind /\ srcs[c.source].config = Config(c.kind, c.file, "")
  /\ c.pc = "store" =>
       /\ c.source \in DOMAIN srcs
       /\ \A i \in DOMAIN c.todo : c.todo[i] \in c.seen
       /\ \A item \in c.seen :
            /\ BelongsTo(item.hash, item.at, srcs, c.source)
            /\ IsKept(c.source, item, rws) \/ \E i \in DOMAIN c.todo : item = c.todo[i]

\* A page has all that is from before its cursor, and the last page has all.
PageTold(f, d, at) ==
  /\ DOMAIN at = {"cursor", "got", "more"} /\ at.cursor \in Nat
  /\ KindOf[f] = "structured_log" /\ d > 0 =>
       /\ at.got \subseteq Scanned(Drafts[f][d])
       /\ \A k \in Scanned(Drafts[f][d]) : RowAt(Drafts[f][d][k]) < at.cursor => k \in at.got
       /\ ~at.more => at.got = Scanned(Drafts[f][d])

FilesInv ==
  /\ DOMAIN draft = Paths /\ \A f \in Paths : draft[f] \in 0 .. Len(Drafts[f])
  /\ Told(sources) /\ RowsTold(sources, rows)
  /\ DOMAIN call = Callers /\ \A p \in Callers : InHand(call[p], sources, rows)
  /\ AllKept
  /\ DOMAIN pages = Paths /\ \A f \in Paths : PageTold(f, draft[f], pages[f])

-----------------------------------------------------------------------------
LEMMA FilesSay == FilesInv => FilesAreTakenOnce
  <1> SUFFICES ASSUME FilesInv PROVE NothingTwice /\ PagesCoverTheLog
    BY DEF FilesInv, FilesAreTakenOnce, AllKept, IsKept, EntriesAreKept
  <1>1. NothingTwice
    <2>1. SUFFICES ASSUME NEW k \in DOMAIN rows, NEW l \in DOMAIN rows, k # l, k[2] = l[2],
                          sources[k[1]].kind = sources[l[1]].kind
                   PROVE  k[2][1] = "row" /\ LocationOf(sources[k[1]].config) # LocationOf(sources[l[1]].config)
      BY DEF NothingTwice
    <2>2. /\ k = <<k[1], k[2]>> /\ k[1] \in DOMAIN sources
          /\ l = <<l[1], l[2]>> /\ l[1] \in DOMAIN sources
          /\ BelongsTo(k[2], rows[k].at, sources, k[1]) /\ BelongsTo(l[2], rows[l].at, sources, l[1])
      BY DEF FilesInv, RowsTold
    <2>3. LocationOf(sources[k[1]].config) # LocationOf(sources[l[1]].config)
      <3>1. SUFFICES ASSUME LocationOf(sources[k[1]].config) = LocationOf(sources[l[1]].config) PROVE FALSE
        OBVIOUS
      <3> DEFINE s == sources[k[1]]
                 t == sources[l[1]]
      <3>4. /\ s.config = Config(s.kind, LocationOf(s.config), "")
            /\ t.config = Config(t.kind, LocationOf(t.config), "")
        BY <2>2 DEF FilesInv, Told
      <3>2. s.config = t.config
        BY <2>1, <3>1, <3>4
      <3>3. k[1] = l[1]
        BY <2>1, <2>2, <3>2 DEF FilesInv, Told
      <3> QED
        BY <2>1, <2>2, <3>3
    <2>4. k[2][1] # "note"
      BY <2>1, <2>2, <2>3 DEF BelongsTo, Belongs
    <2>5. k[2][1] # "entry"
      <3>1. SUFFICES ASSUME k[2][1] = "entry" PROVE FALSE
        OBVIOUS
      <3>2. sources[k[1]].kind = "journal" /\ sources[l[1]].kind = "journal"
        BY <2>1, <2>2, <3>1 DEF BelongsTo, Belongs
      <3>3. LocationOf(sources[k[1]].config) = "" /\ LocationOf(sources[l[1]].config) = ""
        BY <2>2, <3>2 DEF FilesInv, Told
      <3> QED
        BY <2>3, <3>3
    <2> QED
      BY <2>2, <2>3, <2>4, <2>5 DEF BelongsTo, Belongs
  <1>2. PagesCoverTheLog
    BY DEF FilesInv, PagesCoverTheLog, PageTold, Exists, Content
  <1> QED
    BY <1>1, <1>2

\* An entry's digest names one time.
LEMMA DatesAgree ==
  ASSUME NEW hash, NEW a, NEW b, Dated(hash, a), Dated(hash, b)
  PROVE  a = b
  <1>1. CASE hash[2] = ""
    BY <1>1, SourcesAssumption DEF SourcesAssumption, Dated
  <1>2. CASE hash[2] # ""
    <2> DEFINE f == hash[2]
    <2>1. f \in Paths /\ KindOf[f] = "journal"
      BY <1>2 DEF Dated
    <2>2. PICK c \in DOMAIN Drafts[f] : \E i \in DOMAIN Drafts[f][c] :
            Drafts[f][c][i].text = hash[3] /\ a = HeadingAt(Drafts[f][c][i])
      BY <1>2 DEF Dated
    <2>3. PICK d \in DOMAIN Drafts[f] : \E j \in DOMAIN Drafts[f][d] :
            Drafts[f][d][j].text = hash[3] /\ b = HeadingAt(Drafts[f][d][j])
      BY <1>2 DEF Dated
    <2> QED
      BY <2>1, <2>2, <2>3, LinesSayWhen
  <1> QED
    BY <1>1, <1>2

\* ... and so does a row's, in a log that says nothing of two moments.
LEMMA LogsAgree ==
  ASSUME OneTimeEach, NEW hash, NEW a, NEW b, NEW place, Logged(hash, a, place), Logged(hash, b, place)
  PROVE  a = b
  <1>1. place \in Paths /\ KindOf[place] = "structured_log"
    BY DEF Logged
  <1>2. PICK c \in DOMAIN Drafts[place] : \E j \in Scanned(Drafts[place][c]) :
          hash[2] = Record(Drafts[place][c][j]) /\ a = RowAt(Drafts[place][c][j])
    BY DEF Logged
  <1>3. PICK j \in Scanned(Drafts[place][c]) :
          hash[2] = Record(Drafts[place][c][j]) /\ a = RowAt(Drafts[place][c][j])
    BY <1>2
  <1>4. PICK d \in DOMAIN Drafts[place] : \E k \in Scanned(Drafts[place][d]) :
          hash[2] = Record(Drafts[place][d][k]) /\ b = RowAt(Drafts[place][d][k])
    BY DEF Logged
  <1>5. PICK k \in Scanned(Drafts[place][d]) :
          hash[2] = Record(Drafts[place][d][k]) /\ b = RowAt(Drafts[place][d][k])
    BY <1>4
  <1>6. Record(Drafts[place][c][j]) = Record(Drafts[place][d][k]) =>
          RowAt(Drafts[place][c][j]) = RowAt(Drafts[place][d][k])
    BY <1>1 DEF OneTimeEach
  <1>7. Record(Drafts[place][c][j]) = Record(Drafts[place][d][k])
    BY <1>3, <1>5
  <1> QED
    BY <1>3, <1>5, <1>6, <1>7

\* The first of a set of numbers is one of them.
LEMMA TheFirstIsIn ==
  ASSUME NEW S, IsFiniteSet(S), S \subseteq Int, S # {}
  PROVE  TheFirst(S) \in S
  <1> DEFINE R == {p \in S \X S : p[1] < p[2]}
  <1>1. Orders(R, S)
    BY DEF Orders
  <1>2. \E i \in S : \A j \in S : <<j, i>> \notin R
    <2> HIDE DEF R
    <2> QED
      BY <1>1, Earliest
  <1>3. \E i \in S : \A j \in S : i <= j
    <2>1. PICK i \in S : \A j \in S : <<j, i>> \notin R
      BY <1>2
    <2>2. \A j \in S : ~(j < i)
      BY <2>1
    <2>3. \A j \in S : j \in Int
      OBVIOUS
    <2> QED
      BY <2>2, <2>3
  <1> QED
    BY <1>3 DEF TheFirst

-----------------------------------------------------------------------------
\* What is read of a draft, and that it belongs where it goes.
LEMMA DraftLines ==
  ASSUME FilesInv, NEW f \in Paths, Exists(f)
  PROVE  /\ draft[f] \in DOMAIN Drafts[f]
         /\ KindOf[f] # "markdown_vault" =>
              /\ IsFiniteSet(DOMAIN Content(f)) /\ DOMAIN Content(f) \subseteq Int
              /\ DOMAIN Content(f) = DOMAIN Drafts[f][draft[f]]
  <1>1. draft[f] \in 1 .. Len(Drafts[f]) /\ DOMAIN Drafts[f] = 1 .. Len(Drafts[f])
    <2>1. Len(Drafts[f]) \in Nat \ {0} /\ DOMAIN Drafts[f] = 1 .. Len(Drafts[f])
      BY SourcesAssumption DEF SourcesAssumption
    <2>2. draft[f] \in 0 .. Len(Drafts[f]) /\ draft[f] > 0
      BY DEF FilesInv, Exists
    <2> QED
      BY <2>1, <2>2
  <1>2. ASSUME KindOf[f] # "markdown_vault"
        PROVE  IsFiniteSet(DOMAIN Content(f)) /\ DOMAIN Content(f) \subseteq Int
    <2> DEFINE n == Len(Drafts[f][draft[f]])
    <2>1. DOMAIN Content(f) = 1 .. n /\ n \in Nat
      BY <1>1, <1>2, SourcesAssumption DEF SourcesAssumption, Content
    <2> HIDE DEF n
    <2> QED
      BY <2>1, FS_Interval
  <1> QED
    BY <1>1, <1>2 DEF Content

LEMMA EntriesBelong ==
  ASSUME FilesInv, NEW f \in Paths, Exists(f), KindOf[f] = "journal", NEW place
  PROVE  /\ \E S : Entries(f, Content(f)) \in Seq(S)
         /\ \A k \in DOMAIN Entries(f, Content(f)) :
              Belongs(Entries(f, Content(f))[k].hash, Entries(f, Content(f))[k].at, "journal", place)
  <1> DEFINE lines == Content(f)
             written == {i \in Headings(lines) : EntryText(lines, i) # <<>>}
  <1>1. /\ draft[f] \in DOMAIN Drafts[f]
        /\ IsFiniteSet(DOMAIN lines) /\ DOMAIN lines \subseteq Int
        /\ lines = Drafts[f][draft[f]]
    BY DraftLines DEF Content
  <1>2. written \subseteq DOMAIN lines /\ IsFiniteSet(written) /\ written \subseteq Int
    <2>1. written \subseteq DOMAIN lines
      BY DEF Headings
    <2> QED
      BY <1>1, <2>1, FS_Subset
  <1>3. Cardinality(written) \in Nat
    BY <1>2, FS_CardinalityType
  <1>4. Entries(f, lines) = [k \in 1 .. Cardinality(written) |-> EntryItem(f, lines, Nth(written, k, <))]
    BY DEF Entries
  <1>5. ASSUME NEW k \in 1 .. Cardinality(written)
        PROVE  Belongs(EntryItem(f, lines, Nth(written, k, <)).hash,
                       EntryItem(f, lines, Nth(written, k, <)).at, "journal", place)
    <2> DEFINE i == Nth(written, k, <)
    <2>1. i \in DOMAIN lines
      <3> HIDE DEF written
      <3> QED
        BY <1>2, NthIsIn
    <2> HIDE DEF i
    <2>2. /\ EntryItem(f, lines, i).hash[1] = "entry" /\ EntryItem(f, lines, i).hash[2] = f
          /\ EntryItem(f, lines, i).hash[3] = lines[i].text
          /\ EntryItem(f, lines, i).at = HeadingAt(lines[i])
      BY DEF EntryItem, EntryHash
    <2>3. \E d \in DOMAIN Drafts[f] : \E j \in DOMAIN Drafts[f][d] :
            Drafts[f][d][j].text = lines[i].text /\ HeadingAt(lines[i]) = HeadingAt(Drafts[f][d][j])
      BY <1>1, <2>1
    <2>4. Dated(EntryItem(f, lines, i).hash, EntryItem(f, lines, i).at)
      <3> HIDE DEF lines
      <3> QED
        BY <2>2, <2>3 DEF Dated
    <2> QED
      BY <2>2, <2>4 DEF Belongs, i
  <1>6. \E S : Entries(f, lines) \in Seq(S)
    <2> DEFINE T == {EntryItem(f, lines, Nth(written, k, <)) : k \in 1 .. Cardinality(written)}
    <2>1. Entries(f, lines) \in [1 .. Cardinality(written) -> T]
      BY <1>4
    <2>2. Entries(f, lines) \in Seq(T)
      <3> HIDE DEF T, written, lines
      <3> QED
        BY <1>3, <2>1, SeqDef
    <2> QED
      BY <2>2
  <1> HIDE DEF written, lines
  <1>7. DOMAIN Entries(f, lines) = 1 .. Cardinality(written)
    BY <1>4
  <1>8. ASSUME NEW k \in DOMAIN Entries(f, lines)
        PROVE  Belongs(Entries(f, lines)[k].hash, Entries(f, lines)[k].at, "journal", place)
    <2>1. Entries(f, lines)[k] = EntryItem(f, lines, Nth(written, k, <))
      BY <1>4, <1>7
    <2> QED
      BY <1>5, <1>7, <2>1
  <1> QED
    BY <1>6, <1>8 DEF lines

LEMMA RowItemsAreRows ==
  ASSUME FilesInv, NEW f \in Paths, Exists(f), KindOf[f] = "structured_log"
  PROVE  /\ \E S : RowItems(Content(f)) \in Seq(S)
         /\ \A k \in DOMAIN RowItems(Content(f)) :
              /\ RowItems(Content(f))[k].hash[1] = "row"
              /\ Logged(RowItems(Content(f))[k].hash, RowItems(Content(f))[k].at, f)
  <1> DEFINE lines == Content(f)
             n == Cardinality(Scanned(lines))
             item(k) == RowItem(lines[Nth(Scanned(lines), k, <)])
  <1>1. /\ IsFiniteSet(DOMAIN lines) /\ DOMAIN lines \subseteq Int
        /\ draft[f] \in DOMAIN Drafts[f] /\ lines = Drafts[f][draft[f]]
    BY DraftLines DEF Content
  <1>2. n \in Nat /\ IsFiniteSet(Scanned(lines)) /\ Scanned(lines) \subseteq Int
    BY <1>1, FS_Subset, FS_CardinalityType DEF Scanned
  <1>3. RowItems(lines) = [k \in 1 .. n |-> item(k)]
    BY DEF RowItems
  <1>4. \A k \in 1 .. n : item(k).hash[1] = "row" /\ Logged(item(k).hash, item(k).at, f)
    <2> SUFFICES ASSUME NEW k \in 1 .. n
                 PROVE  item(k).hash[1] = "row" /\ Logged(item(k).hash, item(k).at, f)
      OBVIOUS
    <2> DEFINE i == Nth(Scanned(lines), k, <)
    <2>1. i \in Scanned(lines)
      <3> DEFINE S == Scanned(lines)
      <3>1. IsFiniteSet(S) /\ S \subseteq Int /\ k \in 1 .. Cardinality(S)
        BY <1>2
      <3> HIDE DEF S
      <3>2. Nth(S, k, <) \in S
        BY <3>1, NthIsIn
      <3> QED
        BY <3>2 DEF S
    <2>2. /\ item(k).hash[1] = "row" /\ item(k).hash[2] = Record(lines[i])
          /\ item(k).at = RowAt(lines[i])
      BY DEF RowItem
    <2> HIDE DEF i, item
    <2> QED
      BY <1>1, <2>1, <2>2 DEF Logged
  <1> DEFINE T == {item(k) : k \in 1 .. n}
  <1>5. RowItems(lines) \in [1 .. n -> T]
    BY <1>3
  <1> HIDE DEF n, T
  <1>6. RowItems(lines) \in Seq(T)
    BY <1>2, <1>5, SeqDef
  <1> HIDE DEF item, lines
  <1>7. \A k \in DOMAIN RowItems(lines) :
          RowItems(lines)[k].hash[1] = "row" /\ Logged(RowItems(lines)[k].hash, RowItems(lines)[k].at, f)
    BY <1>3, <1>4
  <1> QED
    BY <1>6, <1>7 DEF lines

LEMMA OffersBelong ==
  ASSUME FilesInv, NEW f \in Paths, Exists(f), KindOf[f] # "journal"
  PROVE  /\ \E S : Offers(KindOf[f], f) \in Seq(S)
         /\ \A k \in DOMAIN Offers(KindOf[f], f) :
              Belongs(Offers(KindOf[f], f)[k].hash, Offers(KindOf[f], f)[k].at, KindOf[f], f)
  <1>1. CASE KindOf[f] = "markdown_vault"
    <2>1. Offers(KindOf[f], f) = <<NoteItem(f, Content(f))>>
      BY <1>1 DEF Offers
    <2>2. NoteItem(f, Content(f)).hash[1] = "note" /\ NoteItem(f, Content(f)).hash[2] = f
      BY DEF NoteItem
    <2>3. Belongs(NoteItem(f, Content(f)).hash, NoteItem(f, Content(f)).at, KindOf[f], f)
      BY <2>2 DEF Belongs
    <2>4. Offers(KindOf[f], f) \in Seq({NoteItem(f, Content(f))})
      BY <2>1
    <2> HIDE DEF NoteItem
    <2>5. \A k \in DOMAIN Offers(KindOf[f], f) : Offers(KindOf[f], f)[k] = NoteItem(f, Content(f))
      BY <2>1
    <2> QED
      BY <2>3, <2>4, <2>5
  <1>2. CASE KindOf[f] = "structured_log"
    <2>1. Offers(KindOf[f], f) = RowItems(Content(f))
      BY <1>2 DEF Offers
    <2> QED
      BY <1>2, <2>1, RowItemsAreRows DEF Belongs
  <1> QED
    BY <1>1, <1>2, SourcesAssumption DEF SourcesAssumption

-----------------------------------------------------------------------------
\* What a step may do to the tables: sources and rows come, and stay.
Grown(srcs, srcs2, rws, rws2) ==
  /\ DOMAIN srcs \subseteq DOMAIN srcs2
  /\ \A i \in DOMAIN srcs : srcs2[i].kind = srcs[i].kind /\ srcs2[i].config = srcs[i].config
  /\ DOMAIN rws \subseteq DOMAIN rws2
  /\ \A k \in DOMAIN rws : rws2[k] = rws[k]

LEMMA StillInHand ==
  ASSUME NEW srcs, NEW srcs2, NEW rws, NEW rws2, Grown(srcs, srcs2, rws, rws2),
         NEW c, InHand(c, srcs, rws)
  PROVE  InHand(c, srcs2, rws2)
  <1>1. c.queue \in Seq(DOMAIN srcs2)
    BY SeqMonotonic DEF InHand, Grown
  <1>2. ASSUME c.pc = "store"
        PROVE  /\ c.source \in DOMAIN srcs2
               /\ \A item \in c.seen :
                    /\ BelongsTo(item.hash, item.at, srcs2, c.source)
                    /\ IsKept(c.source, item, rws2) \/ \E i \in DOMAIN c.todo : item = c.todo[i]
    BY <1>2 DEF InHand, Grown, BelongsTo, IsKept
  <1>3. ASSUME c.pc = "scan"
        PROVE  /\ c.source \in DOMAIN srcs2
               /\ srcs2[c.source].kind = c.kind /\ srcs2[c.source].config = Config(c.kind, c.file, "")
    BY <1>3 DEF InHand, Grown
  <1> QED
    BY <1>1, <1>2, <1>3 DEF InHand

LEMMA StillTold ==
  ASSUME NEW srcs, NEW srcs2, NEW rws, Grown(srcs, srcs2, rws, rws), RowsTold(srcs, rws)
  PROVE  RowsTold(srcs2, rws)
  BY DEF RowsTold, Grown, BelongsTo

\* A step of one process, with what it does to the tables.
LEMMA FilesStep ==
  ASSUME FilesInv, NEW p \in Callers, NEW c, call' = [call EXCEPT ![p] = c],
         InHand(c, sources', rows'), Grown(sources, sources', rows, rows'),
         Told(sources'), RowsTold(sources', rows'),
         \A t \in taken' \ taken : IsKept(t[1], t[2], rows'),
         UNCHANGED <<draft, pages>>
  PROVE  FilesInv'
  <1>1. DOMAIN call' = Callers /\ \A q \in Callers : call'[q] = IF q = p THEN c ELSE call[q]
    BY DEF FilesInv
  <1>2. \A q \in Callers : InHand(call'[q], sources', rows')
    BY <1>1, StillInHand DEF FilesInv
  <1>3. AllKept'
    <2>1. SUFFICES ASSUME NEW t \in taken' PROVE IsKept(t[1], t[2], rows')
      BY DEF AllKept, IsKept, OneTimeEach
    <2>2. CASE t \in taken
      BY <2>2 DEF FilesInv, AllKept, IsKept, Grown
    <2> QED
      BY <2>2
  <1> QED
    BY <1>1, <1>2, <1>3 DEF FilesInv

\* One that leaves the tables alone.
LEMMA HandStep ==
  ASSUME FilesInv, NEW p \in Callers, NEW c, call' = [call EXCEPT ![p] = c],
         InHand(c, sources, rows), UNCHANGED <<sources, rows, taken, draft, pages>>
  PROVE  FilesInv'
  <1>1. Grown(sources, sources', rows, rows')
    BY DEF Grown
  <1>2. InHand(c, sources', rows') /\ Told(sources') /\ RowsTold(sources', rows')
    BY DEF FilesInv
  <1> QED
    BY <1>1, <1>2, FilesStep

LEMMA RestingIsInHand ==
  ASSUME NEW srcs, NEW rws
  PROVE  InHand(Resting, srcs, rws)
  <1>1. Resting.queue \in Seq(DOMAIN srcs) /\ Resting.todo \in Seq({})
    BY DEF Resting
  <1>2. DOMAIN Resting = CallFields /\ Resting.pc = "rest"
    BY DEF Resting, CallFields
  <1> QED
    BY <1>1, <1>2 DEF InHand

\* Giving a command, whatever the command is.
LEMMA GiveStep ==
  ASSUME FilesInv, NEW p \in Callers, NEW c, Give(p, c), InHand(c, sources, rows)
  PROVE  FilesInv'
  BY HandStep DEF Give

LEMMA CommandSteps ==
  ASSUME FilesInv, NEW p \in Callers,
         \/ \E f \in Paths : AddSource(p, f) \/ Ingest(p, f) \/ JournalImport(p, f)
         \/ \E text \in Said : JournalAdd(p, text)
         \/ Sync(p)
  PROVE  FilesInv'
  <1>0. /\ DOMAIN Resting = CallFields
        /\ Resting.queue \in Seq(DOMAIN sources) /\ Resting.todo \in Seq({})
    BY DEF Resting, CallFields
  <1>1. ASSUME NEW f \in Paths, AddSource(p, f) PROVE FilesInv'
    <2> DEFINE c == [Resting EXCEPT !.pc = "find", !.cmd = "add", !.kind = KindOf[f], !.file = f]
    <2>1. Give(p, c) /\ KindOf[f] # "journal"
      BY <1>1 DEF AddSource
    <2>2. /\ DOMAIN c = CallFields /\ c.pc = "find" /\ c.cmd = "add" /\ c.kind = KindOf[f] /\ c.file = f
          /\ c.queue = Resting.queue /\ c.todo = Resting.todo
      BY <1>0 DEF CallFields
    <2> HIDE DEF c
    <2>3. InHand(c, sources, rows)
      BY <1>0, <2>1, <2>2 DEF InHand
    <2> QED
      BY <2>1, <2>3, GiveStep
  <1>2. ASSUME NEW f \in Paths, Ingest(p, f) PROVE FilesInv'
    <2> DEFINE c == [Resting EXCEPT !.pc = "find", !.cmd = "ingest", !.kind = KindOf[f], !.file = f]
    <2>1. Give(p, c) /\ KindOf[f] # "journal"
      BY <1>2 DEF Ingest
    <2>2. /\ DOMAIN c = CallFields /\ c.pc = "find" /\ c.cmd = "ingest" /\ c.kind = KindOf[f] /\ c.file = f
          /\ c.queue = Resting.queue /\ c.todo = Resting.todo
      BY <1>0 DEF CallFields
    <2> HIDE DEF c
    <2>3. InHand(c, sources, rows)
      BY <1>0, <2>1, <2>2 DEF InHand
    <2> QED
      BY <2>1, <2>3, GiveStep
  <1>3. ASSUME NEW f \in Paths, JournalImport(p, f) PROVE FilesInv'
    <2> DEFINE c == [Resting EXCEPT !.pc = "find", !.cmd = "import", !.kind = "journal", !.file = f]
    <2>1. Give(p, c) /\ KindOf[f] = "journal"
      BY <1>3 DEF JournalImport
    <2>2. /\ DOMAIN c = CallFields /\ c.pc = "find" /\ c.cmd = "import" /\ c.kind = "journal" /\ c.file = f
          /\ c.queue = Resting.queue /\ c.todo = Resting.todo
      BY <1>0 DEF CallFields
    <2> HIDE DEF c
    <2>3. InHand(c, sources, rows)
      BY <1>0, <2>1, <2>2 DEF InHand
    <2> QED
      BY <2>1, <2>3, GiveStep
  <1>4. ASSUME NEW text \in Said, JournalAdd(p, text) PROVE FilesInv'
    <2> DEFINE e == [hash |-> EntryHash("", calls, <<text>>), at |-> calls,
                     kind |-> "utterance", salience |-> 3, sensitivity |-> "private"]
               c == [Resting EXCEPT !.pc = "find", !.kind = "journal", !.cmd = "say", !.todo = <<e>>]
    <2>1. Give(p, [Resting EXCEPT !.pc = "find", !.cmd = "say", !.kind = "journal", !.todo = <<e>>])
      BY <1>4 DEF JournalAdd
    <2>2. e.hash[1] = "entry" /\ e.hash[2] = "" /\ e.hash[3] = calls /\ e.at = calls
      BY DEF EntryHash
    <2>3. Belongs(e.hash, e.at, "journal", "")
      <3> HIDE DEF e
      <3> QED
        BY <2>2 DEF Belongs, Dated
    <2> HIDE DEF e
    <2>4. [Resting EXCEPT !.pc = "find", !.cmd = "say", !.kind = "journal", !.todo = <<e>>] = c
      BY <1>0 DEF CallFields
    <2>5. /\ DOMAIN c = CallFields /\ c.pc = "find" /\ c.cmd = "say" /\ c.kind = "journal"
          /\ c.queue = Resting.queue /\ c.todo = <<e>>
      BY <1>0 DEF CallFields
    <2> HIDE DEF c
    <2>6. InHand(c, sources, rows)
      <3>1. c.todo \in Seq({e}) /\ \A i \in DOMAIN c.todo : c.todo[i] = e
        BY <2>5
      <3> QED
        BY <1>0, <2>3, <2>5, <3>1 DEF InHand
    <2> QED
      BY <2>1, <2>4, <2>6, GiveStep
  <1>5. ASSUME Sync(p) PROVE FilesInv'
    <2> DEFINE q == [i \in DOMAIN sources |-> i]
               c == [Resting EXCEPT !.pc = "next", !.cmd = "sync", !.queue = q]
    <2>1. Give(p, c)
      BY <1>5 DEF Sync
    <2>2. q \in Seq(DOMAIN sources)
      <3>1. PICK S : sources \in Seq(S)
        BY DEF FilesInv, Told
      <3>2. DOMAIN sources = 1 .. Len(sources) /\ Len(sources) \in Nat
        BY <3>1
      <3> QED
        BY <3>2
    <2>3. /\ DOMAIN c = CallFields /\ c.pc = "next" /\ c.queue = q /\ c.todo = Resting.todo
      BY <1>0 DEF CallFields
    <2> HIDE DEF c, q
    <2>4. InHand(c, sources, rows)
      BY <1>0, <2>2, <2>3 DEF InHand
    <2> QED
      BY <2>1, <2>4, GiveStep
  <1> QED
    BY <1>1, <1>2, <1>3, <1>4, <1>5

\* Looking for a source finds one of this kind and configuration.
LEMMA FindStep ==
  ASSUME FilesInv, NEW p \in Callers, FindSource(p)
  PROVE  FilesInv'
  <1> DEFINE k == call[p]
             same == Same(k.kind, Config(k.kind, k.file, k.cmd))
             c == [k EXCEPT !.pc = IF same = {} THEN "insert" ELSE "scan",
                            !.source = IF same = {} THEN 0 ELSE TheFirst(same)]
  <1>1. /\ k.pc = "find" /\ InHand(k, sources, rows)
        /\ call' = [call EXCEPT ![p] = c]
        /\ UNCHANGED <<sources, rows, taken, draft, pages>>
    BY DEF FindSource, FilesInv
  <1>2. same # {} => TheFirst(same) \in same
    <2>1. PICK S : sources \in Seq(S)
      BY DEF FilesInv, Told
    <2>2. DOMAIN sources = 1 .. Len(sources) /\ Len(sources) \in Nat
      BY <2>1
    <2>3. IsFiniteSet(DOMAIN sources) /\ DOMAIN sources \subseteq Int
      BY <2>2, FS_Interval
    <2>4. same \subseteq DOMAIN sources
      BY DEF Same
    <2> HIDE DEF same
    <2> QED
      BY <2>3, <2>4, FS_Subset, TheFirstIsIn
  <1>3. Config(k.kind, k.file, k.cmd) = Config(k.kind, k.file, "")
    BY DEF Config
  <1>4. \A i \in same : i \in DOMAIN sources /\ sources[i].kind = k.kind
                        /\ sources[i].config = Config(k.kind, k.file, "")
    BY <1>3 DEF Same
  <1> HIDE DEF same
  <1>5. DOMAIN k = CallFields
    BY <1>1 DEF InHand
  <1>6. /\ DOMAIN c = CallFields
        /\ c.todo = k.todo /\ c.queue = k.queue /\ c.cmd = k.cmd /\ c.kind = k.kind /\ c.file = k.file
    BY <1>5 DEF CallFields
  <1>7. \/ c.pc = "insert"
        \/ c.pc = "scan" /\ c.source \in same
    BY <1>2, <1>5 DEF CallFields
  <1> HIDE DEF c
  <1>8. InHand(c, sources, rows)
    BY <1>1, <1>4, <1>6, <1>7 DEF InHand
  <1> QED
    BY <1>1, <1>8, HandStep

\* A sequence and what is appended to it, whatever its elements are.
LEMMA Lengthened ==
  ASSUME NEW S, NEW s \in Seq(S), NEW e
  PROVE  /\ \E T : Append(s, e) \in Seq(T)
         /\ DOMAIN s \subseteq DOMAIN Append(s, e)
         /\ Len(s) + 1 \in DOMAIN Append(s, e) /\ Len(s) + 1 \notin DOMAIN s
         /\ \A i \in DOMAIN Append(s, e) : i \in DOMAIN s \/ i = Len(s) + 1
         /\ \A i \in DOMAIN s : Append(s, e)[i] = s[i]
         /\ Append(s, e)[Len(s) + 1] = e
  <1> DEFINE T == S \cup {e}
  <1>1. s \in Seq(T) /\ e \in T
    BY SeqMonotonic
  <1> HIDE DEF T
  <1>2. /\ Append(s, e) \in Seq(T) /\ Len(Append(s, e)) = Len(s) + 1
        /\ \A i \in 1 .. Len(s) : Append(s, e)[i] = s[i]
        /\ Append(s, e)[Len(s) + 1] = e
    BY <1>1, AppendProperties
  <1>3. Len(s) \in Nat /\ DOMAIN s = 1 .. Len(s) /\ DOMAIN Append(s, e) = 1 .. Len(Append(s, e))
    BY <1>1, <1>2, LenProperties
  <1> QED
    BY <1>2, <1>3

\* A row of table source that no process has.
LEMMA AppendedIsTold ==
  ASSUME NEW srcs, Told(srcs), NEW row, DOMAIN row = SourceFields,
         NEW file, row.config = Config(row.kind, file, ""),
         \/ row.kind = "journal"
         \/ file \in Paths /\ row.kind = KindOf[file] /\ row.kind # "journal",
         \A i \in DOMAIN srcs : ~(srcs[i].kind = row.kind /\ srcs[i].config = row.config)
  PROVE  /\ Told(Append(srcs, row))
         /\ \A rws : Grown(srcs, Append(srcs, row), rws, rws)
         /\ Len(srcs) + 1 \in DOMAIN Append(srcs, row)
         /\ Append(srcs, row)[Len(srcs) + 1] = row
  <1> DEFINE more == Append(srcs, row)
  <1>1. PICK S : srcs \in Seq(S)
    BY DEF Told
  <1> DEFINE n == Len(srcs)
  <1>2. /\ \E T : more \in Seq(T)
        /\ DOMAIN srcs \subseteq DOMAIN more /\ n + 1 \in DOMAIN more /\ n + 1 \notin DOMAIN srcs
        /\ \A i \in DOMAIN more : i \in DOMAIN srcs \/ i = n + 1
        /\ \A i \in DOMAIN srcs : more[i] = srcs[i]
        /\ more[n + 1] = row
    BY <1>1, Lengthened
  <1> HIDE DEF more, n
  <1>4. /\ row.config = Config(row.kind, LocationOf(row.config), "")
        /\ \/ row.kind = "journal" /\ LocationOf(row.config) = ""
           \/ /\ LocationOf(row.config) \in Paths
              /\ row.kind = KindOf[LocationOf(row.config)] /\ row.kind # "journal"
    <2>1. CASE row.kind = "journal"
      <3>1. row.config = <<"location", "">>
        BY <2>1 DEF Config
      <3>2. LocationOf(<<"location", "">>) = ""
        BY DEF LocationOf
      <3> QED
        BY <2>1, <3>1, <3>2 DEF Config
    <2>2. CASE row.kind # "journal"
      <3>1. row.config[1] = "location" /\ row.config[2] = file
        BY <2>2 DEF Config
      <3>2. LocationOf(row.config) = file
        BY <3>1 DEF LocationOf
      <3> QED
        BY <2>2, <3>2
    <2> QED
      BY <2>1, <2>2
  <1>5. \A i \in DOMAIN more :
          /\ DOMAIN more[i] = SourceFields
          /\ more[i].config = Config(more[i].kind, LocationOf(more[i].config), "")
          /\ \/ more[i].kind = "journal" /\ LocationOf(more[i].config) = ""
             \/ /\ LocationOf(more[i].config) \in Paths
                /\ more[i].kind = KindOf[LocationOf(more[i].config)] /\ more[i].kind # "journal"
    <2>1. SUFFICES ASSUME NEW i \in DOMAIN more
                   PROVE  /\ DOMAIN more[i] = SourceFields
                          /\ more[i].config = Config(more[i].kind, LocationOf(more[i].config), "")
                          /\ \/ more[i].kind = "journal" /\ LocationOf(more[i].config) = ""
                             \/ /\ LocationOf(more[i].config) \in Paths
                                /\ more[i].kind = KindOf[LocationOf(more[i].config)] /\ more[i].kind # "journal"
      OBVIOUS
    <2>2. CASE i \in DOMAIN srcs
      BY <1>2, <2>2 DEF Told
    <2>3. CASE i = n + 1
      BY <1>2, <1>4, <2>3
    <2> QED
      BY <1>2, <2>2, <2>3
  <1>6. \A i, j \in DOMAIN more :
          more[i].kind = more[j].kind /\ more[i].config = more[j].config => i = j
    <2>1. SUFFICES ASSUME NEW i \in DOMAIN more, NEW j \in DOMAIN more,
                          more[i].kind = more[j].kind, more[i].config = more[j].config
                   PROVE  i = j
      OBVIOUS
    <2>2. CASE i \in DOMAIN srcs /\ j \in DOMAIN srcs
      BY <1>2, <2>1, <2>2 DEF Told
    <2>3. CASE i = n + 1 /\ j \in DOMAIN srcs
      BY <1>2, <2>1, <2>3
    <2>4. CASE i \in DOMAIN srcs /\ j = n + 1
      BY <1>2, <2>1, <2>4
    <2> QED
      BY <1>2, <2>2, <2>3, <2>4
  <1>7. Told(more)
    BY <1>2, <1>5, <1>6 DEF Told
  <1>8. n + 1 \in DOMAIN more /\ DOMAIN srcs \subseteq DOMAIN more
    BY <1>2
  <1>9. \A rws : Grown(srcs, more, rws, rws)
    BY <1>2, <1>8 DEF Grown
  <1> QED
    BY <1>2, <1>7, <1>8, <1>9 DEF more, n

LEMMA InsertSourceStep ==
  ASSUME FilesInv, NEW p \in Callers, InsertSource(p)
  PROVE  FilesInv'
  <1> DEFINE k == call[p]
             config == Config(k.kind, k.file, k.cmd)
             plan == PlanFor(k.kind, Schema, FALSE)
             row == [kind |-> k.kind, config |-> config, trust |-> plan.trust,
                     sensitivity |-> plan.sensitivity, cursor |-> 0]
             c == [k EXCEPT !.pc = "scan", !.source = Len(sources) + 1]
  <1>1. k.pc = "insert" /\ InHand(k, sources, rows) /\ UNCHANGED <<rows, taken, draft, pages>>
    BY DEF InsertSource, FilesInv
  <1>2. CASE Same(k.kind, config) # {}
    <2>1. call' = [call EXCEPT ![p] = Resting] /\ sources' = sources
      BY <1>2 DEF InsertSource, Rest
    <2> QED
      BY <1>1, <2>1, HandStep, RestingIsInHand
  <1>3. CASE Same(k.kind, config) = {}
    <2>1. sources' = Append(sources, row) /\ call' = [call EXCEPT ![p] = c]
      BY <1>3 DEF InsertSource
    <2>2. config = Config(k.kind, k.file, "")
      BY DEF Config
    <2>3. \A i \in DOMAIN sources : ~(sources[i].kind = k.kind /\ sources[i].config = config)
      BY <1>3 DEF Same
    <2> HIDE DEF config, plan
    <2>4. DOMAIN row = SourceFields /\ row.kind = k.kind /\ row.config = config
      BY DEF SourceFields
    <2> HIDE DEF row
    <2>5. k.kind = "journal" \/ (k.file \in Paths /\ k.kind = KindOf[k.file] /\ k.kind # "journal")
      BY <1>1 DEF InHand
    <2>6. Told(sources)
      BY DEF FilesInv
    <2>7. /\ Told(sources') /\ \A rws : Grown(sources, sources', rws, rws)
          /\ Len(sources) + 1 \in DOMAIN sources' /\ sources'[Len(sources) + 1] = row
      <3>1. DOMAIN row = SourceFields /\ row.config = Config(row.kind, k.file, "")
        BY <2>2, <2>4
      <3>2. \/ row.kind = "journal"
            \/ k.file \in Paths /\ row.kind = KindOf[k.file] /\ row.kind # "journal"
        BY <2>4, <2>5
      <3>3. \A i \in DOMAIN sources : ~(sources[i].kind = row.kind /\ sources[i].config = row.config)
        BY <2>3, <2>4
      <3> HIDE DEF k
      <3>4. /\ Told(Append(sources, row)) /\ \A rws : Grown(sources, Append(sources, row), rws, rws)
            /\ Len(sources) + 1 \in DOMAIN Append(sources, row)
            /\ Append(sources, row)[Len(sources) + 1] = row
        BY <2>6, <3>1, <3>2, <3>3, AppendedIsTold
      <3> QED
        BY <2>1, <3>4
    <2>8. Grown(sources, sources', rows, rows') /\ RowsTold(sources', rows')
      <3>1. RowsTold(sources, rows)
        BY DEF FilesInv
      <3> QED
        BY <1>1, <2>7, <3>1, StillTold
    <2>9. InHand(k, sources', rows')
      BY <1>1, <2>8, StillInHand
    <2>10. DOMAIN k = CallFields
      BY <1>1 DEF InHand
    <2>11. /\ DOMAIN c = CallFields /\ c.pc = "scan" /\ c.source = Len(sources) + 1
           /\ c.todo = k.todo /\ c.queue = k.queue /\ c.cmd = k.cmd /\ c.kind = k.kind /\ c.file = k.file
      BY <2>10 DEF CallFields
    <2> HIDE DEF c, k
    <2>12. InHand(c, sources', rows')
      BY <1>1, <2>2, <2>4, <2>7, <2>9, <2>11 DEF InHand
    <2> QED
      BY <1>1, <2>1, <2>7, <2>8, <2>12, FilesStep
  <1> QED
    BY <1>2, <1>3

-----------------------------------------------------------------------------
\* A command that begins to store has all it has seen still to do.
LEMMA LoadedIsInHand ==
  ASSUME NEW srcs, NEW rws, NEW c, DOMAIN c = CallFields, c.pc = "store",
         c.queue \in Seq(DOMAIN srcs), c.source \in DOMAIN srcs, \E S : c.todo \in Seq(S),
         c.seen = {c.todo[i] : i \in DOMAIN c.todo},
         \A i \in DOMAIN c.todo : BelongsTo(c.todo[i].hash, c.todo[i].at, srcs, c.source)
  PROVE  InHand(c, srcs, rws)
  BY DEF InHand

LEMMA ScanStep ==
  ASSUME FilesInv, NEW p \in Callers, Scan(p)
  PROVE  FilesInv'
  <1> DEFINE k == call[p]
  <1>1. /\ k.pc = "scan" /\ InHand(k, sources, rows)
        /\ UNCHANGED <<sources, rows, taken, draft, pages>>
    BY DEF Scan, FilesInv
  <1>2. /\ DOMAIN k = CallFields /\ k.queue \in Seq(DOMAIN sources) /\ k.source \in DOMAIN sources
        /\ sources[k.source].kind = k.kind
        /\ k.kind # "journal" => LocationOf(sources[k.source].config) = k.file
    <2>1. LocationOf(Config(k.kind, k.file, "")) = k.file \/ k.kind = "journal"
      BY DEF LocationOf, Config
    <2> QED
      BY <1>1, <2>1 DEF InHand
  <1>3. ASSUME call' = [call EXCEPT ![p] = Resting] PROVE FilesInv'
    BY <1>1, <1>3, HandStep, RestingIsInHand
  <1>4. ASSUME NEW items, \E S : items \in Seq(S),
               \A i \in DOMAIN items : BelongsTo(items[i].hash, items[i].at, sources, k.source),
               call' = [call EXCEPT ![p].pc = "store", ![p].todo = items, ![p].seen = Range(items)]
        PROVE  FilesInv'
    <2> DEFINE c == [k EXCEPT !.pc = "store", !.todo = items, !.seen = Range(items)]
    <2>1. call' = [call EXCEPT ![p] = c]
      BY <1>4
    <2>2. /\ DOMAIN c = CallFields /\ c.pc = "store" /\ c.queue = k.queue /\ c.source = k.source
          /\ c.todo = items /\ c.seen = {items[i] : i \in DOMAIN items}
      BY <1>2 DEF CallFields, Range
    <2> HIDE DEF c
    <2>3. InHand(c, sources, rows)
      BY <1>2, <1>4, <2>2, LoadedIsInHand
    <2> QED
      BY <1>1, <2>1, <2>3, HandStep
  <1>5. CASE k.cmd = "say"
    <2>1. call' = [call EXCEPT ![p].pc = "store", ![p].seen = Range(k.todo)] /\ k.kind = "journal"
          /\ \A i \in DOMAIN k.todo : Belongs(k.todo[i].hash, k.todo[i].at, "journal", "")
      BY <1>1, <1>5 DEF Scan, InHand
    <2> DEFINE c == [k EXCEPT !.pc = "store", !.seen = Range(k.todo)]
    <2>2. call' = [call EXCEPT ![p] = c]
      BY <2>1
    <2>3. /\ DOMAIN c = CallFields /\ c.pc = "store" /\ c.queue = k.queue /\ c.source = k.source
          /\ c.todo = k.todo /\ c.seen = {c.todo[i] : i \in DOMAIN c.todo}
      BY <1>2 DEF CallFields, Range
    <2>4. LocationOf(sources[k.source].config) = ""
      BY <1>1, <1>2, <2>1 DEF FilesInv, Told, SourcesAssumption
    <2> HIDE DEF c
    <2>5. InHand(c, sources, rows)
      <3>1. \E S : k.todo \in Seq(S)
        BY <1>1 DEF InHand
      <3> QED
        BY <1>2, <2>1, <2>3, <2>4, <3>1, LoadedIsInHand DEF BelongsTo
    <2> QED
      BY <1>1, <2>2, <2>5, HandStep
  <1>6. CASE k.cmd = "add"
    <2>1. call' = [call EXCEPT ![p] = Resting]
      BY <1>6 DEF Scan, Rest
    <2> QED
      BY <2>1, <1>3
  <1>7. CASE k.cmd = "import"
    <2>1. k.kind = "journal" /\ k.file \in Paths /\ KindOf[k.file] = "journal"
      BY <1>1, <1>7 DEF InHand
    <2>2. CASE ~Exists(k.file)
      <3>1. call' = [call EXCEPT ![p] = Resting]
        BY <1>7, <2>2 DEF Scan, Rest
      <3> QED
        BY <3>1, <1>3
    <2>3. CASE Exists(k.file)
      <3> DEFINE items == Entries(k.file, Content(k.file))
      <3>1. call' = [call EXCEPT ![p].pc = "store", ![p].todo = items, ![p].seen = Range(items)]
        BY <1>7, <2>3 DEF Scan
      <3>2. /\ \E S : items \in Seq(S)
            /\ \A i \in DOMAIN items :
                 Belongs(items[i].hash, items[i].at, "journal", LocationOf(sources[k.source].config))
        BY <2>1, <2>3, EntriesBelong
      <3> HIDE DEF items
      <3>3. \A i \in DOMAIN items : BelongsTo(items[i].hash, items[i].at, sources, k.source)
        BY <1>2, <2>1, <3>2 DEF BelongsTo
      <3> QED
        BY <1>4, <3>1, <3>2, <3>3
    <2> QED
      BY <2>2, <2>3
  <1>8. CASE k.cmd = "ingest"
    <2>1. k.file \in Paths /\ k.kind = KindOf[k.file] /\ k.kind # "journal"
      BY <1>1, <1>8 DEF InHand
    <2>2. CASE ~Exists(k.file)
      <3>1. call' = [call EXCEPT ![p] = Resting]
        BY <1>8, <2>2 DEF Scan, Rest
      <3> QED
        BY <3>1, <1>3
    <2>3. CASE Exists(k.file)
      <3> DEFINE items == Offers(k.kind, k.file)
      <3>1. call' = [call EXCEPT ![p].pc = "store", ![p].todo = items, ![p].seen = Range(items)]
        BY <1>8, <2>3 DEF Scan
      <3>2. /\ \E S : items \in Seq(S)
            /\ \A i \in DOMAIN items : Belongs(items[i].hash, items[i].at, k.kind, k.file)
        BY <2>1, <2>3, OffersBelong
      <3> HIDE DEF items
      <3>3. \A i \in DOMAIN items : BelongsTo(items[i].hash, items[i].at, sources, k.source)
        BY <1>2, <2>1, <3>2 DEF BelongsTo
      <3> QED
        BY <1>4, <3>1, <3>2, <3>3
    <2> QED
      BY <2>2, <2>3
  <1>9. k.cmd \in {"say", "add", "import", "ingest"}
    BY <1>1 DEF InHand
  <1> QED
    BY <1>5, <1>6, <1>7, <1>8, <1>9

\* The next source of a sync.
LEMMA NextSourceStep ==
  ASSUME FilesInv, NEW p \in Callers, NextSource(p)
  PROVE  FilesInv'
  <1> DEFINE k == call[p]
  <1>1. /\ k.pc = "next" /\ InHand(k, sources, rows)
        /\ UNCHANGED <<sources, rows, taken, draft, pages>>
    BY DEF NextSource, FilesInv
  <1>2. CASE k.queue = <<>>
    <2>1. call' = [call EXCEPT ![p] = Resting]
      BY <1>2 DEF NextSource, Rest
    <2> QED
      BY <1>1, <2>1, HandStep, RestingIsInHand
  <1>3. CASE k.queue # <<>>
    <2> DEFINE s == Head(k.queue)
               f == LocationOf(sources[s].config)
               lost == f \in Paths /\ ~Exists(f)
               items == IF f \in Paths THEN Offers(sources[s].kind, f) ELSE <<>>
               c == [k EXCEPT !.queue = Tail(@), !.pc = IF lost THEN "next" ELSE "store",
                              !.source = IF lost THEN 0 ELSE s, !.todo = IF lost THEN <<>> ELSE items,
                              !.seen = IF lost THEN {} ELSE Range(items)]
    <2>1. call' = [call EXCEPT ![p] = c]
      BY <1>3 DEF NextSource
    <2>2. /\ k.queue \in Seq(DOMAIN sources) /\ DOMAIN k = CallFields
      BY <1>1 DEF InHand
    <2>3. s \in DOMAIN sources /\ Tail(k.queue) \in Seq(DOMAIN sources)
      <3>1. k.queue # <<>> /\ k.queue \in Seq(DOMAIN sources)
        BY <1>3, <2>2
      <3> HIDE DEF k
      <3> QED
        BY <3>1, HeadTailProperties
    <2>4. /\ DOMAIN c = CallFields /\ c.queue = Tail(k.queue)
          /\ lost => c.pc = "next" /\ c.todo = <<>>
          /\ ~lost => c.pc = "store" /\ c.source = s /\ c.todo = items /\ c.seen = Range(items)
      BY <2>2 DEF CallFields
    <2>5. f \in Paths => sources[s].kind = KindOf[f] /\ KindOf[f] # "journal"
      BY <2>3, SourcesAssumption DEF FilesInv, Told, SourcesAssumption
    <2> HIDE DEF s
    <2>6. ~lost => /\ \E S : items \in Seq(S)
                   /\ \A i \in DOMAIN items : BelongsTo(items[i].hash, items[i].at, sources, s)
      <3>1. CASE f \in Paths /\ Exists(f)
        <4>1. items = Offers(KindOf[f], f)
          BY <2>5, <3>1
        <4>2. /\ \E S : items \in Seq(S)
              /\ \A i \in DOMAIN items : Belongs(items[i].hash, items[i].at, KindOf[f], f)
          <5> HIDE DEF f, items
          <5> QED
            BY <2>5, <3>1, <4>1, OffersBelong
        <4> HIDE DEF items
        <4> QED
          BY <2>5, <3>1, <4>2 DEF BelongsTo
      <3>2. CASE f \notin Paths
        <4>1. items = <<>> /\ items \in Seq({})
          BY <3>2
        <4> QED
          BY <4>1
      <3> QED
        BY <3>1, <3>2
    <2> HIDE DEF c, items, lost
    <2>7. InHand(c, sources, rows)
      <3>1. CASE lost
        <4>1. c.todo = <<>> /\ <<>> \in Seq({})
          BY <2>4, <3>1
        <4> QED
          BY <2>3, <2>4, <3>1, <4>1 DEF InHand
      <3>2. CASE ~lost
        BY <2>3, <2>4, <2>6, <3>2, LoadedIsInHand DEF Range
      <3> QED
        BY <3>1, <3>2
    <2> QED
      BY <1>1, <2>1, <2>7, HandStep
  <1> QED
    BY <1>2, <1>3

-----------------------------------------------------------------------------
LEMMA Shortened ==
  ASSUME NEW S, NEW s \in Seq(S), s # <<>>
  PROVE  /\ \E T : Tail(s) \in Seq(T)
         /\ \E i \in DOMAIN s : Head(s) = s[i]
         /\ \A i \in DOMAIN Tail(s) : \E j \in DOMAIN s : Tail(s)[i] = s[j]
         /\ \A i \in DOMAIN s : s[i] = Head(s) \/ \E j \in DOMAIN Tail(s) : s[i] = Tail(s)[j]
  <1> DEFINE n == Len(s)
             t == Tail(s)
  <1>1. /\ n \in Nat \ {0} /\ DOMAIN s = 1 .. n /\ Head(s) = s[1]
        /\ t \in Seq(S) /\ DOMAIN t = 1 .. n - 1 /\ \A i \in 1 .. n - 1 : t[i] = s[i + 1]
    BY EmptySeq, LenProperties, HeadTailProperties
  <1>2. 1 \in 1 .. n /\ \A i \in 1 .. n - 1 : i + 1 \in 1 .. n
    BY <1>1
  <1>3. \A i \in 1 .. n : i = 1 \/ (i - 1 \in 1 .. n - 1 /\ (i - 1) + 1 = i)
    BY <1>1
  <1> HIDE DEF n, t
  <1>4. \A i \in DOMAIN t : \E j \in DOMAIN s : t[i] = s[j]
    BY <1>1, <1>2
  <1>5. \A i \in DOMAIN s : s[i] = Head(s) \/ \E j \in DOMAIN t : s[i] = t[j]
    BY <1>1, <1>3
  <1> QED
    BY <1>1, <1>2, <1>4, <1>5 DEF t

LEMMA StoreStep ==
  ASSUME FilesInv, NEW p \in Callers, Store(p)
  PROVE  FilesInv'
  <1> DEFINE k == call[p]
             item == Head(k.todo)
             key == <<k.source, item.hash>>
             c == [k EXCEPT !.todo = Tail(@)]
  <1>1. /\ k.pc = "store" /\ k.todo # <<>> /\ InHand(k, sources, rows)
        /\ call' = [call EXCEPT ![p] = c]
        /\ rows' = IF key \in DOMAIN rows THEN rows
                   ELSE [x \in DOMAIN rows \cup {key} |-> IF x = key THEN item ELSE rows[x]]
        /\ UNCHANGED <<sources, taken, draft, pages>>
    BY DEF Store, FilesInv
  <1>2. /\ DOMAIN k = CallFields /\ k.queue \in Seq(DOMAIN sources) /\ k.source \in DOMAIN sources
        /\ \E S : k.todo \in Seq(S)
        /\ \A i \in DOMAIN k.todo : k.todo[i] \in k.seen
    BY <1>1 DEF InHand
  <1>3. /\ \E T : Tail(k.todo) \in Seq(T)
        /\ \E i \in DOMAIN k.todo : item = k.todo[i]
        /\ \A i \in DOMAIN Tail(k.todo) : \E j \in DOMAIN k.todo : Tail(k.todo)[i] = k.todo[j]
        /\ \A i \in DOMAIN k.todo : k.todo[i] = item \/ \E j \in DOMAIN Tail(k.todo) : k.todo[i] = Tail(k.todo)[j]
    <2> DEFINE s == k.todo
    <2>1. s # <<>> /\ \E S : s \in Seq(S)
      BY <1>1, <1>2
    <2> HIDE DEF s
    <2>2. /\ \E T : Tail(s) \in Seq(T)
          /\ \E i \in DOMAIN s : Head(s) = s[i]
          /\ \A i \in DOMAIN Tail(s) : \E j \in DOMAIN s : Tail(s)[i] = s[j]
          /\ \A i \in DOMAIN s : s[i] = Head(s) \/ \E j \in DOMAIN Tail(s) : s[i] = Tail(s)[j]
      BY <2>1, Shortened
    <2> QED
      BY <2>2 DEF s
  <1>4. /\ DOMAIN c = CallFields /\ c.pc = "store" /\ c.queue = k.queue /\ c.source = k.source
        /\ c.todo = Tail(k.todo) /\ c.seen = k.seen
    BY <1>1, <1>2 DEF CallFields
  <1>5. item \in k.seen /\ BelongsTo(item.hash, item.at, sources, k.source)
    BY <1>1, <1>2, <1>3 DEF InHand
  <1> HIDE DEF item, c, k
  <1>6. key[1] = k.source /\ key[2] = item.hash /\ key = <<key[1], key[2]>>
    OBVIOUS
  <1> HIDE DEF key
  <1>7. Grown(sources, sources', rows, rows')
    BY <1>1 DEF Grown
  <1>8. RowsTold(sources', rows')
    <2>1. CASE key \in DOMAIN rows
      BY <1>1, <2>1 DEF FilesInv
    <2>2. CASE key \notin DOMAIN rows
      <3>1. /\ DOMAIN rows' = DOMAIN rows \cup {key}
            /\ \A x \in DOMAIN rows : rows'[x] = rows[x]
            /\ rows'[key] = item
        BY <1>1, <2>2
      <3>2. RowsTold(sources, rows)
        BY DEF FilesInv
      <3> QED
        BY <1>1, <1>2, <1>5, <1>6, <3>1, <3>2 DEF RowsTold
    <2> QED
      BY <2>1, <2>2
  <1>9. IsKept(k.source, item, rows')
    <2>1. CASE key \in DOMAIN rows
      <3>4. BelongsTo(item.hash, rows[key].at, sources, k.source)
        BY <1>6, <2>1 DEF FilesInv, RowsTold
      <3>5. item.hash[1] = "row" /\ OneTimeEach => rows[key].at = item.at
        BY <1>5, <3>4, LogsAgree DEF BelongsTo, Belongs
      <3>1. item.hash[1] = "entry" => Dated(item.hash, item.at)
        BY <1>5 DEF BelongsTo, Belongs
      <3>2. item.hash[1] = "entry" => Dated(item.hash, rows[key].at)
        <4>1. BelongsTo(key[2], rows[key].at, sources, key[1])
          BY <2>1 DEF FilesInv, RowsTold
        <4> QED
          BY <1>6, <4>1 DEF BelongsTo, Belongs
      <3>3. item.hash[1] = "entry" => rows[key].at = item.at
        BY <3>1, <3>2, DatesAgree
      <3> QED
        BY <1>1, <2>1, <3>3, <3>5 DEF IsKept, key
    <2>2. CASE key \notin DOMAIN rows
      <3>1. key \in DOMAIN rows' /\ rows'[key] = item
        BY <1>1, <2>2
      <3> QED
        BY <3>1 DEF IsKept, key
    <2> QED
      BY <2>1, <2>2
  <1>10. InHand(k, sources', rows')
    BY <1>1, <1>7, StillInHand
  <1>11. InHand(c, sources', rows')
    <2>1. ASSUME NEW i \in DOMAIN c.todo PROVE c.todo[i] \in c.seen
      BY <1>2, <1>3, <1>4
    <2>2. ASSUME NEW x \in c.seen
          PROVE  /\ BelongsTo(x.hash, x.at, sources', c.source)
                 /\ IsKept(c.source, x, rows') \/ \E i \in DOMAIN c.todo : x = c.todo[i]
      <3>1. /\ BelongsTo(x.hash, x.at, sources', k.source)
            /\ IsKept(k.source, x, rows') \/ \E i \in DOMAIN k.todo : x = k.todo[i]
        BY <1>1, <1>4, <1>10 DEF InHand
      <3>2. ASSUME NEW i \in DOMAIN k.todo, x = k.todo[i]
            PROVE  IsKept(k.source, x, rows') \/ \E j \in DOMAIN Tail(k.todo) : x = Tail(k.todo)[j]
        BY <1>3, <1>9, <3>2
      <3> QED
        BY <1>4, <3>1, <3>2
    <2> QED
      BY <1>1, <1>2, <1>3, <1>4, <2>1, <2>2 DEF InHand
  <1>12. Told(sources')
    BY <1>1 DEF FilesInv
  <1> QED
    BY <1>1, <1>7, <1>8, <1>11, <1>12, FilesStep

\* A command has come through with what it saw: all of it is kept.
LEMMA PutAwayStep ==
  ASSUME FilesInv, NEW p \in Callers, Stored(p)
  PROVE  FilesInv'
  <1> DEFINE k == call[p]
             c == [k EXCEPT !.pc = "next", !.source = 0, !.seen = {}]
  <1>1. /\ k.pc = "store" /\ k.todo = <<>> /\ InHand(k, sources, rows)
        /\ taken' = taken \cup {<<k.source, item>> : item \in k.seen}
        /\ UNCHANGED <<rows, draft, pages>>
    BY DEF Stored, FilesInv
  <1>2. \A item \in k.seen : IsKept(k.source, item, rows)
    BY <1>1 DEF InHand
  <1>3. \A t \in taken' \ taken : IsKept(t[1], t[2], rows')
    BY <1>1, <1>2
  <1>4. /\ DOMAIN k = CallFields /\ k.queue \in Seq(DOMAIN sources) /\ k.source \in DOMAIN sources
    BY <1>1 DEF InHand
  <1>5. Told(sources) /\ RowsTold(sources, rows)
    BY DEF FilesInv
  <1>6. CASE k.cmd # "sync"
    <2>1. call' = [call EXCEPT ![p] = Resting] /\ sources' = sources
      BY <1>6 DEF Stored, Rest
    <2>2. Grown(sources, sources', rows, rows')
      BY <1>1, <2>1 DEF Grown
    <2> QED
      BY <1>1, <1>3, <1>5, <2>1, <2>2, FilesStep, RestingIsInHand
  <1>7. CASE k.cmd = "sync"
    <2>1. /\ call' = [call EXCEPT ![p] = c]
          /\ \E v : sources' = [sources EXCEPT ![k.source].cursor = v]
      BY <1>7 DEF Stored
    <2>2. PICK v : sources' = [sources EXCEPT ![k.source].cursor = v]
      BY <2>1
    <2>3. /\ DOMAIN sources' = DOMAIN sources
          /\ \A i \in DOMAIN sources :
               /\ DOMAIN sources'[i] = DOMAIN sources[i]
               /\ sources'[i].kind = sources[i].kind /\ sources'[i].config = sources[i].config
      <3>1. \A i \in DOMAIN sources : DOMAIN sources[i] = SourceFields
        BY DEF FilesInv, Told
      <3>2. DOMAIN sources' = DOMAIN sources
        BY <2>2
      <3>3. ASSUME NEW i \in DOMAIN sources, i # k.source PROVE sources'[i] = sources[i]
        BY <2>2, <3>3
      <3>4. sources'[k.source] = [sources[k.source] EXCEPT !.cursor = v]
        BY <1>4, <2>2
      <3> QED
        BY <1>4, <3>1, <3>2, <3>3, <3>4 DEF SourceFields
    <2>4. \E S : sources' \in Seq(S)
      <3>1. PICK S : sources \in Seq(S)
        BY <1>5 DEF Told
      <3> DEFINE n == Len(sources)
                 T == {sources'[i] : i \in 1 .. n}
      <3>2. n \in Nat /\ DOMAIN sources = 1 .. n
        BY <3>1, LenProperties
      <3>3. sources' \in [1 .. n -> T]
        BY <2>2, <2>3, <3>2
      <3>4. sources' \in Seq(T)
        <4> HIDE DEF n, T
        <4> QED
          BY <3>2, <3>3, SeqDef
      <3> QED
        BY <3>4
    <2>5. Told(sources')
      BY <1>5, <2>3, <2>4 DEF Told
    <2>6. Grown(sources, sources', rows, rows')
      BY <1>1, <2>3 DEF Grown
    <2>7. RowsTold(sources', rows')
      BY <1>1, <1>5, <2>6, StillTold
    <2>8. /\ DOMAIN c = CallFields /\ c.pc = "next" /\ c.queue = k.queue /\ c.todo = k.todo
      BY <1>4 DEF CallFields
    <2> HIDE DEF c
    <2>9. InHand(c, sources', rows')
      BY <1>1, <1>4, <2>3, <2>8 DEF InHand
    <2> QED
      BY <1>1, <1>3, <2>1, <2>5, <2>6, <2>7, <2>9, FilesStep
  <1> QED
    BY <1>6, <1>7

-----------------------------------------------------------------------------
\* A new draft of a file: an import of it starts over.
LEMMA WriteStep ==
  ASSUME FilesInv, NEW f \in Paths, Write(f)
  PROVE  FilesInv'
  <1>1. /\ draft[f] < Len(Drafts[f])
        /\ draft' = [draft EXCEPT ![f] = @ + 1] /\ pages' = [pages EXCEPT ![f] = FirstPage]
        /\ UNCHANGED <<sources, rows, call, calls, taken>>
    BY DEF Write
  <1>2. /\ DOMAIN draft' = Paths /\ DOMAIN pages' = Paths
        /\ \A g \in Paths \ {f} : draft'[g] = draft[g] /\ pages'[g] = pages[g]
        /\ draft'[f] = draft[f] + 1 /\ pages'[f] = FirstPage
    BY <1>1 DEF FilesInv
  <1>3. draft'[f] \in 1 .. Len(Drafts[f]) /\ draft'[f] \in DOMAIN Drafts[f]
    <2>1. Len(Drafts[f]) \in Nat \ {0} /\ DOMAIN Drafts[f] = 1 .. Len(Drafts[f])
      BY SourcesAssumption DEF SourcesAssumption
    <2>2. draft[f] \in 0 .. Len(Drafts[f])
      BY DEF FilesInv
    <2> QED
      BY <1>1, <1>2, <2>1, <2>2
  <1>4. PageTold(f, draft'[f], FirstPage)
    <2>1. /\ DOMAIN FirstPage = {"cursor", "got", "more"} /\ FirstPage.cursor = 0
          /\ FirstPage.got = {} /\ FirstPage.more = TRUE
      BY DEF FirstPage
    <2>2. KindOf[f] = "structured_log" =>
            \A k \in Scanned(Drafts[f][draft'[f]]) : RowAt(Drafts[f][draft'[f]][k]) \in Nat
      BY <1>3, RowsAreInTime DEF Scanned
    <2> QED
      BY <2>1, <2>2 DEF PageTold
  <1>5. \A g \in Paths : PageTold(g, draft'[g], pages'[g])
    BY <1>2, <1>4 DEF FilesInv
  <1>6. \A g \in Paths : draft'[g] \in 0 .. Len(Drafts[g])
    BY <1>2, <1>3 DEF FilesInv
  <1>7. \A p \in Callers : InHand(call'[p], sources', rows')
    BY <1>1 DEF FilesInv
  <1>8. AllKept'
    BY <1>1 DEF FilesInv, AllKept
  <1> QED
    BY <1>1, <1>2, <1>5, <1>6, <1>7, <1>8 DEF FilesInv

\* The order of rows, as pairs.
SoonerPairs(lines, S) == {p \in S \X S : Sooner(lines, p[1], p[2])}

\* One page more of a log.
LEMMA PageIsTold ==
  ASSUME NEW f \in Paths, KindOf[f] = "structured_log", NEW d \in DOMAIN Drafts[f], d > 0,
         NEW at, PageTold(f, d, at)
  PROVE  PageTold(f, d, NextPage(Drafts[f][d], at))
  <1> DEFINE lines == Drafts[f][d]
             due == Pending(lines, at.cursor)
             kept == FirstOf(due, PageRows, LAMBDA j, k : Sooner(lines, j, k))
             cursor2 == PageCursor(lines, at.cursor, kept)
             R == SoonerPairs(lines, due)
  <1>1. /\ at.cursor \in Nat /\ at.got \subseteq Scanned(lines)
        /\ \A k \in Scanned(lines) : RowAt(lines[k]) < at.cursor => k \in at.got
    BY DEF PageTold
  <1>2. /\ IsFiniteSet(Scanned(lines)) /\ Scanned(lines) \subseteq Int
        /\ \A k \in Scanned(lines) : RowAt(lines[k]) \in Nat
    <2>1. DOMAIN lines = 1 .. Len(lines) /\ Len(lines) \in Nat
      BY SourcesAssumption DEF SourcesAssumption
    <2>2. IsFiniteSet(DOMAIN lines) /\ DOMAIN lines \subseteq Int
      BY <2>1, FS_Interval
    <2>3. \A k \in Scanned(lines) : RowAt(lines[k]) \in Nat
      BY RowsAreInTime DEF Scanned
    <2>4. Scanned(lines) \subseteq DOMAIN lines
      BY DEF Scanned
    <2> HIDE DEF lines
    <2> QED
      BY <2>2, <2>3, <2>4, FS_Subset
  <1> HIDE DEF lines
  <1>3. /\ due \subseteq Scanned(lines) /\ IsFiniteSet(due) /\ due \subseteq Int
        /\ \A k \in due : RowAt(lines[k]) \in Nat
        /\ \A k \in Scanned(lines) : k \in due \/ RowAt(lines[k]) < at.cursor
    <2>1. due \subseteq Scanned(lines)
      BY DEF Pending
    <2>2. \A k \in Scanned(lines) : k \in due \/ RowAt(lines[k]) < at.cursor
      BY <1>1, <1>2 DEF Pending
    <2> HIDE DEF due
    <2> QED
      BY <1>2, <2>1, <2>2, FS_Subset
  <1> HIDE DEF due
  <1>4. Orders(R, due)
    BY <1>3 DEF Orders, SoonerPairs, Sooner
  <1>5. kept = Leading(R, due, PageRows)
    <2>1. \A i \in due : {j \in due : Sooner(lines, j, i)} = Under(R, due, i)
      BY DEF Under, SoonerPairs
    <2> QED
      BY <2>1 DEF FirstOf, Leading
  <1>6. PageRows \in Nat
    BY SourcesAssumption DEF SourcesAssumption
  <1>7. kept \subseteq due
    BY <1>5 DEF Leading
  <1>8. ASSUME NEW n \in kept, NEW m \in due, RowAt(lines[m]) < RowAt(lines[n]) PROVE m \in kept
    <2>1. <<m, n>> \in R
      BY <1>7, <1>8 DEF SoonerPairs, Sooner
    <2> HIDE DEF R, kept
    <2> QED
      BY <1>3, <1>4, <1>5, <1>6, <1>8, <2>1, LeadIsDown
  <1>9. Cardinality(due) <= PageRows => kept = due
    <2>1. SUFFICES ASSUME Cardinality(due) <= PageRows, NEW i \in due PROVE i \in kept
      BY <1>7
    <2> HIDE DEF R, kept
    <2>2. Under(R, due, i) \subseteq due /\ i \notin Under(R, due, i)
      BY <1>4 DEF Under, Orders
    <2>3. /\ Cardinality(Under(R, due, i)) <= Cardinality(due)
          /\ Cardinality(Under(R, due, i)) = Cardinality(due) => Under(R, due, i) = due
          /\ Cardinality(Under(R, due, i)) \in Nat /\ Cardinality(due) \in Nat
      BY <1>3, <2>2, FS_Subset, FS_CardinalityType
    <2>4. Cardinality(Under(R, due, i)) < Cardinality(due)
      BY <2>2, <2>3
    <2>5. Cardinality(Under(R, due, i)) < PageRows
      BY <1>6, <2>1, <2>3, <2>4
    <2> QED
      BY <1>5, <2>5 DEF Leading
  <1> HIDE DEF kept
  <1>10. /\ cursor2 \in Nat
         /\ kept = {} => cursor2 = at.cursor
         /\ kept # {} => \E n \in kept : cursor2 = RowAt(lines[n])
    <2>1. CASE kept = {}
      BY <1>1, <2>1 DEF PageCursor
    <2>2. CASE kept # {}
      <3> DEFINE Q == {p \in kept \X kept :
                        RowAt(lines[p[1]]) > RowAt(lines[p[2]])
                          \/ (RowAt(lines[p[1]]) = RowAt(lines[p[2]]) /\ p[1] < p[2])}
      <3>1. \A k \in kept : k \in Int /\ RowAt(lines[k]) \in Nat
        BY <1>3, <1>7
      <3>2. Orders(Q, kept)
        BY <3>1 DEF Orders
      <3>3. IsFiniteSet(kept)
        BY <1>3, <1>7, FS_Subset
      <3>4. PICK n \in kept : \A k \in kept : <<k, n>> \notin Q
        <4> HIDE DEF Q
        <4> QED
          BY <2>2, <3>2, <3>3, Earliest
      <3>5. \A k \in kept : ~(RowAt(lines[k]) > RowAt(lines[n]))
        BY <3>4
      <3>6. \A k \in kept : RowAt(lines[k]) <= RowAt(lines[n])
        BY <3>1, <3>5
      <3>7. \E t \in {RowAt(lines[k]) : k \in kept} : \A k \in kept : RowAt(lines[k]) <= t
        BY <3>6
      <3>8. cursor2 \in {RowAt(lines[k]) : k \in kept}
        BY <2>2, <3>7 DEF PageCursor
      <3> QED
        BY <2>2, <3>1, <3>8
    <2> QED
      BY <2>1, <2>2
  <1>11. NextPage(lines, at) = [cursor |-> cursor2, got |-> at.got \cup kept, more |-> Cardinality(due) > PageRows]
    BY DEF NextPage, due, kept
  <1> HIDE DEF cursor2
  <1>12. \A k \in Scanned(lines) : RowAt(lines[k]) < cursor2 => k \in at.got \cup kept
    <2>1. SUFFICES ASSUME NEW k \in Scanned(lines), RowAt(lines[k]) < cursor2, k \notin at.got PROVE k \in kept
      OBVIOUS
    <2>2. k \in due /\ RowAt(lines[k]) \in Nat /\ ~(RowAt(lines[k]) < at.cursor)
      BY <1>1, <1>2, <1>3, <2>1
    <2>3. kept # {}
      BY <1>10, <2>1, <2>2
    <2>4. PICK n \in kept : cursor2 = RowAt(lines[n])
      BY <1>10, <2>3
    <2> QED
      BY <1>8, <2>1, <2>2, <2>4
  <1>13. ~(Cardinality(due) > PageRows) => at.got \cup kept = Scanned(lines)
    <2>1. SUFFICES ASSUME ~(Cardinality(due) > PageRows) PROVE at.got \cup kept = Scanned(lines)
      OBVIOUS
    <2>2. Cardinality(due) \in Nat
      BY <1>3, FS_CardinalityType
    <2>3. kept = due
      BY <1>6, <1>9, <2>1, <2>2
    <2> QED
      BY <1>1, <1>3, <2>3
  <1>14. at.got \cup kept \subseteq Scanned(lines)
    BY <1>1, <1>3, <1>7
  <1>15. /\ DOMAIN NextPage(lines, at) = {"cursor", "got", "more"}
         /\ NextPage(lines, at).cursor = cursor2 /\ NextPage(lines, at).got = at.got \cup kept
         /\ NextPage(lines, at).more = (Cardinality(due) > PageRows)
    BY <1>11
  <1>16. PageTold(f, d, NextPage(lines, at))
    BY <1>2, <1>10, <1>12, <1>13, <1>14, <1>15 DEF PageTold, lines
  <1> QED
    BY <1>16 DEF lines

LEMMA PullPageStep ==
  ASSUME FilesInv, NEW f \in Paths, PullPage(f)
  PROVE  FilesInv'
  <1>1. /\ KindOf[f] = "structured_log" /\ Exists(f)
        /\ pages' = [pages EXCEPT ![f] = NextPage(Content(f), pages[f])]
        /\ UNCHANGED <<draft, sources, rows, call, calls, taken>>
    BY DEF PullPage
  <1>2. draft[f] \in DOMAIN Drafts[f] /\ draft[f] > 0 /\ Content(f) = Drafts[f][draft[f]]
    BY <1>1, DraftLines DEF Exists, Content
  <1>3. PageTold(f, draft[f], NextPage(Content(f), pages[f]))
    BY <1>1, <1>2, PageIsTold DEF FilesInv
  <1>4. /\ DOMAIN pages' = Paths /\ \A g \in Paths : PageTold(g, draft'[g], pages'[g])
    BY <1>1, <1>3 DEF FilesInv
  <1>5. \A p \in Callers : InHand(call'[p], sources', rows')
    BY <1>1 DEF FilesInv
  <1>6. AllKept'
    BY <1>1 DEF FilesInv, AllKept
  <1> QED
    BY <1>1, <1>4, <1>5, <1>6 DEF FilesInv

LEMMA FilesInit == SrcInit => FilesInv
  <1> SUFFICES ASSUME SrcInit PROVE FilesInv
    OBVIOUS
  <1> USE DEF SrcInit
  <1>1. Told(sources)
    <2>1. sources \in Seq({}) /\ DOMAIN sources = {}
      OBVIOUS
    <2> QED
      BY <2>1 DEF Told
  <1>2. RowsTold(sources, rows) /\ AllKept
    BY DEF RowsTold, AllKept
  <1>3. DOMAIN call = Callers /\ \A p \in Callers : InHand(call[p], sources, rows)
    BY RestingIsInHand
  <1>4. /\ DOMAIN draft = Paths /\ \A f \in Paths : draft[f] = 0
        /\ \A f \in Paths : draft[f] \in 0 .. Len(Drafts[f])
    <2>1. DOMAIN draft = Paths /\ \A f \in Paths : draft[f] = 0
      OBVIOUS
    <2>2. \A f \in Paths : Len(Drafts[f]) \in Nat \ {0}
      BY SourcesAssumption DEF SourcesAssumption
    <2>3. \A f \in Paths : 0 \in 0 .. Len(Drafts[f])
      BY <2>2
    <2> QED
      BY <2>1, <2>3
  <1>5. DOMAIN pages = Paths /\ \A f \in Paths : PageTold(f, draft[f], pages[f])
    BY <1>4 DEF PageTold, FirstPage
  <1> QED
    BY <1>1, <1>2, <1>3, <1>4, <1>5 DEF FilesInv

LEMMA FilesNext == FilesInv /\ [SrcNext \/ PageNext]_srcVars => FilesInv'
  <1> SUFFICES ASSUME FilesInv, [SrcNext \/ PageNext]_srcVars PROVE FilesInv'
    OBVIOUS
  <1>1. ASSUME NEW f \in Paths, Write(f) \/ PullPage(f) PROVE FilesInv'
    BY <1>1, WriteStep, PullPageStep
  <1>2. ASSUME NEW p \in Callers,
               \/ \E f \in Paths : AddSource(p, f) \/ Ingest(p, f) \/ JournalImport(p, f)
               \/ \E text \in Said : JournalAdd(p, text)
               \/ Sync(p)
        PROVE  FilesInv'
    BY <1>2, CommandSteps
  <1>3. ASSUME NEW p \in Callers, FindSource(p) \/ InsertSource(p) \/ Scan(p) \/ NextSource(p) PROVE FilesInv'
    BY <1>3, FindStep, InsertSourceStep, ScanStep, NextSourceStep
  <1>4. ASSUME NEW p \in Callers, Store(p) \/ Stored(p) PROVE FilesInv'
    BY <1>4, StoreStep, PutAwayStep
  <1>5. ASSUME NEW p \in Callers, Die(p) PROVE FilesInv'
    BY <1>5, HandStep, RestingIsInHand DEF Die, Rest
  <1>6. CASE UNCHANGED srcVars
    BY <1>6 DEF srcVars, FilesInv, AllKept
  <1> QED
    BY <1>1, <1>2, <1>3, <1>4, <1>5, <1>6 DEF SrcNext, PageNext

\* Every note, entry and row is in the corpus once, as its file says it: for
\* any files, any number of processes that bring them in at once by any
\* command, and any deaths.
THEOREM FilesHold == SrcSpec => []FilesAreTakenOnce
  <1> QED
    BY FilesInit, FilesNext, FilesSay, PTL DEF SrcSpec

\* A row that a command has come through with is in the corpus at the time its
\* file says, as long as no log says the same of two moments: the digest of a row
\* leaves out when it was (structured_log.rs), and that is all that goes wrong.
THEOREM RowsHold ==
  ASSUME OneTimeEach
  PROVE  SrcSpec => []RowsAreKept
  <1>1. FilesInv => RowsAreKept
    BY DEF FilesInv, AllKept, IsKept, RowsAreKept
  <1> QED
    BY <1>1, FilesInit, FilesNext, PTL DEF SrcSpec

-----------------------------------------------------------------------------
(* What relays and a remote signer say. *)

\* What anybody may send: values that are what their type says.
WellFormed(Values) == \A v \in Values : v = <<v[1], v[2]>>

\* A set of numbers has a least one.
LEMMA LeastNat ==
  ASSUME NEW T \in SUBSET Nat, T # {}
  PROVE  \E n \in T : \A m \in T : n <= m
<1> DEFINE Below == {1 .. m : m \in T}
           Smaller == StrictSubsetOrdering(Nat)
<1>1. IsWellFoundedOn(Smaller, FiniteSubsetsOf(Nat))
  BY FS_StrictSubsetOrderingWellFounded
<1>2. Below \subseteq FiniteSubsetsOf(Nat) /\ Below # {}
  <2>1. \A m \in T : 1 .. m \in SUBSET Nat /\ IsFiniteSet(1 .. m)
    BY FS_Interval
  <2> QED
    BY <2>1 DEF FiniteSubsetsOf
<1>3. PICK x \in Below : \A y \in Below : ~ (<<y, x>> \in Smaller)
  <2> HIDE DEF Below, Smaller
  <2> QED
    BY <1>1, <1>2, WFMin
<1>4. PICK n \in T : x = 1 .. n
  OBVIOUS
<1>5. ASSUME NEW m \in T, m < n PROVE FALSE
  <2>1. 1 .. m \subseteq 1 .. n /\ n \in 1 .. n /\ n \notin 1 .. m
    BY <1>5
  <2>2. <<1 .. m, 1 .. n>> \in Smaller
    BY <2>1 DEF StrictSubsetOrdering
  <2> QED
    BY <1>3, <1>4, <2>2
<1> QED
  BY <1>5

\* The first place is one of the places, and 0 where there is none.
LEMMA FirstIsThere ==
  ASSUME NEW at \in SUBSET (Nat \ {0})
  PROVE  /\ at = {} => First(at) = 0
         /\ at # {} => First(at) \in at /\ \A j \in at : First(at) <= j
  <1>1. CASE at = {}
    BY <1>1 DEF First
  <1>2. CASE at # {}
    <2>1. \E i \in at : \A j \in at : i <= j
      BY <1>2, LeastNat
    <2> QED
      BY <1>2, <2>1 DEF First
  <1> QED
    BY <1>1, <1>2

\* Of a frame nothing is read that it does not say.
LEMMA ParseTells ==
  ASSUME NEW Values, WellFormed(Values), NEW frame \in Seq(Values)
  PROVE  /\ Parse(frame).verb = "OK" =>
              /\ Len(frame) >= 1 /\ frame[1] = Str("OK")
              /\ Parse(frame).id = TextAt(frame, 2)
              /\ (Parse(frame).accepted => Len(frame) >= 3 /\ frame[3] = Bool(TRUE))
         /\ Parse(frame).verb = "EVENT" =>
              /\ Len(frame) >= 3 /\ frame[1] = Str("EVENT") /\ frame[2] = Str(Parse(frame).subscription)
              /\ frame[3] = Obj(Parse(frame).event)
  <1>1. CASE ~Is(frame, 1, "string")
    BY <1>1 DEF Parse
  <1>2. CASE Is(frame, 1, "string")
    <2>1. Len(frame) \in Nat /\ Len(frame) >= 1 /\ frame[1] \in Values /\ frame[1] = Str(frame[1][2])
      BY <1>2 DEF Is, WellFormed, Str
    <2>2. CASE frame[1][2] = "OK"
      <3>1. Parse(frame) = [verb |-> "OK", id |-> TextAt(frame, 2), accepted |-> Len(frame) >= 3 /\ frame[3] = Bool(TRUE), message |-> TextAt(frame, 4)]
        BY <1>2, <2>2 DEF Parse
      <3>2. frame[1] = Str("OK")
        BY <2>1, <2>2
      <3>3. /\ Parse(frame).verb = "OK" /\ Parse(frame).id = TextAt(frame, 2)
            /\ Parse(frame).accepted = (Len(frame) >= 3 /\ frame[3] = Bool(TRUE))
        BY <3>1
      <3> QED
        BY <2>1, <3>2, <3>3
    <2>3. CASE frame[1][2] = "EVENT"
      <3>1. CASE Is(frame, 2, "string") /\ Is(frame, 3, "event")
        <4>1. Parse(frame) = [verb |-> "EVENT", subscription |-> frame[2][2], event |-> frame[3][2]]
          BY <1>2, <2>3, <3>1 DEF Parse
        <4>2. Len(frame) >= 3 /\ frame[2] \in Values /\ frame[3] \in Values
          BY <2>1, <3>1 DEF Is
        <4>3. frame[2] = Str(frame[2][2]) /\ frame[3] = Obj(frame[3][2])
          BY <3>1, <4>2 DEF Is, WellFormed, Str, Obj
        <4> QED
          BY <2>1, <2>3, <4>1, <4>2, <4>3
      <3>2. CASE ~(Is(frame, 2, "string") /\ Is(frame, 3, "event"))
        BY <1>2, <2>3, <3>2 DEF Parse
      <3> QED
        BY <3>1, <3>2
    <2>4. CASE frame[1][2] \in {"EOSE", "CLOSED"}
      BY <1>2, <2>4 DEF Parse
    <2>5. CASE frame[1][2] \notin {"OK", "EVENT", "EOSE", "CLOSED"}
      BY <1>2, <2>5 DEF Parse
    <2> QED
      BY <2>2, <2>3, <2>4, <2>5
  <1> QED
    BY <1>1, <1>2

\* What one wait reads is what was sent, in its order.
LEMMA FramesTell ==
  ASSUME NEW Values, NEW sent \in Seq(Seq(Values))
  PROVE  /\ \E n \in Nat : n <= Len(sent) /\ DOMAIN Frames(sent) = 1..n
         /\ \A i \in DOMAIN Frames(sent) : i \in DOMAIN sent /\ sent[i] \in Seq(Values)
                                           /\ Frames(sent)[i] \in {[verb |-> "unsupported"], Parse(sent[i])}
  <1> DEFINE closed == {i \in DOMAIN sent : sent[i] = CloseFrame}
             end == IF closed = {} THEN Len(sent) ELSE (CHOOSE i \in closed : \A j \in closed : i <= j) - 1
             last == IF end > MaxFramesPerWait THEN MaxFramesPerWait ELSE end
  <1>1. Len(sent) \in Nat /\ DOMAIN sent = 1..Len(sent) /\ \A i \in 1..Len(sent) : sent[i] \in Seq(Values)
    OBVIOUS
  <1>2. end \in Nat /\ end <= Len(sent)
    <2>1. CASE closed = {}
      BY <1>1, <2>1
    <2>2. CASE closed # {}
      <3>1. closed \in SUBSET Nat /\ closed \subseteq 1..Len(sent)
        BY <1>1
      <3>2. \E i \in closed : \A j \in closed : i <= j
        <4> HIDE DEF closed
        <4> QED
          BY <2>2, <3>1, LeastNat
      <3>3. (CHOOSE i \in closed : \A j \in closed : i <= j) \in closed
        <4> HIDE DEF closed
        <4> QED
          BY <3>2
      <3>4. (CHOOSE i \in closed : \A j \in closed : i <= j) \in 1..Len(sent)
        BY <3>1, <3>3
      <3> QED
        BY <1>1, <2>2, <3>4
    <2> QED
      BY <2>1, <2>2
  <1>3. last \in Nat /\ last <= Len(sent)
    <2> HIDE DEF end
    <2> QED
      BY <1>1, <1>2, WireAssumption
  <1>4. Frames(sent) = [i \in 1..last |-> IF sent[i] = PingFrame THEN [verb |-> "unsupported"] ELSE Parse(sent[i])]
    BY DEF Frames
  <1> HIDE DEF last
  <1> QED
    BY <1>1, <1>3, <1>4

\* What is waited for is one of the frames.
LEMMA WaitedFor ==
  ASSUME NEW frames, NEW n \in Nat, DOMAIN frames = 1..n, NEW wanted
  PROVE  \/ WaitFor(frames, wanted) = 0
         \/ WaitFor(frames, wanted) \in DOMAIN frames /\ frames[WaitFor(frames, wanted)] \in wanted
  <1> DEFINE at == {i \in DOMAIN frames : frames[i] \in wanted}
  <1>1. at \in SUBSET (Nat \ {0})
    OBVIOUS
  <1>2. First(at) = 0 \/ First(at) \in at
    <2> HIDE DEF at
    <2> QED
      BY <1>1, FirstIsThere
  <1> QED
    BY <1>2 DEF WaitFor

\* A message that says something was sent.
LEMMA Heard ==
  ASSUME NEW Values, NEW sent \in Seq(Seq(Values)),
         NEW i \in DOMAIN Frames(sent), Frames(sent)[i].verb # "unsupported"
  PROVE  \E frame \in Range(sent) : frame \in Seq(Values) /\ Frames(sent)[i] = Parse(frame)
  <1>1. i \in DOMAIN sent /\ sent[i] \in Seq(Values) /\ Frames(sent)[i] \in {[verb |-> "unsupported"], Parse(sent[i])}
    BY FramesTell
  <1>2. Frames(sent)[i] = Parse(sent[i])
    BY <1>1
  <1>3. sent[i] \in Range(sent)
    BY <1>1 DEF Range
  <1> QED
    BY <1>1, <1>2, <1>3

\* What a frame starts with.
LEMMA ThreeOf ==
  ASSUME NEW Values, NEW frame \in Seq(Values), 3 <= Len(frame)
  PROVE  Len(frame) >= 3 /\ frame[2] \in Values /\ frame[3] \in Values
  OBVIOUS

LEMMA Begins ==
  ASSUME NEW Values, NEW relay, NEW frame \in Range(relay.sends), frame \in Seq(Values), Len(frame) >= 3,
         NEW a, NEW b, NEW c, frame[1] = a, frame[2] = b, frame[3] = c
  PROVE  Says(relay, <<a, b, c>>)
  <1>1. Len(SubSeq(frame, 1, 3)) = 3 /\ \A i \in 1..3 : SubSeq(frame, 1, 3)[i] = frame[i]
    OBVIOUS
  <1>2. SubSeq(frame, 1, 3) \in Seq(Values)
    OBVIOUS
  <1>3. SubSeq(frame, 1, 3) = <<a, b, c>>
    <2>1. a \in Values /\ b \in Values /\ c \in Values
      OBVIOUS
    <2> DEFINE start == <<a, b, c>>
               got == SubSeq(frame, 1, 3)
    <2>2. start \in Seq(Values) /\ Len(start) = 3 /\ start[1] = a /\ start[2] = b /\ start[3] = c
      BY <2>1
    <2>3. got \in Seq(Values) /\ Len(got) = 3 /\ got[1] = a /\ got[2] = b /\ got[3] = c
      BY <1>1, <1>2
    <2> HIDE DEF start, got
    <2>4. \A i \in 1..Len(got) : got[i] = start[i]
      BY <2>2, <2>3
    <2>5. got = start
      BY <2>2, <2>3, <2>4, SeqEqual
    <2> QED
      BY <2>5 DEF start, got
  <1> QED
    BY <1>3 DEF Says

\* An accepted publish was accepted, for this very event.
LEMMA AcceptedIsSaid ==
  ASSUME NEW Values, WellFormed(Values), NEW relay, relay.sends \in Seq(Seq(Values)),
         NEW event, event.id.name # "", PublishOne(relay, event) = "accepted"
  PROVE  Says(relay, <<Str("OK"), Str(event.id.name), Bool(TRUE)>>)
  <1> DEFINE frames == Frames(relay.sends)
             wanted == {m \in Range(frames) : m.verb = "OK" /\ m.id = event.id.name}
             at == WaitFor(frames, wanted)
  <1>1. at # 0 /\ frames[at].accepted
    BY DEF PublishOne, OkOf, Answer
  <1>2. at \in DOMAIN frames /\ frames[at] \in wanted
    <2>1. \E n \in Nat : DOMAIN frames = 1..n
      BY FramesTell
    <2> HIDE DEF frames, wanted
    <2> QED
      BY <1>1, <2>1, WaitedFor
  <1>4. frames[at].verb = "OK" /\ frames[at].id = event.id.name
    BY <1>2
  <1> HIDE DEF at, wanted
  <1>3. PICK frame \in Range(relay.sends) : frame \in Seq(Values) /\ frames[at] = Parse(frame)
    BY <1>2, <1>4, Heard
  <1> HIDE DEF frames
  <1>5. frame \in Seq(Values)
    BY <1>3
  <1>6. /\ Len(frame) >= 1 /\ frame[1] = Str("OK")
        /\ TextAt(frame, 2) = event.id.name
        /\ Len(frame) >= 3 /\ frame[3] = Bool(TRUE)
    BY <1>1, <1>3, <1>4, ParseTells
  <1>7. Is(frame, 2, "string") /\ frame[2][2] = event.id.name
    BY <1>6 DEF TextAt
  <1>8. Len(frame) >= 3 /\ frame[2] \in Values /\ frame[3] \in Values
    BY <1>5, <1>6, ThreeOf
  <1>9. frame[2] = Str(event.id.name) /\ frame[3] = Bool(TRUE)
    BY <1>6, <1>7, <1>8 DEF Is, WellFormed, Str
  <1> QED
    BY <1>3, <1>6, <1>8, <1>9, Begins

\* A relay gives only what verifies and was sent under the subscription.
LEMMA GivenIsSaid ==
  ASSUME NEW Values, WellFormed(Values), NEW relay, relay.sends \in Seq(Seq(Values)),
         NEW subscription, NEW e \in Gives(relay, subscription)
  PROVE  Verifies(e) /\ Says(relay, <<Str("EVENT"), Str(subscription), Obj(e)>>)
  <1> DEFINE frames == Frames(relay.sends)
  <1>1. PICK i \in DOMAIN frames : /\ frames[i].verb = "EVENT" /\ frames[i].subscription = subscription
                                   /\ Verifies(frames[i].event) /\ e = frames[i].event
    BY DEF Gives, GivenUntilDone, Given
  <1>2. PICK frame \in Range(relay.sends) : frame \in Seq(Values) /\ frames[i] = Parse(frame)
    BY <1>1, Heard
  <1>4. Len(frame) >= 3 /\ frame[1] = Str("EVENT") /\ frame[2] = Str(subscription) /\ frame[3] = Obj(e)
    <2> HIDE DEF frames
    <2> QED
      BY <1>1, <1>2, ParseTells
  <1> QED
    BY <1>1, <1>2, <1>4, Begins

\* A subscription while it is read.
Subs(Values) == [sends : Seq(Seq(Values)), subscription : {"ghostr-sub"}, closed : BOOLEAN]

\* What a subscription yields verifies, and once it yields nothing it is closed.
LEMMA NextVerifies ==
  ASSUME NEW Values, NEW sub \in Subs(Values)
  PROVE  /\ NextEvent(sub).sub \in Subs(Values)
         /\ NextEvent(sub).event # <<>> => Verifies(NextEvent(sub).event[1])
         /\ NextEvent(sub).event = <<>> => NextEvent(sub).sub.closed
         /\ sub.closed => NextEvent(sub).event = <<>>
  <1>1. CASE sub.closed
    BY <1>1 DEF NextEvent
  <1>2. CASE ~sub.closed
    <2> DEFINE frames == Frames(sub.sends)
               wanted == {m \in Range(frames) : Wanted(sub, m)}
               at == WaitFor(frames, wanted)
    <2>1. NextEvent(sub) = Took(sub, frames, at)
      BY <1>2 DEF NextEvent, TookNext
    <2>2. sub.sends \in Seq(Seq(Values))
      BY DEF Subs
    <2>3. PICK n \in Nat : DOMAIN frames = 1..n
      BY <2>2, FramesTell
    <2>4. at = 0 \/ (at \in 1..n /\ Wanted(sub, frames[at]))
      <3>1. at = 0 \/ (at \in DOMAIN frames /\ frames[at] \in wanted)
        <4> HIDE DEF frames, wanted
        <4> QED
          BY <2>3, WaitedFor
      <3> QED
        BY <2>3, <3>1
    <2> HIDE DEF at, wanted, frames
    <2>5. CASE at = 0 \/ frames[at].verb = "CLOSED"
      <3>1. NextEvent(sub) = [sub |-> CloseSub(sub), event |-> <<>>]
        BY <2>1, <2>5 DEF Took
      <3>2. CloseSub(sub) \in Subs(Values) /\ CloseSub(sub).closed
        BY DEF CloseSub, Subs
      <3> QED
        BY <1>2, <3>1, <3>2
    <2>6. CASE ~(at = 0 \/ frames[at].verb = "CLOSED")
      <3>1. NextEvent(sub) = [sub |-> [sub EXCEPT !.sends = SubSeq(@, at + 1, Len(@))], event |-> <<frames[at].event>>]
        BY <2>1, <2>6 DEF Took
      <3>2. Verifies(frames[at].event)
        BY <2>4, <2>6 DEF Wanted
      <3>3. SubSeq(sub.sends, at + 1, Len(sub.sends)) \in Seq(Seq(Values))
        <4>1. at \in Nat
          BY <2>4
        <4> QED
          BY <2>2, <4>1
      <3>4. [sub EXCEPT !.sends = SubSeq(@, at + 1, Len(@))] \in Subs(Values)
        BY <3>3 DEF Subs
      <3> QED
        BY <1>2, <3>1, <3>2, <3>4
    <2> QED
      BY <2>5, <2>6
  <1> QED
    BY <1>1, <1>2

\* An event has an id, and relays send frames of values.
HasId(event) == event.id.name # ""
Sending(Relays, Values) == \A r \in Relays : r.sends \in Seq(Seq(Values))

\* A result is one or none.
LEMMA OneOf ==
  /\ Range(<<>>) = {}
  /\ \A x : Range(<<x>>) = {x} /\ DOMAIN <<x>> = {1} /\ <<x>>[1] = x /\ <<x>> # <<>>
  <1>1. DOMAIN <<>> = {}
    OBVIOUS
  <1>2. ASSUME NEW x
        PROVE  DOMAIN <<x>> = {1} /\ <<x>>[1] = x /\ <<x>> # <<>>
    OBVIOUS
  <1> QED
    BY <1>1, <1>2 DEF Range

\* Whatever relays send, in whatever number and order: what counts as accepted
\* was accepted for this very event, what is fetched or yielded verifies and was
\* sent under the subscription, no relay hides what another gives, and a
\* closed subscription yields nothing (websocket.rs).
THEOREM RelaysAreChecked ==
  ASSUME NEW Values, WellFormed(Values),
         NEW Relays, Sending(Relays, Values),
         NEW relays \in Seq(Relays), NEW enabled, NEW event, HasId(event), NEW scope
  PROVE  RelaysAreNotBelieved(New(relays, enabled), event, scope)
  <1> DEFINE client == New(relays, enabled)
  <1>0. client = [relays |-> relays, enabled |-> enabled]
    BY DEF New
  <1>a. DOMAIN relays = 1..Len(relays) /\ Len(relays) \in Nat
    BY LenProperties
  <1>1. \A i \in DOMAIN relays : relays[i] \in Relays /\ relays[i].sends \in Seq(Seq(Values))
    BY <1>a, ElementOfSeq DEF Sending
  <1> HIDE DEF client
  <1>2. ASSUME NEW report \in Range(Publish(client, event, scope))
        PROVE  ReportIsTold(client, event, scope, report)
    <2> DEFINE verdicts == [i \in DOMAIN relays |-> PublishOne(relays[i], event)]
    <2>1. CASE ~Permits(client, scope) \/ ~Verifies(event)
      BY <2>1, OneOf DEF Publish
    <2>2. CASE Permits(client, scope) /\ Verifies(event)
      <3>1. Publish(client, event, scope) = SomeAccepted(Reported(verdicts))
        BY <1>0, <2>2 DEF Publish
      <3>2. report = Reported(verdicts)
        <4>1. \A r : Range(SomeAccepted(r)) \subseteq {r}
          <5>1. \A r : SomeAccepted(r) \in {<<>>, <<r>>}
            BY DEF SomeAccepted
          <5> QED
            BY <5>1, OneOf
        <4> HIDE DEF verdicts
        <4> QED
          BY <3>1, <4>1
      <3>3. \A i \in report.accepted : Says(relays[i], <<Str("OK"), Str(event.id.name), Bool(TRUE)>>)
        <4>1. \A i \in report.accepted : i \in DOMAIN relays /\ PublishOne(relays[i], event) = "accepted"
          BY <3>2 DEF Reported
        <4> QED
          BY <1>1, <4>1, AcceptedIsSaid DEF HasId
      <3>4. UNION {report.accepted, report.rejected, report.unreachable} = DOMAIN relays
        <4>1. \A r : PublishOne(r, event) \in {"accepted", "rejected", "unreachable"}
          BY DEF PublishOne, OkOf, Answer
        <4>2. /\ report.accepted = {i \in DOMAIN relays : PublishOne(relays[i], event) = "accepted"}
              /\ report.rejected = {i \in DOMAIN relays : PublishOne(relays[i], event) = "rejected"}
              /\ report.unreachable = {i \in DOMAIN relays : PublishOne(relays[i], event) = "unreachable"}
          BY <3>2 DEF Reported
        <4> QED
          BY <4>1, <4>2
      <3>5. scope # "revocation" => scope \in client.enabled
        BY <2>2 DEF Permits
      <3> QED
        BY <1>0, <3>3, <3>4, <3>5 DEF ReportIsTold
    <2> QED
      BY <2>1, <2>2
  <1>3. FetchIsTold(client, Fetch(client))
    <2>1. ASSUME NEW e \in Fetch(client).events
          PROVE  \E i \in DOMAIN relays : e \in Gives(relays[i], "ghostr-fetch")
      BY <1>0, <2>1 DEF Fetch
    <2> QED
      BY <1>0, <1>1, <2>1, GivenIsSaid DEF FetchIsTold
  <1>4. ASSUME NEW i \in DOMAIN client.relays
        PROVE  HidesNothing(Fetch([client EXCEPT !.relays = <<client.relays[i]>>]), Fetch(client))
    <2> DEFINE alone == [client EXCEPT !.relays = <<client.relays[i]>>]
    <2>1. alone.relays = <<relays[i]>> /\ i \in DOMAIN relays
      BY <1>0
    <2>2. DOMAIN alone.relays = {1} /\ alone.relays[1] = relays[i] /\ alone.relays # <<>>
      BY <2>1, OneOf
    <2> SUFFICES HidesNothing(Fetch(alone), Fetch(client))
      OBVIOUS
    <2> HIDE DEF alone
    <2>3. CASE Connect(relays[i])
      <3>1. {j \in DOMAIN alone.relays : Connect(alone.relays[j])} = {1}
        BY <2>2, <2>3
      <3>2. Fetch(alone) = [error |-> FALSE, events |-> Gives(relays[i], "ghostr-fetch")]
        <4>1. UNION {Gives(alone.relays[j], "ghostr-fetch") : j \in {1}} = Gives(relays[i], "ghostr-fetch")
          BY <2>2
        <4> QED
          BY <3>1, <4>1 DEF Fetch
      <3>3. {j \in DOMAIN relays : Connect(relays[j])} # {}
        BY <2>1, <2>3
      <3>4. Fetch(client) = [error |-> FALSE, events |-> UNION {Gives(relays[j], "ghostr-fetch") : j \in {k \in DOMAIN relays : Connect(relays[k])}}]
        BY <1>0, <3>3 DEF Fetch
      <3>5. Gives(relays[i], "ghostr-fetch") \subseteq UNION {Gives(relays[j], "ghostr-fetch") : j \in {k \in DOMAIN relays : Connect(relays[k])}}
        BY <2>1, <2>3
      <3>6. Fetch(alone).events = Gives(relays[i], "ghostr-fetch")
        BY <3>2
      <3>7. /\ Fetch(client).events = UNION {Gives(relays[j], "ghostr-fetch") : j \in {k \in DOMAIN relays : Connect(relays[k])}}
            /\ Fetch(client).error = FALSE
        BY <3>4
      <3> QED
        BY <3>5, <3>6, <3>7 DEF HidesNothing
    <2>4. CASE ~Connect(relays[i])
      <3>1. {j \in DOMAIN alone.relays : Connect(alone.relays[j])} = {}
        BY <2>2, <2>4
      <3>2. Fetch(alone) = [error |-> TRUE, events |-> {}]
        BY <2>2, <3>1 DEF Fetch
      <3>3. Fetch(alone).events = {} /\ Fetch(alone).error = TRUE
        BY <3>2
      <3> QED
        BY <3>3 DEF HidesNothing
    <2> QED
      BY <2>3, <2>4
  <1>5. ASSUME NEW sub \in Range(Subscribe(client))
        PROVE  /\ NextIsTold(NextEvent(sub).event, NextEvent(NextEvent(sub).sub).event)
               /\ NextEvent(CloseSub(sub)).event = <<>>
    <2> DEFINE reached == {i \in DOMAIN relays : Connect(relays[i])}
    <2>1. reached # {}
      BY <1>0, OneOf DEF Subscribe
    <2>2. reached \in SUBSET Nat
      <3>1. reached \subseteq 1..Len(relays)
        BY <1>a
      <3>2. 1..Len(relays) \subseteq Nat
        BY <1>a
      <3> QED
        BY <3>1, <3>2
    <2>3. (CHOOSE i \in reached : \A j \in reached : i <= j) \in reached
      <3> HIDE DEF reached
      <3> QED
        BY <2>1, <2>2, LeastNat
    <2> DEFINE best == CHOOSE i \in reached : \A j \in reached : i <= j
               opened == [sends |-> relays[best].sends, subscription |-> "ghostr-sub", closed |-> FALSE]
    <2>a. Subscribe(client) = <<opened>>
      BY <1>0, <2>1 DEF Subscribe
    <2>b. sub = opened
      <3> HIDE DEF opened
      <3> QED
        BY <2>a, OneOf
    <2>4. PICK i \in DOMAIN relays : sub = [sends |-> relays[i].sends, subscription |-> "ghostr-sub", closed |-> FALSE]
      <3>1. best \in DOMAIN relays
        BY <2>3
      <3> HIDE DEF best
      <3> QED
        BY <2>b, <3>1
    <2>5. sub \in Subs(Values)
      BY <1>1, <2>4 DEF Subs
    <2>6. NextEvent(sub).sub \in Subs(Values)
      BY <2>5, NextVerifies
    <2>7. CloseSub(sub) \in Subs(Values) /\ CloseSub(sub).closed
      BY <2>5 DEF CloseSub, Subs
    <2> QED
      BY <2>5, <2>6, <2>7, NextVerifies DEF NextIsTold
  <1> QED
    BY <1>2, <1>3, <1>4, <1>5 DEF RelaysAreNotBelieved, client

\* Whatever a remote signer answers: a signature is used only if it is one of
\* the body that was asked for by the key pinned at connect, for the account of
\* this signer, and a reply counts only for the call it answers (nip46.rs).
THEOREM SignerIsChecked ==
  ASSUME NEW account, NEW signerKey, NEW first, NEW second, NEW body, NEW asked, NEW reply
  PROVE  SignerIsNotBelieved(account, signerKey, first, second, body, asked, reply)
  <1> DEFINE unconnected == Signer(account, signerKey)
  <1>1. SUFFICES ASSUME NEW signer \in Range(ConnectSigner(account, signerKey, <<"s">>, first, second))
                 PROVE  /\ SignatureIsOurs(signer, account, body, asked, SignEvent(signer, asked, body, reply))
                        /\ (\E result \in {SignEvent(signer, asked, body, reply), RemoteEncrypt(signer, asked, signerKey, "t", reply),
                                           RemoteDecrypt(signer, asked, signerKey, "t", reply)} : result # <<>>) =>
                             reply.id = 2 /\ reply.error = <<>> /\ PublicKey(signer, asked) # <<>>
    BY DEF SignerIsNotBelieved
  <1>2. signer.account = account /\ signer.next_id = 2
    <2>1. \A key : Range(Pinned(unconnected, key)) \subseteq {[unconnected EXCEPT !.user_pubkey = ParsePubkey(key[1])[1], !.next_id = 2]}
      <3>1. \A key : \/ Pinned(unconnected, key) = <<>>
                     \/ Pinned(unconnected, key) = <<[unconnected EXCEPT !.user_pubkey = ParsePubkey(key[1])[1], !.next_id = 2]>>
        BY DEF Pinned
      <3> HIDE DEF unconnected
      <3> QED
        BY <3>1, OneOf
    <2>2. \E key : signer \in Range(Pinned(unconnected, key))
      <3>1. \A hello : Connected(unconnected, hello, second) = <<>> \/ \E key : Connected(unconnected, hello, second) = Pinned(unconnected, key)
        BY DEF Connected
      <3>2. \E hello : signer \in Range(Connected(unconnected, hello, second))
        BY <1>1 DEF ConnectSigner
      <3> HIDE DEF unconnected
      <3> QED
        BY <3>1, <3>2, OneOf
    <2>3. PICK key : signer = [unconnected EXCEPT !.user_pubkey = ParsePubkey(key[1])[1], !.next_id = 2]
      <3> HIDE DEF unconnected
      <3> QED
        BY <2>1, <2>2
    <2> QED
      BY <2>3 DEF Signer
  <1>3. \A method, params : CallSigner(AsRequest(signer, method, params), reply) # <<>> => reply.id = 2 /\ reply.error = <<>>
    BY <1>2 DEF CallSigner, AsRequest
  <1>4. ASSUME SignEvent(signer, asked, body, reply) # <<>>
        PROVE  /\ asked = account /\ body.pubkey = signer.user_pubkey
               /\ SignEvent(signer, asked, body, reply)[1] = [key |-> signer.user_pubkey, of |-> body]
               /\ CallSigner(AsRequest(signer, "sign_event", <<body>>), reply) # <<>>
    <2> DEFINE signed == CallSigner(AsRequest(signer, "sign_event", <<body>>), reply)
    <2>1. asked = account /\ body.pubkey = signer.user_pubkey /\ SignEvent(signer, asked, body, reply) = SignatureOf(signer, body, signed)
      BY <1>2, <1>4 DEF SignEvent, CheckKey
    <2> HIDE DEF signed
    <2>2. signed # <<>> /\ signed[1].id = body /\ Verifies(signed[1]) /\ SignatureOf(signer, body, signed) = <<signed[1].sig>>
      BY <1>4, <2>1 DEF SignatureOf
    <2>3. signed[1].sig = [key |-> body.pubkey, of |-> body]
      BY <2>2 DEF Verifies
    <2> QED
      BY <2>1, <2>2, <2>3 DEF signed
  <1>5. \A method, params : CheckKey(signer, asked) => PublicKey(signer, asked) # <<>>
    BY OneOf DEF PublicKey
  <1>6. CASE SignEvent(signer, asked, body, reply) # <<>>
    BY <1>2, <1>3, <1>4, <1>5, <1>6 DEF SignatureIsOurs, CheckKey
  <1>7. CASE SignEvent(signer, asked, body, reply) = <<>>
    <2>1. SignatureIsOurs(signer, account, body, asked, SignEvent(signer, asked, body, reply))
      BY <1>7 DEF SignatureIsOurs
    <2>2. ASSUME \/ RemoteEncrypt(signer, asked, signerKey, "t", reply) # <<>>
                 \/ RemoteDecrypt(signer, asked, signerKey, "t", reply) # <<>>
          PROVE  reply.id = 2 /\ reply.error = <<>> /\ PublicKey(signer, asked) # <<>>
      BY <1>3, <1>5, <2>2 DEF RemoteEncrypt, RemoteDecrypt
    <2> QED
      BY <1>7, <2>1, <2>2
  <1> QED
    BY <1>6, <1>7

\* A filter on the wire asks for what the filter means: each list that is set
\* narrows, an empty one does not, and the two lists of kinds are one (wire.rs).
THEOREM FilterIsExact ==
  ASSUME NEW f, NEW e
  PROVE  FilterMeansWhatItSays(f, e)
  <1> DEFINE lists == [authors |-> f.authors, kinds |-> f.kinds \cup f.raw_kinds, d |-> f.d_tags, p |-> f.p_tags]
             numbers == [since |-> f.since, until |-> f.until, limit |-> f.limit]
             json == FilterToJson(f)
             set == {l \in DOMAIN lists : lists[l] # {}} \cup {n \in DOMAIN numbers : numbers[n] # <<>>}
  <1>1. json = [k \in set |-> IF k \in DOMAIN lists THEN lists[k] ELSE numbers[k]]
    BY DEF FilterToJson
  <1>2. /\ DOMAIN lists = {"authors", "kinds", "d", "p"} /\ DOMAIN numbers = {"since", "until", "limit"}
        /\ lists.authors = f.authors /\ lists.kinds = f.kinds \cup f.raw_kinds /\ lists.p = f.p_tags /\ numbers.since = f.since
    OBVIOUS
  <1> HIDE DEF lists, numbers, json
  <1>3. /\ "authors" \in DOMAIN json <=> f.authors # {}
        /\ "kinds" \in DOMAIN json <=> f.kinds \cup f.raw_kinds # {}
        /\ "p" \in DOMAIN json <=> f.p_tags # {}
        /\ "since" \in DOMAIN json <=> f.since # <<>>
    BY <1>1, <1>2
  <1>4. /\ f.authors # {} => json.authors = f.authors
        /\ f.kinds \cup f.raw_kinds # {} => json.kinds = f.kinds \cup f.raw_kinds
        /\ f.p_tags # {} => json.p = f.p_tags
        /\ f.since # <<>> => json.since = f.since
    BY <1>1, <1>2
  <1> QED
    BY <1>3, <1>4 DEF FilterMeansWhatItSays, Serves, json

-----------------------------------------------------------------------------
\* What the relays of the runs send.
Verbs == {"OK", "mine", "other", "why", "EVENT", "ghostr-fetch", "ghostr-sub", "EOSE", "CLOSED"}
Values == {Str(s) : s \in Verbs} \cup Flags \cup {Obj(e) : e \in {Own} \cup Forged}
          \cup {<<"close", "">>, <<"ping", "">>}
Peers == [host : {TRUE}, answers : BOOLEAN, sends : Seq(FramesSent)]
Conversing == peers \in Seq(Peers)

LEMMA Tuples ==
  ASSUME NEW S, NEW a \in S, NEW b \in S, NEW c \in S, NEW d \in S
  PROVE  <<a>> \in Seq(S) /\ <<a, b>> \in Seq(S) /\ <<a, b, c>> \in Seq(S) /\ <<a, b, c, d>> \in Seq(S)
  OBVIOUS

\* Their frames are frames.
LEMMA FramesAreValues == WellFormed(Values) /\ FramesSent \subseteq Seq(Values)
  <1>1. \A t, x : <<t, x>> = << <<t, x>>[1], <<t, x>>[2] >>
    OBVIOUS
  <1>2. \A v \in Values : \E t, x : v = <<t, x>>
    <2>1. \A x : Str(x) = <<"string", x>> /\ Bool(x) = <<"bool", x>> /\ Obj(x) = <<"event", x>>
      BY DEF Str, Bool, Obj
    <2> QED
      BY <2>1 DEF Values, Flags
  <1>3. WellFormed(Values)
    BY <1>1, <1>2 DEF WellFormed
  <1>4. /\ \A s \in Verbs : Str(s) \in Values
        /\ \A b \in Flags : b \in Values
        /\ \A e \in {Own} \cup Forged : Obj(e) \in Values
        /\ <<"close", "">> \in Values /\ <<"ping", "">> \in Values
    <2>1. \A s \in Verbs : Str(s) \in Values
      BY Zenon DEF Values
    <2>2. \A b \in Flags : b \in Values
      BY Zenon DEF Values
    <2>3. \A e \in {Own} \cup Forged : Obj(e) \in Values
      BY Zenon DEF Values
    <2>4. <<"close", "">> \in Values /\ <<"ping", "">> \in Values
      BY Zenon DEF Values
    <2> QED
      BY <2>1, <2>2, <2>3, <2>4
  <1> HIDE DEF Values
  <1>5. ASSUME NEW f \in FramesSent
        PROVE  f \in Seq(Values)
    <2>1. \A n \in {"mine", "other"} : Verdicts(n) \subseteq Seq(Values)
      <3>1. \A n \in {"mine", "other"}, b \in Flags :
              /\ <<Str("OK"), Str(n)>> \in Seq(Values) /\ <<Str("OK"), Str(n), b>> \in Seq(Values)
              /\ <<Str("OK"), Str(n), b, Str("why")>> \in Seq(Values)
        BY <1>4, Tuples DEF Verbs
      <3>2. Flags # {}
        BY DEF Flags
      <3> QED
        BY <3>1, <3>2 DEF Verdicts
    <2>2. \A s \in {"ghostr-fetch", "ghostr-sub"} : Events(s) \subseteq Seq(Values)
      <3>1. \A s \in {"ghostr-fetch", "ghostr-sub"}, e \in {Own} \cup Forged : <<Str("EVENT"), Str(s), Obj(e)>> \in Seq(Values)
        BY <1>4, Tuples DEF Verbs
      <3> QED
        BY <3>1 DEF Events
    <2>3. Others \subseteq Seq(Values)
      <3>1. /\ <<Str("EOSE"), Str("ghostr-fetch")>> \in Seq(Values) /\ <<Str("CLOSED"), Str("ghostr-sub")>> \in Seq(Values)
            /\ <<Bool(TRUE)>> \in Seq(Values) /\ <<Str("EVENT"), Str("ghostr-fetch")>> \in Seq(Values)
        BY <1>4, Tuples DEF Verbs, Flags
      <3>2. PingFrame \in Seq(Values) /\ CloseFrame \in Seq(Values)
        BY <1>4, Tuples DEF PingFrame, CloseFrame
      <3> QED
        BY <3>1, <3>2 DEF Others
    <2> QED
      BY <2>1, <2>2, <2>3 DEF FramesSent
  <1> QED
    BY <1>3, <1>5

\* A relay appends to what it has sent.
LEMMA Conversation ==
  /\ IncomingInit => Conversing
  /\ Conversing /\ [IncomingNext]_<<focus, vars, srcVars, peers, told>> => Conversing'
  <1>1. ASSUME IncomingInit PROVE Conversing
    <2>1. \A b \in BOOLEAN : Relay(b) \in Peers
      BY EmptySeq DEF Relay, Peers
    <2>2. peers = <<>> \/ peers \in Clients
      BY <1>1 DEF IncomingInit
    <2>3. \A c \in Clients : c \in Seq(Peers)
      <3> HIDE DEF Peers
      <3> QED
        BY <2>1, Tuples DEF Clients
    <2>4. <<>> \in Seq(Peers)
      BY EmptySeq
    <2> HIDE DEF Peers
    <2> QED
      BY <2>2, <2>3, <2>4 DEF Conversing
  <1>2. ASSUME Conversing, [IncomingNext]_<<focus, vars, srcVars, peers, told>>
        PROVE  Conversing'
    <2>1. CASE UNCHANGED peers
      BY <1>2, <2>1 DEF Conversing
    <2>2. CASE RelaySays
      <3>1. PICK i \in DOMAIN peers, frame \in FramesSent : peers' = [peers EXCEPT ![i].sends = Append(@, frame)]
        BY <2>2 DEF RelaySays
      <3> DEFINE next == [peers[i] EXCEPT !.sends = Append(@, frame)]
      <3>2. peers' = [peers EXCEPT ![i] = next]
        BY <3>1
      <3>3. peers[i] \in Peers
        BY <1>2 DEF Conversing
      <3>4. Append(peers[i].sends, frame) \in Seq(FramesSent)
        BY <3>3 DEF Peers
      <3>5. next \in Peers
        BY <3>3, <3>4 DEF Peers
      <3> HIDE DEF next, Peers
      <3> QED
        BY <1>2, <3>2, <3>5 DEF Conversing
    <2> QED
      BY <1>2, <2>1, <2>2 DEF IncomingNext, SignerSays
  <1> QED
    BY <1>1, <1>2

\* Whatever relays and a remote signer send, one message after another, the
\* client takes only what it can check (websocket.rs, nip46.rs).
THEOREM StrangersHold == IncomingSpec => []StrangersAreNotBelieved
  <1>1. Conversing => StrangersAreNotBelieved
    <2> SUFFICES ASSUME Conversing PROVE StrangersAreNotBelieved
      OBVIOUS
    <2>1. Sending(Peers, Values)
      <3>1. \A r \in Peers : r.sends \in Seq(FramesSent)
        BY DEF Peers
      <3>2. Seq(FramesSent) \subseteq Seq(Seq(Values))
        <4> HIDE DEF Values
        <4> QED
          BY FramesAreValues
      <3> QED
        BY <3>1, <3>2 DEF Sending
    <2>2. \A event \in {Own} \cup Forged : HasId(event)
      <3>1. \A n, k : Unsigned(n, k).name = n
        BY DEF Unsigned
      <3>2. \A k, body : By(k, body).id = body
        BY DEF By
      <3>3. [Own EXCEPT !.id = Unsigned("other", "k")].id = Unsigned("other", "k")
        BY DEF Own, By
      <3>4. Own.id.name = "mine" /\ \A e \in Forged : e.id.name \in {"mine", "other"}
        BY <3>1, <3>2, <3>3 DEF Own, Forged
      <3> QED
        BY <3>4 DEF HasId
    <2>3. \A event \in {Own} \cup Forged, scope \in {"backup", "manifest", "revocation"} :
            RelaysAreNotBelieved(New(peers, {"backup"}), event, scope)
      <3> HIDE DEF Values, Peers
      <3> QED
        BY <2>1, <2>2, FramesAreValues, RelaysAreChecked DEF Conversing
    <2> QED
      BY <2>3, SignerIsChecked DEF StrangersAreNotBelieved
  <1> QED
    BY <1>1, Conversation, PTL DEF IncomingSpec
=============================================================================
