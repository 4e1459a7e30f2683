------------------------------- MODULE Memoria -------------------------------
(***************************************************************************)
(* Sealing a day, as ops::memoria does it on the vault's SQLite file.      *)
(*                                                                         *)
(* The vault is four tables: memory, footage (with footage_memory), quest  *)
(* and the commitment columns of quest.  Every process that has the vault  *)
(* open - `ghostr serve`, and each CLI command run beside it - works on    *)
(* the same file, and only a single SQL statement, or the one transaction  *)
(* of seal_footage, is atomic.  A memoria run is therefore a sequence of   *)
(* reads followed by one transaction followed by one UPDATE per quest, and *)
(* the steps of two processes interleave.                                  *)
(*                                                                         *)
(* Abstractions.  A memory is an identifier with the day its effective     *)
(* time falls in and the instant stamped on it at ingest.  A digest is the *)
(* tuple or record of its preimage.  Highlights, people and mood are left  *)
(* out: nothing in the chain depends on them.                              *)
(***************************************************************************)
EXTENDS Integers, FiniteSets

CONSTANTS Procs,      \* processes that have the vault open
          Memories,   \* identifiers of the notes the sources can yield
          Quests,     \* identifiers of the quests that can be issued
          Threads,    \* titles of open threads
          Opens,      \* Opens[m]: the threads the text of m opens
          Closes,     \* Closes[m]: the threads the text of m ticks off
          Dates,      \* local calendar dates, as day numbers
          Genesis,    \* link_0 of the chain
          MaxClock,   \* bound: the last instant of the wall clock
          AnyOrder,   \* dates are sealed in any order (`memoria <date>`), or
                      \* only forward, as seal_due does
          MayCrash    \* a process may die, or a statement fail, anywhere

ASSUME MemoriaAssumption ==
  /\ Dates \subseteq Nat
  /\ Opens \in [Memories -> SUBSET Threads]
  /\ Closes \in [Memories -> SUBSET Threads]
  /\ MaxClock \in Nat
  /\ AnyOrder \in BOOLEAN
  /\ MayCrash \in BOOLEAN

VARIABLES clock,      \* the wall clock
          memory,     \* table memory: id -> row
          footage,    \* tables footage and footage_memory: seq -> row
          quest,      \* table quest: id -> row
          proc        \* what each process is in the middle of

vars == <<clock, memory, footage, quest, proc>>

-----------------------------------------------------------------------------
\* Rows.

Seqs == Nat \ {0}
Null == 0             \* a NULL commitment column; no seq is 0

Insert(table, key, row) ==
  [k \in DOMAIN table \cup {key} |-> IF k = key THEN row ELSE table[k]]

\* The Merkle root of a day: the preimages of its leaves, kind by kind.
Root(seq, date, mems, issued, answered) ==
  [meta |-> <<seq, date, Cardinality(mems)>>,
   memory |-> mems, quest |-> issued, verdict |-> answered]

Link(prev, root, seq, date) == <<prev, root, seq, date>>

\* SELECT max(seq): 0 while nothing is sealed.
TipSeq ==
  IF DOMAIN footage = {} THEN 0
  ELSE CHOOSE s \in DOMAIN footage : \A t \in DOMAIN footage : t <= s

TipLink == IF TipSeq = 0 THEN Genesis ELSE footage[TipSeq].link

DateIsSealed(d) == \E s \in DOMAIN footage : footage[s].date = d

\* The sealed day whose window contains the effective time of m.
Covering(m) == {s \in DOMAIN footage : footage[s].date = memory[m].day}

\* Slip: the window has lost its lower end.
WindowFromStart(d) ==
  {m \in DOMAIN memory : memory[m].day <= d /\ ~memory[m].shredded}

\* MemoryStore::window.
Window(d) ==
  {m \in DOMAIN memory : memory[m].day = d /\ ~memory[m].shredded}

\* Slip: an ingest in the very instant of the seal is taken for an early one.
LateAfter(t) ==
  {m \in DOMAIN memory :
     /\ memory[m].day <= footage[t].date
     /\ memory[m].at > footage[t].at
     /\ ~memory[m].shredded}

\* MemoryStore::late_arrivals, asked about day t: the effective time lies before
\* the end of its window, the ingest at or after its seal.
LateArrivals(t) ==
  {m \in DOMAIN memory :
     /\ memory[m].day <= footage[t].date
     /\ memory[m].at >= footage[t].at
     /\ ~memory[m].shredded}

Late == IF TipSeq = 0 THEN {} ELSE LateArrivals(TipSeq)

\* What a late memory amends: nothing, if its day was never sealed.
Due(m) == {[target |-> s, memory |-> m] : s \in Covering(m)}

\* Slip: a verdict is taken again by every later day.
AwaitingAnyVerdicts == {q \in DOMAIN quest : quest[q].status = "answered"}

AwaitingQuests == {q \in DOMAIN quest : quest[q].committed = Null}
AwaitingVerdicts ==
  {q \in DOMAIN quest : /\ quest[q].status = "answered"
                        /\ quest[q].verdict_committed = Null}

-----------------------------------------------------------------------------
\* What a process holds in memory between two statements.

Idle == [pc |-> "idle", date |-> 0, at |-> 0, seq |-> 0, prev |-> Genesis,
         mems |-> {}, carried |-> {}, tip |-> 0, late |-> {}, amends |-> {},
         issued |-> {}, answered |-> {}]

Init ==
  /\ clock = 0
  /\ memory = [m \in {} |-> {}]
  /\ footage = [s \in {} |-> {}]
  /\ quest = [q \in {} |-> {}]
  /\ proc = [p \in Procs |-> Idle]

Tick ==
  /\ clock < MaxClock
  /\ clock' = clock + 1
  /\ UNCHANGED <<memory, footage, quest, proc>>

\* The operation of p is over, and its locals are gone.
Return(p) == proc' = [proc EXCEPT ![p] = Idle]

\* A process dies, or a statement of it fails and the error propagates: what
\* it held is gone, what it wrote stays.
Crash(p) ==
  /\ MayCrash
  /\ proc[p].pc # "idle"
  /\ Return(p)
  /\ UNCHANGED <<clock, memory, footage, quest>>

-----------------------------------------------------------------------------
\* Ingest, and the journal: the memory is stamped when it is normalised and
\* inserted afterwards.

StampMemory(p, m, d) ==
  /\ proc[p].pc = "idle"
  /\ m \notin DOMAIN memory                       \* has_raw_hash
  /\ proc' = [proc EXCEPT ![p].pc = "put", ![p].mems = {m},
                          ![p].date = d, ![p].at = clock]
  /\ UNCHANGED <<clock, memory, footage, quest>>

\* put_memory.  A racing duplicate violates UNIQUE(source_id, raw_hash) and is
\* counted as skipped.
PutMemory(p) ==
  /\ proc[p].pc = "put"
  /\ \E m \in proc[p].mems :
       memory' = IF m \in DOMAIN memory THEN memory
                 ELSE Insert(memory, m, [day |-> proc[p].date, at |-> proc[p].at,
                                         shredded |-> FALSE])
  /\ Return(p)
  /\ UNCHANGED <<clock, footage, quest>>

\* Crypto-shredding drops the content and the salt.  The leaf in
\* footage_memory stays.
Shred(p, m) ==
  /\ proc[p].pc = "idle"
  /\ m \in DOMAIN memory
  /\ ~memory[m].shredded
  /\ memory' = [memory EXCEPT ![m].shredded = TRUE]
  /\ UNCHANGED <<clock, footage, quest, proc>>

-----------------------------------------------------------------------------
\* The quest table, one statement of a process at a time.

PutQuest(p, q) ==
  /\ proc[p].pc = "idle"
  /\ q \notin DOMAIN quest
  /\ quest' = Insert(quest, q, [status |-> "open", committed |-> Null,
                                verdict_committed |-> Null])
  /\ UNCHANGED <<clock, memory, footage, proc>>

\* UPDATE ... WHERE status = 'open': a verdict lands once.
AnswerQuest(p, q) ==
  /\ proc[p].pc = "idle"
  /\ q \in DOMAIN quest
  /\ quest[q].status = "open"
  /\ quest' = [quest EXCEPT ![q].status = "answered"]
  /\ UNCHANGED <<clock, memory, footage, proc>>

ExpireQuest(p, q) ==
  /\ proc[p].pc = "idle"
  /\ q \in DOMAIN quest
  /\ quest[q].status = "open"
  /\ quest' = [quest EXCEPT ![q].status = "expired"]
  /\ UNCHANGED <<clock, memory, footage, proc>>

-----------------------------------------------------------------------------
\* ops::memoria, one action per statement it runs on the store.

\* date_is_sealed.
Begin(p, d) ==
  /\ proc[p].pc = "idle"
  /\ ~DateIsSealed(d)
  /\ AnyOrder \/ \A s \in DOMAIN footage : footage[s].date < d
  /\ proc' = [proc EXCEPT ![p].pc = "window", ![p].date = d]
  /\ UNCHANGED <<clock, memory, footage, quest>>

ReadWindow(p) ==
  /\ proc[p].pc = "window"
  /\ proc' = [proc EXCEPT ![p].pc = "carry", ![p].mems = Window(proc[p].date)]
  /\ UNCHANGED <<clock, memory, footage, quest>>

\* carry_forward_threads: the threads the tip left open.
CarryThreads(p) ==
  /\ proc[p].pc = "carry"
  /\ proc' = [proc EXCEPT ![p].pc = "tip",
                          ![p].carried = IF TipSeq = 0 THEN {}
                                         ELSE footage[TipSeq].open]
  /\ UNCHANGED <<clock, memory, footage, quest>>

ReadTip(p) ==
  /\ proc[p].pc = "tip"
  /\ proc' = [proc EXCEPT ![p].pc = "late", ![p].seq = TipSeq + 1]
  /\ UNCHANGED <<clock, memory, footage, quest>>

\* late_arrival_amendments reads the tip again, for the window it ends and the
\* instant it was sealed.
ReadSealedThrough(p) ==
  /\ proc[p].pc = "late"
  /\ proc' = IF TipSeq = 0 THEN [proc EXCEPT ![p].pc = "issued"]
             ELSE [proc EXCEPT ![p].pc = "arrivals", ![p].tip = TipSeq]
  /\ UNCHANGED <<clock, memory, footage, quest>>

\* With the last late memory looked up the draft is complete; validate_draft stops
\* the run if an amendment does not point into the past.
Lacking(l, late, amends) ==
  IF late # {} THEN [l EXCEPT !.pc = "cover", !.late = late, !.amends = amends]
  ELSE IF \A a \in amends : a.target < l.seq
       THEN [l EXCEPT !.pc = "issued", !.late = {}, !.amends = amends]
       ELSE Idle

ReadArrivals(p) ==
  /\ proc[p].pc = "arrivals"
  /\ proc' = [proc EXCEPT ![p] = Lacking(@, LateArrivals(@.tip), {})]
  /\ UNCHANGED <<clock, memory, footage, quest>>

\* sealed_seq_covering, asked about one of them.
FindDay(p, m) ==
  /\ proc[p].pc = "cover"
  /\ m \in proc[p].late
  /\ proc' = [proc EXCEPT ![p] = Lacking(@, @.late \ {m}, @.amends \cup Due(m))]
  /\ UNCHANGED <<clock, memory, footage, quest>>

ReadIssued(p) ==
  /\ proc[p].pc = "issued"
  /\ proc' = [proc EXCEPT ![p].pc = "answered", ![p].issued = AwaitingQuests]
  /\ UNCHANGED <<clock, memory, footage, quest>>

ReadAnswered(p) ==
  /\ proc[p].pc = "answered"
  /\ proc' = [proc EXCEPT ![p].pc = "link", ![p].answered = AwaitingVerdicts]
  /\ UNCHANGED <<clock, memory, footage, quest>>

\* The tip is read a second time for prev_link, and sealed_at is taken.
ReadLink(p) ==
  /\ proc[p].pc = "link"
  /\ proc' = [proc EXCEPT ![p].pc = "check", ![p].prev = TipLink, ![p].at = clock]
  /\ UNCHANGED <<clock, memory, footage, quest>>

\* seal_footage: the seq has to follow the tip, read outside the transaction.
CheckSeq(p) ==
  /\ proc[p].pc = "check"
  /\ IF proc[p].seq = TipSeq + 1
     THEN proc' = [proc EXCEPT ![p].pc = "insert"]
     ELSE Return(p)
  /\ UNCHANGED <<clock, memory, footage, quest>>

\* Slip: yesterday's open threads are not carried.
DraftAfresh(l) ==
  LET root == Root(l.seq, l.date, l.mems, l.issued, l.answered)
      opened == UNION {Opens[m] : m \in l.mems}
      closed == (UNION {Closes[m] : m \in l.mems}) \cap opened
  IN [date |-> l.date, root |-> root, prev |-> l.prev,
      link |-> Link(l.prev, root, l.seq, l.date), leaves |-> l.mems,
      open |-> opened \ closed, closed |-> closed,
      amends |-> l.amends, at |-> l.at]

\* The row memoria has composed.
Draft(l) ==
  LET root == Root(l.seq, l.date, l.mems, l.issued, l.answered)
      opened == UNION {Opens[m] : m \in l.mems}
      closed == (UNION {Closes[m] : m \in l.mems}) \cap (l.carried \cup opened)
  IN [date |-> l.date, root |-> root, prev |-> l.prev,
      link |-> Link(l.prev, root, l.seq, l.date), leaves |-> l.mems,
      open |-> (l.carried \cup opened) \ closed, closed |-> closed,
      amends |-> l.amends, at |-> l.at]

\* Slips: no primary key; and the quests to stamp read again after the seal.
InsertFootageNoKey(p) ==
  /\ proc[p].pc = "insert"
  /\ IF DateIsSealed(proc[p].date)
     THEN Return(p) /\ UNCHANGED footage
     ELSE /\ footage' = Insert(footage, proc[p].seq, Draft(proc[p]))
          /\ proc' = [proc EXCEPT ![p].pc = "stamp"]
  /\ UNCHANGED <<clock, memory, quest>>

InsertFootageReread(p) ==
  /\ proc[p].pc = "insert"
  /\ IF proc[p].seq \in DOMAIN footage \/ DateIsSealed(proc[p].date)
     THEN Return(p) /\ UNCHANGED footage
     ELSE /\ footage' = Insert(footage, proc[p].seq, Draft(proc[p]))
          /\ proc' = [proc EXCEPT ![p].pc = "stamp", ![p].issued = AwaitingQuests]
  /\ UNCHANGED <<clock, memory, quest>>

\* The transaction: footage.seq is the primary key and footage.date is UNIQUE.
InsertFootage(p) ==
  /\ proc[p].pc = "insert"
  /\ IF proc[p].seq \in DOMAIN footage \/ DateIsSealed(proc[p].date)
     THEN Return(p) /\ UNCHANGED footage
     ELSE /\ footage' = Insert(footage, proc[p].seq, Draft(proc[p]))
          /\ proc' = [proc EXCEPT ![p].pc = "stamp"]
  /\ UNCHANGED <<clock, memory, quest>>

\* mark_committed: an UPDATE of its own for every quest, then for every
\* verdict, each filling a NULL only.
StampQuest(p, q) ==
  /\ q \in proc[p].issued
  /\ proc[p].pc = "stamp"
  /\ proc' = [proc EXCEPT ![p].issued = @ \ {q}]
  /\ quest' = IF quest[q].committed = Null
              THEN [quest EXCEPT ![q].committed = proc[p].seq]
              ELSE quest
  /\ UNCHANGED <<clock, memory, footage>>

StampVerdict(p, q) ==
  /\ proc[p].issued = {}
  /\ q \in proc[p].answered
  /\ proc[p].pc = "stamp"
  /\ proc' = [proc EXCEPT ![p].answered = @ \ {q}]
  /\ quest' = IF quest[q].verdict_committed = Null
              THEN [quest EXCEPT ![q].verdict_committed = proc[p].seq]
              ELSE quest
  /\ UNCHANGED <<clock, memory, footage>>

Finish(p) ==
  /\ proc[p].pc = "stamp"
  /\ proc[p].issued = {} /\ proc[p].answered = {}
  /\ Return(p)
  /\ UNCHANGED <<clock, memory, footage, quest>>

-----------------------------------------------------------------------------
Sealing(p) ==
  \/ \E d \in Dates : Begin(p, d)
  \/ ReadWindow(p) \/ CarryThreads(p) \/ ReadTip(p)
  \/ ReadSealedThrough(p) \/ ReadArrivals(p) \/ \E m \in Memories : FindDay(p, m)
  \/ ReadIssued(p) \/ ReadAnswered(p) \/ ReadLink(p)
  \/ CheckSeq(p) \/ InsertFootage(p)
  \/ \E q \in Quests : StampQuest(p, q) \/ StampVerdict(p, q)
  \/ Finish(p)

Ingesting(p) ==
  \/ \E m \in Memories, d \in Dates : StampMemory(p, m, d)
  \/ PutMemory(p)

Questing(p) ==
  \E q \in Quests : PutQuest(p, q) \/ AnswerQuest(p, q) \/ ExpireQuest(p, q)

Next ==
  \/ Tick
  \/ \E p \in Procs : \/ Sealing(p) \/ Ingesting(p) \/ Questing(p) \/ Crash(p)
                      \/ \E m \in Memories : Shred(p, m)

Spec == Init /\ [][Next]_vars

-----------------------------------------------------------------------------
\* Properties.

MemoryRow == [day : Dates, at : Nat, shredded : BOOLEAN]
QuestRow == [status : {"open", "answered", "expired"},
             committed : Nat, verdict_committed : Nat]
Amendment == [target : Seqs, memory : Memories]

\* Every link a process can have read.
Links == {Genesis} \cup {footage[s].link : s \in DOMAIN footage}

Local == [pc : {"idle", "put", "window", "carry", "tip", "late", "arrivals", "cover",
                "issued", "answered", "link", "check", "insert", "stamp"},
          date : Nat, at : Nat, seq : Nat, prev : Links,
          mems : SUBSET Memories, carried : SUBSET Threads,
          tip : Nat, late : SUBSET Memories, amends : SUBSET Amendment,
          issued : SUBSET DOMAIN quest, answered : SUBSET DOMAIN quest]

\* Every table and every process holds values of its type: in particular the
\* quests a process is about to stamp exist, and its prev_link is a stored one.
TypeOK ==
  /\ clock \in Nat
  /\ DOMAIN memory \subseteq Memories
  /\ memory \in [DOMAIN memory -> MemoryRow]
  /\ DOMAIN quest \subseteq Quests
  /\ quest \in [DOMAIN quest -> QuestRow]
  /\ DOMAIN footage \subseteq Seqs
  /\ \A s \in DOMAIN footage :
       /\ footage[s].date \in Dates
       /\ footage[s].leaves \subseteq DOMAIN memory
       /\ footage[s].open \subseteq Threads
       /\ footage[s].amends \subseteq Amendment
       /\ footage[s].at \in Nat
  /\ proc \in [Procs -> Local]

\* The chain half of `ghostr verify` (verify_run) succeeds on every reachable
\* vault: the sequence numbers start at 1 and leave no gap, each day names the
\* link of the day before it, and each link recomputes.  It has to survive two
\* processes sealing at once, whose reads of the tip go stale (I3).
ChainIntact ==
  \A s \in DOMAIN footage :
    /\ 1..s \subseteq DOMAIN footage
    /\ footage[s].prev = IF s = 1 THEN Genesis ELSE footage[s - 1].link
    /\ footage[s].link = Link(footage[s].prev, footage[s].root, s, footage[s].date)

\* The records a third party is handed, oldest first.
Records ==
  [s \in 1..TipSeq |-> [date |-> footage[s].date, root |-> footage[s].root,
                        link |-> footage[s].link]]

Chain == INSTANCE CommitmentChain WITH chain <- Records

\* The sealed days are one append-only chain: no interleaving of memoria runs
\* forks it, leaves a gap, rewrites a day or seals a date twice (I2, I3).
ImplementsChain == Chain!Spec

\* A memory is a leaf of at most one day.
MemorySealedOnce ==
  \A s, t \in DOMAIN footage :
    footage[s].leaves \cap footage[t].leaves # {} => s = t

\* A commitment stamp never names a day whose root lacks the leaf, whatever
\* crashes or races happened: what `verify` re-reads for a day was in its root.
StampedIsCommitted ==
  \A q \in DOMAIN quest :
    /\ quest[q].committed # Null =>
         /\ quest[q].committed \in DOMAIN footage
         /\ q \in footage[quest[q].committed].root.quest
    /\ quest[q].verdict_committed # Null =>
         /\ quest[q].verdict_committed \in DOMAIN footage
         /\ q \in footage[quest[q].verdict_committed].root.verdict

\* verify's second half re-derives the root of day s from the rows.
HeldRoot(s) ==
  Root(s, footage[s].date, footage[s].leaves,
       {q \in DOMAIN quest : quest[q].committed = s},
       {q \in DOMAIN quest : /\ quest[q].status = "answered"
                             /\ quest[q].verdict_committed = s})

\* Once no process is between its seal and its last stamp, every sealed day
\* re-derives its root from what the vault holds.
RootsVerify ==
  (\A p \in Procs : proc[p].pc # "stamp") =>
    \A s \in DOMAIN footage : HeldRoot(s) = footage[s].root

\* No memory falls between two days: one whose day is sealed is a leaf of that
\* day, or amends it from a later day, or is still late for the next seal (I2).
MemoryAccounted ==
  \A m \in DOMAIN memory : \A s \in Covering(m) :
    \/ memory[m].shredded
    \/ m \in footage[s].leaves
    \/ \E t \in DOMAIN footage : [target |-> s, memory |-> m] \in footage[t].amends
    \/ m \in Late

\* A thread the previous day left open is open or closed today: the days'
\* thread lists follow from each other.
ThreadsContinue ==
  \A s \in DOMAIN footage : s > 1 /\ s - 1 \in DOMAIN footage =>
    footage[s - 1].open \subseteq footage[s].open \cup footage[s].closed

-----------------------------------------------------------------------------
\* What comments in the code say and the code does not do.

\* "... so the list is stable - it is hashed into today's root": a memory
\* that amends an older day is a leaf of the day that records the amendment.
AmendmentsHashed ==
  \A t \in DOMAIN footage : \A a \in footage[t].amends :
    a.memory \in footage[t].root.memory

\* "A memory whose time predates the first sealed day amends nothing ... It
\* still enters today's window as an ordinary memory": m was ingested between
\* the seals of t - 1 and t and predates them all.
PredatingEntersWindow ==
  \A m \in DOMAIN memory : \A t \in DOMAIN footage \ {1} :
    (/\ \A s \in 1..t : memory[m].day < footage[s].date
     /\ footage[t - 1].at < memory[m].at
     /\ memory[m].at < footage[t].at
     /\ ~memory[m].shredded)
    => m \in footage[t].leaves

\* "It missed the day it belongs to": a late memory is not a leaf of the day
\* its amendment names.
LateMissedItsDay ==
  \A t \in DOMAIN footage : \A a \in footage[t].amends :
    a.memory \notin footage[a.target].leaves

==============================================================================
