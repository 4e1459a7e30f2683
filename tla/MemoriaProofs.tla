---------------------------- MODULE MemoriaProofs ----------------------------
(***************************************************************************)
(* Theorems about Memoria, for any number of processes, memories, quests   *)
(* and dates, with crashes and in any order of sealing.                    *)
(*                                                                         *)
(* IInv is inductive.  What makes the chain survive the race of two        *)
(* sealers is InFlight: the number a process holds is at most one past the *)
(* tip, and while it is exactly one past the tip its prev_link is still    *)
(* the tip's link.  The primary key rejects every smaller number.          *)
(*                                                                         *)
(* The second half is about a process that seals with nobody sealing or    *)
(* ingesting beside it: Threaded, Notes and Roots are inductive for it.    *)
(***************************************************************************)
EXTENDS MCMemoria, SequenceTheorems, TLAPS

Composing == {"carry", "tip", "late", "arrivals", "cover", "issued", "answered", "link",
              "check", "insert"}
Numbered == Composing \ {"carry", "tip"}

\* What the locals of p say about the tables.
InFlight(p) ==
  LET l == proc[p] IN
  /\ l.pc # "idle" => l.date \in Dates
  /\ l.pc \in Composing =>
       \A m \in l.mems : m \in DOMAIN memory /\ memory[m].day = l.date
  /\ l.pc \in Numbered => l.seq \in 1..(TipSeq + 1)
  /\ l.pc \in {"check", "insert"} /\ l.seq = TipSeq + 1 => l.prev = TipLink
  /\ l.pc = "stamp" => /\ l.seq \in DOMAIN footage
                       /\ l.issued \subseteq footage[l.seq].root.quest
                       /\ l.answered \subseteq footage[l.seq].root.verdict

\* The sequence numbers in use.
Dense == TipSeq \in Nat /\ DOMAIN footage = 1..TipSeq

Linked ==
  \A s \in DOMAIN footage :
    /\ footage[s].prev = IF s = 1 THEN Genesis ELSE footage[s - 1].link
    /\ footage[s].link = Link(footage[s].prev, footage[s].root, s, footage[s].date)

\* A leaf belongs to the date of its day, and a date to one day.
LeavesOfDay ==
  /\ \A s \in DOMAIN footage : \A m \in footage[s].leaves :
       memory[m].day = footage[s].date
  /\ \A s, t \in DOMAIN footage : footage[s].date = footage[t].date => s = t

\* The reads that look for late memories.
ReadLate(p) ==
  ReadSealedThrough(p) \/ ReadArrivals(p) \/ \E m \in Memories : FindDay(p, m)

IInv ==
  /\ TypeOK
  /\ Dense
  /\ Linked
  /\ LeavesOfDay
  /\ StampedIsCommitted
  /\ \A p \in Procs : InFlight(p)

-----------------------------------------------------------------------------
\* The tip.

\* The greatest of the numbers 1..n is n.
LEMMA GreatestOfRange ==
  ASSUME NEW n \in Nat, n # 0
  PROVE  (CHOOSE s \in 1..n : \A t \in 1..n : t <= s) = n
<1> DEFINE Top(s) == s \in 1..n /\ \A t \in 1..n : t <= s
<1>1. Top(n)
  OBVIOUS
<1>2. \A s : Top(s) => s = n
  BY <1>1
<1> QED
  BY <1>1, <1>2

\* Where the numbers leave no gap, TipSeq counts the sealed days.
LEMMA TipOfDense ==
  ASSUME NEW n \in Nat, DOMAIN footage' = 1..n
  PROVE  TipSeq' = n
<1>1. CASE n = 0
  BY <1>1 DEF TipSeq
<1>2. CASE n # 0
  BY <1>2, GreatestOfRange DEF TipSeq
<1> QED
  BY <1>1, <1>2

-----------------------------------------------------------------------------
\* What a step does to the tables.

\* The footage table either stays as it is or gains the day after the tip.
Sealed(p) ==
  /\ proc[p].pc = "insert"
  /\ ~DateIsSealed(proc[p].date)
  /\ proc[p].seq = TipSeq + 1
  /\ proc[p].prev = TipLink
  /\ footage' = Insert(footage, proc[p].seq, Draft(proc[p]))
  /\ proc' = [proc EXCEPT ![p].pc = "stamp"]
  /\ UNCHANGED <<clock, memory, quest>>

\* The only statement that writes footage appends to it, whatever the process
\* read before.
LEMMA FootageAppends ==
  ASSUME IInv, [Next]_vars
  PROVE  UNCHANGED footage \/ \E p \in Procs : Sealed(p)
<1>1. ASSUME NEW p \in Procs, InsertFootage(p)
      PROVE  UNCHANGED footage \/ Sealed(p)
  <2>1. CASE proc[p].seq \in DOMAIN footage \/ DateIsSealed(proc[p].date)
    BY <1>1, <2>1 DEF InsertFootage
  <2>2. CASE ~(proc[p].seq \in DOMAIN footage \/ DateIsSealed(proc[p].date))
    <3>1. InFlight(p) /\ TipSeq \in Nat /\ DOMAIN footage = 1..TipSeq
      BY DEF IInv, Dense
    <3>2. proc[p].pc = "insert"
      BY <1>1 DEF InsertFootage
    <3>3. proc[p].seq = TipSeq + 1
      BY <2>2, <3>1, <3>2 DEF InFlight, Numbered, Composing
    <3> QED
      BY <1>1, <2>2, <3>1, <3>2, <3>3 DEF InsertFootage, Sealed, InFlight
  <2> QED
    BY <2>1, <2>2
<1>2. ASSUME NEW p \in Procs, Sealing(p) \/ Ingesting(p) \/ Questing(p) \/ Crash(p),
             ~InsertFootage(p)
      PROVE  UNCHANGED footage
  BY <1>2 DEF Sealing, Ingesting, Questing, Crash, Begin, ReadWindow, CarryThreads,
     ReadTip, ReadSealedThrough, ReadArrivals, FindDay, ReadIssued, ReadAnswered, ReadLink,
     CheckSeq, StampQuest, StampVerdict, Finish, StampMemory, PutMemory, PutQuest,
     AnswerQuest, ExpireQuest
<1> QED
  BY <1>1, <1>2 DEF Next, vars, Tick, Shred

\* What appending does: every older day is untouched.
LEMMA SealedDay ==
  ASSUME IInv, NEW p \in Procs, Sealed(p)
  PROVE  /\ TipSeq \in Nat /\ DOMAIN footage = 1..TipSeq
         /\ DOMAIN footage' = 1..(TipSeq + 1)
         /\ TipSeq' = TipSeq + 1
         /\ \A s \in DOMAIN footage : footage'[s] = footage[s]
         /\ footage'[TipSeq + 1] = Draft(proc[p])
<1>1. TipSeq \in Nat /\ DOMAIN footage = 1..TipSeq
  BY DEF IInv, Dense
<1>2. /\ DOMAIN footage' = 1..(TipSeq + 1)
      /\ \A s \in DOMAIN footage : footage'[s] = footage[s]
      /\ footage'[TipSeq + 1] = Draft(proc[p])
  BY <1>1 DEF Sealed, Insert
<1>3. TipSeq' = TipSeq + 1
  BY <1>1, <1>2, TipOfDense
<1> QED
  BY <1>1, <1>2, <1>3

\* The memory table only grows, and keeps the day of every memory.
LEMMA MemoryKept ==
  ASSUME IInv, [Next]_vars
  PROVE  /\ DOMAIN memory' \subseteq Memories
         /\ memory' \in [DOMAIN memory' -> MemoryRow]
         /\ \A m \in DOMAIN memory :
              m \in DOMAIN memory' /\ memory'[m].day = memory[m].day
<1> USE DEF IInv, TypeOK
<1>1. ASSUME NEW p \in Procs, PutMemory(p)
      PROVE  /\ DOMAIN memory' \subseteq Memories
             /\ memory' \in [DOMAIN memory' -> MemoryRow]
             /\ \A m \in DOMAIN memory :
                  m \in DOMAIN memory' /\ memory'[m].day = memory[m].day
  <2>1. /\ proc[p] \in Local /\ proc[p].mems \subseteq Memories
        /\ proc[p].date \in Dates /\ proc[p].at \in Nat
    BY <1>1 DEF PutMemory, Local, InFlight
  <2> QED
    BY <1>1, <2>1 DEF PutMemory, Insert, MemoryRow
<1>2. ASSUME NEW p \in Procs, NEW m \in Memories, Shred(p, m)
      PROVE  /\ DOMAIN memory' \subseteq Memories
             /\ memory' \in [DOMAIN memory' -> MemoryRow]
             /\ \A n \in DOMAIN memory :
                  n \in DOMAIN memory' /\ memory'[n].day = memory[n].day
  BY <1>2 DEF Shred, MemoryRow
<1>3. ASSUME NEW p \in Procs, Sealing(p) \/ Ingesting(p) \/ Questing(p) \/ Crash(p),
             ~PutMemory(p)
      PROVE  UNCHANGED memory
  BY <1>3 DEF Sealing, Ingesting, Questing, Crash, Begin, ReadWindow, CarryThreads,
     ReadTip, ReadSealedThrough, ReadArrivals, FindDay, ReadIssued, ReadAnswered, ReadLink,
     CheckSeq, InsertFootage, StampQuest, StampVerdict, Finish, StampMemory, PutQuest,
     AnswerQuest, ExpireQuest
<1> QED
  BY <1>1, <1>2, <1>3 DEF Next, vars, Tick

\* A quest row is never deleted, and a stamp, once there, is never changed.
LEMMA QuestKept ==
  ASSUME IInv, [Next]_vars
  PROVE  /\ DOMAIN quest' \subseteq Quests
         /\ quest' \in [DOMAIN quest' -> QuestRow]
         /\ DOMAIN quest \subseteq DOMAIN quest'
<1> USE DEF IInv, TypeOK
<1> DEFINE Goal == /\ DOMAIN quest' \subseteq Quests
                   /\ quest' \in [DOMAIN quest' -> QuestRow]
                   /\ DOMAIN quest \subseteq DOMAIN quest'
<1>1. ASSUME NEW p \in Procs, NEW q \in Quests,
             PutQuest(p, q) \/ AnswerQuest(p, q) \/ ExpireQuest(p, q)
      PROVE  Goal
  BY <1>1 DEF PutQuest, AnswerQuest, ExpireQuest, Insert, QuestRow, Null
<1>2. ASSUME NEW p \in Procs, NEW q \in Quests, StampQuest(p, q) \/ StampVerdict(p, q)
      PROVE  Goal
  <2>1. proc[p].seq \in Nat
    BY DEF Local
  <2> QED
    BY <1>2, <2>1 DEF StampQuest, StampVerdict, QuestRow, Null
<1>3. ASSUME NEW p \in Procs, Sealing(p) \/ Ingesting(p) \/ Questing(p) \/ Crash(p)
      PROVE  Goal
  <2>1. CASE \E q \in Quests : \/ PutQuest(p, q) \/ AnswerQuest(p, q) \/ ExpireQuest(p, q)
                               \/ StampQuest(p, q) \/ StampVerdict(p, q)
    BY <2>1, <1>1, <1>2
  <2>2. CASE ~\E q \in Quests : \/ PutQuest(p, q) \/ AnswerQuest(p, q) \/ ExpireQuest(p, q)
                                \/ StampQuest(p, q) \/ StampVerdict(p, q)
    <3>1. UNCHANGED quest
      BY <1>3, <2>2 DEF Sealing, Ingesting, Questing, Crash, Begin, ReadWindow, CarryThreads,
         ReadTip, ReadSealedThrough, ReadArrivals, FindDay, ReadIssued, ReadAnswered,
         ReadLink, CheckSeq, InsertFootage, Finish, StampMemory, PutMemory
    <3> QED
      BY <3>1
  <2> QED
    BY <2>1, <2>2
<1> QED
  BY <1>3 DEF Next, vars, Tick, Shred

-----------------------------------------------------------------------------
\* Type correctness.

\* A stored link stays stored, so a prev_link read earlier is still one.
LEMMA LinksGrow ==
  ASSUME IInv, [Next]_vars
  PROVE  Links \subseteq Links'
<1>1. CASE UNCHANGED footage
  BY <1>1 DEF Links
<1>2. ASSUME NEW p \in Procs, Sealed(p)
      PROVE  Links \subseteq Links'
  BY <1>2, SealedDay DEF Links
<1> QED
  BY <1>1, <1>2, FootageAppends

\* The link of the tip is a stored link.
LEMMA TipLinkStored ==
  ASSUME IInv
  PROVE  TipLink \in Links /\ TipSeq \in Nat
<1>1. TipSeq \in Nat /\ DOMAIN footage = 1..TipSeq
  BY DEF IInv, Dense
<1> QED
  BY <1>1 DEF TipLink, Links

\* The sealed rows keep their type.
LEMMA FootageTyped ==
  ASSUME IInv, [Next]_vars
  PROVE  /\ DOMAIN footage' \subseteq Seqs
         /\ \A s \in DOMAIN footage' :
              /\ footage'[s].date \in Dates
              /\ footage'[s].leaves \subseteq DOMAIN memory'
              /\ footage'[s].open \subseteq Threads
              /\ footage'[s].amends \subseteq Amendment
              /\ footage'[s].at \in Nat
<1> USE MemoriaAssumption
<1>1. CASE UNCHANGED footage
  BY <1>1, MemoryKept DEF IInv, TypeOK
<1>2. ASSUME NEW p \in Procs, Sealed(p)
      PROVE  /\ DOMAIN footage' \subseteq Seqs
             /\ \A s \in DOMAIN footage' :
                  /\ footage'[s].date \in Dates
                  /\ footage'[s].leaves \subseteq DOMAIN memory'
                  /\ footage'[s].open \subseteq Threads
                  /\ footage'[s].amends \subseteq Amendment
                  /\ footage'[s].at \in Nat
  <2> DEFINE l == proc[p]
  <2>1. l \in Local /\ InFlight(p) /\ l.pc = "insert"
    BY <1>2 DEF IInv, TypeOK, Sealed
  <2>2. /\ l.date \in Dates /\ l.at \in Nat /\ l.mems \subseteq DOMAIN memory
        /\ l.carried \subseteq Threads /\ l.amends \subseteq Amendment
        /\ l.mems \subseteq Memories
    BY <2>1 DEF Local, InFlight, Composing
  <2>3. /\ Draft(l).date \in Dates /\ Draft(l).at \in Nat
        /\ Draft(l).leaves \subseteq DOMAIN memory
        /\ Draft(l).amends \subseteq Amendment
    BY <2>2 DEF Draft
  <2>4. Draft(l).open \subseteq Threads
    <3>1. UNION {Opens[m] : m \in l.mems} \subseteq Threads
      BY <2>2
    <3> QED
      BY <3>1, <2>2 DEF Draft
  <2>5. memory' = memory
    BY <1>2 DEF Sealed
  <2>6. \A s \in DOMAIN footage' : s \in DOMAIN footage \/ s = TipSeq + 1
    BY <1>2, SealedDay
  <2>7. DOMAIN footage' \subseteq Seqs
    BY <1>2, SealedDay DEF Seqs
  <2> QED
    BY <1>2, <2>3, <2>4, <2>5, <2>6, <2>7, SealedDay DEF IInv, TypeOK
<1> QED
  BY <1>1, <1>2, FootageAppends

\* The locals of every process keep their type.
LEMMA LocalsTyped ==
  ASSUME IInv, [Next]_vars
  PROVE  proc' \in [Procs -> Local']
<1>1. proc \in [Procs -> Local']
  <2>1. Local \subseteq Local'
    BY LinksGrow, QuestKept DEF Local
  <2> QED
    BY <2>1 DEF IInv, TypeOK
<1>2. Idle \in Local'
  BY DEF Idle, Local, Links
<1>3. ASSUME NEW p \in Procs, Return(p)
      PROVE  proc' \in [Procs -> Local']
  BY <1>1, <1>2, <1>3 DEF Return
<1> DEFINE Locals == [Procs -> Local']
<1>4. ASSUME NEW f \in Locals, NEW p \in Procs,
             NEW c \in Composing \cup {"put", "window", "stamp"}
      PROVE  [f EXCEPT ![p].pc = c] \in Locals
  BY <1>4 DEF Local, Composing
<1>5. ASSUME NEW f \in Locals, NEW p \in Procs, NEW n \in Nat
      PROVE  /\ [f EXCEPT ![p].date = n] \in Locals
             /\ [f EXCEPT ![p].at = n] \in Locals
             /\ [f EXCEPT ![p].seq = n] \in Locals
             /\ [f EXCEPT ![p].tip = n] \in Locals
  BY <1>5, SMTT(60) DEF Local
<1>6. ASSUME NEW f \in Locals, NEW p \in Procs, NEW k \in Links'
      PROVE  [f EXCEPT ![p].prev = k] \in Locals
  BY <1>6 DEF Local
<1>7. ASSUME NEW f \in Locals, NEW p \in Procs
      PROVE  /\ \A X \in SUBSET Memories : [f EXCEPT ![p].mems = X] \in Locals
             /\ \A X \in SUBSET Threads : [f EXCEPT ![p].carried = X] \in Locals
  BY <1>7 DEF Local
<1>8. ASSUME NEW f \in Locals, NEW p \in Procs, NEW X \in SUBSET DOMAIN quest'
      PROVE  /\ [f EXCEPT ![p].issued = X] \in Locals
             /\ [f EXCEPT ![p].answered = X] \in Locals
  BY <1>8, SMTT(60) DEF Local
<1>9. ASSUME NEW p \in Procs
      PROVE  /\ proc[p].date \in Nat /\ proc[p].issued \subseteq DOMAIN quest'
             /\ proc[p].answered \subseteq DOMAIN quest'
  BY <1>1 DEF Local
<1> HIDE DEF Locals
<1>10. ASSUME NEW p \in Procs, Sealing(p)
       PROVE  proc' \in Locals
  <2> DEFINE At(c) == [proc EXCEPT ![p].pc = c]
  <2>0. ASSUME NEW c \in Composing \cup {"put", "window", "stamp"}
        PROVE  At(c) \in Locals
    BY <1>1, <1>4 DEF Locals
  <2>1. ASSUME NEW d \in Dates, Begin(p, d) PROVE proc' \in Locals
    <3>1. proc' = [At("window") EXCEPT ![p].date = d] /\ d \in Nat
      BY <2>1, MemoriaAssumption DEF Begin
    <3> HIDE DEF At
    <3> QED BY <3>1, <2>0, <1>5
  <2>2. CASE ReadWindow(p)
    <3>1. proc' = [At("carry") EXCEPT ![p].mems = Window(proc[p].date)]
      BY <2>2 DEF ReadWindow
    <3>2. Window(proc[p].date) \subseteq Memories
      BY DEF Window, IInv, TypeOK
    <3> HIDE DEF At
    <3> QED BY <3>1, <3>2, <2>0, <1>7 DEF Composing
  <2>3. CASE CarryThreads(p)
    <3> DEFINE T == IF TipSeq = 0 THEN {} ELSE footage[TipSeq].open
    <3>1. proc' = [At("tip") EXCEPT ![p].carried = T]
      BY <2>3 DEF CarryThreads
    <3>2. T \subseteq Threads
      BY DEF IInv, TypeOK, Dense
    <3> HIDE DEF At, T
    <3> QED BY <3>1, <3>2, <2>0, <1>7 DEF Composing
  <2>4. CASE ReadTip(p)
    <3>1. proc' = [At("late") EXCEPT ![p].seq = TipSeq + 1] /\ TipSeq + 1 \in Nat
      BY <2>4, TipLinkStored DEF ReadTip
    <3> HIDE DEF At
    <3> QED BY <3>1, <2>0, <1>5 DEF Composing
  <2>5. CASE ReadSealedThrough(p)
    <3>1. proc' = At("issued") \/ proc' = [At("arrivals") EXCEPT ![p].tip = TipSeq]
      BY <2>5 DEF ReadSealedThrough
    <3>2. At("issued") \in Locals /\ At("arrivals") \in Locals
      BY <2>0 DEF Composing
    <3>3. [At("arrivals") EXCEPT ![p].tip = TipSeq] \in Locals
      <4> HIDE DEF At
      <4> QED BY <3>2, <1>5, TipLinkStored
    <3> QED BY <3>1, <3>2, <3>3
  <2>11. ASSUME NEW X \in SUBSET Memories, NEW A \in SUBSET Amendment,
                proc' = [proc EXCEPT ![p] = Lacking(@, X, A)]
         PROVE  proc' \in Locals
    <3>1. proc[p] \in Local'
      BY <1>1
    <3>2. Lacking(proc[p], X, A) \in Local'
      BY <3>1, <1>2 DEF Lacking, Local
    <3> QED BY <2>11, <3>2, <1>1 DEF Locals
  <2>12. CASE ReadArrivals(p)
    <3>1. proc' = [proc EXCEPT ![p] = Lacking(@, LateArrivals(proc[p].tip), {})]
      BY <2>12 DEF ReadArrivals
    <3>2. LateArrivals(proc[p].tip) \in SUBSET Memories /\ {} \in SUBSET Amendment
      BY DEF LateArrivals, IInv, TypeOK
    <3> QED BY <3>1, <3>2, <2>11, Zenon
  <2>13. ASSUME NEW m \in Memories, FindDay(p, m) PROVE proc' \in Locals
    <3>1. proc' = [proc EXCEPT ![p] = Lacking(@, proc[p].late \ {m}, proc[p].amends \cup Due(m))]
      BY <2>13 DEF FindDay
    <3>2. proc[p].late \subseteq Memories /\ proc[p].amends \subseteq Amendment
      BY DEF IInv, TypeOK, Local
    <3>3. Due(m) \subseteq Amendment
      BY DEF Due, Amendment, Covering, IInv, TypeOK
    <3> QED BY <3>1, <3>2, <3>3, <2>11
  <2>6. CASE ReadIssued(p)
    <3>1. proc' = [At("answered") EXCEPT ![p].issued = AwaitingQuests]
      BY <2>6 DEF ReadIssued
    <3>2. AwaitingQuests \in SUBSET DOMAIN quest'
      BY QuestKept DEF AwaitingQuests
    <3>3. At("answered") \in Locals
      BY <2>0 DEF Composing
    <3> HIDE DEF At
    <3> QED BY <3>1, <3>2, <3>3, <1>8
  <2>7. CASE ReadAnswered(p)
    <3>1. proc' = [At("link") EXCEPT ![p].answered = AwaitingVerdicts]
      BY <2>7 DEF ReadAnswered
    <3>2. AwaitingVerdicts \in SUBSET DOMAIN quest'
      BY QuestKept DEF AwaitingVerdicts
    <3>3. At("link") \in Locals
      BY <2>0 DEF Composing
    <3> HIDE DEF At
    <3> QED BY <3>1, <3>2, <3>3, <1>8
  <2>8. CASE ReadLink(p)
    <3> DEFINE f == [At("check") EXCEPT ![p].prev = TipLink]
    <3>1. proc' = [f EXCEPT ![p].at = clock]
      BY <2>8 DEF ReadLink
    <3>2. TipLink \in Links' /\ clock \in Nat
      BY TipLinkStored, LinksGrow DEF IInv, TypeOK
    <3>3. f \in Locals
      <4> HIDE DEF At
      <4> QED BY <3>2, <2>0, <1>6 DEF Composing
    <3> HIDE DEF f
    <3> QED BY <3>1, <3>2, <3>3, <1>5
  <2>9. CASE CheckSeq(p) \/ InsertFootage(p) \/ Finish(p)
    <3>1. proc' = At("insert") \/ proc' = At("stamp") \/ Return(p)
      BY <2>9 DEF CheckSeq, InsertFootage, Finish
    <3> HIDE DEF At
    <3> QED BY <3>1, <2>0, <1>3 DEF Composing, Locals
  <2>10. ASSUME NEW q \in Quests, StampQuest(p, q) \/ StampVerdict(p, q)
         PROVE  proc' \in Locals
    <3> DEFINE X == proc[p].issued \ {q}
               Y == proc[p].answered \ {q}
    <3>1. \/ proc' = [proc EXCEPT ![p].issued = X]
          \/ proc' = [proc EXCEPT ![p].answered = Y]
      BY <2>10 DEF StampQuest, StampVerdict
    <3>2. X \in SUBSET DOMAIN quest' /\ Y \in SUBSET DOMAIN quest'
      BY <1>9
    <3>3. proc \in Locals
      BY <1>1 DEF Locals
    <3> HIDE DEF X, Y
    <3>4. /\ [proc EXCEPT ![p].issued = X] \in Locals
          /\ [proc EXCEPT ![p].answered = Y] \in Locals
      BY <3>2, <3>3, <1>8
    <3> QED BY <3>1, <3>4
  <2> QED
    BY <1>10, <2>1, <2>2, <2>3, <2>4, <2>5, <2>6, <2>7, <2>8, <2>9, <2>10, <2>12, <2>13 DEF Sealing
<1>11. ASSUME NEW p \in Procs, NEW m \in Memories, NEW d \in Dates, StampMemory(p, m, d)
       PROVE  proc' \in Locals
  <2> DEFINE f == [proc EXCEPT ![p].pc = "put"]
             g == [f EXCEPT ![p].mems = {m}]
             h == [g EXCEPT ![p].date = d]
  <2>1. proc' = [h EXCEPT ![p].at = clock]
    BY <1>11 DEF StampMemory
  <2>2. d \in Nat /\ clock \in Nat
    BY MemoriaAssumption DEF IInv, TypeOK
  <2>3. f \in Locals
    BY <1>1, <1>4 DEF Locals
  <2> HIDE DEF f
  <2>4. g \in Locals
    BY <2>3, <1>7
  <2> HIDE DEF g
  <2>5. h \in Locals
    BY <2>2, <2>4, <1>5
  <2> HIDE DEF h
  <2> QED BY <2>1, <2>2, <2>5, <1>5
<1>12. ASSUME NEW p \in Procs, PutMemory(p) \/ Crash(p)
       PROVE  proc' \in Locals
  BY <1>12, <1>3 DEF PutMemory, Crash, Locals
<1>13. ASSUME NEW p \in Procs, Questing(p) \/ \E m \in Memories : Shred(p, m)
       PROVE  proc' \in Locals
  BY <1>13, <1>1 DEF Questing, Shred, PutQuest, AnswerQuest, ExpireQuest, Locals
<1>14. CASE Tick \/ UNCHANGED vars
  BY <1>14, <1>1 DEF Tick, vars, Locals
<1> QED
  BY <1>10, <1>11, <1>12, <1>13, <1>14 DEF Next, Ingesting, Locals

LEMMA TypeStep ==
  ASSUME IInv, [Next]_vars
  PROVE  TypeOK'
<1>1. clock' = clock \/ clock' = clock + 1
  BY ZenonT(60) DEF Next, vars, Tick, Sealing, Ingesting, Questing, Crash, Begin,
     ReadWindow, CarryThreads, ReadTip, ReadSealedThrough, ReadArrivals, FindDay, ReadIssued,
     ReadAnswered, ReadLink, CheckSeq, InsertFootage, StampQuest, StampVerdict, Finish,
     StampMemory, PutMemory,
     PutQuest, AnswerQuest, ExpireQuest, Shred
<1>2. clock' \in Nat
  BY <1>1 DEF IInv, TypeOK
<1> QED
  BY <1>2, MemoryKept, QuestKept, FootageTyped, LocalsTyped DEF TypeOK

-----------------------------------------------------------------------------
\* The chain.

\* A step leaves no gap in the sequence numbers and no day whose link does not
\* follow from the day before it.
LEMMA ChainStep ==
  ASSUME IInv, [Next]_vars
  PROVE  Dense' /\ Linked'
<1>1. CASE UNCHANGED footage
  <2>1. TipSeq' = TipSeq
    BY <1>1 DEF TipSeq
  <2> QED
    BY <1>1, <2>1 DEF IInv, Dense, Linked
<1>2. ASSUME NEW p \in Procs, Sealed(p)
      PROVE  Dense' /\ Linked'
  <2> DEFINE l == proc[p]
             n == TipSeq + 1
  <2>1. /\ TipSeq \in Nat /\ DOMAIN footage = 1..TipSeq
        /\ DOMAIN footage' = 1..n /\ TipSeq' = n
        /\ \A s \in DOMAIN footage : footage'[s] = footage[s]
        /\ footage'[n] = Draft(l)
    BY <1>2, SealedDay
  <2>2. Dense'
    BY <2>1 DEF Dense
  <2>3. /\ footage'[n].prev = IF n = 1 THEN Genesis ELSE footage[n - 1].link
        /\ footage'[n].link
             = Link(footage'[n].prev, footage'[n].root, n, footage'[n].date)
    <3>1. l.seq = n /\ l.prev = TipLink
      BY <1>2 DEF Sealed
    <3>2. Draft(l).prev = l.prev /\ Draft(l).link
            = Link(Draft(l).prev, Draft(l).root, l.seq, Draft(l).date)
      BY DEF Draft
    <3> QED
      BY <2>1, <3>1, <3>2 DEF TipLink
  <2>4. \A s \in 1..TipSeq : s = 1 \/ s - 1 \in 1..TipSeq
    BY <2>1
  <2>5. \A s \in DOMAIN footage :
          /\ footage'[s].prev = IF s = 1 THEN Genesis ELSE footage'[s - 1].link
          /\ footage'[s].link
               = Link(footage'[s].prev, footage'[s].root, s, footage'[s].date)
    BY <2>1, <2>4 DEF IInv, Linked
  <2>6. /\ footage'[n].prev = IF n = 1 THEN Genesis ELSE footage'[n - 1].link
        /\ footage'[n].link
             = Link(footage'[n].prev, footage'[n].root, n, footage'[n].date)
    <3>1. n = 1 \/ n - 1 \in DOMAIN footage
      BY <2>1
    <3> QED
      BY <2>1, <2>3, <3>1
  <2>7. \A s \in DOMAIN footage' : s \in DOMAIN footage \/ s = n
    BY <2>1
  <2>8. Linked'
    BY <2>5, <2>6, <2>7 DEF Linked
  <2> QED
    BY <2>2, <2>8
<1> QED
  BY <1>1, <1>2, FootageAppends

\* A step gives no date two days, and no day a leaf of another date.
LEMMA LeavesStep ==
  ASSUME IInv, [Next]_vars
  PROVE  LeavesOfDay'
<1>1. CASE UNCHANGED footage
  BY <1>1, MemoryKept DEF IInv, TypeOK, LeavesOfDay
<1>2. ASSUME NEW p \in Procs, Sealed(p)
      PROVE  LeavesOfDay'
  <2> DEFINE l == proc[p]
             n == TipSeq + 1
  <2>1. /\ \A s \in DOMAIN footage' : s \in DOMAIN footage \/ s = n
        /\ \A s \in DOMAIN footage : footage'[s] = footage[s]
        /\ footage'[n] = Draft(l)
        /\ memory' = memory
    <3>1. /\ TipSeq \in Nat /\ DOMAIN footage = 1..TipSeq
          /\ DOMAIN footage' = 1..n
          /\ \A s \in DOMAIN footage : footage'[s] = footage[s]
          /\ footage'[n] = Draft(l)
      BY <1>2, SealedDay
    <3> QED
      BY <1>2, <3>1 DEF Sealed
  <2>2. /\ Draft(l).leaves = l.mems
        /\ Draft(l).date = l.date
    BY DEF Draft
  <2>3. \A m \in l.mems : memory[m].day = l.date
    BY <1>2 DEF IInv, InFlight, Sealed, Composing
  <2>4. \A s \in DOMAIN footage : footage[s].date # l.date
    BY <1>2 DEF Sealed, DateIsSealed
  <2>5. \A s \in DOMAIN footage' : \A m \in footage'[s].leaves :
          memory'[m].day = footage'[s].date
    <3>1. \A s \in DOMAIN footage : \A m \in footage[s].leaves :
            memory[m].day = footage[s].date
      BY DEF IInv, LeavesOfDay
    <3> HIDE DEF n
    <3> QED
      BY <2>1, <2>2, <2>3, <3>1
  <2>6. \A s, t \in DOMAIN footage' : footage'[s].date = footage'[t].date => s = t
    <3>1. \A s, t \in DOMAIN footage : footage[s].date = footage[t].date => s = t
      BY DEF IInv, LeavesOfDay
    <3> HIDE DEF n
    <3> QED
      BY <2>1, <2>2, <2>4, <3>1
  <2> QED
    BY <2>5, <2>6 DEF LeavesOfDay
<1> QED
  BY <1>1, <1>2, FootageAppends

-----------------------------------------------------------------------------
\* What a process holds.

\* A sealed day is never rewritten, and the tip moves by one day at most.
LEMMA FootageKept ==
  ASSUME IInv, [Next]_vars
  PROVE  /\ \A s \in DOMAIN footage : s \in DOMAIN footage' /\ footage'[s] = footage[s]
         /\ TipSeq \in Nat
         /\ \/ TipSeq' = TipSeq /\ TipLink' = TipLink
            \/ TipSeq' = TipSeq + 1
<1>1. CASE UNCHANGED footage
  BY <1>1, TipLinkStored DEF TipSeq, TipLink
<1>2. ASSUME NEW p \in Procs, Sealed(p)
      PROVE  /\ \A s \in DOMAIN footage : s \in DOMAIN footage' /\ footage'[s] = footage[s]
             /\ TipSeq \in Nat
             /\ TipSeq' = TipSeq + 1
  <2>1. /\ TipSeq \in Nat /\ DOMAIN footage = 1..TipSeq
        /\ DOMAIN footage' = 1..(TipSeq + 1) /\ TipSeq' = TipSeq + 1
        /\ \A s \in DOMAIN footage : footage'[s] = footage[s]
    BY <1>2, SealedDay
  <2> QED
    BY <2>1
<1> QED
  BY <1>1, <1>2, FootageAppends

\* A process that does not move keeps what it holds consistent with the tables
\* the others write: a number that was fresh is one past the old tip, so after
\* another process seals it is the number of a sealed day.
LEMMA Bystander ==
  ASSUME IInv, [Next]_vars, NEW r \in Procs, proc'[r] = proc[r]
  PROVE  InFlight(r)'
<1> DEFINE l == proc[r]
<1>1. InFlight(r)
  BY DEF IInv
<1>2. l.pc \in Composing =>
        \A m \in l.mems : m \in DOMAIN memory' /\ memory'[m].day = l.date
  BY <1>1, MemoryKept DEF InFlight
<1>3. l.pc \in Numbered => l.seq \in 1..(TipSeq' + 1)
  BY <1>1, FootageKept DEF InFlight
<1>4. l.pc \in {"check", "insert"} /\ l.seq = TipSeq' + 1 => l.prev = TipLink'
  <2>1. l.pc \in {"check", "insert"} => l.seq \in 1..(TipSeq + 1)
    BY <1>1 DEF InFlight, Numbered, Composing
  <2> QED
    BY <1>1, <2>1, FootageKept DEF InFlight
<1>5. l.pc = "stamp" => /\ l.seq \in DOMAIN footage'
                        /\ l.issued \subseteq footage'[l.seq].root.quest
                        /\ l.answered \subseteq footage'[l.seq].root.verdict
  BY <1>1, FootageKept DEF InFlight
<1>6. l.pc # "idle" => l.date \in Dates
  BY <1>1 DEF InFlight
<1> QED
  BY <1>2, <1>3, <1>4, <1>5, <1>6 DEF InFlight

\* A process that is done holds nothing.
LEMMA Returned ==
  ASSUME IInv, NEW p \in Procs, Return(p)
  PROVE  InFlight(p)'
<1>1. proc'[p] = Idle
  BY DEF Return, IInv, TypeOK
<1> QED
  BY <1>1 DEF InFlight, Idle, Composing, Numbered

\* Looking for late memories touches nothing but the amendments a process holds.
LEMMA LateReads ==
  ASSUME IInv, NEW p \in Procs, ReadLate(p)
  PROVE  /\ UNCHANGED <<clock, memory, footage, quest>>
         /\ proc[p].pc \in {"late", "arrivals", "cover"}
         /\ \A q \in Procs \ {p} : proc'[q] = proc[q]
         /\ \/ Return(p)
            \/ /\ proc'[p].pc \in {"arrivals", "cover", "issued"}
               /\ proc'[p].date = proc[p].date /\ proc'[p].mems = proc[p].mems
               /\ proc'[p].at = proc[p].at /\ proc'[p].seq = proc[p].seq
               /\ proc'[p].carried = proc[p].carried
<1>0. proc \in [Procs -> Local] /\ proc[p] \in Local
  BY DEF IInv, TypeOK
<1>1. CASE ReadSealedThrough(p)
  BY <1>0, <1>1 DEF ReadSealedThrough, Local
<1>2. ASSUME NEW X, NEW A, proc' = [proc EXCEPT ![p] = Lacking(@, X, A)]
      PROVE  /\ \A q \in Procs \ {p} : proc'[q] = proc[q]
             /\ \/ Return(p)
                \/ /\ proc'[p].pc \in {"arrivals", "cover", "issued"}
                   /\ proc'[p].date = proc[p].date /\ proc'[p].mems = proc[p].mems
                   /\ proc'[p].at = proc[p].at /\ proc'[p].seq = proc[p].seq
                   /\ proc'[p].carried = proc[p].carried
  <2>1. proc'[p] = Lacking(proc[p], X, A)
    BY <1>0, <1>2
  <2>2. CASE proc'[p] = Idle
    BY <1>0, <1>2, <2>1, <2>2 DEF Return
  <2>3. CASE proc'[p] # Idle
    BY <1>0, <1>2, <2>1, <2>3 DEF Lacking, Local
  <2> QED
    BY <2>2, <2>3
<1>3. CASE ReadArrivals(p)
  BY <1>2, <1>3 DEF ReadArrivals
<1>4. ASSUME NEW m \in Memories, FindDay(p, m)
      PROVE  /\ UNCHANGED <<clock, memory, footage, quest>> /\ proc[p].pc = "cover"
             /\ \E X, A : proc' = [proc EXCEPT ![p] = Lacking(@, X, A)]
  BY <1>4 DEF FindDay
<1> QED
  BY <1>1, <1>2, <1>3, <1>4 DEF ReadLate, ReadArrivals

\* The steps of memoria keep what the process holds consistent.
LEMMA SealerInFlight ==
  ASSUME IInv, [Next]_vars, NEW p \in Procs, Sealing(p)
  PROVE  InFlight(p)'
<1> DEFINE l == proc[p]
<1> USE DEF Composing, Numbered
<1>0. InFlight(p) /\ l \in Local /\ proc \in [Procs -> Local]
  BY DEF IInv, TypeOK
<1>1. ASSUME NEW d \in Dates, Begin(p, d) PROVE InFlight(p)'
  BY <1>0, <1>1 DEF Begin, InFlight, Local
<1>2. CASE ReadWindow(p)
  BY <1>0, <1>2 DEF ReadWindow, InFlight, Local, Window
<1>3. CASE CarryThreads(p)
  BY <1>0, <1>3 DEF CarryThreads, InFlight, Local
<1>4. CASE ReadTip(p)
  BY <1>0, <1>4, TipLinkStored DEF ReadTip, InFlight, Local, TipSeq
<1>5. CASE ReadLate(p)
  BY <1>0, <1>5, LateReads, Returned DEF InFlight, TipSeq
<1>6. CASE ReadIssued(p)
  BY <1>0, <1>6 DEF ReadIssued, InFlight, Local, TipSeq
<1>7. CASE ReadAnswered(p)
  BY <1>0, <1>7 DEF ReadAnswered, InFlight, Local, TipSeq
<1>8. CASE ReadLink(p)
  <2>1. /\ l.pc = "link"
        /\ proc' = [proc EXCEPT ![p].pc = "check", ![p].prev = TipLink, ![p].at = clock]
        /\ UNCHANGED <<memory, footage, quest>>
    BY <1>8 DEF ReadLink
  <2>2. /\ proc'[p].pc = "check" /\ proc'[p].date = l.date
        /\ proc'[p].mems = l.mems /\ proc'[p].seq = l.seq /\ proc'[p].prev = TipLink
    BY <1>0, <2>1 DEF Local
  <2>3. TipSeq' = TipSeq /\ TipLink' = TipLink
    <3>1. footage' = footage
      BY <2>1
    <3> QED
      BY <3>1 DEF TipSeq, TipLink
  <2>4. /\ l.date \in Dates /\ l.seq \in 1..(TipSeq + 1)
        /\ \A m \in l.mems : m \in DOMAIN memory' /\ memory'[m].day = l.date
    <3>1. memory' = memory
      BY <2>1
    <3>2. l.pc = "link"
      BY <2>1
    <3> QED
      BY <1>0, <3>1, <3>2 DEF InFlight
  <2> QED
    BY <2>2, <2>3, <2>4 DEF InFlight
<1>9. CASE CheckSeq(p)
  <2>1. CASE l.seq = TipSeq + 1
    <3>1. /\ l.pc = "check"
          /\ proc' = [proc EXCEPT ![p].pc = "insert"]
          /\ UNCHANGED <<memory, footage, quest>>
      BY <1>9, <2>1 DEF CheckSeq
    <3>2. /\ proc'[p].pc = "insert" /\ proc'[p].date = l.date
          /\ proc'[p].mems = l.mems /\ proc'[p].seq = l.seq /\ proc'[p].prev = l.prev
      BY <1>0, <3>1 DEF Local
    <3>3. TipSeq' = TipSeq /\ TipLink' = TipLink
      BY <3>1 DEF TipSeq, TipLink
    <3> QED
      BY <1>0, <3>1, <3>2, <3>3 DEF InFlight
  <2>2. CASE l.seq # TipSeq + 1
    BY <1>9, <2>2, Returned DEF CheckSeq
  <2> QED
    BY <2>1, <2>2
<1>10. CASE InsertFootage(p)
  <2>1. CASE Return(p)
    BY <2>1, Returned
  <2>2. CASE ~Return(p)
    <3>1. /\ l.pc = "insert"
          /\ l.seq \notin DOMAIN footage
          /\ footage' = Insert(footage, l.seq, Draft(l))
          /\ proc' = [proc EXCEPT ![p].pc = "stamp"]
      BY <1>10, <2>2 DEF InsertFootage
    <3>2. /\ proc'[p].pc = "stamp" /\ proc'[p].date = l.date /\ proc'[p].seq = l.seq
          /\ proc'[p].issued = l.issued /\ proc'[p].answered = l.answered
      BY <1>0, <3>1 DEF Local
    <3>3. l.seq \in DOMAIN footage' /\ footage'[l.seq] = Draft(l)
      BY <3>1 DEF Insert
    <3>4. Draft(l).root.quest = l.issued /\ Draft(l).root.verdict = l.answered
      BY DEF Draft, Root
    <3> QED
      BY <1>0, <3>1, <3>2, <3>3, <3>4 DEF InFlight
  <2> QED
    BY <2>1, <2>2
<1>11. ASSUME NEW q \in Quests, StampQuest(p, q) \/ StampVerdict(p, q)
       PROVE  InFlight(p)'
  <2>1. /\ l.pc = "stamp" /\ footage' = footage
        /\ \/ proc' = [proc EXCEPT ![p].issued = @ \ {q}]
           \/ proc' = [proc EXCEPT ![p].answered = @ \ {q}]
    BY <1>11 DEF StampQuest, StampVerdict
  <2>2. /\ proc'[p].pc = "stamp" /\ proc'[p].date = l.date /\ proc'[p].seq = l.seq
        /\ proc'[p].issued \subseteq l.issued /\ proc'[p].answered \subseteq l.answered
    BY <1>0, <2>1 DEF Local
  <2> QED
    BY <1>0, <2>1, <2>2 DEF InFlight
<1>12. CASE Finish(p)
  BY <1>12, Returned DEF Finish
<1> QED
  BY <1>1, <1>2, <1>3, <1>4, <1>5, <1>6, <1>7, <1>8, <1>9, <1>10, <1>11, <1>12
  DEF Sealing, ReadLate

LEMMA InFlightStep ==
  ASSUME IInv, [Next]_vars, NEW r \in Procs
  PROVE  InFlight(r)'
<1>0. proc \in [Procs -> Local]
  BY DEF IInv, TypeOK
<1>1. ASSUME NEW p \in Procs, Sealing(p), p # r
      PROVE  proc'[r] = proc[r]
  BY <1>0, <1>1 DEF Sealing, Begin, ReadWindow, CarryThreads, ReadTip, ReadSealedThrough,
     ReadArrivals, FindDay, ReadIssued, ReadAnswered, ReadLink, CheckSeq, InsertFootage, StampQuest,
     StampVerdict, Finish, Return
<1>2. ASSUME NEW p \in Procs, Ingesting(p) \/ Questing(p) \/ Crash(p)
                               \/ \E m \in Memories : Shred(p, m), p # r
      PROVE  proc'[r] = proc[r]
  BY <1>0, <1>2 DEF Ingesting, Questing, Crash, Shred, StampMemory, PutMemory, PutQuest,
     AnswerQuest, ExpireQuest, Return
<1>3. CASE Sealing(r)
  BY <1>3, SealerInFlight
<1>4. ASSUME NEW m \in Memories, NEW d \in Dates, StampMemory(r, m, d)
      PROVE  InFlight(r)'
  BY <1>0, <1>4 DEF StampMemory, InFlight, Local, Composing, Numbered
<1>5. CASE PutMemory(r) \/ Crash(r)
  BY <1>5, Returned DEF PutMemory, Crash
<1>6. CASE Questing(r) \/ \E m \in Memories : Shred(r, m)
  <2>1. proc'[r] = proc[r]
    BY <1>6 DEF Questing, Shred, PutQuest, AnswerQuest, ExpireQuest
  <2> QED
    BY <2>1, Bystander
<1>7. CASE Tick \/ UNCHANGED vars
  BY <1>7, Bystander DEF Tick, vars
<1> QED
  BY <1>1, <1>2, <1>3, <1>4, <1>5, <1>6, <1>7, Bystander DEF Next, Ingesting

\* A stamp names a day that has the leaf, and no step takes the day away.
LEMMA StampedStep ==
  ASSUME IInv, [Next]_vars
  PROVE  StampedIsCommitted'
<1> DEFINE Ok(row, q) ==
      /\ row.committed # Null => /\ row.committed \in DOMAIN footage
                                 /\ q \in footage[row.committed].root.quest
      /\ row.verdict_committed # Null =>
           /\ row.verdict_committed \in DOMAIN footage
           /\ q \in footage[row.verdict_committed].root.verdict
<1>1. \A q \in DOMAIN quest : Ok(quest[q], q)
  BY DEF IInv, StampedIsCommitted
<1>2. SUFFICES \A q \in DOMAIN quest' : Ok(quest'[q], q)
  BY <1>2, FootageKept DEF StampedIsCommitted
<1>3. ASSUME NEW p \in Procs, NEW r \in Quests, StampQuest(p, r) \/ StampVerdict(p, r)
      PROVE  \A q \in DOMAIN quest' : Ok(quest'[q], q)
  <2>1. /\ InFlight(p) /\ proc[p].pc = "stamp" /\ proc[p] \in Local
        /\ quest \in [DOMAIN quest -> QuestRow]
    BY <1>3 DEF StampQuest, StampVerdict, IInv, TypeOK
  <2>2. /\ proc[p].seq \in DOMAIN footage
        /\ proc[p].issued \subseteq footage[proc[p].seq].root.quest
        /\ proc[p].answered \subseteq footage[proc[p].seq].root.verdict
    BY <2>1 DEF InFlight
  <2>3. CASE StampQuest(p, r)
    <3>1. /\ r \in footage[proc[p].seq].root.quest
          /\ \/ quest' = quest
             \/ quest' = [quest EXCEPT ![r].committed = proc[p].seq]
      BY <2>2, <2>3 DEF StampQuest
    <3> QED
      BY <1>1, <2>1, <2>2, <3>1 DEF QuestRow
  <2>4. CASE StampVerdict(p, r)
    <3>1. /\ r \in footage[proc[p].seq].root.verdict
          /\ \/ quest' = quest
             \/ quest' = [quest EXCEPT ![r].verdict_committed = proc[p].seq]
      BY <2>2, <2>4 DEF StampVerdict
    <3> QED
      BY <1>1, <2>1, <2>2, <3>1 DEF QuestRow
  <2> QED
    BY <1>3, <2>3, <2>4
<1>4. ASSUME NEW p \in Procs, NEW r \in Quests,
             PutQuest(p, r) \/ AnswerQuest(p, r) \/ ExpireQuest(p, r)
      PROVE  \A q \in DOMAIN quest' : Ok(quest'[q], q)
  <2>1. quest \in [DOMAIN quest -> QuestRow]
    BY DEF IInv, TypeOK
  <2> QED
    BY <1>1, <1>4, <2>1 DEF PutQuest, AnswerQuest, ExpireQuest, Insert, QuestRow
<1>5. CASE UNCHANGED quest
  BY <1>1, <1>5
<1>6. UNCHANGED quest \/ \E p \in Procs, q \in Quests :
        \/ StampQuest(p, q) \/ StampVerdict(p, q)
        \/ PutQuest(p, q) \/ AnswerQuest(p, q) \/ ExpireQuest(p, q)
  BY ZenonT(60) DEF Next, vars, Tick, Sealing, Ingesting, Questing, Crash, Begin, ReadWindow,
     CarryThreads, ReadTip, ReadSealedThrough, ReadArrivals, FindDay, ReadIssued,
     ReadAnswered, ReadLink, CheckSeq, InsertFootage, Finish, StampMemory, PutMemory, Shred
<1> QED
  BY <1>3, <1>4, <1>5, <1>6

-----------------------------------------------------------------------------
\* The theorems.

LEMMA InitIInv ==
  ASSUME Init
  PROVE  IInv
<1> USE DEF Init
<1>1. TypeOK
  BY MemoriaAssumption DEF TypeOK, MemoryRow, QuestRow, Seqs, Local, Links, Idle
<1>2. Dense /\ Linked /\ LeavesOfDay /\ StampedIsCommitted
  BY DEF Dense, Linked, LeavesOfDay, StampedIsCommitted, TipSeq
<1>3. \A p \in Procs : InFlight(p)
  BY DEF InFlight, Idle, Composing, Numbered
<1> QED
  BY <1>1, <1>2, <1>3 DEF IInv

LEMMA StepIInv ==
  ASSUME IInv, [Next]_vars
  PROVE  IInv'
BY TypeStep, ChainStep, LeavesStep, StampedStep, InFlightStep DEF IInv

\* IInv holds in every reachable state.
THEOREM Invariance == Spec => []IInv
BY InitIInv, StepIInv, PTL DEF Spec

\* The tables and the locals hold values of their types, whoever writes them
\* in whatever order.
THEOREM TypeCorrect == Spec => []TypeOK
<1>1. IInv => TypeOK
  BY DEF IInv
<1> QED
  BY <1>1, Invariance, PTL

\* verify_run succeeds on every reachable vault: no interleaving of memoria
\* runs leaves a gap in the chain or a day that does not follow from its
\* parent.
THEOREM ChainIsIntact == Spec => []ChainIntact
<1>1. IInv => ChainIntact
  BY DEF IInv, Dense, Linked, ChainIntact
<1> QED
  BY <1>1, Invariance, PTL

\* No memory is a leaf of two days.
THEOREM SealedOnce == Spec => []MemorySealedOnce
<1>1. IInv => MemorySealedOnce
  BY DEF IInv, LeavesOfDay, MemorySealedOnce
<1> QED
  BY <1>1, Invariance, PTL

\* A commitment stamp names a day whose root holds the leaf.
THEOREM StampsAreCommitments == Spec => []StampedIsCommitted
<1>1. IInv => StampedIsCommitted
  BY DEF IInv
<1> QED
  BY <1>1, Invariance, PTL

-----------------------------------------------------------------------------
\* The refinement of CommitmentChain.

LEMMA LenOfRange ==
  ASSUME NEW n \in Nat, NEW f, f = [s \in 1..n |-> f[s]]
  PROVE  Len(f) = n
<1> DEFINE S == {f[s] : s \in 1..n}
<1>1. f \in [1..n -> S]
  OBVIOUS
<1>2. f \in Seq(S)
  BY <1>1, SeqDef
<1>3. DOMAIN f = 1..n /\ Len(f) \in Nat /\ DOMAIN f = 1..Len(f)
  BY <1>1, <1>2, LenProperties
<1> QED
  BY <1>3

\* The record of a day, as a third party is handed it.
Handed(s) == [date |-> footage[s].date, root |-> footage[s].root, link |-> footage[s].link]

\* What the refinement mapping looks like where the numbers leave no gap.
Mapped ==
  /\ TipSeq \in Nat /\ Len(Records) = TipSeq
  /\ DOMAIN Records = 1..TipSeq
  /\ \A s \in 1..TipSeq : Records[s] = Handed(s)

LEMMA RecordsMapped == IInv => Mapped
<1> SUFFICES ASSUME IInv PROVE Mapped
  OBVIOUS
<1>1. TipSeq \in Nat /\ DOMAIN footage = 1..TipSeq
  BY DEF IInv, Dense
<1>2. Records = [s \in 1..TipSeq |-> Records[s]]
  BY DEF Records
<1>3. Len(Records) = TipSeq
  <2> HIDE DEF Records
  <2> QED
    BY <1>1, <1>2, LenOfRange
<1> QED
  BY <1>1, <1>3 DEF Records, Handed, Mapped

\* No sealed day, no record.
LEMMA MapsInit ==
  ASSUME Init
  PROVE  Chain!Init
<1>1. TipSeq = 0
  BY DEF Init, TipSeq
<1> QED
  BY <1>1 DEF Chain!Init, Records

\* A transaction of seal_footage is a Seal, every other step a stutter.
LEMMA MapsStep ==
  ASSUME IInv, IInv', [Next]_vars
  PROVE  [Chain!Seal]_Records
<1>1. CASE UNCHANGED footage
  BY <1>1 DEF Records, TipSeq
<1>2. ASSUME NEW p \in Procs, Sealed(p)
      PROVE  Chain!Seal
  <2> DEFINE n == TipSeq + 1
             e == Records'[n]
  <2>1. /\ TipSeq \in Nat /\ DOMAIN footage = 1..TipSeq
        /\ DOMAIN footage' = 1..n /\ TipSeq' = n
        /\ \A s \in DOMAIN footage : footage'[s] = footage[s]
        /\ footage'[n] = Draft(proc[p])
    BY <1>2, SealedDay
  <2>2. /\ Len(Records) = TipSeq /\ DOMAIN Records = 1..TipSeq
        /\ \A s \in 1..TipSeq : Records[s] = Handed(s)
    BY <2>1, RecordsMapped DEF Mapped
  <2>3. /\ Len(Records') = n /\ DOMAIN Records' = 1..n
        /\ \A s \in 1..n : Records'[s] = Handed(s)'
    <3>1. Mapped'
      BY RecordsMapped, PTL
    <3> QED
      BY <3>1, <2>1 DEF Mapped
  <2>4. \A s \in 1..TipSeq : Records'[s] = Records[s]
    BY <2>1, <2>2, <2>3 DEF Handed
  <2>5. Chain!Extends(Records, e)
    <3>1. /\ e.date = proc[p].date
          /\ e.link = Link(TipLink, e.root, n, e.date)
      <4>1. e = [date |-> Draft(proc[p]).date, root |-> Draft(proc[p]).root,
                 link |-> Draft(proc[p]).link]
        BY <2>1, <2>3 DEF Handed
      <4>2. proc[p].seq = n /\ proc[p].prev = TipLink
        BY <1>2 DEF Sealed
      <4> QED
        BY <4>1, <4>2 DEF Draft
    <3>2. e.date \in Dates
      BY <1>2, <3>1 DEF IInv, InFlight, Sealed
    <3>3. \A s \in 1..TipSeq : Records[s].date # e.date
      BY <1>2, <2>1, <2>2, <3>1 DEF Handed, Sealed, DateIsSealed
    <3>4. TipLink = Chain!TipLink(Records)
      BY <2>1, <2>2 DEF Handed, TipLink, Chain!TipLink
    <3> QED
      BY <2>2, <3>1, <3>2, <3>3, <3>4 DEF Chain!Extends, Link, Chain!Link
  <2> QED
    BY <2>2, <2>3, <2>4, <2>5 DEF Chain!Seal
<1> QED
  BY <1>1, <1>2, FootageAppends

\* The sealed days are one append-only chain (I2, I3): whatever the processes
\* interleave, a third party who was handed the records of a vault finds them
\* again, unchanged, as the start of every later vault.
THEOREM RefinesChain == Spec => ImplementsChain
<1>1. Init => Chain!Init
  BY MapsInit
<1>2. IInv /\ IInv' /\ [Next]_vars => [Chain!Seal]_Records
  BY MapsStep
<1> QED
  BY <1>1, <1>2, Invariance, PTL DEF Spec, ImplementsChain, Chain!Spec

-----------------------------------------------------------------------------
(* One process that seals by itself.  Two that seal at once may lose a     *)
(* note between two days or a thread; one may not, whatever the others do  *)
(* to single rows and ingest meanwhile and wherever anybody dies.          *)

\* Nobody else is sealing: the others ingest, or do one statement at a time.
SealsAlone(p) == \A r \in Procs \ {p} : proc[r].pc \in {"idle", "put"}

\* Nor does p read for a day while somebody is about to insert a note: that
\* one, stamped before the day and inserted after its window was read, would be
\* neither in the day nor late for it.
Undisturbed(p) ==
  /\ SealsAlone(p)
  /\ proc[p].pc \in {"idle", "put", "stamp"} \/ \A r \in Procs \ {p} : proc[r].pc = "idle"

\* What is done beside p: it keeps what it holds, and the sealed days what they
\* say, while rows of quest are added, answered and expired and the clock moves.
Beside(p) ==
  /\ UNCHANGED footage /\ proc'[p] = proc[p]
  /\ clock' \in Nat /\ clock <= clock'
  /\ DOMAIN quest \subseteq DOMAIN quest'
  /\ \A q \in DOMAIN quest :
       /\ quest'[q].committed = quest[q].committed
       /\ quest'[q].verdict_committed = quest[q].verdict_committed
       /\ quest'[q].status = quest[q].status \/ quest[q].status = "open"
  /\ \A q \in DOMAIN quest' \ DOMAIN quest :
       quest'[q].committed = Null /\ quest'[q].verdict_committed = Null

\* No memory is added, and none is brought back.
Fading ==
  /\ UNCHANGED footage
  /\ DOMAIN memory' = DOMAIN memory
  /\ \A m \in DOMAIN memory : /\ memory'[m].day = memory[m].day
                              /\ memory'[m].at = memory[m].at
                              /\ ~memory'[m].shredded => ~memory[m].shredded

LEMMA SingleStatements ==
  ASSUME IInv, NEW p \in Procs, NEW r \in Procs,
         \/ Questing(r) \/ (\E m \in Memories : Shred(r, m))
         \/ Tick \/ UNCHANGED vars
  PROVE  Beside(p) /\ Fading /\ proc' = proc
<1>0. clock \in Nat /\ memory \in [DOMAIN memory -> MemoryRow] /\ quest \in [DOMAIN quest -> QuestRow]
  BY DEF IInv, TypeOK
<1>1. ASSUME NEW q \in Quests, PutQuest(r, q) PROVE Beside(p) /\ Fading /\ proc' = proc
  BY <1>0, <1>1 DEF PutQuest, Insert, Beside, Fading
<1>2. ASSUME NEW q \in Quests, AnswerQuest(r, q) \/ ExpireQuest(r, q)
      PROVE  Beside(p) /\ Fading /\ proc' = proc
  BY <1>0, <1>2 DEF AnswerQuest, ExpireQuest, Beside, Fading, QuestRow
<1>3. ASSUME NEW m \in Memories, Shred(r, m) PROVE Beside(p) /\ Fading /\ proc' = proc
  <2>1. /\ memory' = [memory EXCEPT ![m].shredded = TRUE] /\ m \in DOMAIN memory /\ ~memory[m].shredded
        /\ UNCHANGED <<clock, footage, quest, proc>>
    BY <1>3 DEF Shred
  <2>2. DOMAIN memory' = DOMAIN memory
    BY <1>0, <2>1
  <2>3. \A n \in DOMAIN memory : n # m => memory'[n] = memory[n]
    BY <1>0, <2>1
  <2>4. memory'[m].day = memory[m].day /\ memory'[m].at = memory[m].at
    BY <1>0, <2>1 DEF MemoryRow
  <2>5. Fading
    BY <1>0, <2>1, <2>2, <2>3, <2>4 DEF Fading
  <2> QED
    BY <1>0, <2>1, <2>5 DEF Beside
<1>4. CASE Tick \/ UNCHANGED vars
  BY <1>0, <1>4 DEF Tick, vars, Beside, Fading
<1> QED
  BY <1>1, <1>2, <1>3, <1>4 DEF Questing

\* Ingest by another process, and its death, touch neither p nor its days.
LEMMA IngestsBeside ==
  ASSUME IInv, NEW p \in Procs, NEW r \in Procs \ {p}, Ingesting(r) \/ Crash(r)
  PROVE  Beside(p)
<1>0. proc \in [Procs -> Local] /\ clock \in Nat
  BY DEF IInv, TypeOK
<1>1. UNCHANGED <<clock, footage, quest>>
  BY DEF Ingesting, StampMemory, PutMemory, Crash
<1>2. proc'[p] = proc[p]
  BY <1>0 DEF Ingesting, StampMemory, PutMemory, Crash, Return
<1> QED
  BY <1>0, <1>1, <1>2 DEF Beside

LEMMA NobodyElseSeals ==
  ASSUME IInv, NEW p \in Procs, SealsAlone(p), SealsAlone(p)', NEW r \in Procs, r # p
  PROVE  ~ Sealing(r) /\ ~ Sealed(r)
<1>1. proc[r].pc \in {"idle", "put"} /\ proc'[r].pc \in {"idle", "put"} /\ proc \in [Procs -> Local]
  BY DEF SealsAlone, IInv, TypeOK
<1>2. ASSUME NEW d \in Dates, Begin(r, d) PROVE FALSE
  BY <1>1, <1>2 DEF Begin, Local
<1> QED
  BY <1>1, <1>2 DEF Sealed, Sealing, ReadWindow, CarryThreads, ReadTip,
     ReadSealedThrough, ReadArrivals, FindDay, ReadIssued, ReadAnswered, ReadLink, CheckSeq,
     InsertFootage, StampQuest, StampVerdict, Finish

LEMMA LoneStep ==
  ASSUME IInv, NEW p \in Procs, SealsAlone(p), SealsAlone(p)', [Next]_vars
  PROVE  Beside(p) \/ Sealing(p) \/ Ingesting(p) \/ Crash(p)
BY SingleStatements, IngestsBeside, NobodyElseSeals DEF Next

-----------------------------------------------------------------------------
\* Threads: the list carried is still that of the tip when the day is inserted.
TipOpen == IF TipSeq = 0 THEN {} ELSE footage[TipSeq].open

Threaded(p) ==
  /\ ThreadsContinue
  /\ proc[p].pc \in Numbered \cup {"tip"} => proc[p].carried = TipOpen

LEMMA ThreadedStep ==
  ASSUME IInv, NEW p \in Procs, SealsAlone(p), SealsAlone(p)', [Next]_vars, Threaded(p)
  PROVE  Threaded(p)'
<1> DEFINE l == proc[p]
<1> USE DEF Composing, Numbered
<1>0. proc \in [Procs -> Local] /\ l \in Local
  BY DEF IInv, TypeOK
<1>1. UNCHANGED footage => ThreadsContinue' /\ TipOpen' = TipOpen
  BY DEF Threaded, ThreadsContinue, TipOpen, TipSeq
<1>2. CASE Beside(p)
  BY <1>1, <1>2 DEF Beside, Threaded
<1>3. CASE PutMemory(p) \/ Crash(p)
  <2>1. UNCHANGED footage /\ proc'[p].pc = "idle"
    BY <1>0, <1>3 DEF PutMemory, Crash, Return, Idle
  <2> QED
    BY <1>1, <2>1 DEF Threaded
<1>4. ASSUME NEW m \in Memories, NEW d \in Dates, StampMemory(p, m, d) PROVE Threaded(p)'
  <2>1. UNCHANGED footage /\ proc'[p].pc = "put"
    BY <1>0, <1>4 DEF StampMemory, Local
  <2> QED
    BY <1>1, <2>1 DEF Threaded
<1>5. CASE Sealing(p)
  <2>1. ASSUME NEW d \in Dates, Begin(p, d) PROVE Threaded(p)'
    <3>1. UNCHANGED footage /\ proc'[p].pc = "window"
      BY <1>0, <2>1 DEF Begin, Local
    <3> QED
      BY <1>1, <3>1 DEF Threaded
  <2>2. CASE ReadWindow(p)
    <3>1. UNCHANGED footage /\ proc'[p].pc = "carry"
      BY <1>0, <2>2 DEF ReadWindow, Local
    <3> QED
      BY <1>1, <3>1 DEF Threaded
  <2>3. CASE CarryThreads(p)
    <3>1. UNCHANGED footage /\ proc'[p].carried = TipOpen
      BY <1>0, <2>3 DEF CarryThreads, Local, TipOpen
    <3> QED
      BY <1>1, <3>1 DEF Threaded
  <2>4. CASE ReadTip(p) \/ ReadLate(p) \/ ReadIssued(p) \/ ReadAnswered(p) \/ ReadLink(p) \/ CheckSeq(p)
    <3>1. UNCHANGED footage /\ l.pc \in Numbered \cup {"tip"}
      BY <2>4, LateReads DEF ReadTip, ReadIssued, ReadAnswered, ReadLink, CheckSeq
    <3>2. proc'[p].carried = l.carried \/ proc'[p].pc = "idle"
      <4>1. CASE Return(p)
        BY <1>0, <4>1 DEF Return, Idle
      <4>2. CASE ~ Return(p)
        BY <1>0, <2>4, <4>2, LateReads DEF ReadTip, ReadIssued, ReadAnswered, ReadLink, CheckSeq, Local
      <4> QED
        BY <4>1, <4>2
    <3> QED
      BY <1>1, <3>1, <3>2 DEF Threaded
  <2>5. CASE InsertFootage(p)
    <3>1. proc'[p].pc \in {"stamp", "idle"}
      BY <1>0, <2>5 DEF InsertFootage, Return, Idle, Local
    <3>2. CASE UNCHANGED footage
      BY <1>1, <3>1, <3>2 DEF Threaded
    <3>3. CASE Sealed(p)
      <4>1. /\ TipSeq \in Nat /\ DOMAIN footage = 1..TipSeq
            /\ DOMAIN footage' = 1..(TipSeq + 1)
            /\ \A s \in DOMAIN footage : footage'[s] = footage[s]
            /\ footage'[TipSeq + 1] = Draft(l)
        BY <3>3, SealedDay
      <4>2. l.carried = TipOpen
        BY <3>3 DEF Sealed, Threaded
      <4>3. l.carried \subseteq Draft(l).open \cup Draft(l).closed
        BY DEF Draft
      <4>4. ASSUME NEW s \in DOMAIN footage', s > 1, s - 1 \in DOMAIN footage'
            PROVE  footage'[s - 1].open \subseteq footage'[s].open \cup footage'[s].closed
        <5>1. CASE s \in DOMAIN footage
          BY <4>1, <4>4, <5>1 DEF Threaded, ThreadsContinue
        <5>2. CASE s \notin DOMAIN footage
          <6>1. s = TipSeq + 1 /\ s - 1 = TipSeq /\ TipSeq \in DOMAIN footage /\ TipSeq # 0
            BY <4>1, <4>4, <5>2
          <6> QED
            BY <4>1, <4>2, <4>3, <6>1 DEF TipOpen
        <5> QED
          BY <5>1, <5>2
      <4> QED
        BY <3>1, <4>4 DEF Threaded, ThreadsContinue
    <3> QED
      <4>1. InFlight(p) /\ DOMAIN footage = 1..TipSeq /\ TipSeq \in Nat
        BY DEF IInv, Dense
      <4>2. l.pc = "insert"
        BY <2>5 DEF InsertFootage
      <4>3. CASE l.seq \in DOMAIN footage \/ DateIsSealed(l.date)
        BY <2>5, <3>2, <4>3 DEF InsertFootage
      <4>4. CASE ~ (l.seq \in DOMAIN footage \/ DateIsSealed(l.date))
        <5>1. l.seq = TipSeq + 1
          BY <4>1, <4>2, <4>4 DEF InFlight
        <5> QED
          BY <2>5, <3>3, <4>1, <4>2, <4>4, <5>1 DEF InsertFootage, Sealed, InFlight
      <4> QED
        BY <4>3, <4>4
  <2>6. ASSUME NEW q \in Quests, StampQuest(p, q) \/ StampVerdict(p, q) PROVE Threaded(p)'
    <3>1. UNCHANGED footage /\ proc'[p].pc = "stamp"
      BY <1>0, <2>6 DEF StampQuest, StampVerdict, Local
    <3> QED
      BY <1>1, <3>1 DEF Threaded
  <2>7. CASE Finish(p)
    <3>1. UNCHANGED footage /\ proc'[p].pc = "idle"
      BY <1>0, <2>7 DEF Finish, Return, Idle
    <3> QED
      BY <1>1, <3>1 DEF Threaded
  <2> QED
    BY <1>5, <2>1, <2>2, <2>3, <2>4, <2>5, <2>6, <2>7 DEF Sealing, ReadLate
<1> QED
  BY <1>2, <1>3, <1>4, <1>5, LoneStep DEF Ingesting

-----------------------------------------------------------------------------
\* Notes: every one is a leaf of its day, amends it, or is still to be read.

\* Days are sealed in their order.
Forward(p) ==
  proc[p].pc = "window" => \A s \in DOMAIN footage : footage[s].date < proc[p].date

Ordered == \A s, t \in DOMAIN footage : s < t => footage[s].date < footage[t].date

\* What the late memories amend.
Owing(S) == UNION {Due(m) : m \in S}
Amendments == Owing(Late)

\* From there to the insertion p holds the amendments the tip calls for.
Amending == {"issued", "answered", "link", "check", "insert"}

Notes(p) ==
  LET l == proc[p] IN
  /\ MemoryAccounted
  /\ Ordered
  /\ \A s \in DOMAIN footage : footage[s].at <= clock
  /\ \A r \in Procs : proc[r].pc = "put" => \A s \in DOMAIN footage : footage[s].at <= proc[r].at
  /\ l.pc \in {"check", "insert"} => l.at <= clock
  /\ l.pc \in Composing =>
       /\ \A s \in DOMAIN footage : footage[s].date < l.date
       /\ \A m \in DOMAIN memory :
            memory[m].day = l.date /\ ~memory[m].shredded => m \in l.mems
  /\ l.pc = "arrivals" => l.tip = TipSeq
  /\ l.pc = "cover" => /\ l.late \subseteq DOMAIN memory
                       /\ Amendments \subseteq l.amends \cup Owing(l.late)
  /\ l.pc \in Amending => Amendments \subseteq l.amends

LEMMA Fades ==
  ASSUME IInv, Fading
  PROVE  /\ Amendments' \subseteq Amendments
         /\ \A m \in DOMAIN memory : Due(m)' = Due(m)
         /\ MemoryAccounted => MemoryAccounted'
<1>1. TipSeq' = TipSeq
  BY DEF Fading, TipSeq
<1>2. Late' \subseteq Late
  BY <1>1 DEF Fading, Late, LateArrivals
<1>3. \A m \in Late : memory'[m].shredded \/ m \in Late'
  BY <1>1 DEF Fading, Late, LateArrivals
<1>4. \A m \in DOMAIN memory : Covering(m)' = Covering(m)
  BY DEF Fading, Covering
<1>5. Late \subseteq DOMAIN memory
  BY DEF Late, LateArrivals
<1>8. \A m \in DOMAIN memory : Due(m)' = Due(m)
  BY <1>4 DEF Due
<1>6. Amendments' \subseteq Amendments
  BY <1>2, <1>5, <1>8 DEF Amendments, Owing
<1>7. ASSUME MemoryAccounted PROVE MemoryAccounted'
  <2> SUFFICES ASSUME NEW m \in DOMAIN memory', NEW s \in Covering(m)'
               PROVE  \/ memory'[m].shredded
                      \/ m \in footage'[s].leaves
                      \/ \E t \in DOMAIN footage' : [target |-> s, memory |-> m] \in footage'[t].amends
                      \/ m \in Late'
    BY DEF MemoryAccounted
  <2>1. m \in DOMAIN memory /\ s \in Covering(m) /\ footage' = footage
    BY <1>4 DEF Fading
  <2>2. \/ memory[m].shredded
        \/ m \in footage[s].leaves
        \/ \E t \in DOMAIN footage : [target |-> s, memory |-> m] \in footage[t].amends
        \/ m \in Late
    BY <1>7, <2>1 DEF MemoryAccounted
  <2>3. memory[m].shredded => memory'[m].shredded
    BY <2>1 DEF Fading
  <2> QED
    BY <1>3, <2>1, <2>2, <2>3
<1> QED
  BY <1>6, <1>7, <1>8

\* What is dropped from the locals: a step that only fades the memories and
\* leaves everybody where they were, or idle, keeps Notes.
LEMMA NotesFade ==
  ASSUME IInv, NEW p \in Procs, Notes(p), Fading, clock' \in Nat, clock <= clock',
         \A r \in Procs : proc'[r] = proc[r] \/ proc'[r].pc \in {"idle", "stamp"}
  PROVE  Notes(p)'
<1>1. /\ Amendments' \subseteq Amendments /\ MemoryAccounted'
      /\ footage' = footage /\ DOMAIN memory' = DOMAIN memory
  BY Fades DEF Notes, Fading
<1>2. clock \in Nat /\ \A s \in DOMAIN footage : footage[s].at \in Nat
  BY DEF IInv, TypeOK
<1>3. proc[p] \in Local
  BY DEF IInv, TypeOK
<1>4. Ordered' /\ \A s \in DOMAIN footage' : footage'[s].at <= clock'
  BY <1>1, <1>2 DEF Notes, Ordered
<1>7. \A r \in Procs : proc'[r].pc = "put" => \A s \in DOMAIN footage' : footage'[s].at <= proc'[r].at
  BY <1>1 DEF Notes
<1>5. CASE proc'[p].pc \in {"idle", "stamp"}
  BY <1>1, <1>4, <1>5, <1>7 DEF Notes, Composing, Amending
<1>6. CASE proc'[p] = proc[p]
  <2>1. proc[p].at \in Nat
    BY <1>3 DEF Local
  <2>3. proc'[p].pc \in {"check", "insert"} => proc'[p].at <= clock'
    BY <1>2, <1>6, <2>1 DEF Notes
  <2>4. proc'[p].pc \in Composing =>
       /\ \A s \in DOMAIN footage' : footage'[s].date < proc'[p].date
       /\ \A m \in DOMAIN memory' :
            memory'[m].day = proc'[p].date /\ ~memory'[m].shredded => m \in proc'[p].mems
    BY <1>1, <1>6 DEF Notes, Fading
  <2>5. proc'[p].pc \in Amending => Amendments' \subseteq proc'[p].amends
    BY <1>1, <1>6 DEF Notes
  <2>6. proc'[p].pc = "arrivals" => proc'[p].tip = TipSeq'
    BY <1>1, <1>6 DEF Notes, TipSeq
  <2>7. proc'[p].pc = "cover" =>
          /\ proc'[p].late \subseteq DOMAIN memory'
          /\ Amendments' \subseteq proc'[p].amends \cup Owing(proc[p].late)'
    <3> SUFFICES ASSUME proc[p].pc = "cover"
                 PROVE  /\ proc[p].late \subseteq DOMAIN memory'
                        /\ Amendments' \subseteq proc[p].amends \cup Owing(proc[p].late)'
      BY <1>6
    <3>1. /\ proc[p].late \subseteq DOMAIN memory
          /\ Amendments \subseteq proc[p].amends \cup Owing(proc[p].late)
      BY DEF Notes
    <3>2. \A m \in proc[p].late : Due(m)' = Due(m)
      BY <3>1, Fades
    <3>3. Owing(proc[p].late)' = Owing(proc[p].late)
      BY <1>6, <3>2 DEF Owing
    <3> QED
      BY <1>1, <3>1, <3>3
  <2> QED
    BY <1>1, <1>4, <1>7, <2>3, <2>4, <2>5, <2>6, <2>7 DEF Notes
<1> QED
  BY <1>5, <1>6

\* A note stamped at or after every seal is late for the day it belongs to.
LEMMA NotesPut ==
  ASSUME IInv, NEW p \in Procs, Notes(p), NEW r \in Procs, PutMemory(r),
         r = p \/ proc[p].pc \in {"idle", "put", "stamp"}
  PROVE  Notes(p)'
<1> DEFINE l == proc[r]
<1>0. /\ proc \in [Procs -> Local] /\ l \in Local /\ memory \in [DOMAIN memory -> MemoryRow]
      /\ clock \in Nat /\ Dense /\ Dates \subseteq Nat
      /\ \A s \in DOMAIN footage : footage[s].at \in Nat /\ footage[s].date \in Nat
  BY MemoriaAssumption DEF IInv, TypeOK
<1>1. PICK n \in l.mems :
        memory' = IF n \in DOMAIN memory THEN memory
                  ELSE Insert(memory, n, [day |-> l.date, at |-> l.at, shredded |-> FALSE])
  BY DEF PutMemory
<1>2. l.pc = "put" /\ footage' = footage /\ clock' = clock /\ proc'[r].pc = "idle"
      /\ \A q \in Procs \ {r} : proc'[q] = proc[q]
  BY <1>0 DEF PutMemory, Return, Idle
<1>3. CASE n \in DOMAIN memory
  <2>1. Fading
    BY <1>1, <1>2, <1>3 DEF Fading
  <2> QED
    BY <1>0, <1>2, <2>1, NotesFade
<1>4. CASE n \notin DOMAIN memory
  <2>1. /\ DOMAIN memory' = DOMAIN memory \cup {n}
        /\ \A m \in DOMAIN memory : memory'[m] = memory[m]
        /\ memory'[n].day = l.date /\ memory'[n].at = l.at /\ memory'[n].shredded = FALSE
    BY <1>1, <1>4 DEF Insert
  <2>2. TipSeq' = TipSeq
    BY <1>2 DEF TipSeq
  <2>3. Late \subseteq Late'
    BY <1>2, <2>1, <2>2 DEF Late, LateArrivals
  <2>4. MemoryAccounted'
    <3> SUFFICES ASSUME NEW m \in DOMAIN memory', NEW s \in Covering(m)'
                 PROVE  \/ memory'[m].shredded
                        \/ m \in footage'[s].leaves
                        \/ \E t \in DOMAIN footage' : [target |-> s, memory |-> m] \in footage'[t].amends
                        \/ m \in Late'
      BY DEF MemoryAccounted
    <3>1. CASE m \in DOMAIN memory
      <4>1. s \in Covering(m) /\ memory'[m] = memory[m]
        BY <1>2, <2>1, <3>1 DEF Covering
      <4>2. \/ memory[m].shredded
            \/ m \in footage[s].leaves
            \/ \E t \in DOMAIN footage : [target |-> s, memory |-> m] \in footage[t].amends
            \/ m \in Late
        BY <3>1, <4>1 DEF Notes, MemoryAccounted
      <4> QED
        BY <1>2, <2>3, <4>1, <4>2
    <3>2. CASE m = n
      <4>1. s \in DOMAIN footage /\ footage[s].date = l.date
        BY <1>2, <2>1, <3>2 DEF Covering
      <4>2. TipSeq # 0 /\ TipSeq \in DOMAIN footage /\ s <= TipSeq
        BY <1>0, <4>1 DEF Dense
      <4>3. footage[s].date <= footage[TipSeq].date
        BY <1>0, <4>1, <4>2 DEF Notes, Ordered, Dense
      <4>4. footage[TipSeq].at <= l.at /\ l.at \in Nat
        BY <1>0, <1>2, <4>2 DEF Notes, Local
      <4> QED
        BY <1>0, <1>2, <2>1, <2>2, <3>2, <4>1, <4>2, <4>3, <4>4 DEF Late, LateArrivals
    <3> QED
      BY <2>1, <3>1, <3>2
  <2>5. proc'[p].pc \in {"idle", "put", "stamp"}
    BY <1>2
  <2>6. \A q \in Procs : proc'[q].pc = "put" => \A s \in DOMAIN footage' : footage'[s].at <= proc'[q].at
    BY <1>2 DEF Notes
  <2> QED
    BY <1>2, <2>4, <2>5, <2>6 DEF Notes, Ordered, Composing, Amending
<1> QED
  BY <1>3, <1>4

\* The day p inserts takes in the notes of its own window and the late ones.
LEMMA NotesInsert ==
  ASSUME IInv, NEW p \in Procs, Undisturbed(p), Notes(p), Sealed(p)
  PROVE  Notes(p)'
<1> DEFINE l == proc[p]
           t == TipSeq + 1
<1>1. /\ TipSeq \in Nat /\ DOMAIN footage = 1..TipSeq /\ DOMAIN footage' = 1..t
      /\ TipSeq' = t
      /\ \A s \in DOMAIN footage : footage'[s] = footage[s]
      /\ footage'[t] = Draft(l)
  BY SealedDay
<1>2. /\ proc'[p].pc = "stamp" /\ memory' = memory /\ clock' = clock /\ l.pc = "insert"
      /\ Draft(l).date = l.date /\ Draft(l).leaves = l.mems /\ Draft(l).at = l.at
      /\ Draft(l).amends = l.amends
  <2>1. proc \in [Procs -> Local]
    BY DEF IInv, TypeOK
  <2> QED
    BY <2>1 DEF Sealed, Local, Draft
<1>7. \A r \in Procs : proc'[r].pc # "put"
  <2>1. proc \in [Procs -> Local]
    BY DEF IInv, TypeOK
  <2> QED
    BY <1>2, <2>1 DEF Sealed, Undisturbed
<1>3. /\ \A s \in DOMAIN footage : footage[s].date < l.date
      /\ \A m \in DOMAIN memory : memory[m].day = l.date /\ ~memory[m].shredded => m \in l.mems
      /\ Amendments \subseteq l.amends /\ l.at <= clock
  BY <1>2 DEF Notes, Composing, Amending
<1> HIDE DEF l
<1>4. Ordered'
  <2> SUFFICES ASSUME NEW s \in DOMAIN footage', NEW u \in DOMAIN footage', s < u
               PROVE  footage'[s].date < footage'[u].date
    BY DEF Ordered
  <2>1. s \in DOMAIN footage
    BY <1>1
  <2>2. CASE u \in DOMAIN footage
    BY <1>1, <2>1, <2>2 DEF Notes, Ordered
  <2>3. CASE u = t
    BY <1>1, <1>2, <1>3, <2>1, <2>3
  <2> QED
    BY <1>1, <2>2, <2>3
<1>5. \A s \in DOMAIN footage' : footage'[s].at <= clock'
  BY <1>1, <1>2, <1>3 DEF Notes
<1>6. MemoryAccounted'
  <2> SUFFICES ASSUME NEW m \in DOMAIN memory', NEW s \in Covering(m)'
               PROVE  \/ memory'[m].shredded
                      \/ m \in footage'[s].leaves
                      \/ \E u \in DOMAIN footage' : [target |-> s, memory |-> m] \in footage'[u].amends
                      \/ m \in Late'
    BY DEF MemoryAccounted
  <2>0. s \in DOMAIN footage' /\ footage'[s].date = memory[m].day /\ m \in DOMAIN memory
    BY <1>2 DEF Covering
  <2>1. CASE s = t
    BY <1>1, <1>2, <1>3, <2>0, <2>1
  <2>2. CASE s \in DOMAIN footage
    <3>1. s \in Covering(m)
      BY <1>1, <2>0, <2>2 DEF Covering
    <3>2. \/ memory[m].shredded
          \/ m \in footage[s].leaves
          \/ \E u \in DOMAIN footage : [target |-> s, memory |-> m] \in footage[u].amends
          \/ m \in Late
      BY <2>0, <3>1 DEF Notes, MemoryAccounted
    <3>3. CASE m \in Late
      <4>1. [target |-> s, memory |-> m] \in Amendments
        BY <3>1, <3>3 DEF Amendments, Owing, Due
      <4>2. [target |-> s, memory |-> m] \in footage'[t].amends
        BY <1>1, <1>2, <1>3, <4>1
      <4> QED
        BY <1>1, <4>2
    <3>4. CASE \E u \in DOMAIN footage : [target |-> s, memory |-> m] \in footage[u].amends
      BY <1>1, <3>4
    <3> QED
      BY <1>1, <1>2, <2>2, <3>2, <3>3, <3>4
  <2> QED
    BY <1>1, <2>0, <2>1, <2>2
<1> QED
  BY <1>2, <1>4, <1>5, <1>6, <1>7 DEF Notes, Composing, Amending

LEMMA NotesStep ==
  ASSUME IInv, NEW p \in Procs, Undisturbed(p), Undisturbed(p)', [Next]_vars, Forward(p), Notes(p)
  PROVE  Notes(p)'
<1> DEFINE l == proc[p]
<1>0. /\ proc \in [Procs -> Local] /\ l \in Local /\ clock \in Nat
      /\ \A s \in DOMAIN footage : footage[s].at \in Nat
  BY DEF IInv, TypeOK
<1>1. ASSUME NEW r \in Procs, \/ Questing(r) \/ (\E m \in Memories : Shred(r, m)) \/ Tick \/ UNCHANGED vars
      PROVE  Notes(p)'
  BY <1>1, SingleStatements, NotesFade DEF Beside
<1>2. UNCHANGED <<memory, footage>> => Fading
  BY DEF Fading
<1>3. ASSUME NEW r \in Procs,
             Crash(r) \/ (r = p /\ Finish(r)) \/ \E q \in Quests : r = p /\ (StampQuest(r, q) \/ StampVerdict(r, q))
      PROVE  Notes(p)'
  <2>1. /\ UNCHANGED <<clock, memory, footage>> /\ proc'[r].pc \in {"idle", "stamp"}
        /\ \A q \in Procs \ {r} : proc'[q] = proc[q]
    BY <1>0, <1>3 DEF Crash, Finish, Return, Idle, StampQuest, StampVerdict, Local
  <2> QED
    BY <1>0, <1>2, <2>1, NotesFade
<1>4. ASSUME NEW r \in Procs, PutMemory(r) PROVE Notes(p)'
  <2>1. r = p \/ proc[p].pc \in {"idle", "put", "stamp"}
    BY <1>4 DEF PutMemory, Undisturbed
  <2> QED
    BY <1>4, <2>1, NotesPut
<1>5. CASE InsertFootage(p)
  <2>1. UNCHANGED footage \/ Sealed(p)
    <3>1. UNCHANGED footage \/ \E r \in Procs : Sealed(r)
      BY FootageAppends
    <3>2. ASSUME NEW r \in Procs, r # p, Sealed(r) PROVE FALSE
      BY <3>2, NobodyElseSeals DEF Undisturbed
    <3> QED
      BY <3>1, <3>2
  <2>2. CASE Sealed(p)
    BY <2>2, NotesInsert
  <2>3. CASE UNCHANGED footage
    <3>1. /\ UNCHANGED <<clock, memory>> /\ proc'[p].pc \in {"idle", "stamp"}
          /\ \A r \in Procs \ {p} : proc'[r] = proc[r]
      BY <1>0, <1>5 DEF InsertFootage, Return, Idle, Local
    <3> QED
      BY <1>0, <1>2, <2>3, <3>1, NotesFade
  <2> QED
    BY <2>1, <2>2, <2>3
\* The steps that only read.
<1>6. ASSUME UNCHANGED <<clock, memory, footage>>
      PROVE  /\ MemoryAccounted' /\ Ordered' /\ Amendments' \subseteq Amendments
             /\ \A s \in DOMAIN footage' : footage'[s].at <= clock'
  BY <1>2, <1>6, Fades DEF Notes, Ordered
<1>12. ASSUME UNCHANGED <<clock, memory, footage>>, \A r \in Procs \ {p} : proc'[r] = proc[r], proc'[p].pc # "put"
       PROVE  \A r \in Procs : proc'[r].pc = "put" => \A s \in DOMAIN footage' : footage'[s].at <= proc'[r].at
  BY <1>12 DEF Notes
<1>7. ASSUME NEW r \in Procs, NEW m \in Memories, NEW d \in Dates, StampMemory(r, m, d) PROVE Notes(p)'
  <2>1. /\ UNCHANGED <<clock, memory, footage>> /\ proc'[r].pc = "put" /\ proc'[r].at = clock
        /\ \A q \in Procs \ {r} : proc'[q] = proc[q]
    BY <1>0, <1>7 DEF StampMemory, Local
  <2>2. \A q \in Procs : proc'[q].pc = "put" => \A s \in DOMAIN footage' : footage'[s].at <= proc'[q].at
    BY <2>1 DEF Notes
  <2>3. CASE r = p
    BY <1>6, <2>1, <2>2, <2>3 DEF Notes, Composing, Amending
  <2>4. CASE r # p
    <3>1. proc'[p].pc \in {"idle", "put", "stamp"}
      BY <2>1, <2>4 DEF Undisturbed
    <3> QED
      BY <1>6, <2>1, <2>2, <3>1 DEF Notes, Composing, Amending
  <2> QED
    BY <2>3, <2>4
<1>8. ASSUME NEW d \in Dates, Begin(p, d) PROVE Notes(p)'
  <2>1. /\ UNCHANGED <<clock, memory, footage>> /\ proc'[p].pc = "window"
        /\ \A r \in Procs \ {p} : proc'[r] = proc[r]
    BY <1>0, <1>8 DEF Begin, Local
  <2> QED
    BY <1>6, <1>12, <2>1 DEF Notes, Composing, Amending
<1>9. CASE ReadWindow(p)
  <2>1. /\ UNCHANGED <<clock, memory, footage>> /\ proc'[p].pc = "carry" /\ l.pc = "window"
        /\ proc'[p].date = l.date /\ proc'[p].mems = Window(l.date)
        /\ \A r \in Procs \ {p} : proc'[r] = proc[r]
    BY <1>0, <1>9 DEF ReadWindow, Local
  <2>2. \A m \in DOMAIN memory : memory[m].day = l.date /\ ~memory[m].shredded => m \in Window(l.date)
    BY DEF Window
  <2>3. \A s \in DOMAIN footage : footage[s].date < l.date
    BY <2>1 DEF Forward
  <2> QED
    BY <1>6, <1>12, <2>1, <2>2, <2>3 DEF Notes, Amending
\* One of the late memories after the other.
<1>13. CASE ReadLate(p)
  <2>1. /\ UNCHANGED <<clock, memory, footage>> /\ l.pc \in {"late", "arrivals", "cover"}
        /\ \A r \in Procs \ {p} : proc'[r] = proc[r]
    BY <1>13, LateReads
  <2>2. CASE Return(p)
    BY <1>0, <1>2, <2>1, <2>2, NotesFade DEF Return, Idle
  <2>3. CASE ~ Return(p)
    <3>1. /\ proc'[p].pc \in {"arrivals", "cover", "issued"}
          /\ proc'[p].date = l.date /\ proc'[p].mems = l.mems
      BY <1>13, <2>3, LateReads
    <3>2. TipSeq' = TipSeq /\ Amendments' \subseteq Amendments
      BY <1>6, <2>1 DEF TipSeq
    <3>3. /\ proc'[p].pc = "arrivals" => proc'[p].tip = TipSeq
          /\ proc'[p].pc = "cover" =>
               /\ proc'[p].late \subseteq DOMAIN memory
               /\ Amendments \subseteq proc'[p].amends \cup Owing(proc'[p].late)
          /\ proc'[p].pc = "issued" => Amendments \subseteq proc'[p].amends
      <4>1. CASE ReadSealedThrough(p)
        <5>1. CASE TipSeq = 0
          BY <1>0, <4>1, <5>1 DEF ReadSealedThrough, Local, Amendments, Owing, Late
        <5>2. CASE TipSeq # 0
          BY <1>0, <4>1, <5>2 DEF ReadSealedThrough, Local
        <5> QED
          BY <5>1, <5>2
      <4>2. ASSUME NEW X \in SUBSET DOMAIN memory, NEW A,
                   proc' = [proc EXCEPT ![p] = Lacking(@, X, A)],
                   Amendments \subseteq A \cup Owing(X)
            PROVE  /\ proc'[p].pc = "cover" =>
                        /\ proc'[p].late \subseteq DOMAIN memory
                        /\ Amendments \subseteq proc'[p].amends \cup Owing(proc'[p].late)
                   /\ proc'[p].pc = "issued" => Amendments \subseteq proc'[p].amends
                   /\ proc'[p].pc # "arrivals"
        <5>1. proc'[p] = Lacking(l, X, A) /\ proc'[p] # Idle
          BY <1>0, <2>3, <4>2 DEF Return
        <5>2. CASE X # {}
          BY <1>0, <4>2, <5>1, <5>2 DEF Lacking, Local
        <5>3. CASE X = {}
          BY <1>0, <4>2, <5>1, <5>3 DEF Lacking, Local, Owing
        <5> QED
          BY <5>2, <5>3
      <4>3. CASE ReadArrivals(p)
        <5>1. /\ proc' = [proc EXCEPT ![p] = Lacking(@, LateArrivals(TipSeq), {})]
              /\ LateArrivals(TipSeq) \subseteq DOMAIN memory
          BY <4>3 DEF ReadArrivals, Notes, LateArrivals
        <5>2. Amendments \subseteq {} \cup Owing(LateArrivals(TipSeq))
          BY DEF Amendments, Late, Owing
        <5> QED
          BY <4>2, <5>1, <5>2
      <4>4. ASSUME NEW m \in Memories, FindDay(p, m)
            PROVE  /\ proc'[p].pc = "cover" =>
                        /\ proc'[p].late \subseteq DOMAIN memory
                        /\ Amendments \subseteq proc'[p].amends \cup Owing(proc'[p].late)
                   /\ proc'[p].pc = "issued" => Amendments \subseteq proc'[p].amends
                   /\ proc'[p].pc # "arrivals"
        <5>1. /\ proc' = [proc EXCEPT ![p] = Lacking(@, l.late \ {m}, l.amends \cup Due(m))]
              /\ l.late \subseteq DOMAIN memory /\ Amendments \subseteq l.amends \cup Owing(l.late)
          BY <4>4 DEF FindDay, Notes
        <5>2. Owing(l.late) \subseteq Due(m) \cup Owing(l.late \ {m})
          BY DEF Owing
        <5>3. Amendments \subseteq (l.amends \cup Due(m)) \cup Owing(l.late \ {m})
          BY <5>1, <5>2
        <5> QED
          BY <4>2, <5>1, <5>3
      <4> QED
        BY <1>13, <4>1, <4>3, <4>4 DEF ReadLate
    <3>6. \A m : Due(m)' = Due(m)
      BY <2>1 DEF Due, Covering
    <3>8. Owing(proc[p].late)' = Owing(proc'[p].late)
      BY <3>6 DEF Owing
    <3>4. /\ \A s \in DOMAIN footage' : footage'[s].date < proc'[p].date
          /\ \A m \in DOMAIN memory' :
               memory'[m].day = proc'[p].date /\ ~memory'[m].shredded => m \in proc'[p].mems
      BY <2>1, <3>1 DEF Notes, Composing
    <3>5. proc'[p].pc \notin {"put", "check", "insert"}
      BY <3>1
    <3>7. /\ proc'[p].pc = "arrivals" => proc'[p].tip = TipSeq'
          /\ proc'[p].pc = "cover" =>
               /\ proc'[p].late \subseteq DOMAIN memory'
               /\ Amendments' \subseteq proc'[p].amends \cup Owing(proc[p].late)'
          /\ proc'[p].pc \in Amending => Amendments' \subseteq proc'[p].amends
      BY <2>1, <3>1, <3>2, <3>3, <3>8 DEF Amending
    <3> QED
      BY <1>6, <1>12, <2>1, <3>4, <3>5, <3>7 DEF Notes
  <2> QED
    BY <2>2, <2>3
<1>10. CASE CarryThreads(p) \/ ReadTip(p) \/ ReadIssued(p) \/ ReadAnswered(p)
            \/ ReadLink(p) \/ CheckSeq(p)
  <2>1. UNCHANGED <<clock, memory, footage>> /\ l.pc \in Composing
    BY <1>10 DEF CarryThreads, ReadTip, ReadIssued, ReadAnswered, ReadLink, CheckSeq, Composing
  <2>4. \A r \in Procs \ {p} : proc'[r] = proc[r]
    BY <1>0, <1>10 DEF CarryThreads, ReadTip, ReadIssued, ReadAnswered, ReadLink, CheckSeq, Return
  <2>2. CASE Return(p)
    BY <1>0, <1>2, <2>1, <2>2, <2>4, NotesFade DEF Return, Idle
  <2>3. CASE ~ Return(p)
    <3>1. /\ proc'[p].date = l.date /\ proc'[p].mems = l.mems
          /\ proc'[p].pc \in Composing \ {"arrivals", "cover"}
      BY <1>0, <1>10, <2>3 DEF CarryThreads, ReadTip, ReadIssued, ReadAnswered, ReadLink,
         CheckSeq, Composing, Local
    <3>2. proc'[p].pc \in {"check", "insert"} => proc'[p].at <= clock
      BY <1>0, <1>10, <2>3 DEF CarryThreads, ReadTip, ReadIssued, ReadAnswered, ReadLink,
         CheckSeq, Local, Notes
    <3>3. proc'[p].pc \in Amending => Amendments \subseteq proc'[p].amends
      BY <1>0, <1>10, <2>3 DEF CarryThreads, ReadTip, ReadIssued, ReadAnswered, ReadLink,
         CheckSeq, Local, Notes, Amending
    <3>4. \A s \in DOMAIN footage' : footage'[s].date < proc'[p].date
      BY <2>1, <3>1 DEF Notes
    <3>5. \A m \in DOMAIN memory' :
            memory'[m].day = proc'[p].date /\ ~memory'[m].shredded => m \in proc'[p].mems
      BY <2>1, <3>1 DEF Notes
    <3>6. proc'[p].pc # "put"
      BY <3>1 DEF Composing
    <3> QED
      BY <1>6, <1>12, <2>1, <2>4, <3>1, <3>2, <3>3, <3>4, <3>5, <3>6 DEF Notes
  <2> QED
    BY <2>2, <2>3
<1>11. SealsAlone(p) /\ SealsAlone(p)'
  BY DEF Undisturbed
<1> QED
  <2>1. ASSUME NEW r \in Procs, Sealing(r) PROVE r = p
    BY <1>11, <2>1, NobodyElseSeals
  <2> QED
    BY <1>1, <1>3, <1>4, <1>5, <1>7, <1>8, <1>9, <1>10, <1>13, <2>1
    DEF Next, Sealing, Ingesting, ReadLate

-----------------------------------------------------------------------------
\* Roots: outside its stamps a process leaves days that re-derive theirs.

\* The quests of day s that p has yet to stamp.
Owed(p, s) == IF proc[p].pc = "stamp" /\ proc[p].seq = s THEN proc[p].issued ELSE {}
OwedVerdicts(p, s) == IF proc[p].pc = "stamp" /\ proc[p].seq = s THEN proc[p].answered ELSE {}

Stamped(s) == {q \in DOMAIN quest : quest[q].committed = s}
StampedVerdicts(s) == {q \in DOMAIN quest : quest[q].verdict_committed = s}

\* What is known of every day but those of T.
Roots(p, T) ==
  LET l == proc[p] IN
  /\ \A s \in DOMAIN footage \ T :
       /\ footage[s].root = Root(s, footage[s].date, footage[s].leaves,
                                 footage[s].root.quest, footage[s].root.verdict)
       /\ footage[s].root.quest = Stamped(s) \cup Owed(p, s)
       /\ footage[s].root.verdict = StampedVerdicts(s) \cup OwedVerdicts(p, s)
  /\ \A q \in DOMAIN quest :
       quest[q].verdict_committed # Null => quest[q].status = "answered"
  /\ l.pc \in {"answered", "link", "check", "insert", "stamp"} =>
       \A q \in l.issued : quest[q].committed = Null
  /\ l.pc \in {"link", "check", "insert", "stamp"} =>
       \A q \in l.answered : quest[q].verdict_committed = Null /\ quest[q].status = "answered"

\* No stamp is owed: the roots re-derive.
LEMMA RootsSuffice ==
  ASSUME IInv, NEW p \in Procs, NEW CONSTANT T, Roots(p, T), \A r \in Procs : proc[r].pc # "stamp"
  PROVE  \A s \in DOMAIN footage \ T : HeldRoot(s) = footage[s].root
<1> SUFFICES ASSUME NEW s \in DOMAIN footage \ T
             PROVE  HeldRoot(s) = footage[s].root
  OBVIOUS
<1>1. Owed(p, s) = {} /\ OwedVerdicts(p, s) = {}
  BY DEF Owed, OwedVerdicts
<1>2. footage[s].root.quest = Stamped(s) /\ footage[s].root.verdict = StampedVerdicts(s)
  BY <1>1 DEF Roots
<1>3. s # Null
  BY DEF IInv, TypeOK, Seqs, Null
<1>4. StampedVerdicts(s) = {q \in DOMAIN quest : quest[q].status = "answered" /\ quest[q].verdict_committed = s}
  BY <1>3 DEF Roots, StampedVerdicts
<1>5. HeldRoot(s) = Root(s, footage[s].date, footage[s].leaves,
                         footage[s].root.quest, footage[s].root.verdict)
  BY <1>2, <1>4 DEF HeldRoot, Stamped
<1> QED
  BY <1>5 DEF Roots

\* Steps that leave the stamps alone and make p owe none.
LEMMA RootsKept ==
  ASSUME IInv, NEW p \in Procs, NEW CONSTANT T, Roots(p, T), UNCHANGED footage, TypeOK',
         \A s \in DOMAIN footage : /\ Stamped(s)' = Stamped(s)
                                   /\ StampedVerdicts(s)' = StampedVerdicts(s)
                                   /\ Owed(p, s)' = Owed(p, s)
                                   /\ OwedVerdicts(p, s)' = OwedVerdicts(p, s),
         \A q \in DOMAIN quest' :
           quest'[q].verdict_committed # Null => quest'[q].status = "answered",
         proc'[p].pc \in {"answered", "link", "check", "insert", "stamp"} =>
           \A q \in proc'[p].issued : quest'[q].committed = Null,
         proc'[p].pc \in {"link", "check", "insert", "stamp"} =>
           \A q \in proc'[p].answered : /\ quest'[q].verdict_committed = Null
                                        /\ quest'[q].status = "answered"
  PROVE  Roots(p, T)'
<1>1. \A s \in DOMAIN footage' \ T :
       /\ footage'[s].root = Root(s, footage'[s].date, footage'[s].leaves,
                                 footage'[s].root.quest, footage'[s].root.verdict)
       /\ footage'[s].root.quest = Stamped(s)' \cup Owed(p, s)'
       /\ footage'[s].root.verdict = StampedVerdicts(s)' \cup OwedVerdicts(p, s)'
  BY DEF Roots
<1> QED
  BY <1>1 DEF Roots

\* What stays when no stamp is set.
LEMMA StampsKept ==
  ASSUME IInv, NEW s \in DOMAIN footage, UNCHANGED quest
  PROVE  Stamped(s)' = Stamped(s) /\ StampedVerdicts(s)' = StampedVerdicts(s)
BY DEF Stamped, StampedVerdicts

\* The steps of p that neither stamp nor insert.
LEMMA RootsRead ==
  ASSUME IInv, NEW p \in Procs, NEW CONSTANT T, Roots(p, T), TypeOK', UNCHANGED <<footage, quest>>,
         \A s \in DOMAIN footage : Owed(p, s) = {} /\ OwedVerdicts(p, s) = {},
         proc'[p].pc # "stamp",
         proc'[p].pc \in {"answered", "link", "check", "insert"} =>
           \A q \in proc'[p].issued : quest[q].committed = Null,
         proc'[p].pc \in {"link", "check", "insert"} =>
           \A q \in proc'[p].answered : quest[q].verdict_committed = Null /\ quest[q].status = "answered"
  PROVE  Roots(p, T)'
<1>1. \A s \in DOMAIN footage : /\ Owed(p, s)' = Owed(p, s)
                                /\ OwedVerdicts(p, s)' = OwedVerdicts(p, s)
  BY DEF Owed, OwedVerdicts
<1> QED
  BY <1>1, RootsKept, StampsKept DEF Roots

\* The day that is inserted is owed every stamp its root calls for.
LEMMA RootsInsert ==
  ASSUME IInv, NEW p \in Procs, NEW CONSTANT T, Roots(p, T), Sealed(p)
  PROVE  Roots(p, T)'
<1> DEFINE l == proc[p]
<1> SUFFICES ASSUME NEW CONSTANT t, t = TipSeq + 1
             PROVE  Roots(p, T)'
  OBVIOUS
<1>0. /\ proc \in [Procs -> Local] /\ l \in Local /\ StampedIsCommitted /\ TipSeq \in Nat
  BY DEF IInv, TypeOK, Dense
<1>1. /\ DOMAIN footage = 1..TipSeq /\ DOMAIN footage' = 1..t
      /\ \A s \in DOMAIN footage : footage'[s] = footage[s]
      /\ footage'[t] = Draft(l)
  BY SealedDay
<1>2. l.pc = "insert" /\ l.seq = t /\ UNCHANGED quest
  BY DEF Sealed
<1>3. /\ proc'[p].pc = "stamp" /\ proc'[p].seq = t
      /\ proc'[p].issued = l.issued /\ proc'[p].answered = l.answered
  BY <1>0, <1>2 DEF Sealed, Local
<1>4. /\ Draft(l).root = Root(t, l.date, l.mems, l.issued, l.answered)
      /\ Draft(l).date = l.date /\ Draft(l).leaves = l.mems
  BY <1>2 DEF Draft
<1>5. /\ Draft(l).root.quest = l.issued /\ Draft(l).root.verdict = l.answered
  BY <1>4 DEF Root
<1> HIDE DEF l
<1>6. Stamped(t)' = {} /\ StampedVerdicts(t)' = {}
  BY <1>0, <1>1, <1>2 DEF Stamped, StampedVerdicts, StampedIsCommitted, Null
<1>7. Owed(p, t)' = l.issued /\ OwedVerdicts(p, t)' = l.answered
  BY <1>3 DEF Owed, OwedVerdicts
<1>8. \A s \in DOMAIN footage : /\ Owed(p, s)' = {} /\ OwedVerdicts(p, s)' = {}
                                /\ Owed(p, s) = {} /\ OwedVerdicts(p, s) = {}
  <2>1. \A s \in DOMAIN footage : s # t
    BY <1>0, <1>1
  <2> QED
    BY <1>2, <1>3, <2>1 DEF Owed, OwedVerdicts, l
<1>9. \A s \in DOMAIN footage' \ T :
       /\ footage'[s].root = Root(s, footage'[s].date, footage'[s].leaves,
                                 footage'[s].root.quest, footage'[s].root.verdict)
       /\ footage'[s].root.quest = Stamped(s)' \cup Owed(p, s)'
       /\ footage'[s].root.verdict = StampedVerdicts(s)' \cup OwedVerdicts(p, s)'
  <2>1. ASSUME NEW s \in DOMAIN footage \ T PROVE
       /\ footage'[s].root = Root(s, footage'[s].date, footage'[s].leaves,
                                 footage'[s].root.quest, footage'[s].root.verdict)
       /\ footage'[s].root.quest = Stamped(s)' \cup Owed(p, s)'
       /\ footage'[s].root.verdict = StampedVerdicts(s)' \cup OwedVerdicts(p, s)'
    BY <1>1, <1>2, <1>8, StampsKept DEF Roots
  <2>2. /\ footage'[t].root = Root(t, footage'[t].date, footage'[t].leaves,
                                 footage'[t].root.quest, footage'[t].root.verdict)
        /\ footage'[t].root.quest = Stamped(t)' \cup Owed(p, t)'
        /\ footage'[t].root.verdict = StampedVerdicts(t)' \cup OwedVerdicts(p, t)'
    BY <1>1, <1>4, <1>5, <1>6, <1>7
  <2>3. \A s \in DOMAIN footage' \ T : s \in DOMAIN footage \ T \/ s = t
    BY <1>0, <1>1
  <2> QED
    BY <2>1, <2>2, <2>3
<1>10. /\ \A q \in DOMAIN quest' :
            quest'[q].verdict_committed # Null => quest'[q].status = "answered"
       /\ \A q \in proc'[p].issued : quest'[q].committed = Null
       /\ \A q \in proc'[p].answered : quest'[q].verdict_committed = Null /\ quest'[q].status = "answered"
  BY <1>2, <1>3 DEF Roots, l
<1> QED
  BY <1>9, <1>10 DEF Roots

\* A stamp moves a quest from what is owed to what is stamped.
LEMMA RootsStamp ==
  ASSUME IInv, NEW p \in Procs, NEW CONSTANT T, Roots(p, T), TypeOK',
         NEW q \in Quests, StampQuest(p, q) \/ StampVerdict(p, q)
  PROVE  Roots(p, T)'
<1> DEFINE l == proc[p]
<1>0. /\ proc \in [Procs -> Local] /\ l \in Local /\ quest \in [DOMAIN quest -> QuestRow]
      /\ l.issued \subseteq DOMAIN quest /\ l.answered \subseteq DOMAIN quest
  BY DEF IInv, TypeOK, Local
<1>1. l.pc = "stamp" /\ l.seq \in DOMAIN footage /\ footage' = footage /\ l.seq # Null
  BY DEF IInv, InFlight, StampQuest, StampVerdict, TypeOK, Seqs, Null
<1>2. /\ \A u \in l.issued : quest[u].committed = Null
      /\ \A u \in l.answered : quest[u].verdict_committed = Null /\ quest[u].status = "answered"
  BY <1>1 DEF Roots
<1>3. CASE StampQuest(p, q)
  <2>1. q \in l.issued /\ q \in DOMAIN quest /\ quest[q].committed = Null
    BY <1>0, <1>2, <1>3 DEF StampQuest
  <2>2. quest' = [quest EXCEPT ![q].committed = l.seq]
    BY <1>3, <2>1 DEF StampQuest
  <2>3. /\ DOMAIN quest' = DOMAIN quest
        /\ quest'[q].committed = l.seq /\ quest'[q].verdict_committed = quest[q].verdict_committed
        /\ quest'[q].status = quest[q].status
        /\ \A u \in DOMAIN quest : u # q => quest'[u] = quest[u]
    BY <1>0, <2>1, <2>2 DEF QuestRow
  <2>4. /\ proc'[p].pc = "stamp" /\ proc'[p].seq = l.seq
        /\ proc'[p].issued = l.issued \ {q} /\ proc'[p].answered = l.answered
    BY <1>0, <1>1, <1>3 DEF StampQuest, Local
  <2> HIDE DEF l
  <2>5. \A s \in DOMAIN footage :
          /\ StampedVerdicts(s)' = StampedVerdicts(s)
          /\ OwedVerdicts(p, s)' = OwedVerdicts(p, s)
          /\ Stamped(s)' \cup Owed(p, s)' = Stamped(s) \cup Owed(p, s)
    <3> SUFFICES ASSUME NEW s \in DOMAIN footage
                 PROVE  /\ StampedVerdicts(s)' = StampedVerdicts(s)
                        /\ OwedVerdicts(p, s)' = OwedVerdicts(p, s)
                        /\ Stamped(s)' \cup Owed(p, s)' = Stamped(s) \cup Owed(p, s)
      OBVIOUS
    <3>1. StampedVerdicts(s)' = StampedVerdicts(s)
      BY <2>1, <2>3 DEF StampedVerdicts
    <3>2. OwedVerdicts(p, s)' = OwedVerdicts(p, s)
      BY <1>1, <2>4 DEF OwedVerdicts, l
    <3>3. s # Null
      BY DEF IInv, TypeOK, Seqs, Null
    <3>4. CASE s = l.seq
      <4>1. Stamped(s)' = Stamped(s) \cup {q}
        BY <2>1, <2>3, <3>4 DEF Stamped
      <4>2. Owed(p, s)' = l.issued \ {q} /\ Owed(p, s) = l.issued
        BY <1>1, <2>4, <3>4 DEF Owed, l
      <4> QED
        BY <2>1, <3>1, <3>2, <4>1, <4>2
    <3>5. CASE s # l.seq
      <4>1. Stamped(s)' = Stamped(s)
        BY <2>1, <2>3, <3>3, <3>5 DEF Stamped
      <4>2. Owed(p, s)' = {} /\ Owed(p, s) = {}
        BY <2>4, <3>5 DEF Owed, l
      <4> QED
        BY <3>1, <3>2, <4>1, <4>2
    <3> QED
      BY <3>4, <3>5
  <2>6. \A s \in DOMAIN footage' \ T :
       /\ footage'[s].root = Root(s, footage'[s].date, footage'[s].leaves,
                                 footage'[s].root.quest, footage'[s].root.verdict)
       /\ footage'[s].root.quest = Stamped(s)' \cup Owed(p, s)'
       /\ footage'[s].root.verdict = StampedVerdicts(s)' \cup OwedVerdicts(p, s)'
    BY <1>1, <2>5 DEF Roots
  <2>7. \A u \in DOMAIN quest' : quest'[u].verdict_committed # Null => quest'[u].status = "answered"
    BY <2>1, <2>3 DEF Roots
  <2>8. /\ \A u \in proc'[p].issued : quest'[u].committed = Null
        /\ \A u \in proc'[p].answered : quest'[u].verdict_committed = Null /\ quest'[u].status = "answered"
    BY <1>0, <1>2, <2>1, <2>3, <2>4
  <2> QED
    BY <2>6, <2>7, <2>8 DEF Roots
<1>4. CASE StampVerdict(p, q)
  <2>1. q \in l.answered /\ q \in DOMAIN quest /\ quest[q].verdict_committed = Null
        /\ quest[q].status = "answered"
    BY <1>0, <1>2, <1>4 DEF StampVerdict
  <2>2. quest' = [quest EXCEPT ![q].verdict_committed = l.seq]
    BY <1>4, <2>1 DEF StampVerdict
  <2>3. /\ DOMAIN quest' = DOMAIN quest
        /\ quest'[q].verdict_committed = l.seq /\ quest'[q].committed = quest[q].committed
        /\ quest'[q].status = "answered"
        /\ \A u \in DOMAIN quest : u # q => quest'[u] = quest[u]
    BY <1>0, <2>1, <2>2 DEF QuestRow
  <2>4. /\ proc'[p].pc = "stamp" /\ proc'[p].seq = l.seq
        /\ proc'[p].answered = l.answered \ {q} /\ proc'[p].issued = l.issued
    BY <1>0, <1>1, <1>4 DEF StampVerdict, Local
  <2> HIDE DEF l
  <2>5. \A s \in DOMAIN footage :
          /\ Stamped(s)' = Stamped(s)
          /\ Owed(p, s)' = Owed(p, s)
          /\ StampedVerdicts(s)' \cup OwedVerdicts(p, s)' = StampedVerdicts(s) \cup OwedVerdicts(p, s)
    <3> SUFFICES ASSUME NEW s \in DOMAIN footage
                 PROVE  /\ Stamped(s)' = Stamped(s)
                        /\ Owed(p, s)' = Owed(p, s)
                        /\ StampedVerdicts(s)' \cup OwedVerdicts(p, s)' = StampedVerdicts(s) \cup OwedVerdicts(p, s)
      OBVIOUS
    <3>1. Stamped(s)' = Stamped(s)
      BY <2>1, <2>3 DEF Stamped
    <3>2. Owed(p, s)' = Owed(p, s)
      BY <1>1, <2>4 DEF Owed, l
    <3>3. s # Null
      BY DEF IInv, TypeOK, Seqs, Null
    <3>4. CASE s = l.seq
      <4>1. StampedVerdicts(s)' = StampedVerdicts(s) \cup {q}
        BY <2>1, <2>3, <3>4 DEF StampedVerdicts
      <4>2. OwedVerdicts(p, s)' = l.answered \ {q} /\ OwedVerdicts(p, s) = l.answered
        BY <1>1, <2>4, <3>4 DEF OwedVerdicts, l
      <4> QED
        BY <2>1, <3>1, <3>2, <4>1, <4>2
    <3>5. CASE s # l.seq
      <4>1. StampedVerdicts(s)' = StampedVerdicts(s)
        BY <2>1, <2>3, <3>3, <3>5 DEF StampedVerdicts
      <4>2. OwedVerdicts(p, s)' = {} /\ OwedVerdicts(p, s) = {}
        BY <2>4, <3>5 DEF OwedVerdicts, l
      <4> QED
        BY <3>1, <3>2, <4>1, <4>2
    <3> QED
      BY <3>4, <3>5
  <2>6. \A s \in DOMAIN footage' \ T :
       /\ footage'[s].root = Root(s, footage'[s].date, footage'[s].leaves,
                                 footage'[s].root.quest, footage'[s].root.verdict)
       /\ footage'[s].root.quest = Stamped(s)' \cup Owed(p, s)'
       /\ footage'[s].root.verdict = StampedVerdicts(s)' \cup OwedVerdicts(p, s)'
    BY <1>1, <2>5 DEF Roots
  <2>7. \A u \in DOMAIN quest' : quest'[u].verdict_committed # Null => quest'[u].status = "answered"
    BY <2>1, <2>3 DEF Roots
  <2>8. /\ \A u \in proc'[p].issued : quest'[u].committed = Null
        /\ \A u \in proc'[p].answered : quest'[u].verdict_committed = Null /\ quest'[u].status = "answered"
    BY <1>0, <1>2, <2>1, <2>3, <2>4
  <2> QED
    BY <2>6, <2>7, <2>8 DEF Roots
<1> QED
  BY <1>3, <1>4

\* A row of quest that is added, answered or expired carries no stamp yet.
LEMMA RootsBeside ==
  ASSUME IInv, NEW p \in Procs, NEW CONSTANT T, Roots(p, T), TypeOK', Beside(p)
  PROVE  Roots(p, T)'
<1>0. /\ footage' = footage /\ proc'[p] = proc[p] /\ proc \in [Procs -> Local]
      /\ DOMAIN quest \subseteq DOMAIN quest'
  BY DEF Beside, IInv, TypeOK
<1>1. \A s \in DOMAIN footage : s # Null
  BY DEF IInv, TypeOK, Seqs, Null
<1>2. \A s \in DOMAIN footage : /\ Stamped(s)' = Stamped(s)
                                /\ StampedVerdicts(s)' = StampedVerdicts(s)
  BY <1>1 DEF Beside, Stamped, StampedVerdicts
<1>3. \A s \in DOMAIN footage : /\ Owed(p, s)' = Owed(p, s)
                                /\ OwedVerdicts(p, s)' = OwedVerdicts(p, s)
  BY <1>0 DEF Owed, OwedVerdicts
<1>4. \A q \in DOMAIN quest' :
        quest'[q].verdict_committed # Null => quest'[q].status = "answered"
  <2>1. \A q \in DOMAIN quest :
          quest'[q].verdict_committed # Null => quest'[q].status = "answered"
    BY DEF Beside, Roots
  <2>2. \A q \in DOMAIN quest' \ DOMAIN quest : quest'[q].verdict_committed = Null
    BY DEF Beside
  <2> QED
    BY <2>1, <2>2
<1>5. proc[p].issued \subseteq DOMAIN quest /\ proc[p].answered \subseteq DOMAIN quest
  BY <1>0 DEF Local
<1>6. proc'[p].pc \in {"answered", "link", "check", "insert", "stamp"} =>
        \A q \in proc'[p].issued : quest'[q].committed = Null
  BY <1>0, <1>5 DEF Beside, Roots
<1>7. proc'[p].pc \in {"link", "check", "insert", "stamp"} =>
        \A q \in proc'[p].answered : /\ quest'[q].verdict_committed = Null
                                     /\ quest'[q].status = "answered"
  BY <1>0, <1>5 DEF Beside, Roots
<1> QED
  BY <1>0, <1>2, <1>3, <1>4, <1>6, <1>7, RootsKept

LEMMA RootsStep ==
  ASSUME IInv, TypeOK', NEW p \in Procs, NEW CONSTANT T, SealsAlone(p), SealsAlone(p)',
         [Next]_vars, ~DiesStamping(p), Roots(p, T)
  PROVE  Roots(p, T)'
<1> DEFINE l == proc[p]
<1>0. proc \in [Procs -> Local] /\ l \in Local
  BY DEF IInv, TypeOK
<1>1. CASE Beside(p)
  BY <1>1, RootsBeside
<1>2. l.pc # "stamp" => \A s \in DOMAIN footage : Owed(p, s) = {} /\ OwedVerdicts(p, s) = {}
  BY DEF Owed, OwedVerdicts
\* Where p has returned.
<1>3. ASSUME UNCHANGED <<footage, quest>>, l.pc # "stamp", proc'[p].pc \in {"idle", "put", "window",
             "carry", "tip", "late", "arrivals", "cover", "issued"}
      PROVE  Roots(p, T)'
  BY <1>2, <1>3, RootsRead
<1>4. CASE PutMemory(p)
  <2>1. UNCHANGED <<footage, quest>> /\ l.pc # "stamp" /\ proc'[p].pc = "idle"
    BY <1>0, <1>4 DEF PutMemory, Return, Idle
  <2> QED
    BY <1>3, <2>1
<1>5. CASE Crash(p) \/ Finish(p)
  <2>1. UNCHANGED <<footage, quest>> /\ proc'[p] = Idle
    BY <1>0, <1>5 DEF Crash, Finish, Return
  <2>2. l.pc = "stamp" => l.issued = {} /\ l.answered = {}
    BY <2>1 DEF DiesStamping
  <2>3. \A s \in DOMAIN footage : Owed(p, s) = {} /\ OwedVerdicts(p, s) = {}
    BY <1>2, <2>2 DEF Owed, OwedVerdicts
  <2> QED
    BY <2>1, <2>3, RootsRead DEF Idle
<1>6. ASSUME NEW m \in Memories, NEW d \in Dates, StampMemory(p, m, d) PROVE Roots(p, T)'
  <2>1. UNCHANGED <<footage, quest>> /\ l.pc # "stamp" /\ proc'[p].pc = "put"
    BY <1>0, <1>6 DEF StampMemory, Local
  <2> QED
    BY <1>3, <2>1
<1>7. ASSUME NEW d \in Dates, Begin(p, d) PROVE Roots(p, T)'
  <2>1. UNCHANGED <<footage, quest>> /\ l.pc # "stamp" /\ proc'[p].pc = "window"
    BY <1>0, <1>7 DEF Begin, Local
  <2> QED
    BY <1>3, <2>1
<1>8. CASE ReadWindow(p) \/ CarryThreads(p) \/ ReadTip(p) \/ ReadLate(p)
  <2>1. UNCHANGED <<footage, quest>> /\ l.pc # "stamp"
    BY <1>8, LateReads DEF ReadWindow, CarryThreads, ReadTip
  <2>2. CASE Return(p)
    BY <1>0, <1>3, <2>1, <2>2 DEF Return, Idle
  <2>3. CASE ~ Return(p)
    <3>1. proc'[p].pc \in {"carry", "tip", "late", "arrivals", "cover", "issued"}
      BY <1>0, <1>8, <2>3, LateReads DEF ReadWindow, CarryThreads, ReadTip, Local
    <3> QED
      BY <1>3, <2>1, <3>1
  <2> QED
    BY <2>2, <2>3
<1>9. CASE ReadIssued(p)
  <2>1. /\ UNCHANGED <<footage, quest>> /\ l.pc # "stamp" /\ proc'[p].pc = "answered"
        /\ proc'[p].issued = AwaitingQuests
    BY <1>0, <1>9 DEF ReadIssued, Local
  <2>2. \A q \in AwaitingQuests : quest[q].committed = Null
    BY DEF AwaitingQuests
  <2> QED
    BY <1>2, <2>1, <2>2, RootsRead
<1>10. CASE ReadAnswered(p)
  <2>1. /\ UNCHANGED <<footage, quest>> /\ l.pc = "answered" /\ proc'[p].pc = "link"
        /\ proc'[p].issued = l.issued /\ proc'[p].answered = AwaitingVerdicts
    BY <1>0, <1>10 DEF ReadAnswered, Local
  <2>2. \A q \in AwaitingVerdicts : quest[q].verdict_committed = Null /\ quest[q].status = "answered"
    BY DEF AwaitingVerdicts
  <2>3. \A q \in l.issued : quest[q].committed = Null
    BY <2>1 DEF Roots
  <2> QED
    BY <1>2, <2>1, <2>2, <2>3, RootsRead
<1>11. CASE ReadLink(p) \/ CheckSeq(p)
  <2>1. UNCHANGED <<footage, quest>> /\ l.pc \in {"link", "check"}
    BY <1>11 DEF ReadLink, CheckSeq
  <2>2. CASE Return(p)
    BY <1>0, <1>3, <2>1, <2>2 DEF Return, Idle
  <2>3. CASE ~ Return(p)
    <3>1. /\ proc'[p].pc \in {"check", "insert"}
          /\ proc'[p].issued = l.issued /\ proc'[p].answered = l.answered
      BY <1>0, <1>11, <2>3 DEF ReadLink, CheckSeq, Local
    <3>2. /\ \A q \in l.issued : quest[q].committed = Null
          /\ \A q \in l.answered : quest[q].verdict_committed = Null /\ quest[q].status = "answered"
      BY <2>1 DEF Roots
    <3> QED
      BY <1>2, <2>1, <3>1, <3>2, RootsRead
  <2> QED
    BY <2>2, <2>3
<1>12. CASE InsertFootage(p)
  <2>1. UNCHANGED footage \/ Sealed(p)
    <3>1. UNCHANGED footage \/ \E r \in Procs : Sealed(r)
      BY FootageAppends
    <3>2. ASSUME NEW r \in Procs, r # p, Sealed(r) PROVE FALSE
      BY <3>2, NobodyElseSeals
    <3> QED
      BY <3>1, <3>2
  <2>2. CASE Sealed(p)
    BY <2>2, RootsInsert
  <2>3. CASE ~ Sealed(p) /\ UNCHANGED footage
    <3>1. l.pc = "insert" /\ UNCHANGED quest /\ TipSeq \in Nat /\ InFlight(p)
      BY <1>12 DEF InsertFootage, IInv, Dense
    <3>2. CASE l.seq \in DOMAIN footage \/ DateIsSealed(l.date)
      <4>1. proc'[p].pc = "idle"
        BY <1>0, <1>12, <3>2 DEF InsertFootage, Return, Idle
      <4> QED
        BY <1>3, <2>3, <3>1, <4>1
    <3>3. CASE ~ (l.seq \in DOMAIN footage \/ DateIsSealed(l.date))
      <4>1. footage' = Insert(footage, l.seq, Draft(l))
        BY <1>12, <3>3 DEF InsertFootage
      <4>2. l.seq \in DOMAIN footage'
        BY <4>1 DEF Insert
      <4> QED
        BY <2>3, <3>3, <4>2
    <3> QED
      BY <3>2, <3>3
  <2> QED
    BY <2>1, <2>2, <2>3
<1>13. ASSUME NEW q \in Quests, StampQuest(p, q) \/ StampVerdict(p, q) PROVE Roots(p, T)'
  BY <1>13, RootsStamp
<1> QED
  BY <1>1, <1>4, <1>5, <1>6, <1>7, <1>8, <1>9, <1>10, <1>11, <1>12, <1>13, LoneStep DEF Sealing, ReadLate, Ingesting

\* A death half-way through the stamps spoils the day being stamped, no other.
LEMMA RootsTorn ==
  ASSUME IInv, TypeOK', NEW p \in Procs, NEW CONSTANT T, SealsAlone(p), SealsAlone(p)',
         [Next]_vars, DiesStamping(p), Roots(p, T), NEW CONSTANT n, n = proc[p].seq
  PROVE  Roots(p, T \cup {n})'
<1> DEFINE l == proc[p]
<1>0. /\ proc \in [Procs -> Local] /\ l \in Local
      /\ l.pc = "stamp" /\ proc'[p] = Idle /\ ~ (l.issued = {} /\ l.answered = {})
  BY DEF IInv, TypeOK, DiesStamping
<1>1. Crash(p)
  <2>1. ~ Beside(p) /\ ~ Ingesting(p)
    BY <1>0 DEF Beside, Ingesting, StampMemory, PutMemory, Idle
  <2>2. ASSUME Sealing(p) PROVE FALSE
    <3>1. \/ InsertFootage(p) \/ Finish(p)
          \/ \E q \in Quests : StampQuest(p, q) \/ StampVerdict(p, q)
      BY <1>0, <2>2, LateReads DEF Sealing, ReadLate, Begin, ReadWindow, CarryThreads, ReadTip,
         ReadIssued, ReadAnswered, ReadLink, CheckSeq
    <3>2. \E q \in Quests : StampQuest(p, q) \/ StampVerdict(p, q)
      BY <1>0, <3>1 DEF InsertFootage, Finish
    <3>3. proc'[p].pc = "stamp"
      BY <1>0, <3>2 DEF StampQuest, StampVerdict, Local
    <3> QED
      BY <1>0, <3>3 DEF Idle
  <2> QED
    BY <2>1, <2>2, LoneStep
<1>2. UNCHANGED <<footage, quest>>
  BY <1>1 DEF Crash
<1>3. \A s \in DOMAIN footage \ {l.seq} :
        /\ Owed(p, s) = {} /\ OwedVerdicts(p, s) = {}
        /\ Owed(p, s)' = {} /\ OwedVerdicts(p, s)' = {}
  BY <1>0 DEF Owed, OwedVerdicts, Idle
<1>4. \A s \in DOMAIN footage' \ (T \cup {l.seq}) :
       /\ footage'[s].root = Root(s, footage'[s].date, footage'[s].leaves,
                                 footage'[s].root.quest, footage'[s].root.verdict)
       /\ footage'[s].root.quest = Stamped(s)' \cup Owed(p, s)'
       /\ footage'[s].root.verdict = StampedVerdicts(s)' \cup OwedVerdicts(p, s)'
  BY <1>2, <1>3, StampsKept DEF Roots
<1> QED
  BY <1>0, <1>2, <1>4 DEF Roots, Idle

-----------------------------------------------------------------------------
\* In any run in which p seals by itself, and in the runs of the instance.

LEMMA AloneInit ==
  ASSUME NEW p \in Procs, Init
  PROVE  Threaded(p) /\ Notes(p) /\ Roots(p, {})
<1>1. DOMAIN footage = {} /\ DOMAIN memory = {} /\ DOMAIN quest = {} /\ proc[p].pc = "idle"
  BY DEF Init, Idle
<1> QED
  BY <1>1 DEF Threaded, ThreadsContinue, Numbered, Composing, Notes, MemoryAccounted, Ordered,
     Amending, Roots

\* Days that are sealed only forward are sealed in their order: what a
\* process that is by itself found when it began still holds.
LEMMA ForwardStep ==
  ASSUME IInv, NEW p \in Procs, SealsAlone(p), SealsAlone(p)', [Next]_vars, ~AnyOrder, Forward(p)
  PROVE  Forward(p)'
<1>0. proc \in [Procs -> Local]
  BY DEF IInv, TypeOK
<1>1. CASE Beside(p)
  BY <1>1 DEF Beside, Forward
<1>2. ASSUME NEW d \in Dates, Begin(p, d) PROVE Forward(p)'
  <2>1. footage' = footage /\ \A s \in DOMAIN footage : footage[s].date < d
    BY <1>2 DEF Begin
  <2>2. proc'[p].date = d
    BY <1>0, <1>2 DEF Begin, Local
  <2> QED
    BY <2>1, <2>2 DEF Forward
<1>3. ASSUME NEW m \in Memories, NEW d \in Dates, StampMemory(p, m, d) PROVE proc'[p].pc # "window"
  BY <1>0, <1>3 DEF StampMemory, Local
<1>4. CASE PutMemory(p) \/ Crash(p) \/ ReadLate(p) \/ CheckSeq(p) \/ InsertFootage(p) \/ Finish(p)
  <2>1. CASE Return(p)
    BY <1>0, <2>1 DEF Return, Idle, Forward
  <2>2. CASE ~ Return(p)
    BY <1>0, <1>4, <2>2, LateReads DEF PutMemory, Crash, CheckSeq, InsertFootage, Finish, Local, Forward
  <2> QED
    BY <2>1, <2>2
<1>5. CASE ReadWindow(p) \/ CarryThreads(p) \/ ReadTip(p) \/ ReadIssued(p) \/ ReadAnswered(p) \/ ReadLink(p)
  <2>1. proc'[p].pc # "window"
    BY <1>0, <1>5 DEF ReadWindow, CarryThreads, ReadTip, ReadIssued, ReadAnswered, ReadLink, Local
  <2> QED
    BY <2>1 DEF Forward
<1>6. ASSUME NEW q \in Quests, StampQuest(p, q) \/ StampVerdict(p, q) PROVE proc'[p].pc # "window"
  BY <1>0, <1>6 DEF StampQuest, StampVerdict, Local
<1> QED
  BY <1>1, <1>2, <1>3, <1>4, <1>5, <1>6, LoneStep DEF Sealing, ReadLate, Ingesting, Forward

-----------------------------------------------------------------------------
(* Taking turns.  Which process seals may change from day to day, as when the *)
(* user runs memoria beside `ghostr serve`: what matters is that no two of    *)
(* them are sealing at the same time, which nothing in the code ensures.      *)

Sealers == {p \in Procs : proc[p].pc \notin {"idle", "put"}}

\* Nobody begins to seal while somebody else does ...
TakeTurns == \A p \in Sealers : SealsAlone(p)

\* ... or is about to insert a note.
Orderly == \A p \in Sealers : Undisturbed(p)

\* A step is by one process, and the others stand by.
LEMMA OneMoves ==
  ASSUME IInv, [Next]_vars, NEW p \in Procs
  PROVE  \E r \in Procs : \A q \in Procs \ {r} : proc'[q] = proc[q]
<1>0. proc \in [Procs -> Local]
  BY DEF IInv, TypeOK
<1>1. CASE Tick \/ UNCHANGED vars \/ (\E r \in Procs : Questing(r) \/ \E m \in Memories : Shred(r, m))
  BY <1>1, SingleStatements
<1>2. ASSUME NEW r \in Procs, Sealing(r) \/ Ingesting(r) \/ Crash(r)
      PROVE  \A q \in Procs \ {r} : proc'[q] = proc[q]
  BY <1>0, <1>2 DEF Sealing, Begin, ReadWindow, CarryThreads, ReadTip, ReadSealedThrough,
     ReadArrivals, FindDay, ReadIssued, ReadAnswered, ReadLink, CheckSeq, InsertFootage,
     StampQuest, StampVerdict, Finish, Ingesting, StampMemory, PutMemory, Crash, Return
<1> QED
  BY <1>1, <1>2 DEF Next

\* Whoever's turn it is has it before and after the step.
LEMMA Turn ==
  ASSUME IInv, [Next]_vars, NEW p \in Procs, TakeTurns, TakeTurns'
  PROVE  \E r \in Procs : /\ SealsAlone(r) /\ SealsAlone(r)'
                          /\ Orderly => Undisturbed(r)
                          /\ Orderly' => Undisturbed(r)'
<1>1. PICK m \in Procs : \A q \in Procs \ {m} : proc'[q] = proc[q]
  BY OneMoves
<1>2. CASE Sealers = {} /\ Sealers' = {}
  BY <1>2 DEF Sealers, SealsAlone, Undisturbed
<1>3. ASSUME NEW r \in Sealers
      PROVE  /\ r \in Procs /\ SealsAlone(r) /\ SealsAlone(r)'
             /\ Orderly => Undisturbed(r)
             /\ Orderly' => Undisturbed(r)'
  <2>1. r \in Procs /\ SealsAlone(r) /\ (Orderly => Undisturbed(r))
    BY <1>3 DEF Sealers, TakeTurns, Orderly
  <2>2. CASE r \in Sealers'
    BY <2>1, <2>2 DEF TakeTurns, Orderly
  <2>3. CASE r \notin Sealers'
    <3>1. m = r
      BY <1>1, <1>3, <2>1, <2>3 DEF Sealers
    <3>2. SealsAlone(r)' /\ proc'[r].pc \in {"idle", "put"}
      BY <1>1, <2>1, <2>3, <3>1 DEF SealsAlone, Sealers
    <3> QED
      BY <2>1, <3>2 DEF Undisturbed
  <2> QED
    BY <2>1, <2>2, <2>3
<1>4. ASSUME Sealers = {}, NEW r \in Sealers'
      PROVE  /\ r \in Procs /\ SealsAlone(r) /\ SealsAlone(r)'
             /\ Orderly => Undisturbed(r)
             /\ Orderly' => Undisturbed(r)'
  <2>1. r \in Procs /\ SealsAlone(r)' /\ (Orderly' => Undisturbed(r)')
    BY <1>4 DEF Sealers, TakeTurns, Orderly
  <2>2. SealsAlone(r) /\ proc[r].pc \in {"idle", "put"}
    BY <1>4, <2>1 DEF Sealers, SealsAlone
  <2> QED
    BY <2>1, <2>2 DEF Undisturbed
<1> QED
  BY <1>2, <1>3, <1>4 DEF Sealers

\* Processes that take turns at sealing lose and reopen no thread, in whatever
\* order they seal, whatever is ingested and answered meanwhile and wherever
\* anybody dies (carry_forward_threads).
THEOREM ThreadsHold ==
  ASSUME NEW p \in Procs
  PROVE  Spec /\ []TakeTurns => []ThreadsContinue
<1> DEFINE Held == \A r \in Procs : Threaded(r)
<1>1. Init => Held
  BY AloneInit
<1>2. ASSUME IInv, TakeTurns, TakeTurns', [Next]_vars, Held PROVE Held'
  <2>1. PICK r \in Procs : SealsAlone(r) /\ SealsAlone(r)'
    BY <1>2, Turn
  <2>2. Threaded(r)'
    BY <1>2, <2>1, ThreadedStep
  <2>3. ASSUME NEW q \in Procs, q # r PROVE Threaded(q)'
    BY <2>1, <2>2, <2>3 DEF SealsAlone, Threaded, Numbered, Composing
  <2> QED
    BY <2>2, <2>3
<1>3. Held => ThreadsContinue
  BY DEF Threaded
<1> HIDE DEF Held
<1> QED
  BY <1>1, <1>2, <1>3, Invariance, PTL DEF Spec

\* Processes that take turns, seal only forward, as seal_due does, and do not
\* read for a day while a note is being inserted drop none between two days,
\* wherever anybody dies (late_arrival_amendments, I2).
THEOREM NotesHold ==
  ASSUME NEW p \in Procs, ~AnyOrder
  PROVE  Spec /\ []Orderly => []MemoryAccounted
<1> DEFINE Held == \A r \in Procs : Notes(r) /\ Forward(r)
<1>1. Init => Held
  BY AloneInit DEF Init, Idle, Forward
<1>2. ASSUME IInv, Orderly, Orderly', [Next]_vars, Held PROVE Held'
  <2>0. TakeTurns /\ TakeTurns'
    BY <1>2 DEF Orderly, TakeTurns, Undisturbed
  <2>1. PICK r \in Procs : Undisturbed(r) /\ Undisturbed(r)'
    BY <1>2, <2>0, Turn
  <2>2. Notes(r)' /\ Forward(r)'
    BY <1>2, <2>1, NotesStep, ForwardStep DEF Undisturbed
  <2>3. ASSUME NEW q \in Procs, q # r PROVE Notes(q)' /\ Forward(q)'
    <3>1. proc'[q].pc \in {"idle", "put"}
      BY <2>1, <2>3 DEF Undisturbed, SealsAlone
    <3> QED
      BY <2>2, <3>1 DEF Notes, Forward, Composing, Amending
  <2> QED
    BY <2>2, <2>3
<1>3. Held => MemoryAccounted
  BY DEF Notes
<1> HIDE DEF Held
<1> QED
  BY <1>1, <1>2, <1>3, Invariance, PTL DEF Spec

\* Who seals by itself may hand its turn on once it is through with its stamps.
LEMMA RootsPass ==
  ASSUME NEW p \in Procs, NEW r \in Procs, Roots(r, {})',
         proc'[p].pc \in {"idle", "put"}, proc'[r].pc \in {"idle", "put"}
  PROVE  Roots(p, {})'
<1>1. \A s : Owed(p, s)' = Owed(r, s)' /\ OwedVerdicts(p, s)' = OwedVerdicts(r, s)'
  BY DEF Owed, OwedVerdicts
<1> QED
  BY <1>1 DEF Roots

\* Processes that take turns and do not die half-way through their stamps leave
\* days whose roots re-derive, as verify does (I1).
THEOREM RootsHold ==
  ASSUME NEW p \in Procs
  PROVE  Spec /\ []TakeTurns /\ [][\A r \in Procs : ~DiesStamping(r)]_vars => []RootsVerify
<1> DEFINE Held == \A r \in Procs : SealsAlone(r) => Roots(r, {})
<1>1. Init => Held
  BY AloneInit
<1>2. ASSUME IInv, IInv', TakeTurns, TakeTurns', [Next]_vars, [\A r \in Procs : ~DiesStamping(r)]_vars, Held PROVE Held'
  <2>1. PICK r \in Procs : SealsAlone(r) /\ SealsAlone(r)'
    BY <1>2, Turn
  <2>2. Roots(r, {})'
    <3>1. Roots(r, {})
      BY <1>2, <2>1
    <3>2. CASE \A q \in Procs : ~DiesStamping(q)
      BY <1>2, <2>1, <3>1, <3>2, RootsStep DEF IInv
    <3>3. CASE UNCHANGED vars
      BY <1>2, <3>1, <3>3, SingleStatements, RootsBeside DEF IInv
    <3> QED
      BY <1>2, <3>2, <3>3
  <2>3. ASSUME NEW q \in Procs, q # r, SealsAlone(q)' PROVE Roots(q, {})'
    <3>1. proc'[q].pc \in {"idle", "put"} /\ proc'[r].pc \in {"idle", "put"}
      BY <2>1, <2>3 DEF SealsAlone
    <3> QED
      BY <2>2, <3>1, RootsPass
  <2> QED
    BY <2>2, <2>3
<1>3. IInv /\ TakeTurns /\ Held => RootsVerify
  <2> SUFFICES ASSUME IInv, TakeTurns, Held PROVE RootsVerify
    OBVIOUS
  <2>1. PICK r \in Procs : SealsAlone(r)
    BY DEF TakeTurns, Sealers, SealsAlone
  <2>2. Roots(r, {})
    BY <2>1
  <2> QED
    BY <2>2, RootsSuffice DEF RootsVerify
<1> HIDE DEF Held
<1> QED
  BY <1>1, <1>2, <1>3, Invariance, PTL DEF Spec

-----------------------------------------------------------------------------
\* The instance: its behaviours are behaviours of Memoria, and `alone` makes
\* p1 the one that seals by itself.

Lone ==
  alone => /\ Undisturbed(p1) /\ Forward(p1)
           /\ Threaded(p1) /\ Notes(p1)
           /\ Roots(p1, torn)

LEMMA InstanceRefines == MCSpec => Spec
<1>1. MCInit => Init
  BY DEF MCInit
<1>2. [MCNext]_<<vars, alone, torn>> => [Next]_vars
  BY DEF MCNext
<1> QED
  BY <1>1, <1>2, PTL DEF MCSpec, Spec

LEMMA LoneInvariant ==
  ASSUME Procs = {p1, p2}
  PROVE  MCSpec => []Lone
<1>1. ASSUME MCInit PROVE Lone
  <2>1. Init
    BY <1>1 DEF MCInit
  <2>2. Undisturbed(p1) /\ Forward(p1)
    BY <2>1 DEF Init, Undisturbed, SealsAlone, Forward, Idle
  <2> QED
    BY <1>1, <2>1, <2>2, AloneInit DEF Lone, MCInit
<1>2. ASSUME IInv, IInv', Lone, [MCNext]_<<vars, alone, torn>> PROVE Lone'
  <2>1. CASE UNCHANGED <<vars, alone, torn>>
    <3>1. Beside(p1)
      BY <2>1, <1>2, SingleStatements
    <3>2. ASSUME alone PROVE Undisturbed(p1)' /\ Forward(p1)' /\ [Next]_vars
      BY <1>2, <2>1, <3>2 DEF Lone, vars, Undisturbed, SealsAlone, Forward
    <3>3. ASSUME alone PROVE Threaded(p1)' /\ Notes(p1)'
      BY <1>2, <3>2, <3>3, ThreadedStep, NotesStep DEF Lone, Undisturbed
    <3>4. ASSUME alone PROVE Roots(p1, torn)'
      <4> SUFFICES ASSUME NEW CONSTANT T, T = torn PROVE Roots(p1, torn)'
        OBVIOUS
      <4>1. Roots(p1, T)'
        BY <1>2, <3>1, <3>4, RootsBeside DEF Lone, IInv
      <4> QED
        BY <2>1, <4>1 DEF Roots
    <3> QED
      BY <2>1, <3>2, <3>3, <3>4 DEF Lone
  <2>2. CASE MCNext
    <3> SUFFICES ASSUME alone'
                 PROVE  /\ Undisturbed(p1)' /\ Forward(p1)'
                        /\ Threaded(p1)' /\ Notes(p1)'
                        /\ Roots(p1, torn)'
      BY DEF Lone
    <3>1. /\ alone /\ Within' /\ [Next]_vars
          /\ torn' = torn \cup {proc[p].seq : p \in {p \in Procs : alone /\ DiesStamping(p)}}
      BY <2>2 DEF MCNext
    <3>2. Undisturbed(p1) /\ Forward(p1) /\ Threaded(p1) /\ Notes(p1) /\ Roots(p1, torn)
      BY <1>2, <3>1 DEF Lone
    <3>3. Undisturbed(p1)' /\ Forward(p1)'
      BY <3>1 DEF Within, Undisturbed, SealsAlone, Forward, Idle
    <3>4. Threaded(p1)' /\ Notes(p1)'
      BY <1>2, <3>1, <3>2, <3>3, ThreadedStep, NotesStep DEF Undisturbed
    <3>5. Roots(p1, torn)'
      <4>1. \A r \in Procs \ {p1} : ~DiesStamping(r)
        BY <3>2 DEF Undisturbed, SealsAlone, DiesStamping
      <4> SUFFICES ASSUME NEW CONSTANT T, T = torn PROVE Roots(p1, torn)'
        OBVIOUS
      <4>2. CASE DiesStamping(p1)
        <5> SUFFICES ASSUME NEW CONSTANT n, n = proc[p1].seq PROVE Roots(p1, torn)'
          OBVIOUS
        <5>1. torn' = T \cup {n}
          BY <3>1, <4>1, <4>2
        <5>2. Roots(p1, T \cup {n})'
          BY <1>2, <3>1, <3>2, <3>3, <4>2, RootsTorn DEF IInv, Undisturbed
        <5> QED
          BY <5>1, <5>2 DEF Roots
      <4>3. CASE ~DiesStamping(p1)
        <5>1. torn' = T
          BY <3>1, <4>1, <4>3
        <5>2. Roots(p1, T)'
          BY <1>2, <3>1, <3>2, <3>3, <4>3, RootsStep DEF IInv, Undisturbed
        <5> QED
          BY <5>1, <5>2 DEF Roots
      <4> QED
        BY <4>2, <4>3
    <3> QED
      BY <3>3, <3>4, <3>5
  <2> QED
    BY <1>2, <2>1, <2>2
<1> QED
  BY <1>1, <1>2, InstanceRefines, Invariance, PTL DEF MCSpec

\* In the instance that is checked, a flag that never changes says that p2 stays
\* idle: then p1 loses and reopens no thread (carry_forward_threads) ...
THEOREM ThreadsHoldAlone ==
  ASSUME Procs = {p1, p2}
  PROVE  MCSpec => []ThreadsContinueAlone
<1>1. Lone => ThreadsContinueAlone
  BY DEF Lone, Threaded, ThreadsContinueAlone
<1> QED
  BY <1>1, LoneInvariant, PTL

\* ... drops no note between two days (late_arrival_amendments) ...
THEOREM NotesHoldAlone ==
  ASSUME Procs = {p1, p2}
  PROVE  MCSpec => []MemoryAccountedAlone
<1>1. Lone => MemoryAccountedAlone
  BY DEF Lone, Notes, MemoryAccountedAlone
<1> QED
  BY <1>1, LoneInvariant, PTL

\* ... and leaves days whose roots re-derive, all but those whose stamps it died
\* in (memoria, mark_committed).
THEOREM RootsHoldAlone ==
  ASSUME Procs = {p1, p2}
  PROVE  MCSpec => []OnlyTornDaysFail
<1>1. ASSUME IInv, Lone PROVE OnlyTornDaysFail
  <2> SUFFICES ASSUME alone, \A p \in Procs : proc[p].pc # "stamp", NEW CONSTANT T, T = torn
               PROVE  \A s \in DOMAIN footage \ T : HeldRoot(s) = footage[s].root
    BY DEF OnlyTornDaysFail
  <2> QED
    BY <1>1, RootsSuffice DEF Lone
<1> QED
  BY <1>1, LoneInvariant, InstanceRefines, Invariance, PTL

==============================================================================
