--------------------------- MODULE QuestLoopProofs ---------------------------
(***************************************************************************)
(* Answering is three commits and expiring a fourth, on the same row, by   *)
(* any number of processes that may die between any two.  One clause of    *)
(* one UPDATE - AND status = 'open' - carries the whole argument: a row    *)
(* that bears a verdict is not written again.  So what a process holds     *)
(* after recording stays true of the row, and what it then puts in the     *)
(* corpus and the queue agrees with the row for good.                      *)
(***************************************************************************)
EXTENDS MCQuestLoop, FiniteSetTheorems, TLAPS

\* The row: the column says answered exactly when there is a verdict.
Rows ==
  \A q \in DOMAIN quest :
    /\ quest[q].issued <= clock
    /\ quest[q].verdict # NoVerdict <=> quest[q].status = "answered"

\* What the locals of p say about the tables.
Local(p) ==
  LET l == proc[p] IN
  /\ l.now <= clock
  /\ l.batch \cap DOMAIN quest = {}
  /\ l.pc \in {"check", "expire", "draft", "put"} => l.date \in Dates
  /\ l.pc = "record" => \A q \in l.quest : /\ q \in DOMAIN quest
                                           /\ quest[q].issued <= l.now
                                           /\ l.now <= quest[q].expires
  /\ l.pc = "record" => \E q \in l.quest : l.quest = {q}
  /\ l.pc \in {"record", "memory", "delta"} => l.verdict \in Verdicts
  /\ l.pc \in {"memory", "delta"} =>
       \A q \in l.quest : q \in DOMAIN quest /\ quest[q].verdict = l.verdict
  /\ l.pc = "delta" /\ l.verdict \in Wordy =>
       \A q \in l.quest : Correction(q, l.verdict) \in memory

\* Identifiers are random: no two batches share one.
Disjoint == \A p, r \in Procs : p # r => proc[p].batch \cap proc[r].batch = {}

IInv ==
  /\ TypeOK
  /\ Rows
  /\ Deadline
  /\ CorrectionIsTheVerdict
  /\ DeltaIsEarned
  /\ Disjoint
  /\ \A p \in Procs : Local(p)

\* Rows are added and never taken; what a row was issued with stays, and what
\* was answered stays.
Keeps ==
  /\ DOMAIN quest \subseteq DOMAIN quest'
  /\ \A q \in DOMAIN quest :
       /\ quest'[q].issued = quest[q].issued
       /\ quest'[q].expires = quest[q].expires
       /\ quest[q].verdict # NoVerdict =>
            /\ quest'[q].verdict = quest[q].verdict
            /\ quest'[q].answered = quest[q].answered
            /\ quest'[q].status = "answered"

-----------------------------------------------------------------------------
LEMMA IdleIsTyped ==
  /\ Idle \in ProcState
  /\ Idle.pc = "idle" /\ Idle.now = 0 /\ Idle.batch = {}
BY DEF Idle, ProcState, NoVerdict

LEMMA InitIInv == Init => IInv
<1> SUFFICES ASSUME Init PROVE IInv
  OBVIOUS
<1>1. DOMAIN quest = {} /\ memory = {} /\ queue = {} /\ clock = 0
  BY DEF Init
<1>2. \A p \in Procs : proc[p] = Idle
  BY DEF Init
<1>3. TypeOK
  BY <1>1, IdleIsTyped DEF Init, TypeOK
<1>4. Rows /\ Deadline /\ CorrectionIsTheVerdict /\ DeltaIsEarned
  BY <1>1 DEF Rows, Deadline, CorrectionIsTheVerdict, DeltaIsEarned
<1>5. Disjoint /\ \A p \in Procs : Local(p)
  BY <1>1, <1>2, IdleIsTyped DEF Disjoint, Local
<1> QED
  BY <1>3, <1>4, <1>5 DEF IInv

-----------------------------------------------------------------------------
\* What a process that does not move still knows.
LEMMA OthersKeep ==
  ASSUME IInv, Keeps, NEW r \in Procs, proc'[r] = proc[r],
         clock \in Nat, clock' \in Nat, clock <= clock', memory \subseteq memory',
         proc[r].batch \cap DOMAIN quest' = {}
  PROVE  Local(r)'
<1> DEFINE l == proc[r]
<1>1. Local(r) /\ l.now \in Nat /\ "none" \notin Verdicts
  BY QuestAssumption DEF IInv, TypeOK, ProcState
<1>2. l.now <= clock'
  BY <1>1 DEF Local
<1>3. l.pc = "record" => \A q \in l.quest : /\ q \in DOMAIN quest'
                                            /\ quest'[q].issued <= l.now
                                            /\ l.now <= quest'[q].expires
  BY <1>1 DEF Local, Keeps
<1>4. l.pc \in {"memory", "delta"} =>
        \A q \in l.quest : q \in DOMAIN quest' /\ quest'[q].verdict = l.verdict
  BY <1>1 DEF Local, Keeps, NoVerdict
<1>5. l.pc = "delta" /\ l.verdict \in Wordy =>
        \A q \in l.quest : Correction(q, l.verdict) \in memory'
  BY <1>1 DEF Local
<1>6. l.pc \in {"check", "expire", "draft", "put"} => l.date \in Dates
  BY <1>1 DEF Local
<1>7. /\ l.pc \in {"record", "memory", "delta"} => l.verdict \in Verdicts
      /\ l.pc = "record" => \E q \in l.quest : l.quest = {q}
  BY <1>1 DEF Local
<1> QED
  BY <1>2, <1>3, <1>4, <1>5, <1>6, <1>7 DEF Local, Correction

\* What is in the corpus and the queue still agrees with the rows.
LEMMA TablesKeep ==
  ASSUME IInv, Keeps, memory' = memory, queue' \subseteq queue
  PROVE  CorrectionIsTheVerdict' /\ DeltaIsEarned'
<1>1. \A c \in memory \cup queue : c.verdict # NoVerdict
  BY QuestAssumption DEF IInv, TypeOK, Corrections, NoVerdict
<1>2. CorrectionIsTheVerdict'
  BY <1>1 DEF IInv, CorrectionIsTheVerdict, Keeps
<1>3. DeltaIsEarned'
  BY <1>1 DEF IInv, DeltaIsEarned, Keeps
<1> QED
  BY <1>2, <1>3

\* A process that returns has nothing to say.
LEMMA ReturnKnows ==
  ASSUME IInv, NEW p \in Procs, Return(p)
  PROVE  /\ proc' \in [Procs -> ProcState]
         /\ proc'[p] = Idle
         /\ \A r \in Procs : r # p => proc'[r] = proc[r]
         /\ Disjoint'
         /\ clock' \in Nat => Local(p)'
<1>1. /\ proc' \in [Procs -> ProcState]
      /\ proc'[p] = Idle
      /\ \A r \in Procs : r # p => proc'[r] = proc[r]
  BY IdleIsTyped DEF IInv, TypeOK, Return
<1>2. Disjoint'
  BY <1>1, IdleIsTyped DEF IInv, Disjoint
<1>3. clock' \in Nat => Local(p)'
  BY <1>1, IdleIsTyped DEF Local
<1> QED
  BY <1>1, <1>2, <1>3

\* A process that only moves on keeps its locals.
LEMMA GotoKnows ==
  ASSUME IInv, NEW p \in Procs,
         NEW to \in {"expire", "draft", "memory", "delta"}, Goto(p, to)
  PROVE  /\ proc' \in [Procs -> ProcState]
         /\ proc'[p] = [proc[p] EXCEPT !.pc = to]
         /\ \A r \in Procs : r # p => proc'[r] = proc[r]
         /\ Disjoint'
<1>1. /\ proc' \in [Procs -> ProcState]
      /\ proc'[p] = [proc[p] EXCEPT !.pc = to]
      /\ \A r \in Procs : r # p => proc'[r] = proc[r]
  BY DEF IInv, TypeOK, Goto, ProcState
<1>2. \A r \in Procs : proc'[r].batch = proc[r].batch
  BY <1>1 DEF IInv, TypeOK, ProcState
<1>3. Disjoint'
  BY <1>2 DEF IInv, Disjoint
<1> QED
  BY <1>1, <1>3

LEMMA KeepsUnchanged ==
  ASSUME IInv, UNCHANGED quest
  PROVE  Keeps
BY DEF IInv, Rows, Keeps

\* Steps that write no row: the clock may advance and the queue be drained.
LEMMA ReadStep ==
  ASSUME IInv, NEW p \in Procs, UNCHANGED <<quest, memory>>, queue' \subseteq queue,
         head' \in Nat, clock' \in Nat, clock <= clock', proc' \in [Procs -> ProcState],
         \A r \in Procs : r # p => proc'[r] = proc[r], Disjoint', Local(p)'
  PROVE  IInv'
<1>1. Keeps
  BY KeepsUnchanged
<1>2. clock \in Nat
  BY DEF IInv, TypeOK
<1>3. \A r \in Procs : proc[r].batch \cap DOMAIN quest' = {}
  BY DEF IInv, Local
<1>4. \A r \in Procs : Local(r)'
  BY <1>1, <1>2, <1>3, OthersKeep
<1>5. TypeOK'
  BY DEF IInv, TypeOK
<1>6. Rows'
  BY <1>2, <1>5 DEF IInv, Rows, TypeOK, QuestRow
<1>7. Deadline'
  BY <1>2, <1>5 DEF IInv, Deadline, TypeOK, QuestRow
<1> QED
  BY <1>1, <1>4, <1>5, <1>6, <1>7, TablesKeep DEF IInv

\* A process that returns without having written.
LEMMA ReturnStep ==
  ASSUME IInv, NEW p \in Procs, Return(p), UNCHANGED <<clock, head, quest, memory, queue>>
  PROVE  IInv'
<1>1. clock \in Nat /\ head \in Nat
  BY DEF IInv, TypeOK
<1> QED
  BY <1>1, ReturnKnows, ReadStep

LEMMA TickStep ==
  ASSUME IInv, Tick \/ Adopt
  PROVE  IInv'
<1>1. /\ clock \in Nat /\ head \in Nat /\ clock' \in Nat /\ clock <= clock' /\ head' \in Nat
      /\ UNCHANGED <<quest, memory, proc>> /\ queue' \subseteq queue
  BY DEF IInv, TypeOK, Tick, Adopt
<1>2. Keeps
  BY <1>1, KeepsUnchanged
<1>3. \A r \in Procs : Local(r)'
  <2> SUFFICES ASSUME NEW r \in Procs PROVE Local(r)'
    OBVIOUS
  <2>1. proc'[r] = proc[r] /\ proc[r].batch \cap DOMAIN quest' = {}
    BY <1>1 DEF IInv, Local
  <2> QED
    BY <1>1, <1>2, <2>1, OthersKeep
<1>4. TypeOK' /\ Disjoint'
  BY <1>1 DEF IInv, TypeOK, Disjoint
<1>5. Rows'
  BY <1>1 DEF IInv, Rows, TypeOK, QuestRow
<1>6. Deadline'
  BY <1>1 DEF IInv, Deadline, TypeOK, QuestRow
<1> QED
  BY <1>1, <1>2, <1>3, <1>4, <1>5, <1>6, TablesKeep DEF IInv

-----------------------------------------------------------------------------
\* The reads of issue_quests.
LEMMA BeginIssueStep ==
  ASSUME IInv, NEW p \in Procs, NEW d \in Dates, BeginIssue(p, d)
  PROVE  IInv'
<1> DEFINE l == [Idle EXCEPT !.pc = "check", !.now = clock, !.date = d, !.ordinal = head]
<1>1. UNCHANGED <<clock, head, quest, memory, queue>> /\ clock \in Nat /\ head \in Nat
  BY DEF IInv, TypeOK, BeginIssue
<1>2. l \in ProcState /\ l.batch = {} /\ l.now = clock /\ l.pc = "check" /\ l.date = d
  BY <1>1 DEF Idle, ProcState, NoVerdict
<1>3. /\ proc'[p] = l /\ proc' \in [Procs -> ProcState]
      /\ \A r \in Procs : r # p => proc'[r] = proc[r]
  BY <1>2 DEF IInv, TypeOK, BeginIssue
<1>4. Disjoint'
  BY <1>2, <1>3 DEF IInv, Disjoint
<1>5. Local(p)'
  BY <1>1, <1>2, <1>3 DEF Local
<1> QED
  BY <1>1, <1>3, <1>4, <1>5, ReadStep

LEMMA CheckDayStep ==
  ASSUME IInv, NEW p \in Procs, CheckDay(p)
  PROVE  IInv'
<1>1. UNCHANGED <<clock, head, quest, memory, queue>> /\ proc[p].pc = "check"
      /\ clock \in Nat /\ head \in Nat
  BY DEF CheckDay, IInv, TypeOK
<1>2. CASE Return(p)
  BY <1>1, <1>2, ReturnStep
<1>3. CASE Goto(p, "expire")
  <2>1. /\ proc'[p].pc = "expire" /\ proc'[p].now = proc[p].now
        /\ proc'[p].batch = proc[p].batch /\ proc'[p].date = proc[p].date
    BY <1>3, GotoKnows, ZenonT(60) DEF IInv, TypeOK, ProcState
  <2>2. Local(p)'
    BY <1>1, <2>1 DEF IInv, Local
  <2>3. /\ proc' \in [Procs -> ProcState] /\ Disjoint'
        /\ \A r \in Procs : r # p => proc'[r] = proc[r]
    BY <1>3, GotoKnows
  <2> QED
    BY <1>1, <2>2, <2>3, ReadStep
<1> QED
  BY <1>2, <1>3 DEF CheckDay

LEMMA DraftStep ==
  ASSUME IInv, NEW p \in Procs, Draft(p)
  PROVE  IInv'
<1>1. UNCHANGED <<clock, head, quest, memory, queue>> /\ proc[p].pc = "draft"
      /\ clock \in Nat /\ head \in Nat
  BY DEF Draft, IInv, TypeOK
<1>2. CASE Return(p)
  BY <1>1, <1>2, ReturnStep
<1>3. CASE ~ Return(p)
  <2> PICK drawn \in Batches : proc' = [proc EXCEPT ![p].pc = "put", ![p].batch = drawn]
    BY <1>3 DEF Draft
  <2>1. drawn \subseteq Quests /\ drawn \cap DOMAIN quest = {}
        /\ \A r \in Procs : drawn \cap proc[r].batch = {}
    <3>1. drawn \subseteq Fresh
      BY DEF Batches
    <3> QED
      BY <3>1 DEF Fresh
  <2>2. /\ proc' \in [Procs -> ProcState]
        /\ \A r \in Procs : r # p => proc'[r] = proc[r]
        /\ proc'[p].pc = "put" /\ proc'[p].batch = drawn
        /\ proc'[p].now = proc[p].now /\ proc'[p].date = proc[p].date
    BY <2>1, ZenonT(60) DEF IInv, TypeOK, ProcState
  <2>3. Disjoint'
    BY <2>1, <2>2 DEF IInv, Disjoint
  <2>4. Local(p)'
    BY <1>1, <2>1, <2>2 DEF IInv, Local
  <2> QED
    BY <1>1, <2>2, <2>3, <2>4, ReadStep
<1> QED
  BY <1>2, <1>3

\* decide: what it has checked, it holds.
LEMMA BeginAnswerStep ==
  ASSUME IInv, NEW p \in Procs, NEW q \in Quests, NEW v \in Verdicts, BeginAnswer(p, q, v)
  PROVE  IInv'
<1> DEFINE l == [Idle EXCEPT !.pc = "record", !.now = clock, !.quest = {q}, !.verdict = v]
<1>1. UNCHANGED <<clock, head, quest, memory, queue>> /\ clock \in Nat /\ head \in Nat
  BY DEF IInv, TypeOK, BeginAnswer
<1>2. /\ l \in ProcState /\ l.batch = {} /\ l.now = clock /\ l.pc = "record"
      /\ l.quest = {q} /\ l.verdict = v
  BY <1>1 DEF Idle, ProcState, NoVerdict
<1>3. /\ proc'[p] = l /\ proc' \in [Procs -> ProcState]
      /\ \A r \in Procs : r # p => proc'[r] = proc[r]
  BY <1>2 DEF IInv, TypeOK, BeginAnswer
<1>4. Disjoint'
  BY <1>2, <1>3 DEF IInv, Disjoint
<1>5. q \in DOMAIN quest /\ quest[q].issued <= clock /\ clock <= quest[q].expires
  BY DEF BeginAnswer, IInv, Rows
<1>6. Local(p)'
  BY <1>1, <1>2, <1>3, <1>5 DEF Local
<1> QED
  BY <1>1, <1>3, <1>4, <1>6, ReadStep

-----------------------------------------------------------------------------
\* Expiring, by whoever does it: open rows past their deadline, and no other.
LEMMA ExpiredRows ==
  ASSUME IInv, NEW now \in Nat, now <= clock, quest' = Expired(now), clock' = clock
  PROVE  /\ DOMAIN quest' = DOMAIN quest
         /\ \A q \in DOMAIN quest' : quest'[q] \in QuestRow
         /\ Keeps /\ Rows' /\ Deadline'
<1>1. /\ DOMAIN quest' = DOMAIN quest
      /\ \A q \in DOMAIN quest :
           quest'[q] = IF q \in Stale(now) THEN [quest[q] EXCEPT !.status = "expired"]
                       ELSE quest[q]
  BY DEF Expired
<1>2. \A q \in DOMAIN quest : quest[q] \in QuestRow
  BY DEF IInv, TypeOK
<1>3. \A q \in DOMAIN quest :
        /\ quest'[q] \in QuestRow
        /\ quest'[q].issued = quest[q].issued /\ quest'[q].expires = quest[q].expires
        /\ quest'[q].verdict = quest[q].verdict /\ quest'[q].answered = quest[q].answered
        /\ quest'[q].status = IF q \in Stale(now) THEN "expired" ELSE quest[q].status
  BY <1>1, <1>2 DEF QuestRow
<1>4. \A q \in Stale(now) : quest[q].status = "open" /\ quest[q].expires < clock
  BY <1>2 DEF Stale, Open, QuestRow, IInv, TypeOK
<1>5. Keeps
  BY <1>1, <1>3, <1>4 DEF Keeps, IInv, Rows
<1>6. Rows'
  BY <1>1, <1>3, <1>4 DEF IInv, Rows
<1>7. Deadline'
  BY <1>1, <1>3, <1>4 DEF IInv, Deadline
<1> QED
  BY <1>1, <1>3, <1>5, <1>6, <1>7

LEMMA ExpireStep ==
  ASSUME IInv, NEW p \in Procs, ExpireStale(p) \/ ExpireQuests(p)
  PROVE  IInv'
<1>1. UNCHANGED <<clock, head, memory, queue>> /\ clock \in Nat
  BY DEF ExpireStale, ExpireQuests, IInv, TypeOK
<1>2. \A r \in Procs : proc[r].now \in Nat /\ proc[r].now <= clock
  BY DEF IInv, TypeOK, Local, ProcState
<1>3. /\ DOMAIN quest' = DOMAIN quest
      /\ \A q \in DOMAIN quest' : quest'[q] \in QuestRow
      /\ Keeps /\ Rows' /\ Deadline'
  <2>1. CASE ExpireStale(p)
    BY <1>1, <1>2, <2>1, ExpiredRows DEF ExpireStale
  <2>2. CASE ExpireQuests(p)
    BY <1>1, <2>2, ExpiredRows DEF ExpireQuests
  <2> QED
    BY <2>1, <2>2
<1>4. /\ proc' \in [Procs -> ProcState] /\ Disjoint'
      /\ \A r \in Procs : r # p => proc'[r] = proc[r]
  <2>1. CASE ExpireStale(p)
    BY <2>1, GotoKnows DEF ExpireStale
  <2>2. CASE ExpireQuests(p)
    BY <2>2 DEF ExpireQuests, IInv, TypeOK, Disjoint
  <2> QED
    BY <2>1, <2>2
<1>5. \A r \in Procs : proc[r].batch \cap DOMAIN quest' = {}
  BY <1>3 DEF IInv, Local
<1>6. \A r \in Procs : proc'[r] = proc[r] => Local(r)'
  BY <1>1, <1>3, <1>5, OthersKeep
<1>7. Local(p)'
  <2>1. CASE ExpireStale(p)
    <3>1. /\ proc[p].pc = "expire" /\ proc'[p].pc = "draft" /\ proc'[p].now = proc[p].now
          /\ proc'[p].batch = proc[p].batch /\ proc'[p].date = proc[p].date
      BY <2>1, GotoKnows, ZenonT(60) DEF ExpireStale, IInv, TypeOK, ProcState
    <3> QED
      BY <1>1, <1>3, <3>1 DEF IInv, Local
  <2>2. CASE ExpireQuests(p)
    BY <1>6, <2>2 DEF ExpireQuests
  <2> QED
    BY <2>1, <2>2
<1>8. TypeOK'
  BY <1>1, <1>3, <1>4 DEF IInv, TypeOK
<1> QED
  BY <1>1, <1>3, <1>4, <1>6, <1>7, <1>8, TablesKeep DEF IInv

-----------------------------------------------------------------------------
\* put_quest: the identifier is nobody else's, the row is new.
LEMMA PutQuestStep ==
  ASSUME IInv, NEW p \in Procs, PutQuest(p)
  PROVE  IInv'
<1> DEFINE l == proc[p]
<1>1. UNCHANGED <<clock, head, memory, queue>> /\ l.pc = "put" /\ clock \in Nat
  BY DEF PutQuest, IInv, TypeOK
<1> PICK q \in l.batch :
      /\ quest' = Insert(quest, q, [date |-> l.date, issued |-> l.now,
                                    expires |-> l.now + Lifetime, ordinal |-> l.ordinal,
                                    status |-> "open", body |-> "open",
                                    verdict |-> NoVerdict, answered |-> 0])
      /\ IF l.batch = {q} THEN Return(p) ELSE proc' = [proc EXCEPT ![p].batch = @ \ {q}]
  BY DEF PutQuest
<1>2. /\ q \in Quests /\ q \notin DOMAIN quest
      /\ l.now \in Nat /\ l.now <= clock /\ l.date \in Dates /\ l.ordinal \in Nat
  BY <1>1 DEF IInv, TypeOK, Local, ProcState
<1>3. /\ DOMAIN quest' = DOMAIN quest \cup {q}
      /\ \A r \in DOMAIN quest : quest'[r] = quest[r]
      /\ quest'[q] = [date |-> l.date, issued |-> l.now,
                      expires |-> l.now + Lifetime, ordinal |-> l.ordinal,
                      status |-> "open", body |-> "open",
                      verdict |-> NoVerdict, answered |-> 0]
  BY <1>2 DEF Insert
<1>4. /\ quest'[q] \in QuestRow /\ quest'[q].issued = l.now
      /\ quest'[q].verdict = NoVerdict /\ quest'[q].status = "open"
  BY <1>2, <1>3, QuestAssumption DEF QuestRow
<1>5. Keeps
  BY <1>3 DEF Keeps, IInv, Rows
<1>6. Rows'
  BY <1>1, <1>2, <1>3, <1>4 DEF IInv, Rows
<1>7. Deadline'
  BY <1>1, <1>3, <1>4 DEF IInv, Deadline
<1>8. /\ proc' \in [Procs -> ProcState]
      /\ \A r \in Procs : r # p => proc'[r] = proc[r]
      /\ proc'[p].batch \subseteq l.batch \ {q}
      /\ proc'[p].now <= clock
      /\ proc'[p].pc \in {"idle", "put"}
      /\ proc'[p].pc = "put" => proc'[p].date \in Dates
  <2>1. CASE l.batch = {q}
    BY <1>1, <2>1, ReturnKnows, IdleIsTyped
  <2>2. CASE l.batch # {q}
    BY <1>1, <1>2, <2>2 DEF IInv, TypeOK, ProcState
  <2> QED
    BY <2>1, <2>2
<1>9. Disjoint'
  BY <1>8 DEF IInv, Disjoint
<1>10. \A r \in Procs : r # p => Local(r)'
  <2> SUFFICES ASSUME NEW r \in Procs, r # p PROVE Local(r)'
    OBVIOUS
  <2>1. proc[r].batch \cap DOMAIN quest' = {}
    BY <1>3 DEF IInv, Local, Disjoint
  <2> QED
    BY <1>1, <1>5, <1>8, <2>1, OthersKeep
<1>11. Local(p)'
  <2>1. proc'[p].batch \cap DOMAIN quest' = {}
    BY <1>3, <1>8 DEF IInv, Local
  <2> QED
    BY <1>1, <1>8, <2>1 DEF Local
<1>12. TypeOK'
  BY <1>1, <1>2, <1>3, <1>4, <1>8 DEF IInv, TypeOK
<1> QED
  BY <1>1, <1>5, <1>6, <1>7, <1>9, <1>10, <1>11, <1>12, TablesKeep DEF IInv

-----------------------------------------------------------------------------
\* The UPDATE of answer_quest: on an open row, which bears no verdict.
LEMMA RecordStep ==
  ASSUME IInv, NEW p \in Procs, RecordVerdict(p)
  PROVE  IInv'
<1> DEFINE l == proc[p]
<1>1. UNCHANGED <<clock, head, memory, queue>> /\ l.pc = "record" /\ clock \in Nat
  BY DEF RecordVerdict, IInv, TypeOK
<1> PICK q \in l.quest :
      IF quest[q].status = "open" THEN quest' = Answered(p, q) /\ Goto(p, "memory")
      ELSE UNCHANGED quest /\ Return(p)
  BY DEF RecordVerdict
<1>2. CASE quest[q].status # "open"
  BY <1>1, <1>2, ReturnStep
<1>3. CASE quest[q].status = "open"
  <2>1. /\ q \in DOMAIN quest /\ quest[q] \in QuestRow /\ quest[q].verdict = NoVerdict
        /\ quest[q].issued <= l.now /\ l.now <= quest[q].expires
        /\ l.verdict \in Verdicts /\ l.verdict # NoVerdict /\ l.now \in Nat
    BY <1>1, <1>3, QuestAssumption DEF IInv, TypeOK, Local, Rows, ProcState, NoVerdict
  <2>2. /\ quest' = Answered(p, q) /\ Goto(p, "memory")
        /\ DOMAIN quest' = DOMAIN quest
        /\ \A r \in DOMAIN quest : r # q => quest'[r] = quest[r]
        /\ quest'[q] = [quest[q] EXCEPT !.status = "answered", !.body = "answered",
                                        !.verdict = l.verdict, !.answered = l.now]
    BY <1>3, <2>1 DEF Answered
  <2>3. /\ quest'[q] \in QuestRow
        /\ quest'[q].issued = quest[q].issued /\ quest'[q].expires = quest[q].expires
        /\ quest'[q].verdict = l.verdict /\ quest'[q].answered = l.now
        /\ quest'[q].status = "answered"
    BY <2>1, <2>2 DEF QuestRow
  <2>4. Keeps
    BY <2>1, <2>2, <2>3 DEF Keeps, IInv, Rows
  <2>5. Rows'
    <3> SUFFICES ASSUME NEW r \in DOMAIN quest'
                 PROVE  /\ quest'[r].issued <= clock'
                        /\ quest'[r].verdict # NoVerdict <=> quest'[r].status = "answered"
      BY DEF Rows
    <3>1. CASE r = q
      BY <1>1, <2>1, <2>2, <2>3, <3>1 DEF IInv, Rows
    <3>2. CASE r # q
      BY <1>1, <2>2, <3>2 DEF IInv, Rows
    <3> QED
      BY <3>1, <3>2
  <2>6. Deadline'
    <3> SUFFICES ASSUME NEW r \in DOMAIN quest'
                 PROVE  /\ quest'[r].status = "answered" =>
                             quest'[r].answered \in quest'[r].issued..quest'[r].expires
                        /\ quest'[r].status = "expired" => quest'[r].expires < clock'
      BY DEF Deadline
    <3>1. CASE r = q
      <4>1. l.now \in quest[q].issued..quest[q].expires
        BY <2>1 DEF QuestRow
      <4>2. quest'[q].answered \in quest'[q].issued..quest'[q].expires
        BY <2>3, <4>1
      <4> QED
        BY <2>3, <3>1, <4>2
    <3>2. CASE r # q
      <4>1. r \in DOMAIN quest /\ quest'[r] = quest[r]
        BY <2>2, <3>2
      <4> QED
        BY <1>1, <4>1 DEF IInv, Deadline
    <3> QED
      BY <3>1, <3>2
  <2>7. /\ proc' \in [Procs -> ProcState] /\ Disjoint'
        /\ proc'[p] = [l EXCEPT !.pc = "memory"]
        /\ \A r \in Procs : r # p => proc'[r] = proc[r]
    BY <2>2, GotoKnows, ZenonT(60)
  <2>8. TypeOK'
    BY <1>1, <2>1, <2>2, <2>3, <2>7 DEF IInv, TypeOK
  <2>9. \A r \in Procs : r # p => Local(r)'
    <3>1. \A r \in Procs : proc[r].batch \cap DOMAIN quest' = {}
      BY <2>2 DEF IInv, Local
    <3> QED
      BY <1>1, <2>4, <2>7, <3>1, OthersKeep
  <2>10. l.quest = {q}
    BY <1>1 DEF IInv, Local
  <2>11. Local(p)'
    <3>1. /\ proc'[p].pc = "memory" /\ proc'[p].now = l.now /\ proc'[p].batch = l.batch
          /\ proc'[p].quest = {q} /\ proc'[p].verdict = l.verdict
      BY <2>7, <2>10 DEF IInv, TypeOK, ProcState
    <3> QED
      BY <1>1, <2>1, <2>2, <2>3, <3>1 DEF IInv, Local
  <2> QED
    BY <1>1, <2>4, <2>5, <2>6, <2>7, <2>8, <2>9, <2>11, TablesKeep DEF IInv
<1> QED
  BY <1>2, <1>3

\* The correction memory: the row it speaks of is written and stays.
LEMMA MemoryStep ==
  ASSUME IInv, NEW p \in Procs, PutCorrection(p)
  PROVE  IInv'
<1> DEFINE l == proc[p]
           new == {Correction(q, l.verdict) : q \in IF l.verdict \in Wordy THEN l.quest ELSE {}}
<1>1. /\ UNCHANGED <<clock, head, quest, queue>> /\ l.pc = "memory" /\ clock \in Nat
      /\ memory' = memory \cup new
  BY DEF PutCorrection, IInv, TypeOK
<1>2. /\ l.verdict \in Verdicts /\ l.quest \subseteq Quests
      /\ \A q \in l.quest : q \in DOMAIN quest /\ quest[q].verdict = l.verdict
  BY <1>1 DEF IInv, TypeOK, Local, ProcState
<1>3. \A c \in new : /\ c \in Corrections /\ c.quest \in DOMAIN quest
                     /\ quest[c.quest].verdict = c.verdict
  BY <1>2 DEF Correction, Corrections
<1>4. l.verdict \in Wordy => \A q \in l.quest : Correction(q, l.verdict) \in memory'
  BY <1>1
<1>5. /\ proc' \in [Procs -> ProcState] /\ Disjoint'
      /\ proc'[p] = [l EXCEPT !.pc = "delta"]
      /\ \A r \in Procs : r # p => proc'[r] = proc[r]
  BY GotoKnows DEF PutCorrection
<1>6. Keeps
  BY <1>1, KeepsUnchanged
<1>7. CorrectionIsTheVerdict'
  BY <1>1, <1>3 DEF IInv, CorrectionIsTheVerdict
<1>8. DeltaIsEarned'
  BY <1>1 DEF IInv, DeltaIsEarned
<1>9. TypeOK'
  BY <1>1, <1>3, <1>5 DEF IInv, TypeOK
<1>10. \A r \in Procs : r # p => Local(r)'
  <2>1. \A r \in Procs : proc[r].batch \cap DOMAIN quest' = {}
    BY <1>1 DEF IInv, Local
  <2>2. memory \subseteq memory' /\ clock' \in Nat /\ clock <= clock'
    BY <1>1
  <2> QED
    BY <1>1, <1>5, <1>6, <2>1, <2>2, OthersKeep
<1>11. Local(p)'
  <2>1. /\ proc'[p].pc = "delta" /\ proc'[p].now = l.now /\ proc'[p].batch = l.batch
        /\ proc'[p].quest = l.quest /\ proc'[p].verdict = l.verdict
    BY <1>5 DEF IInv, TypeOK, ProcState
  <2> QED
    BY <1>1, <1>2, <1>4, <2>1 DEF IInv, Local, Correction
<1>12. Rows' /\ Deadline'
  BY <1>1 DEF IInv, Rows, Deadline
<1> QED
  BY <1>5, <1>7, <1>8, <1>9, <1>10, <1>11, <1>12 DEF IInv

\* The delta: of a quest that is not held out, after its words were stored.
LEMMA QueueStep ==
  ASSUME IInv, NEW p \in Procs, QueueDelta(p)
  PROVE  IInv'
<1> DEFINE l == proc[p]
           new == {Correction(q, l.verdict) : q \in {r \in l.quest : Trainable(r, l.verdict)}}
<1>1. /\ UNCHANGED <<clock, head, quest, memory>> /\ l.pc = "delta" /\ clock \in Nat
      /\ queue' = queue \cup new /\ Return(p)
  BY DEF QueueDelta, IInv, TypeOK
<1>2. /\ l.verdict \in Verdicts /\ l.quest \subseteq Quests
      /\ \A q \in l.quest : q \in DOMAIN quest /\ quest[q].verdict = l.verdict
      /\ l.verdict \in Wordy => \A q \in l.quest : Correction(q, l.verdict) \in memory
  BY <1>1 DEF IInv, TypeOK, Local, ProcState
<1>3. \A c \in new : /\ c \in Corrections /\ c.quest \in DOMAIN quest \ HoldOut
                     /\ quest[c.quest].verdict = c.verdict
                     /\ c.verdict \in Wordy => c \in memory
  BY <1>2 DEF Correction, Corrections, Trainable
<1>4. /\ proc' \in [Procs -> ProcState] /\ Disjoint' /\ Local(p)'
      /\ \A r \in Procs : r # p => proc'[r] = proc[r]
  BY <1>1, ReturnKnows
<1>5. Keeps
  BY <1>1, KeepsUnchanged
<1>6. DeltaIsEarned'
  BY <1>1, <1>3 DEF IInv, DeltaIsEarned
<1>7. CorrectionIsTheVerdict' /\ Rows' /\ Deadline'
  BY <1>1 DEF IInv, CorrectionIsTheVerdict, Rows, Deadline
<1>8. TypeOK'
  BY <1>1, <1>3, <1>4 DEF IInv, TypeOK
<1>9. \A r \in Procs : r # p => Local(r)'
  <2>1. \A r \in Procs : proc[r].batch \cap DOMAIN quest' = {}
    BY <1>1 DEF IInv, Local
  <2>2. memory \subseteq memory' /\ clock' \in Nat /\ clock <= clock'
    BY <1>1
  <2> QED
    BY <1>1, <1>4, <1>5, <2>1, <2>2, OthersKeep
<1> QED
  BY <1>4, <1>6, <1>7, <1>8, <1>9 DEF IInv

LEMMA NextIInv == IInv /\ [Next]_vars => IInv'
<1> SUFFICES ASSUME IInv, [Next]_vars PROVE IInv'
  OBVIOUS
<1>1. CASE Tick \/ Adopt
  BY <1>1, TickStep
<1>2. ASSUME NEW p \in Procs, NEW d \in Dates, BeginIssue(p, d) PROVE IInv'
  BY <1>2, BeginIssueStep
<1>3. ASSUME NEW p \in Procs,
             \/ CheckDay(p) \/ ExpireStale(p) \/ Draft(p) \/ PutQuest(p) \/ ExpireQuests(p)
             \/ RecordVerdict(p) \/ PutCorrection(p) \/ QueueDelta(p)
      PROVE  IInv'
  BY <1>3, CheckDayStep, ExpireStep, DraftStep, PutQuestStep, RecordStep, MemoryStep, QueueStep
<1>4. ASSUME NEW p \in Procs, NEW q \in Quests, NEW v \in Verdicts, BeginAnswer(p, q, v)
      PROVE  IInv'
  BY <1>4, BeginAnswerStep
<1>5. ASSUME NEW p \in Procs, Crash(p) PROVE IInv'
  BY <1>5, ReturnStep DEF Crash
<1>6. CASE UNCHANGED vars
  BY <1>6 DEF vars, IInv, TypeOK, Rows, Deadline, CorrectionIsTheVerdict, DeltaIsEarned,
              Disjoint, Local
<1> QED
  BY <1>1, <1>2, <1>3, <1>4, <1>5, <1>6 DEF Next

\* Every step keeps what was recorded.
LEMMA NextKeeps == IInv /\ [Next]_vars => Keeps
<1> SUFFICES ASSUME IInv, [Next]_vars PROVE Keeps
  OBVIOUS
<1>1. CASE UNCHANGED quest
  BY <1>1, KeepsUnchanged
<1>2. ASSUME NEW p \in Procs, ExpireStale(p) \/ ExpireQuests(p) PROVE Keeps
  <2>1. proc[p].now \in Nat /\ proc[p].now <= clock /\ clock \in Nat
    BY DEF IInv, TypeOK, Local, ProcState
  <2> QED
    BY <1>2, <2>1, ExpiredRows DEF ExpireStale, ExpireQuests
<1>3. ASSUME NEW p \in Procs, PutQuest(p) PROVE Keeps
  <2>1. \A q \in proc[p].batch : q \notin DOMAIN quest
    BY DEF IInv, Local
  <2>2. DOMAIN quest \subseteq DOMAIN quest' /\ \A q \in DOMAIN quest : quest'[q] = quest[q]
    BY <1>3, <2>1 DEF PutQuest, Insert
  <2> QED
    BY <2>2 DEF Keeps, IInv, Rows
<1>4. ASSUME NEW p \in Procs, RecordVerdict(p), ~ UNCHANGED quest PROVE Keeps
  <2> PICK q \in proc[p].quest : quest[q].status = "open" /\ quest' = Answered(p, q)
    BY <1>4 DEF RecordVerdict
  <2>1. q \in DOMAIN quest /\ quest[q] \in QuestRow /\ quest[q].verdict = NoVerdict
    BY <1>4 DEF RecordVerdict, IInv, TypeOK, Local, Rows
  <2>2. /\ DOMAIN quest' = DOMAIN quest
        /\ \A r \in DOMAIN quest : r # q => quest'[r] = quest[r]
        /\ quest'[q].issued = quest[q].issued /\ quest'[q].expires = quest[q].expires
    BY <2>1 DEF Answered, QuestRow
  <2> QED
    BY <2>1, <2>2 DEF Keeps, IInv, Rows
<1> QED
  BY <1>1, <1>2, <1>3, <1>4 DEF Next, vars, Tick, Adopt, BeginIssue, CheckDay, Draft,
     BeginAnswer, PutCorrection, QueueDelta, Crash

-----------------------------------------------------------------------------
\* The inductive invariant holds of every behaviour.
THEOREM Invariance == Spec => []IInv
BY InitIInv, NextIInv, PTL DEF Spec

\* Every state has rows of the schema's shape.
THEOREM TypeCorrect == Spec => []TypeOK
<1>1. IInv => TypeOK
  BY DEF IInv
<1> QED
  BY <1>1, Invariance, PTL

\* Of two processes that answer one quest, only the one whose verdict was
\* recorded puts the user's words in the corpus.
THEOREM WordsAreTheVerdicts == Spec => []CorrectionIsTheVerdict
<1>1. IInv => CorrectionIsTheVerdict
  BY DEF IInv
<1> QED
  BY <1>1, Invariance, PTL

\* Whatever crashes, a queued delta belongs to a recorded verdict of a quest
\* that is not held out, and the memory it names exists.
THEOREM DeltasAreEarned == Spec => []DeltaIsEarned
<1>1. IInv => DeltaIsEarned
  BY DEF IInv
<1> QED
  BY <1>1, Invariance, PTL

\* Answered in time or expired after it, although the instant that decides is
\* read before the statement that writes.
THEOREM DeadlineHolds == Spec => []Deadline
<1>1. IInv => Deadline
  BY DEF IInv
<1> QED
  BY <1>1, Invariance, PTL

\* An expired quest has left no trace of an answer.
THEOREM ExpiredIsUnanswered == Spec => []ExpiredForGood
<1>1. IInv => ExpiredForGood
  <2> SUFFICES ASSUME IInv, NEW q \in DOMAIN quest, quest[q].status = "expired"
               PROVE  quest[q].verdict = NoVerdict /\ \A c \in memory \cup queue : c.quest # q
    BY DEF ExpiredForGood
  <2>1. quest[q].verdict = NoVerdict
    BY DEF IInv, Rows
  <2>2. \A c \in memory \cup queue : c.verdict # NoVerdict /\ quest[c.quest].verdict = c.verdict
    BY QuestAssumption DEF IInv, TypeOK, Corrections, NoVerdict, CorrectionIsTheVerdict,
                           DeltaIsEarned
  <2> QED
    BY <2>1, <2>2
<1> QED
  BY <1>1, Invariance, PTL

\* A verdict is one-shot, for any number of processes that answer, expire and
\* issue at once: no step overwrites one.
THEOREM VerdictIsOneShot == Spec => VerdictStands
<1>1. IInv /\ [Next]_vars =>
        [\A q \in DOMAIN quest :
           quest[q].verdict # NoVerdict =>
             /\ quest'[q].verdict = quest[q].verdict
             /\ quest'[q].answered = quest[q].answered
             /\ quest'[q].status = "answered"]_vars
  BY NextKeeps DEF Keeps
<1> QED
  BY <1>1, Invariance, PTL DEF Spec, VerdictStands

-----------------------------------------------------------------------------
(* One process by itself: what it read of a day and of the open questions  *)
(* still holds when it inserts its batch, for nobody else inserts.         *)

Solitary(p) == \A r \in Procs \ {p} : proc[r] = Idle

\* What p holds about the day it is drawing for.
Drawn(p) ==
  LET l == proc[p] IN
  /\ l.pc \in {"expire", "draft"} => IssuedFor(l.date) = {}
  /\ l.pc = "put" =>
       /\ Cardinality(IssuedFor(l.date) \cup l.batch) <= BatchSize
       /\ \A q \in IssuedFor(l.date) : quest[q].issued = l.now
       /\ \A q, r \in l.batch : Claim[q] = Claim[r] => q = r
       /\ \A q \in l.batch : \A r \in Open : Claim[q] # Claim[r]

AskedOnce(p) == NoQuestionTwice /\ OneBatchADay /\ Drawn(p)

\* A step that inserts no row and reopens none.
InsertsNothing ==
  /\ DOMAIN quest' = DOMAIN quest
  /\ \A q \in DOMAIN quest : /\ quest'[q].date = quest[q].date
                             /\ quest'[q].issued = quest[q].issued
                             /\ quest'[q].status = "open" => quest[q].status = "open"

LEMMA InsertsNothingKeeps ==
  ASSUME InsertsNothing
  PROVE  /\ \A d : IssuedFor(d)' = IssuedFor(d)
         /\ Open' \subseteq Open
         /\ NoQuestionTwice => NoQuestionTwice'
         /\ OneBatchADay => OneBatchADay'
<1>1. ASSUME NEW d PROVE {q \in DOMAIN quest' : quest'[q].date = d} = {q \in DOMAIN quest : quest[q].date = d}
  BY DEF InsertsNothing
<1>2. Open' \subseteq Open
  BY DEF InsertsNothing, Open
<1>3. NoQuestionTwice => NoQuestionTwice'
  BY <1>2 DEF NoQuestionTwice
<1>4. OneBatchADay => OneBatchADay'
  BY <1>1 DEF OneBatchADay, IssuedFor, InsertsNothing
<1> QED
  BY <1>1, <1>2, <1>3, <1>4 DEF IssuedFor

LEMMA UnchangedInsertsNothing ==
  ASSUME UNCHANGED quest PROVE InsertsNothing
BY DEF InsertsNothing

LEMMA ExpiredInsertsNothing ==
  ASSUME IInv, NEW now, quest' = Expired(now)
  PROVE  InsertsNothing
<1>1. \A q \in DOMAIN quest : quest[q] \in QuestRow
  BY DEF IInv, TypeOK
<1>2. /\ DOMAIN quest' = DOMAIN quest
      /\ \A q \in DOMAIN quest :
           quest'[q] = IF q \in Stale(now) THEN [quest[q] EXCEPT !.status = "expired"]
                       ELSE quest[q]
  BY DEF Expired
<1> QED
  BY <1>1, <1>2 DEF InsertsNothing, QuestRow

LEMMA AnsweredInsertsNothing ==
  ASSUME IInv, NEW p, NEW q, quest' = Answered(p, q)
  PROVE  InsertsNothing
<1>1. \A r \in DOMAIN quest : quest[r] \in QuestRow
  BY DEF IInv, TypeOK
<1> QED
  BY <1>1 DEF InsertsNothing, QuestRow, Answered

\* A step that inserts nothing and leaves p where it is, or where it has
\* nothing to say of a day.
LEMMA QuietStep ==
  ASSUME NEW p \in Procs, AskedOnce(p), InsertsNothing,
         proc'[p] = proc[p] \/ proc'[p].pc \notin {"expire", "draft", "put"}
  PROVE  AskedOnce(p)'
<1>1. Drawn(p)'
  BY InsertsNothingKeeps DEF AskedOnce, Drawn, InsertsNothing, IssuedFor
<1> QED
  BY <1>1, InsertsNothingKeeps DEF AskedOnce

\* Draft: nothing of the day is there, and nothing open is asked again.
LEMMA DraftIsDrawn ==
  ASSUME IInv, NEW p \in Procs, AskedOnce(p), Draft(p)
  PROVE  AskedOnce(p)'
<1>1. UNCHANGED quest /\ InsertsNothing /\ proc[p].pc = "draft" /\ IssuedFor(proc[p].date) = {}
  BY UnchangedInsertsNothing DEF Draft, AskedOnce, Drawn
<1>2. CASE Return(p)
  <2>1. proc'[p].pc = "idle"
    BY <1>2, ReturnKnows, IdleIsTyped
  <2> QED
    BY <1>1, <2>1, QuietStep
<1>3. CASE ~ Return(p)
  <2> PICK drawn \in Batches : proc' = [proc EXCEPT ![p].pc = "put", ![p].batch = drawn]
    BY <1>3 DEF Draft
  <2>1. /\ proc'[p].pc = "put" /\ proc'[p].batch = drawn
        /\ proc'[p].date = proc[p].date
    BY ZenonT(60) DEF IInv, TypeOK, ProcState
  <2>2. /\ IssuedFor(proc[p].date) \cup drawn = drawn
        /\ Cardinality(drawn) <= BatchSize
        /\ \A q, r \in drawn : Claim[q] = Claim[r] => q = r
        /\ \A q \in drawn : \A r \in Open : Claim[q] # Claim[r]
    BY <1>1 DEF Batches
  <2>3. IssuedFor(proc[p].date)' = {} /\ Open' = Open
    BY <1>1, <2>1 DEF IssuedFor, Open
  <2>4. Drawn(p)'
    BY <1>1, <2>1, <2>2, <2>3 DEF Drawn
  <2> QED
    BY <1>1, <2>4, InsertsNothingKeeps DEF AskedOnce
<1> QED
  BY <1>2, <1>3

\* One row of the batch: the batch was counted whole before the first.
LEMMA PutIsDrawn ==
  ASSUME IInv, NEW p \in Procs, AskedOnce(p), PutQuest(p)
  PROVE  AskedOnce(p)'
<1> DEFINE l == proc[p]
           day == IssuedFor(l.date)
<1>1. l.pc = "put"
  BY DEF PutQuest
<1> PICK q \in l.batch :
      /\ quest' = Insert(quest, q, [date |-> l.date, issued |-> l.now,
                                    expires |-> l.now + Lifetime, ordinal |-> l.ordinal,
                                    status |-> "open", body |-> "open",
                                    verdict |-> NoVerdict, answered |-> 0])
      /\ IF l.batch = {q} THEN Return(p) ELSE proc' = [proc EXCEPT ![p].batch = @ \ {q}]
  BY DEF PutQuest
<1>2. /\ q \notin DOMAIN quest /\ l.batch \subseteq Quests /\ DOMAIN quest \subseteq Quests
      /\ IsFiniteSet(Quests) /\ BatchSize \in Nat
  BY QuestAssumption DEF IInv, TypeOK, Local, ProcState
<1>3. /\ DOMAIN quest' = DOMAIN quest \cup {q}
      /\ \A r \in DOMAIN quest : quest'[r] = quest[r]
      /\ quest'[q].date = l.date /\ quest'[q].issued = l.now /\ quest'[q].status = "open"
  BY <1>2 DEF Insert
<1>4. \A d : IssuedFor(d)' = IssuedFor(d) \cup {r \in {q} : d = l.date}
  BY <1>2, <1>3 DEF IssuedFor
<1>5. Open' = Open \cup {q}
  BY <1>2, <1>3 DEF Open
<1>6. /\ Cardinality(day \cup l.batch) <= BatchSize
      /\ \A r \in day : quest[r].issued = l.now
      /\ \A r, s \in l.batch : Claim[r] = Claim[s] => r = s
      /\ \A r \in l.batch : \A s \in Open : Claim[r] # Claim[s]
  BY <1>1 DEF AskedOnce, Drawn
<1>7. NoQuestionTwice'
  BY <1>5, <1>6 DEF AskedOnce, NoQuestionTwice
<1>8. OneBatchADay'
  <2> SUFFICES ASSUME NEW d \in Dates
               PROVE  /\ Cardinality(IssuedFor(d)') <= BatchSize
                      /\ \A r, s \in IssuedFor(d)' : quest'[r].issued = quest'[s].issued
    BY DEF OneBatchADay, IssuedFor
  <2>1. CASE d # l.date
    <3>1. IssuedFor(d)' = IssuedFor(d) /\ IssuedFor(d) \subseteq DOMAIN quest
      BY <1>4, <2>1 DEF IssuedFor
    <3> QED
      BY <1>3, <3>1 DEF AskedOnce, OneBatchADay
  <2>2. CASE d = l.date
    <3>1. IssuedFor(d)' = day \cup {q} /\ day \subseteq DOMAIN quest
      BY <1>4, <2>2 DEF IssuedFor
    <3>2. IsFiniteSet(day \cup l.batch) /\ day \cup {q} \subseteq day \cup l.batch
      <4>1. day \cup l.batch \subseteq Quests
        BY <1>2, <3>1
      <4> QED
        BY <1>2, <4>1, FS_Subset
    <3>3. /\ Cardinality(day \cup {q}) <= Cardinality(day \cup l.batch)
          /\ Cardinality(day \cup {q}) \in Nat /\ Cardinality(day \cup l.batch) \in Nat
      BY <3>2, FS_Subset, FS_CardinalityType
    <3>4. \A r \in day \cup {q} : quest'[r].issued = l.now
      BY <1>3, <1>6, <3>1
    <3> HIDE DEF day
    <3> QED
      BY <1>2, <1>6, <3>1, <3>3, <3>4
  <2> QED
    BY <2>1, <2>2
<1>9. Drawn(p)'
  <2>1. CASE l.batch = {q}
    <3>1. proc'[p].pc = "idle"
      BY <2>1, ReturnKnows, IdleIsTyped
    <3> QED
      BY <3>1 DEF Drawn
  <2>2. CASE l.batch # {q}
    <3>1. /\ proc'[p].pc = "put" /\ proc'[p].batch = l.batch \ {q}
          /\ proc'[p].date = l.date /\ proc'[p].now = l.now
      BY <1>1, <2>2 DEF IInv, TypeOK, ProcState
    <3>2. /\ IssuedFor(l.date)' = day \cup {q}
          /\ (day \cup {q}) \cup (l.batch \ {q}) = day \cup l.batch
          /\ day \subseteq DOMAIN quest
      <4>1. IssuedFor(l.date)' = day \cup {q}
        BY <1>4, <3>1 DEF IssuedFor
      <4>2. (day \cup {q}) \cup (l.batch \ {q}) = day \cup l.batch
        OBVIOUS
      <4>3. day \subseteq DOMAIN quest
        BY DEF IssuedFor
      <4> QED
        BY <4>1, <4>2, <4>3
    <3>3. \A r \in day \cup {q} : quest'[r].issued = l.now
      BY <1>3, <1>6, <3>2
    <3>4. IssuedFor(proc[p].date)' = day \cup {q}
      BY <3>1, <3>2 DEF IssuedFor
    <3>5. \A r \in l.batch \ {q} : \A s \in Open' : Claim[r] # Claim[s]
      BY <1>5, <1>6
    <3> HIDE DEF day
    <3> QED
      BY <1>6, <3>1, <3>2, <3>3, <3>4, <3>5 DEF Drawn
  <2> QED
    BY <2>1, <2>2
<1> QED
  BY <1>7, <1>8, <1>9 DEF AskedOnce

\* What the lone process does, and what the world does beside it.
LEMMA AloneStep ==
  ASSUME IInv, NEW p \in Procs, Solitary(p), Solitary(p)', AskedOnce(p), [Next]_vars
  PROVE  AskedOnce(p)'
<1>1. \A r \in Procs : r # p => proc[r].pc = "idle" /\ proc'[r].pc = "idle"
  BY IdleIsTyped DEF Solitary
<1>2. CASE Tick \/ Adopt \/ UNCHANGED vars
  BY <1>2, UnchangedInsertsNothing, QuietStep DEF Tick, Adopt, vars
<1>3. ASSUME NEW r \in Procs, ExpireQuests(r) PROVE AskedOnce(p)'
  BY <1>3, ExpiredInsertsNothing, QuietStep DEF ExpireQuests
<1>4. ASSUME NEW r \in Procs, NEW d \in Dates, BeginIssue(r, d) PROVE AskedOnce(p)'
  <2>1. proc'[r].pc = "check"
    BY <1>4 DEF BeginIssue, IInv, TypeOK, Idle
  <2>2. r = p
    BY <1>1, <2>1
  <2> QED
    BY <1>4, <2>1, <2>2, UnchangedInsertsNothing, QuietStep DEF BeginIssue
<1>5. ASSUME NEW r \in Procs, NEW q \in Quests, NEW v \in Verdicts, BeginAnswer(r, q, v)
      PROVE  AskedOnce(p)'
  <2>1. proc'[r].pc = "record"
    BY <1>5 DEF BeginAnswer, IInv, TypeOK, Idle
  <2>2. r = p
    BY <1>1, <2>1
  <2> QED
    BY <1>5, <2>1, <2>2, UnchangedInsertsNothing, QuietStep DEF BeginAnswer
<1>6. ASSUME NEW r \in Procs, CheckDay(r) PROVE AskedOnce(p)'
  <2>1. r = p /\ UNCHANGED quest /\ InsertsNothing
    BY <1>1, <1>6, UnchangedInsertsNothing DEF CheckDay
  <2>2. CASE Return(p)
    BY <2>1, <2>2, ReturnKnows, IdleIsTyped, QuietStep
  <2>3. CASE ~ Return(p)
    <3>1. IssuedFor(proc[p].date) = {} /\ Goto(p, "expire")
      BY <1>6, <2>1, <2>3 DEF CheckDay
    <3>2. proc'[p].pc = "expire" /\ proc'[p].date = proc[p].date
      BY <3>1, GotoKnows, ZenonT(60) DEF IInv, TypeOK, ProcState
    <3>3. Drawn(p)'
      BY <2>1, <3>1, <3>2 DEF Drawn, IssuedFor
    <3> QED
      BY <2>1, <3>3, InsertsNothingKeeps DEF AskedOnce
  <2> QED
    BY <2>2, <2>3
<1>7. ASSUME NEW r \in Procs, ExpireStale(r) PROVE AskedOnce(p)'
  <2>1. r = p /\ InsertsNothing /\ Goto(p, "draft") /\ proc[p].pc = "expire"
    BY <1>1, <1>7, ExpiredInsertsNothing DEF ExpireStale
  <2>2. proc'[p].pc = "draft" /\ proc'[p].date = proc[p].date
    <3>1. proc'[p] = [proc[p] EXCEPT !.pc = "draft"]
      BY <2>1, GotoKnows
    <3>2. proc[p] \in ProcState
      BY DEF IInv, TypeOK
    <3> QED
      BY <3>1, <3>2 DEF ProcState
  <2>3. IssuedFor(proc[p].date) = {}
    BY <2>1 DEF AskedOnce, Drawn
  <2>4. Drawn(p)'
    BY <2>1, <2>2, <2>3 DEF Drawn, IssuedFor, InsertsNothing
  <2> QED
    BY <2>1, <2>4, InsertsNothingKeeps DEF AskedOnce
<1>8. ASSUME NEW r \in Procs, Draft(r) \/ PutQuest(r) PROVE AskedOnce(p)'
  <2>1. r = p
    BY <1>1, <1>8 DEF Draft, PutQuest
  <2> QED
    BY <1>8, <2>1, DraftIsDrawn, PutIsDrawn
<1>9. ASSUME NEW r \in Procs, RecordVerdict(r) PROVE AskedOnce(p)'
  <2>1. r = p
    BY <1>1, <1>9 DEF RecordVerdict
  <2>2. InsertsNothing
    BY <1>9, AnsweredInsertsNothing, UnchangedInsertsNothing DEF RecordVerdict
  <2>3. proc'[p].pc \in {"memory", "idle"}
    <3>1. CASE Return(p)
      BY <3>1, ReturnKnows, IdleIsTyped
    <3>2. CASE Goto(p, "memory")
      <4>1. proc'[p] = [proc[p] EXCEPT !.pc = "memory"]
        BY <3>2, GotoKnows
      <4>2. proc[p] \in ProcState
        BY DEF IInv, TypeOK
      <4> QED
        BY <4>1, <4>2 DEF ProcState
    <3> QED
      BY <1>9, <2>1, <3>1, <3>2 DEF RecordVerdict
  <2> QED
    BY <2>2, <2>3, QuietStep
<1>10. ASSUME NEW r \in Procs, PutCorrection(r) PROVE AskedOnce(p)'
  <2>1. r = p /\ Goto(p, "delta") /\ InsertsNothing
    BY <1>1, <1>10, UnchangedInsertsNothing DEF PutCorrection
  <2>2. proc'[p].pc = "delta"
    BY <2>1, GotoKnows, ZenonT(60) DEF IInv, TypeOK, ProcState
  <2> QED
    BY <2>1, <2>2, QuietStep
<1>11. ASSUME NEW r \in Procs, QueueDelta(r) \/ Crash(r) PROVE AskedOnce(p)'
  <2>1. r = p /\ Return(p) /\ InsertsNothing
    BY <1>1, <1>11, UnchangedInsertsNothing DEF QueueDelta, Crash
  <2> QED
    BY <2>1, ReturnKnows, IdleIsTyped, QuietStep
<1> QED
  BY <1>2, <1>3, <1>4, <1>5, <1>6, <1>7, <1>8, <1>9, <1>10, <1>11 DEF Next

LEMMA AloneInit ==
  ASSUME Init, NEW p \in Procs
  PROVE  AskedOnce(p)
<1>1. DOMAIN quest = {} /\ proc[p] = Idle
  BY DEF Init
<1>2. Open = {} /\ \A d : IssuedFor(d) = {}
  BY <1>1 DEF Open, IssuedFor
<1>3. Cardinality({}) = 0 /\ BatchSize \in Nat
  BY FS_EmptySet, QuestAssumption
<1>4. NoQuestionTwice
  BY <1>2 DEF NoQuestionTwice
<1>5. OneBatchADay
  BY <1>2, <1>3 DEF OneBatchADay
<1>6. Drawn(p)
  BY <1>1, IdleIsTyped DEF Drawn
<1> QED
  BY <1>4, <1>5, <1>6 DEF AskedOnce

\* Where one process does all the issuing, a day's questions are drawn once
\* and ask each thing once: wherever it dies, and whatever expires meanwhile.
THEOREM AskedOnceBySome ==
  ASSUME NEW p \in Procs
  PROVE  Spec /\ []Solitary(p) => [](NoQuestionTwice /\ OneBatchADay)
<1>1. Init => AskedOnce(p)
  BY AloneInit
<1>2. IInv /\ Solitary(p) /\ Solitary(p)' /\ AskedOnce(p) /\ [Next]_vars => AskedOnce(p)'
  BY AloneStep
<1>3. AskedOnce(p) => NoQuestionTwice /\ OneBatchADay
  BY DEF AskedOnce
<1> QED
  BY <1>1, <1>2, <1>3, Invariance, PTL DEF Spec

\* The same of the instance that is checked, where a flag that never changes
\* says that p2 stays idle.
THEOREM AskedOnceAlone ==
  ASSUME Procs = {p1, p2}
  PROVE  MCSpec => []DaysAreAskedOnce
<1> DEFINE Lone == alone => IInv /\ Solitary(p1) /\ AskedOnce(p1)
<1>1. MCInit => Lone
  <2> SUFFICES ASSUME MCInit PROVE Lone
    OBVIOUS
  <2>1. Solitary(p1)
    BY DEF MCInit, Init, Solitary
  <2> QED
    BY <2>1, InitIInv, AloneInit DEF MCInit
<1>2. Lone /\ [MCNext]_<<vars, alone>> => Lone'
  <2> SUFFICES ASSUME Lone, [MCNext]_<<vars, alone>>, alone' PROVE IInv' /\ Solitary(p1)' /\ AskedOnce(p1)'
    OBVIOUS
  <2>1. alone /\ [Next]_vars
    BY DEF MCNext
  <2>2. Solitary(p1)'
    BY <2>1 DEF MCNext, Within, Solitary, vars
  <2> QED
    BY <2>1, <2>2, NextIInv, AloneStep
<1>3. Lone => DaysAreAskedOnce
  BY DEF AskedOnce, DaysAreAskedOnce, NoQuestionTwiceAlone, OneBatchADayAlone
<1> QED
  BY <1>1, <1>2, <1>3, PTL DEF MCSpec
=============================================================================
