------------------------------ MODULE QuestLoop ------------------------------
(***************************************************************************)
(* Issuing quests, expiring them, and answering one: ops::issue_quests,    *)
(* expire_quests and answer_quest over the quest, memory and persona_delta *)
(* tables.                                                                 *)
(*                                                                         *)
(* Issuing checks the day, expires the stale, reads what is still open,    *)
(* generates a batch and inserts it quest by quest.  Answering reads the   *)
(* sealed body, decides, and then writes three times: the verdict, the     *)
(* correction as a memory, the delta.  Every statement commits by itself,  *)
(* the wall clock moves between any two, and another process - a CLI       *)
(* command beside `ghostr serve` - can act in between.                     *)
(*                                                                         *)
(* A quest row has its state twice: the status column, in the clear, and   *)
(* the sealed body.  Expiring writes only the column.                      *)
(***************************************************************************)
EXTENDS Integers, FiniteSets

CONSTANTS Procs,      \* processes that have the vault open
          Quests,     \* identifiers a quest can be given
          Claim,      \* Claim[q]: the committed answer of q
          HoldOut,    \* quests that are held out
          Decoys,     \* quests that are decoys
          Verdicts,   \* verdicts a user may give
          Wordy,      \* those with words of the user's own
          Weighty,    \* those that are corrections: Correct and Reject
          Dates,      \* days quests are issued for
          BatchSize,  \* daily_count
          Lifetime,   \* EXPIRY_HOURS
          MaxClock,   \* bound: the last instant of the wall clock
          MaxHead,    \* bound: persona versions adopted
          MayCrash    \* a process may die, or a statement fail, anywhere

ASSUME QuestAssumption ==
  /\ IsFiniteSet(Quests)
  /\ HoldOut \subseteq Quests /\ Decoys \subseteq Quests
  /\ HoldOut \cap Decoys = {}
  /\ "none" \notin Verdicts
  /\ Wordy \subseteq Verdicts /\ Weighty \subseteq Verdicts
  /\ BatchSize \in Nat /\ Lifetime \in Nat
  /\ MaxClock \in Nat /\ MaxHead \in Nat
  /\ MayCrash \in BOOLEAN

VARIABLES clock,    \* the wall clock
          head,     \* ordinal of the persona head; 0 when there is none
          quest,    \* table quest: id -> row
          memory,   \* correction memories
          queue,    \* table persona_delta
          proc      \* what each process is in the middle of

vars == <<clock, head, quest, memory, queue, proc>>

-----------------------------------------------------------------------------
NoVerdict == "none"

Insert(table, key, row) ==
  [k \in DOMAIN table \cup {key} |-> IF k = key THEN row ELSE table[k]]

Idle == [pc |-> "idle", now |-> 0, date |-> 0, ordinal |-> 0, batch |-> {},
         quest |-> {}, verdict |-> NoVerdict]

Init ==
  /\ clock = 0
  /\ head = 0
  /\ quest = [q \in {} |-> {}]
  /\ memory = {}
  /\ queue = {}
  /\ proc = [p \in Procs |-> Idle]

Return(p) == proc' = [proc EXCEPT ![p] = Idle]

Goto(p, pc) == proc' = [proc EXCEPT ![p].pc = pc]

Crash(p) ==
  /\ MayCrash
  /\ proc[p].pc # "idle"
  /\ Return(p)
  /\ UNCHANGED <<clock, head, quest, memory, queue>>

Tick ==
  /\ clock < MaxClock
  /\ clock' = clock + 1
  /\ UNCHANGED <<head, quest, memory, queue, proc>>

\* adopt_persona, as the quests see it (module Persona has its steps).
Adopt ==
  /\ head < MaxHead
  /\ head' = head + 1
  /\ queue' = {}
  /\ UNCHANGED <<clock, quest, memory, proc>>

-----------------------------------------------------------------------------
\* issue_quests.

IssuedFor(d) == {q \in DOMAIN quest : quest[q].date = d}

Open == {q \in DOMAIN quest : quest[q].status = "open"}

\* Slip: a quest past its deadline expires whatever its status.
StaleAnswered(now) == {q \in DOMAIN quest : quest[q].expires < now}

\* WHERE status = 'open' AND expires_at < now.
Stale(now) == {q \in Open : quest[q].expires < now}

\* The rows expire_quests leaves: the column changes, the body does not.
Expired(now) ==
  [q \in DOMAIN quest |->
     IF q \in Stale(now) THEN [quest[q] EXCEPT !.status = "expired"] ELSE quest[q]]

\* The clock, then the persona, without which nothing is issued.
BeginIssue(p, d) ==
  /\ proc[p].pc = "idle"
  /\ head # 0
  /\ proc' = [proc EXCEPT ![p] = [Idle EXCEPT !.pc = "check", !.now = clock,
                                              !.date = d, !.ordinal = head]]
  /\ UNCHANGED <<clock, head, quest, memory, queue>>

\* Slip: the day is not checked.
CheckNothing(p) ==
  /\ proc[p].pc = "check"
  /\ Goto(p, "expire")
  /\ UNCHANGED <<clock, head, quest, memory, queue>>

CheckDay(p) ==
  /\ proc[p].pc = "check"
  /\ IF IssuedFor(proc[p].date) = {} THEN Goto(p, "expire") ELSE Return(p)
  /\ UNCHANGED <<clock, head, quest, memory, queue>>

ExpireStale(p) ==
  /\ proc[p].pc = "expire"
  /\ quest' = Expired(proc[p].now)
  /\ Goto(p, "draft")
  /\ UNCHANGED <<clock, head, memory, queue>>

\* Identifiers nobody else has drawn.
Fresh == {q \in Quests : /\ q \notin DOMAIN quest
                         /\ \A p \in Procs : q \notin proc[p].batch}

\* generate: at most daily_count quests, no claim twice, none that is open.
Batches ==
  {b \in SUBSET Fresh :
     /\ Cardinality(b) <= BatchSize
     /\ \A q, r \in b : Claim[q] = Claim[r] => q = r
     /\ \A q \in b : \A r \in Open : Claim[q] # Claim[r]}

Draft(p) ==
  /\ proc[p].pc = "draft"
  /\ \E b \in Batches :
       IF b = {} THEN Return(p)
       ELSE proc' = [proc EXCEPT ![p].pc = "put", ![p].batch = b]
  /\ UNCHANGED <<clock, head, quest, memory, queue>>

PutQuest(p) ==
  /\ proc[p].pc = "put"
  /\ \E q \in proc[p].batch :
       /\ quest' = Insert(quest, q, [date |-> proc[p].date, issued |-> proc[p].now,
                                     expires |-> proc[p].now + Lifetime,
                                     ordinal |-> proc[p].ordinal,
                                     status |-> "open", body |-> "open",
                                     verdict |-> NoVerdict, answered |-> 0])
       /\ IF proc[p].batch = {q} THEN Return(p)
          ELSE proc' = [proc EXCEPT ![p].batch = @ \ {q}]
  /\ UNCHANGED <<clock, head, memory, queue>>

\* open_quests, and every status page: expire first.
ExpireQuests(p) ==
  /\ proc[p].pc = "idle"
  /\ quest' = Expired(clock)
  /\ UNCHANGED <<clock, head, memory, queue, proc>>

-----------------------------------------------------------------------------
\* answer_quest.

\* get_quest and decide: the body must bear no verdict and the deadline must
\* not have passed; the column is not looked at.
BeginAnswer(p, q, v) ==
  /\ proc[p].pc = "idle"
  /\ q \in DOMAIN quest
  /\ quest[q].verdict = NoVerdict /\ quest[q].body # "answered"
  /\ clock <= quest[q].expires
  /\ proc' = [proc EXCEPT ![p] = [Idle EXCEPT !.pc = "record", !.now = clock,
                                              !.quest = {q}, !.verdict = v]]
  /\ UNCHANGED <<clock, head, quest, memory, queue>>

Answered(p, q) ==
  [quest EXCEPT ![q].status = "answered", ![q].body = "answered",
                ![q].verdict = proc[p].verdict, ![q].answered = proc[p].now]

\* Slip: matching no row is not an error.
RecordIgnoringCount(p) ==
  /\ proc[p].pc = "record"
  /\ \E q \in proc[p].quest :
       /\ quest' = IF quest[q].status = "open" THEN Answered(p, q) ELSE quest
       /\ Goto(p, "memory")
  /\ UNCHANGED <<clock, head, memory, queue>>

\* UPDATE ... WHERE id = ? AND status = 'open': no row, AppendOnlyViolation.
RecordVerdict(p) ==
  /\ proc[p].pc = "record"
  /\ \E q \in proc[p].quest :
       IF quest[q].status = "open"
       THEN quest' = Answered(p, q) /\ Goto(p, "memory")
       ELSE UNCHANGED quest /\ Return(p)
  /\ UNCHANGED <<clock, head, memory, queue>>

Correction(q, v) == [quest |-> q, verdict |-> v]

\* correction_memory: only a verdict with words leaves one.
PutCorrection(p) ==
  /\ proc[p].pc = "memory"
  /\ memory' = memory \cup {Correction(q, proc[p].verdict) :
                              q \in IF proc[p].verdict \in Wordy THEN proc[p].quest ELSE {}}
  /\ Goto(p, "delta")
  /\ UNCHANGED <<clock, head, quest, queue>>

\* Slip: held-out quests are trained on.
TrainableOrNot(q, v) == v \in Weighty

\* delta_for.
Trainable(q, v) == q \notin HoldOut /\ v \in Weighty

QueueDelta(p) ==
  /\ proc[p].pc = "delta"
  /\ queue' = queue \cup {Correction(q, proc[p].verdict) :
                            q \in {r \in proc[p].quest : Trainable(r, proc[p].verdict)}}
  /\ Return(p)
  /\ UNCHANGED <<clock, head, quest, memory>>

Next ==
  \/ Tick
  \/ Adopt
  \/ \E p \in Procs :
       \/ \E d \in Dates : BeginIssue(p, d)
       \/ CheckDay(p) \/ ExpireStale(p) \/ Draft(p) \/ PutQuest(p)
       \/ ExpireQuests(p)
       \/ \E q \in Quests, v \in Verdicts : BeginAnswer(p, q, v)
       \/ RecordVerdict(p) \/ PutCorrection(p) \/ QueueDelta(p)
       \/ Crash(p)

Spec == Init /\ [][Next]_vars

-----------------------------------------------------------------------------
\* Types.

QuestRow == [date : Dates, issued : Nat, expires : Nat, ordinal : Nat,
             status : {"open", "answered", "expired"}, body : {"open", "answered"},
             verdict : Verdicts \cup {NoVerdict}, answered : Nat]

Corrections == [quest : Quests, verdict : Verdicts]

ProcState ==
  [pc : {"idle", "check", "expire", "draft", "put", "record", "memory", "delta"},
   now : Nat, date : Dates \cup {0}, ordinal : Nat, batch : SUBSET Quests,
   quest : SUBSET Quests, verdict : Verdicts \cup {NoVerdict}]

\* The tables hold rows of the schema's shape; a sealed body is open or
\* answered and never anything else.
TypeOK ==
  /\ clock \in Nat /\ head \in Nat
  /\ DOMAIN quest \subseteq Quests
  /\ \A q \in DOMAIN quest : quest[q] \in QuestRow
  /\ memory \subseteq Corrections
  /\ queue \subseteq Corrections
  /\ proc \in [Procs -> ProcState]

-----------------------------------------------------------------------------
\* What the score reads.

\* scoreable_quests, and decoy_quests.
Scoreable == {q \in HoldOut \cap DOMAIN quest : quest[q].status = "answered"}
DecoysIssued == Decoys \cap DOMAIN quest

\* The numerator of integrity's expiry_rate: the status of the decoded body.
CountedExpired == {q \in Scoreable \cup DecoysIssued : quest[q].body = "expired"}

-----------------------------------------------------------------------------
\* What the loop promises.

\* A verdict is one-shot: once recorded it is never overwritten, expired or
\* reopened, however many processes answer, expire and issue.
VerdictStands ==
  [][\A q \in DOMAIN quest :
       quest[q].verdict # NoVerdict =>
         /\ quest'[q].verdict = quest[q].verdict
         /\ quest'[q].answered = quest[q].answered
         /\ quest'[q].status = "answered"]_vars

\* When two processes answer one quest differently, only the words of the
\* verdict that was recorded enter the corpus.
CorrectionIsTheVerdict ==
  \A c \in memory : /\ c.quest \in DOMAIN quest
                    /\ quest[c.quest].verdict = c.verdict

\* A queued delta is owed to the recorded verdict of a quest that is not held
\* out, and the correction it names is in the corpus: "the other order would
\* leave a queued delta naming a memory that does not exist".
DeltaIsEarned ==
  \A c \in queue :
    /\ c.quest \in DOMAIN quest \ HoldOut
    /\ quest[c.quest].verdict = c.verdict
    /\ c.verdict \in Wordy => c \in memory

\* A quest that expired was never answered: it has no verdict and left nothing
\* in the corpus or the queue, although an answer may be under way when the
\* expiry is written.
ExpiredForGood ==
  \A q \in DOMAIN quest :
    quest[q].status = "expired" =>
      /\ quest[q].verdict = NoVerdict
      /\ \A c \in memory \cup queue : c.quest # q

\* The deadline decides, whatever statement runs first: what was answered was
\* answered in time, what has expired is past its time.
Deadline ==
  \A q \in DOMAIN quest :
    /\ quest[q].status = "answered" =>
         quest[q].answered \in quest[q].issued..quest[q].expires
    /\ quest[q].status = "expired" => quest[q].expires < clock

\* No two questions waiting on the user's screen have the same answer.
NoQuestionTwice ==
  \A q, r \in Open : Claim[q] = Claim[r] => q = r

\* A day's quests are one batch: two runs on one day would let a user re-roll.
OneBatchADay ==
  \A d \in Dates :
    /\ Cardinality(IssuedFor(d)) <= BatchSize
    /\ \A q, r \in IssuedFor(d) : quest[q].issued = quest[r].issued

\* Recording a verdict records everything that follows from it: the user's
\* words are in the corpus, or the process is about to put them there.
CorrectionKept ==
  \A q \in DOMAIN quest :
    quest[q].verdict \in Wordy =>
      \/ Correction(q, quest[q].verdict) \in memory
      \/ \E p \in Procs : proc[p].pc = "memory" /\ q \in proc[p].quest

\* expiry_rate is the fraction of issued quests that expired unanswered: an
\* expired decoy counts.
ExpiryIsCounted ==
  \A q \in DecoysIssued : quest[q].status = "expired" => q \in CountedExpired
=============================================================================
