----------------------------- MODULE MCQuestLoop -----------------------------
(***************************************************************************)
(* An instance of QuestLoop for TLC: one process by itself over two days   *)
(* and three quests, or two processes over one day and two quests.         *)
(***************************************************************************)
EXTENDS QuestLoop

CONSTANTS p1, p2, q1, q2, q3, a, b

\* q1 and q2 ask the same thing.
SameClaim == [q \in Quests |-> IF q = q3 THEN b ELSE a]

VARIABLE alone

\* The bounds of the two.
Within ==
  IF alone THEN proc[p2] = Idle
  ELSE /\ clock < MaxClock
       /\ \A q \in DOMAIN quest : q # q2 /\ quest[q].date = 1
       /\ \A p \in Procs : q2 \notin proc[p].batch /\ proc[p].date < 2

MCInit == Init /\ alone \in BOOLEAN
MCNext == Next /\ UNCHANGED alone /\ Within'
MCSpec == MCInit /\ [][MCNext]_<<vars, alone>>

\* By itself a process never puts two questions with one answer on the user's
\* screen: the batch is drawn against what is open.
NoQuestionTwiceAlone == alone => NoQuestionTwice

\* By itself a process makes a day's quests one batch, so that they cannot be
\* drawn again until they look easy - also when it dies while inserting them.
OneBatchADayAlone == alone => OneBatchADay

\* What the user is asked in a day is drawn once and asks each thing once.
DaysAreAskedOnce == NoQuestionTwiceAlone /\ OneBatchADayAlone
=============================================================================
