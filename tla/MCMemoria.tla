------------------------------ MODULE MCMemoria ------------------------------
(***************************************************************************)
(* An instance of Memoria for TLC: one process by itself seals three days  *)
(* in their order while the clock runs - the first note opens a thread,    *)
(* the second one ticks it off -, or two processes seal two days in any    *)
(* order with one note between them.                                       *)
(***************************************************************************)
EXTENDS Memoria, TLC

CONSTANTS m1, m2, t1, p1, p2, q1

TwoNotes == {m1, m2}
OneThread == {t1}
OpensFirst == [m \in Memories |-> IF m = m1 THEN {t1} ELSE {}]
ClosesSecond == [m \in Memories |-> IF m = m2 THEN {t1} ELSE {}]

VARIABLES alone,  \* which of the two
          torn    \* the days whose memoria died half-way through its stamps

\* The bounds of the two.
Within ==
  IF alone
  THEN /\ proc[p2] = Idle
       /\ proc[p1].pc = "window" => \A s \in DOMAIN footage : footage[s].date < proc[p1].date
  ELSE /\ clock = 0
       /\ \A m \in DOMAIN memory : m # m2 /\ memory[m].day < 3
       /\ \A p \in Procs : proc[p].date < 3 /\ m2 \notin proc[p].mems

DiesStamping(p) ==
  /\ proc[p].pc = "stamp" /\ proc[p].issued \cup proc[p].answered # {}
  /\ proc'[p] = Idle

MCInit == Init /\ alone \in BOOLEAN /\ torn = {}
MCNext ==
  /\ Next /\ UNCHANGED alone
  /\ Within'
  /\ torn' = torn \cup {proc[p].seq : p \in {p \in Procs : alone /\ DiesStamping(p)}}
MCSpec == MCInit /\ [][MCNext]_<<vars, alone, torn>>

\* A process that dies half-way through its stamps spoils the root of that day
\* and of no other: by itself it leaves days that re-derive their roots from what
\* the vault holds, as verify does, before such a death and after it - the quests
\* it had not stamped yet go into the next day, and only there.
OnlyTornDaysFail ==
  alone /\ (\A p \in Procs : proc[p].pc # "stamp") =>
    \A s \in DOMAIN footage \ torn : HeldRoot(s) = footage[s].root

\* A process by itself drops no note between two days, dead or alive.
MemoryAccountedAlone == alone => MemoryAccounted

\* A process that seals in order by itself loses and reopens no thread.
ThreadsContinueAlone == alone => ThreadsContinue
==============================================================================
