------------------------------- MODULE SealLoop -------------------------------
(***************************************************************************)
(* Sealing days that are over: seal_loop of serve.rs and ops::seal_due.    *)
(*                                                                         *)
(* The sealer sleeps, wakes, walks back from yesterday to the first sealed *)
(* day and seals what it found, oldest first.  Beside it the clock moves,  *)
(* notes arrive late, the user seals days by hand from another process and *)
(* switches auto_seal, a seal fails, and the machine stops and starts.     *)
(*                                                                         *)
(* When a day begins and ends is ghostr-memoria/src/cutoff.rs: an instant  *)
(* is a number of units of UTC time, the home zone its offset from UTC at  *)
(* each instant, so a wall clock may show a time twice (the offset drops)  *)
(* or never (it rises).                                                    *)
(*                                                                         *)
(* Abstractions.  Compiling and sealing one day is one step here; Memoria  *)
(* has its statements.  The walk is one step: a day sealed by hand during  *)
(* it is as one sealed just before or just after it.                       *)
(***************************************************************************)
EXTENDS Integers, Sequences, FiniteSets

CONSTANTS DayLength,   \* units in a day of the wall clock
          Cutoff,      \* minute_of_day
          Horizon,     \* bound: the last instant
          Offset       \* home_tz: the offset in force at each instant

CONSTANTS Created,    \* the instant meta created_at names
          Grace,      \* seal_grace_hours, in units
          Backfill,   \* seal_backfill_days
          MaxWrites,  \* bound: notes written and days sealed by hand
          MaxFaults   \* bound: failed seals and stops of the machine

Instants == 0..Horizon

ASSUME ZoneAssumption ==
  /\ DayLength \in Nat \ {0} /\ Cutoff \in Nat /\ Horizon \in Nat
  /\ Offset \in [Instants -> Int]

ASSUME SealAssumption ==
  /\ Created \in Instants /\ Grace \in Nat /\ Backfill \in Nat
  /\ MaxWrites \in Nat /\ MaxFaults \in Nat

VARIABLES now,      \* the clock
          notes,    \* table memory: when a note is about, and when it was stored
          chain,    \* table footage, in seq order
          auto,     \* auto_seal
          sealer,   \* what seal_loop is in the middle of
          faults    \* how much has gone wrong

sealVars == <<now, notes, chain, auto, sealer, faults>>

-----------------------------------------------------------------------------
\* The local date of an instant.
DateIn(t) == (t + Offset[t]) \div DayLength

\* The instants at which the wall clock shows the cutoff of a date.
CutoffTime(d) ==
  d * DayLength + (IF Cutoff < DayLength THEN Cutoff ELSE DayLength - 1)
Candidates(d) == {t \in Instants : t + Offset[t] = CutoffTime(d)}

\* earliest(), and the epoch where the clock never shows it.
CutoffInstant(d) ==
  IF Candidates(d) = {} THEN 0
  ELSE CHOOSE t \in Candidates(d) : \A u \in Candidates(d) : t <= u

\* window_for without a previous cutoff, as the engine calls it: half open.
Window(d) == CutoffInstant(d - 1) .. CutoffInstant(d) - 1

-----------------------------------------------------------------------------
Today == DateIn(now)
Genesis == DateIn(Created)
Days == {DateIn(t) : t \in Instants}

Sealed == {chain[i].date : i \in DOMAIN chain}

\* The days the loop of seal_due visits: from yesterday back, at most Backfill
\* of them, to the first that is sealed or before genesis.
Walk ==
  {d \in Days : /\ Genesis <= d /\ d < Today /\ Today - d <= Backfill
                /\ \A s \in Sealed : s < d \/ Today <= s}

\* Slip: sealed the instant the cutoff passes.
OutOfGraceAtCutoff(d) == now >= CutoffInstant(d)

OutOfGrace(d) == now >= CutoffInstant(d) + Grace

\* What a footage of day d holds.
InWindow(d) == {n \in notes : n.at \in Window(d)}

Asleep == [pc |-> "asleep", pending |-> {}, today |-> 0]
Off == [pc |-> "off", pending |-> {}, today |-> 0]

\* The server may be started long after the vault was.
SealInit ==
  /\ now \in Created..Horizon
  /\ notes = {} /\ chain = <<>> /\ auto \in BOOLEAN /\ sealer = Asleep
  /\ faults \in 0..MaxFaults

-----------------------------------------------------------------------------
\* fifteen minutes have passed: read the configuration, then find the days due.
Wake ==
  /\ sealer.pc = "asleep"
  /\ IF auto
     THEN sealer' = [pc |-> "sealing", pending |-> {d \in Walk : OutOfGrace(d)},
                     today |-> Today]
     ELSE UNCHANGED sealer
  /\ UNCHANGED <<now, notes, chain, auto, faults>>

Oldest(d) == d \in sealer.pending /\ \A e \in sealer.pending : d <= e

\* at and today are history: when the loop sealed, and the day it had read.
ByTheLoop(d) ==
  [date |-> d, by |-> "sealer", at |-> now, today |-> sealer.today, notes |-> InWindow(d)]

\* memoria(date) of the loop: it refuses a day sealed meanwhile, which ends the
\* pass as any error does.
SealOldest(d) ==
  /\ sealer.pc = "sealing" /\ Oldest(d)
  /\ IF d \in Sealed
     THEN sealer' = Asleep /\ UNCHANGED chain
     ELSE /\ chain' = Append(chain, ByTheLoop(d))
          /\ sealer' = [sealer EXCEPT !.pending = @ \ {d}]
  /\ UNCHANGED <<now, notes, auto, faults>>

\* let _ = seal_due(..): whatever went wrong, the pass is over.
SealFails ==
  /\ sealer.pc = "sealing" /\ sealer.pending # {}
  /\ faults < MaxFaults
  /\ faults' = faults + 1
  /\ sealer' = Asleep
  /\ UNCHANGED <<now, notes, chain, auto>>

PassEnds ==
  /\ sealer.pc = "sealing" /\ sealer.pending = {}
  /\ sealer' = Asleep
  /\ UNCHANGED <<now, notes, chain, auto, faults>>

\* The machine stops; what was sealed is in the store.
Stop ==
  /\ sealer.pc # "off" /\ faults < MaxFaults
  /\ faults' = faults + 1
  /\ sealer' = Off
  /\ UNCHANGED <<now, notes, chain, auto>>

Start ==
  /\ sealer.pc = "off"
  /\ sealer' = Asleep
  /\ UNCHANGED <<now, notes, chain, auto, faults>>

-----------------------------------------------------------------------------
Tick ==
  /\ now < Horizon
  /\ now' = now + 1
  /\ UNCHANGED <<notes, chain, auto, sealer, faults>>

ByHand == {i \in DOMAIN chain : chain[i].by = "hand"}
Writes == Cardinality(notes) + Cardinality(ByHand)

\* journal_add, from the page: an entry about this moment.
JournalAdd ==
  /\ Writes < MaxWrites
  /\ notes' = notes \cup {[at |-> now, put |-> now]}
  /\ UNCHANGED <<now, chain, auto, sealer, faults>>

\* journal_import of an entry written up afterwards; one it has is skipped.
JournalImport(t) ==
  /\ t < now /\ Writes < MaxWrites
  /\ \A n \in notes : n.at # t
  /\ notes' = notes \cup {[at |-> t, put |-> now]}
  /\ UNCHANGED <<now, chain, auto, sealer, faults>>

\* ghostr memoria --date, in a process of its own.
SealByHand(d) ==
  /\ Writes < MaxWrites
  /\ d \notin Sealed /\ Genesis <= d /\ d <= Today
  /\ chain' = Append(chain, [date |-> d, by |-> "hand", at |-> 0, today |-> 0,
                             notes |-> InWindow(d)])
  /\ UNCHANGED <<now, notes, auto, sealer, faults>>

\* The user sets auto_seal in config.toml, and does not start the server anew.
SwitchOn ==
  /\ ~auto /\ auto' = TRUE
  /\ UNCHANGED <<now, notes, chain, sealer, faults>>

World ==
  \/ Tick \/ SwitchOn \/ JournalAdd
  \/ \E t \in Instants : JournalImport(t)
  \/ \E d \in Days : SealByHand(d)

Seal == \/ \E d \in Days : SealOldest(d)
        \/ SealFails \/ PassEnds

SealNext == World \/ Wake \/ Seal \/ Stop \/ Start

SealSpec == SealInit /\ [][SealNext]_sealVars

-----------------------------------------------------------------------------
NoteRow == [at : Instants, put : Instants]
Entry == [date : Int, by : {"sealer", "hand"}, at : Instants, today : Int,
          notes : SUBSET NoteRow]
SealerState ==
  [pc : {"asleep", "sealing", "off"}, pending : SUBSET Days, today : Int]

SealTypeOK ==
  /\ now \in Instants /\ notes \subseteq NoteRow /\ chain \in Seq(Entry)
  /\ auto \in BOOLEAN /\ sealer \in SealerState /\ faults \in 0..MaxFaults

ByLoop(i) == i \in DOMAIN chain /\ chain[i].by = "sealer"

\* "A day is not sealed the instant its cutoff passes": the loop closes no day
\* before its grace is over, whatever happened since it read the clock.
GraceHolds ==
  \A i \in DOMAIN chain :
    ByLoop(i) => chain[i].at >= CutoffInstant(chain[i].date) + Grace

\* Over all its passes, cut short or not, the loop seals in date order.
OldestFirst ==
  \A i, j \in DOMAIN chain :
    ByLoop(i) /\ ByLoop(j) /\ i < j => chain[i].date < chain[j].date

\* "A late note still lands in the day it describes": what was stored within
\* the grace of a day is in the footage the loop made of it.
GraceKeepsNotes ==
  \A i \in DOMAIN chain : \A n \in InWindow(chain[i].date) :
    ByLoop(i) /\ n.put < CutoffInstant(chain[i].date) + Grace => n \in chain[i].notes

\* "No memory is ever double-counted ... no matter what the wall clock did."
CountedOnce ==
  \A i, j \in DOMAIN chain : i # j => chain[i].notes \cap chain[j].notes = {}

\* The loop leaves a hole behind a day it seals only where it could not look:
\* further back than Backfill, or behind a day that had been sealed before.
HolesAreOutOfReach ==
  \A i \in DOMAIN chain : \A d \in Days \ Sealed :
    ByLoop(i) /\ Genesis <= d /\ d < chain[i].date =>
      \/ chain[i].today - d > Backfill
      \/ \E j \in 1..i - 1 : d < chain[j].date /\ chain[j].date < chain[i].date

\* A day the loop seals holds its notes, no other day does, and no day is
\* passed over that the loop could have looked at.
DaysAreSealedWhole == GraceKeepsNotes /\ CountedOnce /\ HolesAreOutOfReach

\* A past day is sealed, or every later day that is over is not either: what
\* the doc of seal_due promises of "every past day that is over".
NoHole ==
  \A d \in Days : Genesis <= d /\ d < Today /\ (\E s \in Sealed : d < s /\ s < Today)
    => d \in Sealed
=============================================================================
