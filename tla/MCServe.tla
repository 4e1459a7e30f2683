------------------------------- MODULE MCServe -------------------------------
(***************************************************************************)
(* Instances of Serve for TLC: days of two units , with the clocks going  *)
(* back or forward once.                                                   *)
(***************************************************************************)
EXTENDS Serve

CONSTANTS c1, c2, c3, unix, tcp

\* The wall clock shows the cutoff of day 1 twice.
Fold == [t \in Instants |-> IF t <= 2 THEN 1 ELSE 0]

\* It never shows the cutoff of day 1.
Gap == [t \in Instants |-> IF t <= 2 THEN 0 ELSE 1]

\* Either the loop runs by itself from the vault's first day on, or clients
\* come while it catches up with the days behind it.
Alone ==
  /\ now = Created /\ faults = 0 /\ ~auto
  /\ \A c \in Clients : conn[c] = "served"
CatchingUp ==
  /\ now = Horizon /\ faults = MaxFaults /\ auto
  /\ \A c \in Clients : conn[c] = "none"

MCInit == ServeInit /\ (Alone \/ CatchingUp)

MCSafety == MCInit /\ [][ServeNext]_allVars
MCSpec == MCSafety /\ Fairness
==============================================================================
