-------------------------------- MODULE Serve --------------------------------
(***************************************************************************)
(* ghostr serve: the acceptors, one thread a connection, the engine behind *)
(* one mutex, and the seal loop beside them (ghostr-engine/src/serve.rs,   *)
(* serve/api.rs).  SealLoop is the sealer; here it takes the mutex first.  *)
(*                                                                         *)
(* A request is read and parsed by its own thread before the mutex is      *)
(* taken.  A handler may panic: the mutex is recovered from the poison,    *)
(* the thread's slot in the connection count is not.                       *)
(*                                                                         *)
(* Abstractions.  What a request asks is whether it parses; the answer is  *)
(* its status class.  A client that stops reading is one that hung up.     *)
(***************************************************************************)
EXTENDS SealLoop

CONSTANTS Listeners,        \* the unix socket, and TCP with --http
          Clients,          \* who may connect
          Silent,           \* those that connect and may say nothing
          MaxConnections,   \* MAX_CONNECTIONS
          MaxPanics         \* bound: handlers that panic

ASSUME ServeAssumption ==
  /\ IsFiniteSet(Clients) /\ Silent \subseteq Clients
  /\ MaxConnections \in Nat /\ MaxPanics \in Nat

VARIABLES conn,    \* where each client's connection is
          accept,  \* the clients an acceptor counted and is about to refuse
          live,    \* the atomic counter
          lock     \* who holds the engine

serveVars == <<conn, accept, live, lock>>

Nobody == {}
Sealer == {"sealer"}

Serving(c) == conn[c] \in {"reading", "ready", "routing", "writing", "closing"}
Threads == {c \in Clients : Serving(c)}

\* A client that is "served" at the start never comes.
ServeInit ==
  /\ SealInit
  /\ conn \in [Clients -> {"none", "served"}]
  /\ accept = [l \in Listeners |-> {}]
  /\ live = 0 /\ lock = Nobody

Becomes(c, pc) == conn' = [conn EXCEPT ![c] = pc]

-----------------------------------------------------------------------------
Connect(c) ==
  /\ conn[c] = "none"
  /\ Becomes(c, "waiting")
  /\ UNCHANGED <<accept, live, lock>>

\* Slip: connections are handled one at a time.
CountInTurn(l, c) ==
  /\ conn[c] = "waiting" /\ accept[l] = {} /\ Threads = {}
  /\ live' = live + 1
  /\ Becomes(c, "reading")
  /\ UNCHANGED <<accept, lock>>

\* fetch_add returns the count before: a thread is spawned, or the acceptor
\* takes the count back before it accepts again.
Count(l, c) ==
  /\ conn[c] = "waiting" /\ accept[l] = {}
  /\ live' = live + 1
  /\ IF live < MaxConnections
     THEN Becomes(c, "reading") /\ UNCHANGED accept
     ELSE Becomes(c, "counted") /\ accept' = [accept EXCEPT ![l] = {c}]
  /\ UNCHANGED lock

\* fetch_sub, then 503.
Refuse(l) ==
  /\ accept[l] # {}
  /\ live' = live - 1
  /\ conn' = [c \in Clients |-> IF c \in accept[l] THEN "refused" ELSE conn[c]]
  /\ accept' = [accept EXCEPT ![l] = {}]
  /\ UNCHANGED lock

\* read_request: a whole request, or a status for one that is none, that is
\* too large, or that did not come in time.
ReadRequest(c) ==
  /\ conn[c] = "reading"
  /\ \E pc \in {"ready", "writing"} : Becomes(c, pc)
  /\ UNCHANGED <<accept, live, lock>>

LockEngine(c) ==
  /\ conn[c] = "ready" /\ lock = Nobody
  /\ lock' = {c} /\ Becomes(c, "routing")
  /\ UNCHANGED <<accept, live>>

\* api::route returns, whatever the status.
Route(c) ==
  /\ conn[c] = "routing"
  /\ lock' = Nobody /\ Becomes(c, "writing")
  /\ UNCHANGED <<accept, live>>

\* The guard is dropped by the unwinding, and poisons; into_inner ignores that.
Panic(c) ==
  /\ conn[c] = "routing"
  /\ Cardinality({d \in Clients : conn[d] = "panicked"}) < MaxPanics
  /\ lock' = Nobody /\ Becomes(c, "panicked")
  /\ UNCHANGED <<accept, live>>

\* write_all and flush; their errors are ignored.
Respond(c) ==
  /\ conn[c] = "writing"
  /\ Becomes(c, "closing")
  /\ UNCHANGED <<accept, live, lock>>

Release(c) ==
  /\ conn[c] = "closing"
  /\ live' = live - 1 /\ Becomes(c, "served")
  /\ UNCHANGED <<accept, lock>>

-----------------------------------------------------------------------------
\* Slip: the loop dies of a poisoned mutex.
LockToSealUnpoisoned ==
  /\ lock = Nobody /\ \A c \in Clients : conn[c] # "panicked"
  /\ Wake /\ lock' = (IF auto THEN Sealer ELSE Nobody)

\* The sealer has slept, and takes the engine for a whole pass.
LockToSeal == lock = Nobody /\ Wake /\ lock' = (IF auto THEN Sealer ELSE Nobody)

SealLocked ==
  /\ lock = Sealer /\ Seal
  /\ lock' = IF sealer'.pc = "sealing" THEN Sealer ELSE Nobody

\* A stop takes every connection with it.
StopServer ==
  /\ Stop
  /\ conn' = [c \in Clients |-> IF conn[c] = "none" THEN "none" ELSE "served"]
  /\ accept' = [l \in Listeners |-> {}]
  /\ live' = 0 /\ lock' = Nobody

Handle(c) == LockEngine(c) \/ Route(c) \/ Respond(c) \/ Release(c)

Up == sealer.pc # "off"

Connection ==
  \/ \E c \in Clients : Connect(c) \/ ReadRequest(c) \/ Handle(c) \/ Panic(c)
  \/ \E l \in Listeners : Refuse(l) \/ \E c \in Clients : Count(l, c)

ServeNext ==
  \/ World /\ UNCHANGED serveVars
  \/ (LockToSeal \/ SealLocked) /\ UNCHANGED <<conn, accept, live>>
  \/ StopServer
  \/ Start /\ UNCHANGED serveVars
  \/ Up /\ Connection /\ UNCHANGED sealVars

allVars == <<sealVars, serveVars>>

ServeSafety == ServeInit /\ [][ServeNext]_allVars

-----------------------------------------------------------------------------
\* Threads run, acceptors accept, the loop wakes: weak fairness.  The mutex is
\* not fair, but the sealer leaves it alone for a quarter of an hour between
\* two passes, so one who waits finds it free again and again and gets it.
\* Nothing makes a silent client speak, the user write or the machine start.
Fairness ==
  /\ WF_allVars(LockToSeal /\ UNCHANGED <<conn, accept, live>>)
  /\ WF_allVars(SealLocked /\ UNCHANGED <<conn, accept, live, faults>>)
  /\ \A l \in Listeners :
       /\ WF_allVars(Up /\ Refuse(l) /\ UNCHANGED sealVars)
       /\ WF_allVars(Up /\ (\E c \in Clients : Count(l, c)) /\ UNCHANGED sealVars)
  /\ \A c \in Clients :
       /\ WF_allVars(Up /\ ReadRequest(c) /\ c \notin Silent /\ UNCHANGED sealVars)
       /\ WF_allVars(Up /\ Handle(c) /\ UNCHANGED sealVars)
       /\ SF_allVars(Up /\ LockEngine(c) /\ UNCHANGED sealVars)

ServeSpec == ServeSafety /\ Fairness

Stages == {"none", "waiting", "reading", "counted", "ready", "routing", "writing", "closing",
           "served", "refused", "panicked"}

ServeTypeOK ==
  /\ SealTypeOK
  /\ conn \in [Clients -> Stages]
  /\ accept \in [Listeners -> SUBSET Clients]
  /\ live \in Nat /\ lock \in {Nobody, Sealer} \cup {{c} : c \in Clients}

\* "The most connections served at once", whatever two acceptors and the
\* threads that end add to and take from the counter between each other's steps.
AtMostMax == Cardinality(Threads) <= MaxConnections

\* "Recovering and serving the next request beats refusing every request from
\* now on": where nobody is served and nobody refused, there is a slot.
SlotsComeBack == Threads = {} /\ (\A l \in Listeners : accept[l] = {}) => live < MaxConnections

\* A client that connects and speaks is answered, refused or hung up on,
\* whatever clients stay silent and however long the sealer works.
EveryoneIsAnswered ==
  \A c \in Clients \ Silent :
    conn[c] = "waiting" ~> conn[c] \in {"served", "refused", "panicked"}

\* "The next pass tries again": a day the loop can reach and whose grace is
\* over is sealed, as long as the server runs with auto_seal on.
Reachable(d) == d \in Walk /\ OutOfGrace(d) /\ auto /\ Up
DueIsSealed == \A d \in Days : Reachable(d) ~> ~Reachable(d)
=============================================================================
