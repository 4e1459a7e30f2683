------------------------------- MODULE Persona -------------------------------
(***************************************************************************)
(* Persona versions: proposing one, adopting it, and the queue of          *)
(* corrections it consumes.                                                *)
(*                                                                         *)
(* A proposal is three reads (the head, the corpus, the queue) and nothing *)
(* is written until it is adopted.  Adopting is three statements that are  *)
(* not one transaction: clear the head, insert the new version as head,    *)
(* empty the queue.  `ghostr serve` queues corrections while a CLI command *)
(* adopts, and two CLI commands may adopt at once.                         *)
(*                                                                         *)
(* Abstractions.  The first-party slice and the claimable slice of the     *)
(* corpus are one set.  What distillation makes of it - and with it the    *)
(* content hash - is the set of memories that move some facet; Silent are  *)
(* the memories below the resolution of the fixed-point facets.  Opinions  *)
(* and lore are carried from version to version and never created by any   *)
(* code, so corrections leave no mark in the content: a version records    *)
(* which of them distillation was given.                                   *)
(***************************************************************************)
EXTENDS Integers, FiniteSets

CONSTANTS Procs,        \* processes that have the vault open
          Memories,     \* memories that can enter the corpus
          Silent,       \* those of them that move no facet
          Corrections,  \* deltas that verdicts can queue
          MinCorpus,    \* MIN_CORPUS
          MayCrash      \* a process may die, or a statement fail, anywhere

ASSUME PersonaAssumption ==
  /\ Silent \subseteq Memories
  /\ MinCorpus \in Nat
  /\ MayCrash \in BOOLEAN

VARIABLES memory,   \* table memory: id -> row
          queue,    \* table persona_delta
          given,    \* every delta ever queued (history)
          persona,  \* table persona: ordinal -> row
          proc      \* what each process is in the middle of

vars == <<memory, queue, given, persona, proc>>

-----------------------------------------------------------------------------
None == 0           \* no head, no parent; ordinals start at 1

Insert(table, key, row) ==
  [k \in DOMAIN table \cup {key} |-> IF k = key THEN row ELSE table[k]]

Heads == {v \in DOMAIN persona : persona[v].head}

\* persona_head: WHERE is_head = 1 LIMIT 1.
HeadOrdinal == IF Heads = {} THEN None ELSE CHOOSE v \in Heads : TRUE

\* Memories distillation may read: all_memories skips the shredded ones.
Corpus == {m \in DOMAIN memory : ~memory[m].shredded}

\* content_hash, of the facets distilled from a corpus.
Content(corpus) == corpus \ Silent

Idle == [pc |-> "idle", parent |-> None, corpus |-> {}, took |-> {}]

Init ==
  /\ memory = [m \in {} |-> {}]
  /\ queue = {}
  /\ given = {}
  /\ persona = [v \in {} |-> {}]
  /\ proc = [p \in Procs |-> Idle]

Return(p) == proc' = [proc EXCEPT ![p] = Idle]

Crash(p) ==
  /\ MayCrash
  /\ proc[p].pc # "idle"
  /\ Return(p)
  /\ UNCHANGED <<memory, queue, given, persona>>

-----------------------------------------------------------------------------
\* The world around: the corpus grows and is shredded, verdicts queue deltas.

PutMemory(p, m) ==
  /\ proc[p].pc = "idle"
  /\ m \notin DOMAIN memory
  /\ memory' = Insert(memory, m, [shredded |-> FALSE])
  /\ UNCHANGED <<queue, given, persona, proc>>

Shred(p, m) ==
  /\ proc[p].pc = "idle"
  /\ m \in DOMAIN memory
  /\ ~memory[m].shredded
  /\ memory' = [memory EXCEPT ![m].shredded = TRUE]
  /\ UNCHANGED <<queue, given, persona, proc>>

\* One quest, one verdict, one delta.
QueueDelta(p, d) ==
  /\ proc[p].pc = "idle"
  /\ d \notin given
  /\ queue' = queue \cup {d}
  /\ given' = given \cup {d}
  /\ UNCHANGED <<memory, persona, proc>>

-----------------------------------------------------------------------------
\* propose_persona.

ReadHead(p) ==
  /\ proc[p].pc = "idle"
  /\ proc' = [proc EXCEPT ![p].pc = "corpus", ![p].parent = HeadOrdinal]
  /\ UNCHANGED <<memory, queue, given, persona>>

ReadCorpus(p) ==
  /\ proc[p].pc = "corpus"
  /\ proc' = [proc EXCEPT ![p].pc = "deltas", ![p].corpus = Corpus]
  /\ UNCHANGED <<memory, queue, given, persona>>

\* peek_deltas, and distill: too thin a corpus is InsufficientCorpus.
PeekDeltas(p) ==
  /\ proc[p].pc = "deltas"
  /\ IF Cardinality(proc[p].corpus) < MinCorpus
     THEN Return(p)
     ELSE proc' = [proc EXCEPT ![p].pc = "proposed", ![p].took = queue]
  /\ UNCHANGED <<memory, queue, given, persona>>

\* `persona distill` without --adopt: the proposal was printed.
Decline(p) ==
  /\ proc[p].pc = "proposed"
  /\ Return(p)
  /\ UNCHANGED <<memory, queue, given, persona>>

-----------------------------------------------------------------------------
\* adopt_persona: put_persona is two statements, drain_deltas the third.

\* Slip: the old head keeps its flag.
KeepHead(p) ==
  /\ proc[p].pc = "proposed"
  /\ proc' = [proc EXCEPT ![p].pc = "insert"]
  /\ UNCHANGED <<memory, queue, given, persona>>

\* UPDATE persona SET is_head = 0 WHERE is_head = 1.
ClearHead(p) ==
  /\ proc[p].pc = "proposed"
  /\ persona' = [v \in DOMAIN persona |-> [persona[v] EXCEPT !.head = FALSE]]
  /\ proc' = [proc EXCEPT ![p].pc = "insert"]
  /\ UNCHANGED <<memory, queue, given>>

\* next_ordinal.
Ordinal(p) == proc[p].parent + 1

Row(p) == [content |-> Content(proc[p].corpus), parent |-> proc[p].parent,
           took |-> proc[p].took, head |-> TRUE]

\* PRIMARY KEY (ordinal), UNIQUE (content_hash).
Conflicts(p) ==
  \/ Ordinal(p) \in DOMAIN persona
  \/ \E v \in DOMAIN persona : persona[v].content = Row(p).content

\* AppendOnlyViolation propagates: the queue is not drained, and the head that
\* was cleared stays cleared.
InsertVersion(p) ==
  /\ proc[p].pc = "insert"
  /\ IF Conflicts(p)
     THEN Return(p) /\ UNCHANGED persona
     ELSE /\ persona' = Insert(persona, Ordinal(p), Row(p))
          /\ proc' = [proc EXCEPT ![p].pc = "drain"]
  /\ UNCHANGED <<memory, queue, given>>

\* DELETE FROM persona_delta: all of it, whatever was queued since the peek.
DrainDeltas(p) ==
  /\ proc[p].pc = "drain"
  /\ queue' = {}
  /\ Return(p)
  /\ UNCHANGED <<memory, given, persona>>

Next ==
  \E p \in Procs :
    \/ \E m \in Memories : PutMemory(p, m) \/ Shred(p, m)
    \/ \E d \in Corrections : QueueDelta(p, d)
    \/ ReadHead(p) \/ ReadCorpus(p) \/ PeekDeltas(p) \/ Decline(p)
    \/ ClearHead(p) \/ InsertVersion(p) \/ DrainDeltas(p)
    \/ Crash(p)

Spec == Init /\ [][Next]_vars

-----------------------------------------------------------------------------
\* Types.

MemoryRow == [shredded : BOOLEAN]

Ordinals == Nat \ {0}

VersionRow == [content : SUBSET Memories, parent : Nat,
               took : SUBSET Corrections, head : BOOLEAN]

ProcState ==
  [pc : {"idle", "corpus", "deltas", "proposed", "insert", "drain"},
   parent : Nat, corpus : SUBSET Memories, took : SUBSET Corrections]

\* The tables hold rows of the schema's shape and each process is at a step of
\* propose_persona or adopt_persona.
TypeOK ==
  /\ DOMAIN memory \subseteq Memories
  /\ \A m \in DOMAIN memory : memory[m] \in MemoryRow
  /\ queue \subseteq Corrections
  /\ given \subseteq Corrections
  /\ DOMAIN persona \subseteq Ordinals
  /\ \A v \in DOMAIN persona : persona[v] \in VersionRow
  /\ proc \in [Procs -> ProcState]

-----------------------------------------------------------------------------
\* What adopting promises.

\* persona_head takes LIMIT 1 of the rows flagged head and put_persona swaps
\* the flag in two statements: however the swaps of several processes
\* interleave, at most one version is ever flagged.
OneHead == \A v, w \in Heads : v = w

\* The version the ghost speaks from is the newest one: a slow adoption never
\* puts an older version back in front of a newer.
NewestLeads == \A v \in Heads : \A w \in DOMAIN persona : w <= v

\* Versions form one line: v1, v2, ... without a gap, each distilled from the
\* one before it, no two of the same content - a quest issued under v12 can
\* always be scored against v12, and the diff of neighbours is the history.
Lineage ==
  \A v \in DOMAIN persona :
    /\ 1..v \subseteq DOMAIN persona
    /\ persona[v].parent = v - 1
    /\ \A w \in DOMAIN persona : persona[w].content = persona[v].content => w = v

\* A delta applied twice would let one answer count twice: no correction is
\* handed to distillation for two versions that were both adopted.
TrainedOnce ==
  \A v, w \in DOMAIN persona : v # w => persona[v].took \cap persona[w].took = {}

\* A delta deleted without being applied would lose a correction: one that has
\* left the queue is in some adopted version.
NothingLost ==
  \A d \in given : d \in queue \/ \E v \in DOMAIN persona : d \in persona[v].took

\* Once a version was adopted there is a current persona whenever nobody is in
\* the middle of swapping it.
HeadSurvives ==
  (DOMAIN persona # {} /\ \A p \in Procs : proc[p].pc # "insert") => Heads # {}
=============================================================================
