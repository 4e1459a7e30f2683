-------------------------------- MODULE Feed --------------------------------
(***************************************************************************)
(* Reading a nostr feed into the corpus: sources::sync over the adapter of *)
(* ghostr-ingest/src/nostr.rs, with the cursor that says how far it got.   *)
(*                                                                         *)
(* One pull asks the relays for what they hold since the cursor, screens   *)
(* it, and keeps the oldest notes up to a batch.  The engine then stores   *)
(* them one statement at a time and writes the cursor last.  A command and *)
(* the server may pull the same feed at once, and either may die anywhere. *)
(*                                                                         *)
(* A relay is external.  Asked with a limit it answers with the newest     *)
(* events (NIP-01), and may add what it was not asked for; an unruly one   *)
(* answers with anything it holds.                                         *)
(*                                                                         *)
(* Abstractions.  A note is a number with the second it claims to be from; *)
(* the number is also its rank among the event ids of that second.  All    *)
(* relays are one, since fetch merges their answers.                       *)
(***************************************************************************)
EXTENDS Integers, FiniteSets

CONSTANTS Procs,     \* processes that have the vault open
          Notes,     \* events that can reach the relays
          At,        \* At[n]: created_at, in seconds
          Foreign,   \* of another author or kind, or with a bad signature
          Blank,     \* notes with no text, which do not parse
          Batch,     \* BATCH_NOTES
          Backlog,   \* bound: how many notes may wait to be read
          InOrder,   \* notes reach the relays in the order of their seconds
          Full,      \* relays answer with all they were asked for, and maybe more
          MayCrash   \* a process may die, or a statement fail, anywhere

ASSUME FeedAssumption ==
  /\ Notes \subseteq Nat /\ IsFiniteSet(Notes)
  /\ At \in [Notes -> Nat \ {0}]
  /\ Foreign \subseteq Notes /\ Blank \subseteq Notes
  /\ Batch \in Nat \ {0} /\ Backlog \in Nat
  /\ InOrder \in BOOLEAN /\ Full \in BOOLEAN /\ MayCrash \in BOOLEAN

VARIABLES posted,   \* the events the relays hold
          memory,   \* table memory, by raw_hash: note -> row
          cursor,   \* column cursor_json of the source
          proc      \* what each process is in the middle of

vars == <<posted, memory, cursor, proc>>

-----------------------------------------------------------------------------
Start == 0    \* SyncCursor::Start

Insert(table, key, row) ==
  [k \in DOMAIN table \cup {key} |-> IF k = key THEN row ELSE table[k]]

\* created_at, then id.
Before(m, n) == At[m] < At[n] \/ (At[m] = At[n] /\ m < n)

Oldest(S, k) == {n \in S : Cardinality({m \in S : Before(m, n)}) < k}
Newest(S, k) == {n \in S : Cardinality({m \in S : Before(n, m)}) < k}

Asked(since) == {n \in posted \ Foreign : At[n] >= since}

\* What a fetch with a limit of one past the batch can return.
Answers(since) ==
  IF Full THEN {Newest(Asked(since), Batch + 1) \cup extra : extra \in SUBSET (posted \ Asked(since))}
          ELSE SUBSET posted

\* Not ours, or from before the cursor, which sits on the newest note stored.
Screen(got, since) == {n \in got \ Foreign : At[n] >= since}

\* The notes of one pull that become memories.
Pulled(got, since) == Oldest(Screen(got, since), Batch) \ Blank

\* Slip: past the newest memory rather than on it.
CursorPast(page) ==
  IF page = {} THEN Start ELSE 1 + (CHOOSE t \in {At[n] : n \in page} : \A n \in page : At[n] <= t)

\* Slip: on the oldest memory, as sorted.
CursorFirst(page) ==
  IF page = {} THEN Start ELSE CHOOSE t \in {At[n] : n \in page} : \A n \in page : t <= At[n]

\* The cursor after a pull: on its newest memory.
CursorOf(page) ==
  IF page = {} THEN Start ELSE CHOOSE t \in {At[n] : n \in page} : \A n \in page : At[n] <= t

Readable == (posted \ Foreign) \ Blank
Missing == Readable \ DOMAIN memory

\* The events from the oldest that is not stored on.
Waiting == {m \in posted : \E u \in Missing : u = m \/ Before(u, m)}

\* seen is history: what the pull was offered.
Idle == [pc |-> "idle", since |-> Start, seen |-> {}, page |-> {}, todo |-> {}]

Init ==
  /\ posted = {}
  /\ memory = [n \in {} |-> {}]
  /\ cursor = Start
  /\ proc = [p \in Procs |-> Idle]

Return(p) == proc' = [proc EXCEPT ![p] = Idle]

-----------------------------------------------------------------------------
\* Somebody posts, or an old event reaches these relays at last.
Post(n) ==
  /\ n \notin posted
  /\ Cardinality(Waiting) < Backlog
  /\ InOrder => \A m \in posted : Before(m, n)
  /\ posted' = posted \cup {n}
  /\ UNCHANGED <<memory, cursor, proc>>

\* The user shreds a memory: the row and its raw_hash stay.
Shred(n) ==
  /\ n \in DOMAIN memory
  /\ ~memory[n].shredded
  /\ memory' = [memory EXCEPT ![n].shredded = TRUE]
  /\ UNCHANGED <<posted, cursor, proc>>

-----------------------------------------------------------------------------
\* all_sources reads the stored cursor.
BeginSync(p) ==
  /\ proc[p].pc = "idle"
  /\ proc' = [proc EXCEPT ![p].pc = "pull", ![p].since = cursor]
  /\ UNCHANGED <<posted, memory, cursor>>

Pulling(p, got) ==
  LET page == Pulled(got, proc[p].since) IN
  [pc |-> "check", since |-> proc[p].since, seen |-> Screen(got, proc[p].since) \ Blank,
   page |-> page, todo |-> page]

\* The adapter pulls from it.
Pull(p) ==
  /\ proc[p].pc = "pull"
  /\ \E got \in Answers(proc[p].since) : proc' = [proc EXCEPT ![p] = Pulling(p, got)]
  /\ UNCHANGED <<posted, memory, cursor>>

\* Batches are stored in the order they were sorted in.
Turn(p) == {n \in proc[p].todo : \A m \in proc[p].todo : m # n => Before(n, m)}

\* has_raw_hash: a note that is there is skipped, shredded or not.
CheckHash(p) ==
  /\ proc[p].pc = "check"
  /\ \E n \in Turn(p) :
       proc' = IF n \in DOMAIN memory
               THEN [proc EXCEPT ![p].todo = @ \ {n}]
               ELSE [proc EXCEPT ![p].pc = "put"]
  /\ UNCHANGED <<posted, memory, cursor>>

\* Slip: INSERT OR REPLACE.
PutMemoryOver(p) ==
  /\ proc[p].pc = "put"
  /\ \E n \in Turn(p) :
       /\ memory' = Insert(memory, n, [shredded |-> FALSE])
       /\ proc' = [proc EXCEPT ![p].pc = "check", ![p].todo = @ \ {n}]
  /\ UNCHANGED <<posted, cursor>>

\* put_memory: a note another process has stored since violates
\* UNIQUE(source_id, raw_hash) and is skipped as well.
PutMemory(p) ==
  /\ proc[p].pc = "put"
  /\ \E n \in Turn(p) :
       /\ memory' = IF n \in DOMAIN memory THEN memory
                    ELSE Insert(memory, n, [shredded |-> FALSE])
       /\ proc' = [proc EXCEPT ![p].pc = "check", ![p].todo = @ \ {n}]
  /\ UNCHANGED <<posted, cursor>>

\* set_source_cursor, when all of the page is stored.
SetCursor(p) ==
  /\ proc[p].pc = "check"
  /\ proc[p].todo = {}
  /\ cursor' = CursorOf(proc[p].page)
  /\ Return(p)
  /\ UNCHANGED <<posted, memory>>

Crash(p) ==
  /\ MayCrash
  /\ proc[p].pc # "idle"
  /\ Return(p)
  /\ UNCHANGED <<posted, memory, cursor>>

Next ==
  \/ \E n \in Notes : Post(n) \/ Shred(n)
  \/ \E p \in Procs :
       \/ BeginSync(p) \/ Pull(p) \/ CheckHash(p)
       \/ PutMemory(p) \/ SetCursor(p) \/ Crash(p)

Spec == Init /\ [][Next]_vars

-----------------------------------------------------------------------------
Runs == [pc : {"idle", "pull", "check", "put"}, since : Nat, seen : SUBSET Notes,
         page : SUBSET Notes, todo : SUBSET Notes]

\* Every table and process holds values of its type, and only notes that are
\* ours and parse are stored or about to be.
TypeOK ==
  /\ posted \subseteq Notes
  /\ DOMAIN memory \subseteq Readable
  /\ memory \in [DOMAIN memory -> [shredded : BOOLEAN]]
  /\ cursor \in Nat
  /\ proc \in [Procs -> Runs]
  /\ \A p \in Procs :
       /\ proc[p].todo \subseteq proc[p].page
       /\ proc[p].page \subseteq Readable
       /\ proc[p].pc = "put" => proc[p].todo # {}

\* "The cursor advances only over what was actually stored": it stands on a
\* note that is in the table, whoever wrote it and whatever died before.
CursorIsHeld == cursor = Start \/ \E n \in DOMAIN memory : At[n] = cursor

\* "... loses work rather than skipping a span": what the cursor has passed is
\* in the table, although two processes move it back and forth.
NothingSkipped == \A n \in Readable : At[n] < cursor => n \in DOMAIN memory

\* A shred is final: no later pull, nor one that was under way, brings the
\* note back or makes it a new memory.
ShreddedForGood ==
  [][\A n \in DOMAIN memory :
       /\ n \in DOMAIN memory'
       /\ memory[n].shredded => memory'[n].shredded]_vars

\* A pull that has run to its end gets somewhere: the cursor it writes is past
\* the one it read, unless everything the relays offered it is stored.
PullAdvances ==
  \A p \in Procs :
    proc[p].pc = "check" /\ proc[p].todo = {} /\ ~(proc[p].seen \subseteq DOMAIN memory) =>
      CursorOf(proc[p].page) > proc[p].since

-----------------------------------------------------------------------------
\* Violated: "an_empty_pull_does_not_move_the_cursor" (a test of the adapter) -
\* the engine discards the adapter's cursor and computes its own.
EmptyPullKeepsCursor ==
  [][\A p \in Procs :
       proc[p].pc = "check" /\ proc'[p].pc = "idle" /\ proc[p].page = {} =>
         cursor' = cursor \/ cursor' = proc[p].since]_vars
=============================================================================
